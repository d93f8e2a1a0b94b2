-------------------------------- MODULE Pump --------------------------------
(***************************************************************************)
(* pump (origin/pump.rs) between the body of an HTTP/2 stream, read through *)
(* ReceiveStreamReader (edge/h2/stream.rs), and an origin stream.  One task *)
(* reads both sides in a select! and writes what it read before it selects  *)
(* again, so it reads neither side while a write waits.  Bytes are numbered *)
(* from the start of their direction.                                       *)
(***************************************************************************)
EXTENDS ChunkReader

CONSTANTS
  EdgeLength,    \* bound: bytes the edge sends
  OriginLength,  \* bound: bytes the origin sends
  MaxChunk,      \* bound: bytes in a DATA frame
  MaxEmpty,      \* bound: DATA frames without a byte
  Window,        \* flow control: bytes the edge may have unreleased
  Pipe,          \* bytes a pipe to or from the origin, or to the edge, holds
  Buffer         \* bytes the pump reads at once

ASSUME SizesAssumption ==
  /\ {EdgeLength, OriginLength, MaxEmpty} \subseteq Nat
  /\ {MaxChunk, Window, Pipe, Buffer} \subseteq Nat \ {0}
  /\ MaxChunk <= Window

VARIABLES
  edgeSent, edgeFin,      \* the edge: bytes sent, and END_STREAM
  edgeEmpty,              \* empty DATA frames sent
  frames, unreleased,     \* DATA frames not fetched; capacity not released
  reader,                 \* ReceiveStreamReader
  pump,                   \* select, write to a side, or over
  pending,                \* bytes read and not yet written
  edgeDone, originDone,   \* the flags of pump
  toOrigin, originEof,    \* pipe to the origin; its write side was closed
  originGot, originSent,  \* bytes the origin received; bytes it sent
  fromOrigin, originFin,  \* pipe from the origin; the origin ended it
  toEdge, edgeEof,        \* response body; its end was sent
  edgeGot,                \* bytes the edge received
  broken                  \* sides that fail reads and writes

edge == <<edgeSent, edgeFin, edgeEmpty, edgeGot>>
origin == <<originGot, originSent, originFin>>
vars == <<edge, frames, unreleased, reader, pump, pending, edgeDone, originDone,
          toOrigin, originEof, origin, fromOrigin, toEdge, edgeEof, broken>>

Bytes(first, last) == [i \in 1 .. last - first + 1 |-> first + i - 1]

TypeOK ==
  /\ edgeSent \in 0 .. EdgeLength
  /\ edgeFin \in BOOLEAN
  /\ edgeEmpty \in 0 .. MaxEmpty
  /\ frames \in Seq(Seq(1 .. EdgeLength))
  /\ unreleased \in 0 .. Window
  /\ pump \in {"select", "toOrigin", "toEdge", "over"}
  /\ Len(pending) <= Buffer
  /\ pending = <<>> <=> pump \in {"select", "over"}
  /\ reader.position <= Len(reader.chunk)
  /\ {edgeDone, originDone, originEof, originFin, edgeEof} \subseteq BOOLEAN
  /\ \A p \in {toOrigin, fromOrigin, toEdge} : Len(p) <= Pipe
  /\ originGot \in 0 .. EdgeLength
  /\ originSent \in 0 .. OriginLength
  /\ edgeGot \in Seq(Nat)
  /\ broken \subseteq {"edge", "origin"}

Init ==
  /\ edgeSent = 0 /\ edgeFin = FALSE /\ edgeEmpty = 0 /\ edgeGot = <<>>
  /\ frames = <<>> /\ unreleased = 0 /\ reader = NewReader
  /\ pump = "select" /\ pending = <<>>
  /\ edgeDone = FALSE /\ originDone = FALSE
  /\ toOrigin = <<>> /\ originEof = FALSE
  /\ originGot = 0 /\ originSent = 0 /\ originFin = FALSE
  /\ fromOrigin = <<>>
  /\ toEdge = <<>> /\ edgeEof = FALSE
  /\ broken = {}

-----------------------------------------------------------------------------
(* The edge and the origin.                                                 *)

EdgeSends ==
  /\ ~edgeFin
  /\ \/ \E size \in 1 .. MaxChunk :
          /\ edgeSent + size <= EdgeLength
          /\ unreleased + size <= Window
          /\ edgeSent' = edgeSent + size
          /\ unreleased' = unreleased + size
          /\ frames' = Append(frames, Bytes(edgeSent + 1, edgeSent + size))
          /\ UNCHANGED <<edgeFin, edgeEmpty>>
     \/ /\ edgeEmpty < MaxEmpty
        /\ edgeEmpty' = edgeEmpty + 1
        /\ frames' = Append(frames, <<>>)
        /\ UNCHANGED <<edgeSent, edgeFin, unreleased>>
     \/ /\ edgeSent = EdgeLength
        /\ edgeFin' = TRUE
        /\ UNCHANGED <<edgeSent, edgeEmpty, unreleased, frames>>
  /\ UNCHANGED <<edgeGot, reader, pump, pending, edgeDone, originDone, toOrigin,
                 originEof, origin, fromOrigin, toEdge, edgeEof, broken>>

EdgeReceives ==
  /\ toEdge # <<>>
  /\ edgeGot' = Append(edgeGot, Head(toEdge))
  /\ toEdge' = Tail(toEdge)
  /\ UNCHANGED <<edgeSent, edgeFin, edgeEmpty, frames, unreleased, reader, pump, pending,
                 edgeDone, originDone, toOrigin, originEof, origin, fromOrigin,
                 edgeEof, broken>>

OriginReceives ==
  /\ toOrigin # <<>>
  /\ originGot' = originGot + 1
  /\ toOrigin' = Tail(toOrigin)
  /\ UNCHANGED <<edge, frames, unreleased, reader, pump, pending, edgeDone,
                 originDone, originEof, originSent, originFin, fromOrigin,
                 toEdge, edgeEof, broken>>

OriginSends ==
  /\ ~originFin
  /\ \/ /\ originSent < OriginLength
        /\ Len(fromOrigin) < Pipe
        /\ originSent' = originSent + 1
        /\ fromOrigin' = Append(fromOrigin, originSent + 1)
        /\ UNCHANGED originFin
     \/ /\ originSent = OriginLength
        /\ originFin' = TRUE
        /\ UNCHANGED <<originSent, fromOrigin>>
  /\ UNCHANGED <<edge, frames, unreleased, reader, pump, pending, edgeDone,
                 originDone, toOrigin, originEof, originGot, toEdge, edgeEof, broken>>

Breaks(side) ==
  /\ side \notin broken
  /\ broken' = broken \cup {side}
  /\ UNCHANGED <<edge, frames, unreleased, reader, pump, pending, edgeDone,
                 originDone, toOrigin, originEof, origin, fromOrigin, toEdge, edgeEof>>

-----------------------------------------------------------------------------
(* ReceiveStreamReader::poll_read, polled by the first arm.                 *)

ReaderFetches ==
  /\ pump = "select" /\ ~edgeDone
  /\ ~reader.held /\ ~reader.eof
  /\ \/ /\ frames # <<>>
        /\ reader' = Fetch(reader, Head(frames))
        /\ frames' = Tail(frames)
     \/ /\ frames = <<>> /\ edgeFin
        /\ "edge" \notin broken
        /\ reader' = End(reader)
        /\ UNCHANGED frames
  /\ UNCHANGED <<edge, unreleased, pump, pending, edgeDone, originDone, toOrigin,
                 originEof, origin, fromOrigin, toEdge, edgeEof, broken>>

ReaderSkips ==
  /\ pump = "select" /\ ~edgeDone
  /\ reader.held /\ ~HasBytes(reader)
  /\ reader' = DropChunk(reader)
  /\ UNCHANGED <<edge, frames, unreleased, pump, pending, edgeDone, originDone,
                 toOrigin, originEof, origin, fromOrigin, toEdge, edgeEof, broken>>

\* Variant: the window is opened when the stream ends.
ReleasedNever(n) == 0

\* release_capacity, once the whole chunk was copied out.
Released(n) == IF Exhausted(reader, n) THEN Len(reader.chunk) ELSE 0

\* The edge arm read bytes: write_all to the origin starts.
ReadEdge ==
  /\ pump = "select" /\ ~edgeDone
  /\ HasBytes(reader)
  /\ LET n == CopyLength(reader, Buffer) IN
       /\ pending' = Copied(reader, n)
       /\ unreleased' = unreleased - Released(n)
       /\ reader' = AfterCopy(reader, n)
  /\ pump' = "toOrigin"
  /\ UNCHANGED <<edge, frames, edgeDone, originDone, toOrigin, originEof, origin,
                 fromOrigin, toEdge, edgeEof, broken>>

\* Variant: a failed read is handled like the end of the stream.
ClosesOriginOnError == reader.eof \/ "edge" \in broken

\* The edge arm's Ok(0) closes the origin's write side, its Err does not.
ClosesOrigin == reader.eof

EdgeReadEnds ==
  /\ pump = "select" /\ ~edgeDone
  /\ \/ reader.eof
     \/ "edge" \in broken /\ ~reader.held
  /\ edgeDone' = TRUE
  /\ originEof' = ClosesOrigin
  /\ UNCHANGED <<edge, frames, unreleased, reader, pump, pending, originDone,
                 toOrigin, origin, fromOrigin, toEdge, edgeEof, broken>>

-----------------------------------------------------------------------------
(* SendStreamWriter, the edge's side of the writes.                         *)

\* send_data, once the stream has capacity.
SendByte(b) ==
  /\ "edge" \notin broken
  /\ Len(toEdge) < Pipe
  /\ toEdge' = Append(toEdge, b)

\* poll_capacity or send_data reports that the stream is gone.
SendFails == "edge" \in broken

\* poll_close.  An error of send_data is dropped.
SendEnd == edgeEof' = TRUE

\* The origin arm.
ReadOrigin ==
  /\ pump = "select" /\ ~originDone
  /\ fromOrigin # <<>>
  /\ "origin" \notin broken
  /\ LET n == IF Len(fromOrigin) < Buffer THEN Len(fromOrigin) ELSE Buffer IN
       /\ pending' = SubSeq(fromOrigin, 1, n)
       /\ fromOrigin' = SubSeq(fromOrigin, n + 1, Len(fromOrigin))
  /\ pump' = "toEdge"
  /\ UNCHANGED <<edge, frames, unreleased, reader, edgeDone, originDone, toOrigin,
                 originEof, origin, toEdge, edgeEof, broken>>

OriginReadEnds ==
  /\ pump = "select" /\ ~originDone
  /\ \/ "origin" \in broken /\ UNCHANGED edgeEof
     \/ /\ "origin" \notin broken
        /\ fromOrigin = <<>> /\ originFin
        /\ SendEnd
  /\ originDone' = TRUE
  /\ UNCHANGED <<edge, frames, unreleased, reader, pump, pending, edgeDone,
                 toOrigin, originEof, origin, fromOrigin, toEdge, broken>>

\* write_all moves a byte into the pipe when there is room.
Written == pending' = Tail(pending) /\ pump' = IF Len(pending) = 1 THEN "select" ELSE pump

WriteOrigin ==
  /\ pump = "toOrigin"
  /\ \/ /\ "origin" \notin broken
        /\ Len(toOrigin) < Pipe
        /\ toOrigin' = Append(toOrigin, Head(pending))
        /\ Written
        /\ UNCHANGED edgeDone
     \/ /\ "origin" \in broken
        /\ edgeDone' = TRUE
        /\ pump' = "select" /\ pending' = <<>>
        /\ UNCHANGED toOrigin
  /\ UNCHANGED <<edge, frames, unreleased, reader, originDone, originEof, origin,
                 fromOrigin, toEdge, edgeEof, broken>>

WriteEdge ==
  /\ pump = "toEdge"
  /\ \/ /\ SendByte(Head(pending))
        /\ Written
        /\ UNCHANGED originDone
     \/ /\ SendFails
        /\ originDone' = TRUE
        /\ pump' = "select" /\ pending' = <<>>
        /\ UNCHANGED toEdge
  /\ UNCHANGED <<edge, frames, unreleased, reader, edgeDone, toOrigin, originEof,
                 origin, fromOrigin, edgeEof, broken>>

\* Variant: the end of one direction ends the pump.
BothDoneEither == edgeDone \/ originDone

BothDone == edgeDone /\ originDone

Finish ==
  /\ pump = "select"
  /\ BothDone
  /\ pump' = "over"
  /\ UNCHANGED <<edge, frames, unreleased, reader, pending, edgeDone, originDone,
                 toOrigin, originEof, origin, fromOrigin, toEdge, edgeEof, broken>>

-----------------------------------------------------------------------------
Pumps ==
  \/ ReaderFetches \/ ReaderSkips \/ ReadEdge \/ EdgeReadEnds
  \/ ReadOrigin \/ OriginReadEnds
  \/ WriteOrigin \/ WriteEdge
  \/ Finish

Next ==
  \/ EdgeSends \/ EdgeReceives
  \/ OriginReceives \/ OriginSends
  \/ \E side \in {"edge", "origin"} : Breaks(side)
  \/ Pumps

Spec == Init /\ [][Next]_vars

\* The pump's task runs; the edge and the origin send all they have, end, and
\* go on reading meanwhile.
FairSpec ==
  /\ Spec
  /\ WF_vars(Pumps)
  /\ WF_vars(EdgeSends) /\ WF_vars(EdgeReceives)
  /\ WF_vars(OriginReceives) /\ WF_vars(OriginSends)

-----------------------------------------------------------------------------
(* The state is typed, and both directions deliver the bytes of their       *)
(* source, in order, without a gap or a repetition, across chunks of any    *)
(* size and reads of any buffer (poll_read, write_all).                     *)
InOrder ==
  /\ TypeOK
  /\ \A i \in DOMAIN toOrigin : toOrigin[i] = originGot + i
  /\ edgeGot \o toEdge = Bytes(1, Len(edgeGot) + Len(toEdge))

(* A side is told that the other ended only after every byte of it was      *)
(* handed on: a transfer that broke off never looks complete (Ok(0) and     *)
(* Err in both arms).                                                       *)
EndMeansComplete ==
  /\ originEof => edgeFin /\ originGot + Len(toOrigin) = edgeSent
  /\ edgeEof => originFin /\ Len(edgeGot) + Len(toEdge) = originSent

(* The pump outlives the direction that ends first: it returns only when    *)
(* each direction handed on everything or met a broken side.                *)
HalfCloseKeepsPumping ==
  pump = "over" /\ broken = {} => originEof /\ edgeEof

(* "Pumps bytes in both directions between an origin stream and the edge    *)
(* stream until both directions reach the end", "the other direction keeps  *)
(* pumping until it ends as well" (pump.rs:8-13).                           *)
PumpEnds == <>(pump = "over")
=============================================================================
