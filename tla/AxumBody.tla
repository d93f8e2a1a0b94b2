------------------------------ MODULE AxumBody ------------------------------
(***************************************************************************)
(* A streamed axum response on its way to the edge: the handler's body      *)
(* yields chunks, AxumBodyReader (origin/axum/mod.rs) serves them to the    *)
(* copy loop that writes the response (handle_quic_http in edge/serve.rs    *)
(* and write_h2_response in edge/h2/streams.rs).  A byte is its number in   *)
(* the body.                                                                *)
(***************************************************************************)
EXTENDS ChunkReader

CONSTANTS
  BodyLength,  \* bound: bytes in the body
  MaxChunk,    \* bound: bytes in a chunk
  MaxQueue,    \* bound: chunks yielded and not fetched
  Buffer       \* bytes the copy loop reads at once

VARIABLES
  produced,  \* bytes the handler has yielded
  queue,     \* chunks not fetched yet
  reader,    \* AxumBodyReader
  sent       \* bytes of the response body written to the edge

vars == <<produced, queue, reader, sent>>

Bytes(first, last) == [i \in 1 .. last - first + 1 |-> first + i - 1]

Init ==
  /\ produced = 0
  /\ queue = <<>>
  /\ reader = NewReader
  /\ sent = <<>>

HandlerYields ==
  \E size \in 0 .. MaxChunk :
    /\ Len(queue) < MaxQueue
    /\ produced + size <= BodyLength
    /\ queue' = Append(queue, Bytes(produced + 1, produced + size))
    /\ produced' = produced + size
    /\ UNCHANGED <<reader, sent>>

\* One turn of the loop in poll_read.
ReaderFetches ==
  /\ ~reader.held
  /\ ~reader.eof
  /\ \/ /\ queue # <<>>
        /\ reader' = Fetch(reader, Head(queue))
        /\ queue' = Tail(queue)
     \/ /\ queue = <<>>
        /\ produced = BodyLength
        /\ reader' = End(reader)
        /\ UNCHANGED queue
  /\ UNCHANGED <<produced, sent>>

ReaderSkips ==
  /\ reader.held
  /\ ~HasBytes(reader)
  /\ reader' = DropChunk(reader)
  /\ UNCHANGED <<produced, queue, sent>>

\* poll_read returns bytes and the copy loop writes them.
CopyBytes ==
  /\ HasBytes(reader)
  /\ LET n == CopyLength(reader, Buffer) IN
       /\ sent' = sent \o Copied(reader, n)
       /\ reader' = AfterAxumCopy(reader, n)
  /\ UNCHANGED <<produced, queue>>

Next == HandlerYields \/ ReaderFetches \/ ReaderSkips \/ CopyBytes

Spec == Init /\ [][Next]_vars

(* "Reads an axum response body stream as a libcfd [`Body`]"                *)
(* (origin/axum/mod.rs:132): what the edge gets is what the handler wrote,  *)
(* from the start and without a gap.                                        *)
BodyUnaltered == \A i \in DOMAIN sent : sent[i] = i
=============================================================================
