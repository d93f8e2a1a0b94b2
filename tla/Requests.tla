------------------------------ MODULE Requests ------------------------------
(***************************************************************************)
(* The life of one request of the edge: its stream, the task that serves   *)
(* it, the handler of the origin with its responder, and what the edge is  *)
(* told.  Over QUIC these are the handlers of edge/serve.rs on a stream of *)
(* either backend, over HTTP/2 those of edge/h2/streams.rs.                *)
(*                                                                         *)
(* A stream handle is shared by clones.  quinn's poll_read takes the       *)
(* receive half out of the handle and puts it back, in two steps that a    *)
(* clone polled on another thread may come between; quiche polls under a   *)
(* lock, and over HTTP/2 the request body has one reader only.             *)
(*                                                                         *)
(* The upload is counted in segments after the preamble, the response in   *)
(* chunks after its head.                                                  *)
(***************************************************************************)
EXTENDS Integers, Sequences, HttpMessages

CONSTANTS
  MaxUpload,  \* bound: segments the edge sends
  MaxChunks,  \* bound: chunks the origin's response or stream has
  Buffer      \* items of the response the library buffers

ASSUME RequestsAssumption ==
  /\ {MaxUpload, MaxChunks} \subseteq Nat
  /\ Buffer \in Nat \ {0}

VARIABLES
  transport,   \* the backend the stream belongs to
  kind,        \* what the edge asks for
  connection,  \* whether the connection lives
  upload,      \* the edge's half: segments sent, and how it ended
  receive,     \* our end of it: segments read by anyone, and stop_read
  inside,      \* the reader that has quinn's receive half in hand
  parked,      \* readers whose poll of a quinn stream was Pending
  waker,       \* the one of them quinn will wake: one slot per stream
  task,        \* where the request task is
  responder,   \* the oneshot of the handler
  handler,     \* the request body: who holds it, what was read, what was told
  source,      \* the response body, or the origin stream's way to the edge
  pumping,     \* directions of the pump that are not done
  drain,       \* the task of drain_unread
  send,        \* the write side of the stream; "none" on a unidirectional one
  out,         \* the response as it waits to be sent
  edge         \* what the edge has received

request == <<transport, kind>>
asleep == <<parked, waker>>
polls == <<inside, asleep>>
vars == <<request, connection, upload, receive, polls, task, responder, handler,
          source, pumping, drain, send, out, edge>>

Readers == {"handler", "drain"}
Items == {"head", "error", "chunk", "fin", "reset"}

TypeOK ==
  /\ transport \in {"quinn", "quiche", "h2"}
  /\ kind \in {"http", "websocket", "tcp"}
  /\ connection \in {"up", "lost"}
  /\ upload \in [sent : 0 .. MaxUpload, end : {"open", "fin", "reset"}]
  /\ receive \in [read : 0 .. MaxUpload, stopped : BOOLEAN]
  /\ receive.read <= upload.sent
  /\ \A readers \in {inside, parked, waker} : readers \subseteq Readers
  /\ task \in {"preamble", "dispatch", "waiting", "failing", "failed",
               "head", "copying", "pumping", "over"}
  /\ responder \in {"none", "held", "answered", "failed", "dropped"}
  /\ handler \in [body : {"none", "held", "gone"}, got : 0 .. MaxUpload,
                  told : {"nothing", "end", "error"}]
  /\ source \in [state : {"none", "open", "ended", "failed"},
                 made : 0 .. MaxChunks, sized : BOOLEAN]
  /\ pumping \subseteq {"edge", "origin"}
  /\ drain \in {"off", "reading", "over"}
  /\ send \in {"open", "closed", "none"}
  /\ out \in Seq(Items)
  /\ edge \in [head : {"none", "head", "error"}, chunks : 0 .. MaxChunks,
               end : {"open", "fin", "reset", "abandoned"}]

Init ==
  /\ transport \in {"quinn", "quiche", "h2"}
  /\ kind \in {"http", "websocket", "tcp"}
  /\ connection = "up"
  /\ upload = [sent |-> 0, end |-> "open"]
  /\ receive = [read |-> 0, stopped |-> FALSE]
  /\ inside = {} /\ parked = {} /\ waker = {}
  /\ task = IF transport = "h2" THEN "dispatch" ELSE "preamble"
  /\ responder = "none"
  /\ handler = [body |-> "none", got |-> 0, told |-> "nothing"]
  /\ source = [state |-> "none", made |-> 0, sized |-> FALSE]
  /\ pumping = {}
  /\ drain = "off"
  /\ send \in IF transport = "quinn" THEN {"open", "none"} ELSE {"open"}
  /\ out = <<>>
  /\ edge = [head |-> "none", chunks |-> 0, end |-> "open"]

-----------------------------------------------------------------------------
(* The edge.                                                                *)

\* Data, an end or an error on a quinn stream wakes the reader in the slot.
Wakes ==
  /\ parked' = parked \ waker
  /\ waker' = {}
  /\ UNCHANGED inside

EdgeUploads ==
  /\ connection = "up"
  /\ upload.end = "open"
  /\ \/ /\ upload.sent < MaxUpload
        /\ upload' = [upload EXCEPT !.sent = @ + 1]
     \/ upload' = [upload EXCEPT !.end = "fin"]
  /\ Wakes
  /\ UNCHANGED <<request, connection, receive, task, responder, handler,
                 source, pumping, drain, send, out, edge>>

Received(item) ==
  CASE item \in {"head", "error"} -> [edge EXCEPT !.head = item]
    [] item = "chunk" -> [edge EXCEPT !.chunks = @ + 1]
    [] OTHER -> [edge EXCEPT !.end = item]

EdgeReceives ==
  /\ connection = "up"
  /\ out # <<>>
  /\ edge' = Received(Head(out))
  /\ out' = Tail(out)
  /\ UNCHANGED <<request, connection, upload, receive, polls, task, responder,
                 handler, source, pumping, drain, send>>

\* The edge gives the request up: it resets its half and stops ours.
EdgeAbandons ==
  /\ connection = "up"
  /\ edge.end = "open"
  /\ edge' = [edge EXCEPT !.end = "abandoned"]
  /\ upload' = [upload EXCEPT !.end = IF @ = "open" THEN "reset" ELSE @]
  /\ out' = <<>>
  /\ Wakes
  /\ UNCHANGED <<request, connection, receive, task, responder, handler,
                 source, pumping, drain, send>>

ConnectionLost ==
  /\ connection = "up"
  /\ connection' = "lost"
  /\ out' = <<>>
  /\ Wakes
  /\ UNCHANGED <<request, upload, receive, task, responder, handler,
                 source, pumping, drain, send, edge>>

-----------------------------------------------------------------------------
(* The write side.                                                          *)

\* poll_write fails; on a unidirectional stream it always does.
WriteFails == connection = "lost" \/ edge.end # "open" \/ send # "open"

\* poll_write has room.
Room == ~WriteFails /\ Len(out) < Buffer

\* What is left of the response once nobody can take it.
Sendable(items) == IF connection = "up" /\ edge.end = "open" THEN items ELSE <<>>

\* finish: the end follows what was written.
Finish ==
  IF send = "open"
    THEN [send |-> "closed", out |-> Sendable(Append(out, "fin"))]
    ELSE [send |-> send, out |-> out]

\* Variant: the write side is left as it is.
CancelNothing == [send |-> send, out |-> out]

\* cancel_write: a reset drops what the library has not sent yet.
Cancel ==
  IF send = "open"
    THEN [send |-> "closed", out |-> Sendable(<<"reset">>)]
    ELSE [send |-> send, out |-> out]

(***************************************************************************)
(* The handles: the request task's, the drain's, and the request body's.   *)
(* The library acts when the last one is dropped: quinn ends both halves   *)
(* as if by finish and stop_read, h2 resets an unfinished stream behind    *)
(* what was written, quiche does nothing.                                  *)
(***************************************************************************)
Orphaned == task' = "over" /\ handler'.body # "held" /\ drain' # "reading"

Ending == IF transport = "quinn" THEN "fin" ELSE "reset"

Dropped(sending, items, stopping) ==
  IF Orphaned /\ transport # "quiche"
    THEN /\ send' = IF sending = "open" THEN "closed" ELSE sending
         /\ out' = IF sending = "open" THEN Sendable(Append(items, Ending)) ELSE items
         /\ receive' = [receive EXCEPT !.stopped = TRUE]
    ELSE /\ send' = sending
         /\ out' = items
         /\ receive' = [receive EXCEPT !.stopped = stopping]

\* The handles are dropped in a step that has not touched the stream.
Drops == Dropped(send, out, receive.stopped)

-----------------------------------------------------------------------------
(* Reading the upload.                                                      *)

\* The library has data to read; over QUIC a reset takes it back.
More ==
  /\ upload.sent > receive.read
  /\ ~receive.stopped
  /\ transport = "h2" \/ upload.end # "reset"
  /\ transport = "quiche" => connection = "up"

\* A quinn stream that was stopped reads as ended.
AtEnd ==
  IF receive.stopped
    THEN transport = "quinn"
    ELSE /\ ~More
         /\ upload.end = "fin"
         /\ transport = "quiche" => connection = "up"

ReadFails == ~More /\ ~AtEnd /\ (connection = "lost" \/ upload.end = "reset")

Reading(r) ==
  CASE r = "handler" -> handler.body = "held" /\ handler.told = "nothing"
    [] r = "drain" -> drain = "reading"

\* poll_read of quinn: the receive half is taken out under the lock.
Take(r) ==
  /\ transport = "quinn"
  /\ Reading(r)
  /\ r \notin parked
  /\ inside = {}
  /\ inside' = {r}
  /\ UNCHANGED <<asleep, request, connection, upload, receive, task, responder,
                 handler, source, pumping, drain, send, out, edge>>

\* The handle is in hand, or locked, or the reader's own.
InHand(r) == IF transport = "quinn" THEN inside = {r} ELSE Reading(r)

\* The poll returns data, and the receive half is back.
Yields(r) ==
  /\ InHand(r)
  /\ More
  /\ inside' = {}
  /\ receive' = [receive EXCEPT !.read = @ + 1]
  /\ handler' = IF r = "handler" THEN [handler EXCEPT !.got = @ + 1] ELSE handler
  /\ UNCHANGED <<asleep, request, connection, upload, task, responder, source,
                 pumping, drain, send, out, edge>>

\* The poll returns Pending: the receive half is back, the waker in the slot.
Pends(r) ==
  /\ transport = "quinn"
  /\ inside = {r}
  /\ ~More /\ ~AtEnd /\ ~ReadFails
  /\ inside' = {}
  /\ parked' = parked \cup {r}
  /\ waker' = {r}
  /\ UNCHANGED <<request, connection, upload, receive, task, responder, handler,
                 source, pumping, drain, send, out, edge>>

\* poll_read of quinn found no receive half and says Ok(0).
Misses(r) ==
  transport = "quinn" /\ Reading(r) /\ r \notin parked /\ inside \notin {{}, {r}}

\* What a read of the request body tells the handler.
Tells(what) ==
  \/ what = "end" /\ InHand("handler") /\ AtEnd /\ inside' = {}
  \/ what = "end" /\ Misses("handler") /\ UNCHANGED inside
  \/ what = "error" /\ InHand("handler") /\ ReadFails /\ inside' = {}

HandlerTold ==
  /\ \E what \in {"end", "error"} :
       Tells(what) /\ handler' = [handler EXCEPT !.told = what]
  /\ UNCHANGED <<asleep, request, connection, upload, receive, task, responder,
                 source, pumping, drain, send, out, edge>>

-----------------------------------------------------------------------------
(* The origin's handler and its responder.                                  *)

\* Responds with `send`, `upgrade` or `stream`; sized: a body known to be empty.
Answers(sized) ==
  /\ responder = "held"
  /\ sized => kind = "http"
  /\ responder' = "answered"
  /\ source' = [state |-> IF sized THEN "ended" ELSE "open", made |-> 0, sized |-> sized]
  /\ UNCHANGED <<request, connection, upload, receive, polls, task, handler,
                 pumping, drain, send, out, edge>>

\* Responds with `fail`, or drops the responder.
Declines ==
  /\ responder = "held"
  /\ responder' \in {"failed", "dropped"}
  /\ UNCHANGED <<request, connection, upload, receive, polls, task, handler,
                 source, pumping, drain, send, out, edge>>

\* The handler drops the request body, perhaps long after it responded.
HandlerLetsGo ==
  /\ handler.body = "held"
  /\ "handler" \notin inside
  /\ handler' = [handler EXCEPT !.body = "gone"]
  /\ parked' = parked \ {"handler"}
  /\ UNCHANGED <<task, drain>>
  /\ Drops
  /\ UNCHANGED <<request, connection, upload, inside, waker, responder, source, pumping, edge>>

\* The response body, or the origin stream, ends or fails.
SourceEnds ==
  /\ source.state = "open"
  /\ \E how \in {"ended", "failed"} : source' = [source EXCEPT !.state = how]
  /\ UNCHANGED <<request, connection, upload, receive, polls, task, responder,
                 handler, pumping, drain, send, out, edge>>

-----------------------------------------------------------------------------
(* The request task.                                                        *)

\* The task goes on to another await, and lets go of nothing.
Goes(to) == task' = to /\ UNCHANGED <<handler, drain>>

\* The task is over, and its handles with it.
Leaves == Goes("over") /\ Drops

Rest == <<request, connection, upload, polls, edge>>

\* serve_stream: signature, version and ConnectRequest, or an error.
ReadPreamble ==
  /\ task = "preamble"
  /\ \/ connection = "up" /\ Goes("dispatch") /\ UNCHANGED <<receive, send, out>>
     \/ Leaves
  /\ UNCHANGED <<Rest, responder, source, pumping>>

\* An invalid destination ends the request before the handler is called.
Refused ==
  /\ task = "dispatch"
  /\ transport # "h2"
  /\ kind # "tcp"
  /\ Leaves
  /\ UNCHANGED <<Rest, responder, source, pumping>>

HandlerMissing ==
  /\ task = "dispatch"
  /\ kind # "http"
  /\ Goes("failing")
  /\ UNCHANGED <<Rest, receive, send, out, responder, source, pumping>>

\* Variant: the drain is spawned before the handler has answered.
CallHandlerDraining ==
  /\ task = "dispatch"
  /\ task' = "waiting"
  /\ responder' = "held"
  /\ handler' = [handler EXCEPT !.body = IF kind = "http" THEN "held" ELSE "none"]
  /\ drain' = IF kind = "http" THEN "reading" ELSE drain
  /\ UNCHANGED <<Rest, receive, send, out, source, pumping>>

\* Only an HTTP request carries the body; the others are pumped.
CallHandler ==
  /\ task = "dispatch"
  /\ task' = "waiting"
  /\ responder' = "held"
  /\ handler' = [handler EXCEPT !.body = IF kind = "http" THEN "held" ELSE "none"]
  /\ UNCHANGED <<Rest, receive, send, out, source, pumping, drain>>

\* Variant: a responder that was dropped is waited for.
TakeOutcomeSent ==
  /\ task = "waiting"
  /\ responder \in {"answered", "failed"}
  /\ Goes(IF responder = "answered" THEN "head" ELSE "failing")
  /\ UNCHANGED <<Rest, receive, send, out, responder, source, pumping>>

\* wait_outcome: a dropped responder is a failure too.
TakeOutcome ==
  /\ task = "waiting"
  /\ responder \in {"answered", "failed", "dropped"}
  /\ Goes(IF responder = "answered" THEN "head" ELSE "failing")
  /\ UNCHANGED <<Rest, receive, send, out, responder, source, pumping>>

\* write_stream_error and write_h2_error, up to the end of the message.
WriteError ==
  /\ task = "failing"
  /\ \/ /\ Room
        /\ Goes("failed")
        /\ out' = Append(out, "error")
        /\ UNCHANGED <<send, receive>>
     \/ WriteFails /\ Leaves
  /\ UNCHANGED <<Rest, responder, source, pumping>>

\* The task is over after cancel_write.
LeavesCancelled == Goes("over") /\ Dropped(Cancel.send, Cancel.out, receive.stopped)

\* The writer of an HTTP/2 stream is closed, which needs no room.
LeavesClosed ==
  IF WriteFails
    THEN Leaves
    ELSE Goes("over") /\ Dropped("closed", Append(out, "fin"), receive.stopped)

\* write_stream_error resets the write side, which the 502 may still be in;
\* write_h2_error closes it.
EndError ==
  /\ task = "failed"
  /\ IF transport = "h2" THEN LeavesClosed ELSE LeavesCancelled
  /\ UNCHANGED <<Rest, responder, source, pumping>>

\* The response head, with the end in it for an empty HTTP/2 body.
WriteHead ==
  /\ task = "head"
  /\ \/ /\ Room
        /\ ~(transport = "h2" /\ source.sized)
        /\ Goes(IF kind = "http" THEN "copying" ELSE "pumping")
        /\ pumping' = IF kind = "http" THEN {} ELSE {"edge", "origin"}
        /\ out' = Append(out, "head")
        /\ UNCHANGED <<send, receive>>
     \/ /\ ~WriteFails
        /\ transport = "h2" /\ source.sized
        /\ Goes("over")
        /\ Dropped("closed", out \o <<"head", "fin">>, receive.stopped)
        /\ UNCHANGED pumping
     \/ /\ WriteFails
        /\ IF kind = "http" /\ transport # "h2" THEN LeavesCancelled ELSE Leaves
        /\ UNCHANGED pumping
  /\ UNCHANGED <<Rest, responder, source>>

\* A chunk of the response body is copied.
CopyChunk ==
  /\ task = "copying"
  /\ source.state = "open"
  /\ source.made < MaxChunks
  /\ Room
  /\ source' = [source EXCEPT !.made = @ + 1]
  /\ out' = Append(out, "chunk")
  /\ UNCHANGED <<Rest, task, handler, drain, receive, send, responder, pumping>>

\* The body fails, or a chunk of it cannot be written.
CopyFails ==
  /\ task = "copying"
  /\ source.state = "failed" \/ (source.state = "open" /\ WriteFails)
  /\ IF transport = "h2" THEN Leaves ELSE LeavesCancelled
  /\ UNCHANGED <<Rest, responder, source, pumping>>

\* The body is at its end: over QUIC what is unread of the request is left to
\* the drain, over HTTP/2 the writer is closed.
CopyEnds ==
  /\ task = "copying"
  /\ source.state = "ended"
  /\ IF transport # "h2"
       THEN /\ task' = "over"
            /\ drain' = "reading"
            /\ send' = Finish.send /\ out' = Finish.out
            /\ UNCHANGED <<handler, receive>>
       ELSE LeavesClosed
  /\ UNCHANGED <<Rest, responder, source, pumping>>

\* pump, from the origin to the edge: a chunk, the end, or an error of either.
PumpOrigin ==
  /\ "origin" \in pumping
  /\ \/ /\ source.state = "open"
        /\ source.made < MaxChunks
        /\ Room
        /\ source' = [source EXCEPT !.made = @ + 1]
        /\ out' = Append(out, "chunk")
        /\ UNCHANGED <<send, pumping>>
     \/ /\ source.state = "ended"
        /\ send' = Finish.send /\ out' = Finish.out
        /\ pumping' = pumping \ {"origin"}
        /\ UNCHANGED source
     \/ /\ source.state = "failed" \/ (source.state = "open" /\ WriteFails)
        /\ pumping' = pumping \ {"origin"}
        /\ UNCHANGED <<send, out, source>>
  /\ UNCHANGED <<Rest, task, handler, drain, receive, responder>>

\* pump, from the edge to the origin, whose write may fail.
PumpEdge ==
  /\ "edge" \in pumping
  /\ \/ /\ More
        /\ receive' = [receive EXCEPT !.read = @ + 1]
        /\ pumping' \in {pumping, pumping \ {"edge"}}
     \/ /\ AtEnd \/ ReadFails
        /\ pumping' = pumping \ {"edge"}
        /\ UNCHANGED receive
  /\ UNCHANGED <<Rest, task, handler, drain, send, out, responder, source>>

\* Both directions are done.
PumpOver ==
  /\ task = "pumping"
  /\ pumping = {}
  /\ Leaves
  /\ UNCHANGED <<Rest, responder, source, pumping>>

\* The session is over and its set of request tasks is dropped.
Aborted ==
  /\ connection = "lost"
  /\ task # "over"
  /\ Leaves
  /\ pumping' = {}
  /\ UNCHANGED <<Rest, responder, source>>

-----------------------------------------------------------------------------
(* drain_unread.                                                            *)

\* A read of no bytes is taken for the end.
DrainEnds ==
  /\ drain = "reading"
  /\ \/ InHand("drain") /\ AtEnd /\ inside' = {}
     \/ Misses("drain") /\ UNCHANGED inside
  /\ drain' = "over"
  /\ UNCHANGED <<task, handler>>
  /\ Drops
  /\ UNCHANGED <<request, connection, upload, asleep, responder, source, pumping, edge>>

\* Variant: gives up without stopping the stream.
StopsNothing == receive.stopped

\* stop_read finds the receive half, unless another handle has it in hand.
Stops == receive.stopped \/ inside \subseteq {"drain"}

\* DRAIN_LIMIT, DRAIN_TIMEOUT, 4096 reads, or an error.
DrainGivesUp ==
  /\ drain = "reading"
  /\ \/ "drain" \notin inside /\ UNCHANGED inside
     \/ InHand("drain") /\ ReadFails /\ inside' = {}
  /\ parked' = parked \ {"drain"}
  /\ drain' = "over"
  /\ UNCHANGED <<task, handler>>
  /\ Dropped(send, out, Stops)
  /\ UNCHANGED <<request, connection, upload, waker, responder, source, pumping, edge>>

-----------------------------------------------------------------------------
Edge == EdgeUploads \/ EdgeReceives \/ EdgeAbandons \/ ConnectionLost

Handler ==
  \/ \E sized \in BOOLEAN : Answers(sized)
  \/ Declines
  \/ HandlerTold
  \/ HandlerLetsGo
  \/ SourceEnds

Poll(r) == Yields(r) \/ Pends(r)

Serve ==
  \/ Refused
  \/ HandlerMissing
  \/ CallHandler
  \/ TakeOutcome
  \/ WriteError
  \/ EndError
  \/ WriteHead
  \/ CopyChunk
  \/ CopyFails
  \/ CopyEnds
  \/ PumpOrigin
  \/ PumpEdge
  \/ PumpOver

Drain == DrainEnds \/ DrainGivesUp

Next ==
  \/ Edge
  \/ Handler
  \/ ReadPreamble
  \/ Serve
  \/ Aborted
  \/ Drain
  \/ \E r \in Readers : Take(r) \/ Poll(r)

Spec == Init /\ [][Next]_vars

(***************************************************************************)
(* A task that can run is polled, a poll returns, the drain's timer runs   *)
(* out, and an edge that keeps its request reads the response.  Nothing is *)
(* assumed of the handler, its body, or the upload.                        *)
(***************************************************************************)
FairSpec ==
  /\ Spec
  /\ WF_vars(Serve)
  /\ WF_vars(Drain)
  /\ WF_vars(HandlerTold)
  /\ \A r \in Readers : WF_vars(Poll(r))
  /\ WF_vars(EdgeReceives)

-----------------------------------------------------------------------------
\* The body or the origin's stream came to its end, and the edge has all of it.
Whole == source.state = "ended" /\ edge.chunks = source.made

\* A clean end of the response says that all of it came: a body or an origin
\* that fails half-way ends in a reset or in nothing (handle_quic_http, the
\* drop of an HTTP/2 stream).  A websocket or TCP stream over quinn is left
\* out: there a failed origin ends cleanly, because drop finishes the stream.
CleanEndIsComplete ==
  /\ TypeOK
  /\ edge.end = "fin" /\ edge.head = "head" /\ (transport = "quinn" => kind = "http")
       => Whole

\* A handler that reads the body before the response is complete is told the
\* end only where the edge put it, and has then read every segment
\* (drain_unread is spawned after the copy; poll_read puts back what it took).
BodyIntact ==
  handler.told = "end" /\ task # "over"
    => upload.end = "fin" /\ handler.got = upload.sent

\* Nothing more is to come of the response.
Settled ==
  \/ responder \in {"failed", "dropped"}
  \/ source.state \in {"ended", "failed"}
  \/ task = "over"

EdgeTold == connection = "lost" \/ edge.end # "open"

\* Nobody ends the stream: it has no write side, quiche was handed no answer
\* or a failed origin, or other handles of the stream are still in use.
LeftOpen ==
  \/ send = "none"
  \/ /\ transport = "quiche"
     /\ task = "over" /\ send = "open"
     /\ responder = "none" \/ (kind # "http" /\ source.state = "failed")
  \/ source.state = "failed" /\ "edge" \in pumping
  \/ source.state = "failed" /\ transport = "h2" /\ handler.body = "held"

\* Once the handler failed, dropped its responder, or its response ended, the
\* edge sees an end of the request (wait_outcome, finish, cancel_write, drop).
RequestEnds == Settled ~> EdgeTold \/ LeftOpen

Freed ==
  \/ receive.stopped
  \/ upload.end = "fin" /\ receive.read = upload.sent
  \/ upload.end = "reset"
  \/ connection = "lost"

\* What an answered request left unread of its upload does not hold the edge's
\* flow-control credit: it is read or stopped, unless the handler keeps the
\* body where the last handle frees it (drain_unread, stop_read, drop).
UploadReleased ==
  kind = "http" /\ edge.end = "fin" /\ edge.head = "head"
    ~> Freed \/ (transport # "quiche" /\ handler.body = "held")

\* "`fail` writes the message back as an error response", and a dropped
\* responder surfaces as an error too (responder.rs:14-19).
FailureReachesEdge ==
  edge.end = "reset" /\ responder \in {"failed", "dropped"} => edge.head = "error"
=============================================================================
