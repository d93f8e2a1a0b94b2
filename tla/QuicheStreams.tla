---------------------------- MODULE QuicheStreams ---------------------------
(***************************************************************************)
(* Request streams over the quiche backend: the shared Inner, accept_stream *)
(* and the driver task (quic/quiche/mod.rs), the reads of a QuicStream      *)
(* (quic/quiche/stream.rs), and the tasks that use them: serve_requests,    *)
(* the task of each dispatched stream and the drain_unread task it leaves   *)
(* behind (edge/serve.rs).  Streams are counted in segments; the first one  *)
(* holds the signature and the connect request, and a segment of the body   *)
(* may hold the same bytes.  Writes are not modelled beyond failing on a    *)
(* closed connection: the driver wakes blocked writers on every turn.       *)
(***************************************************************************)
EXTENDS Naturals, FiniteSets

CONSTANTS
  Streams,       \* the streams the edge opens
  MaxSegments,   \* bound: segments the edge sends on a stream
  MaxDispatch    \* bound: how often the model lets a stream be dispatched

ASSUME BoundsAssumption == {MaxSegments, MaxDispatch} \subseteq Nat \ {0}

VARIABLES
  alike,      \* the segments of each body that begin as a request does; the
              \* sender's choice, which nothing changes
  dial,       \* QuicConnection::connect, with Inner.established
  quic,       \* the quiche connection itself
  closed,     \* Inner.closed
  driver,     \* the driver task: in select!, after a packet, or gone
  rx,         \* the receive side of each stream
  accepted,   \* Inner.accepted
  readWaker,  \* Inner.read_wakers
  acceptor,   \* serve_requests in accept_stream
  dispatched, \* how often each stream was dispatched
  task,       \* the request and drain task of each dispatch
  parked,     \* the tasks that returned Pending from poll_read
  eof         \* the tasks whose handle has read_eof set

vars == <<alike, dial, quic, closed, driver, rx, accepted, readWaker, acceptor,
          dispatched, task, parked, eof>>

Tasks == [stream : Streams, turn : 1 .. MaxDispatch, kind : {"serve", "drain"}]
ServeTask(s, n) == [stream |-> s, turn |-> n, kind |-> "serve"]
DrainOf(t) == [t EXCEPT !.kind = "drain"]

Live == {t \in Tasks : task[t] \in {"preamble", "handling", "draining"}}
Serving(s) == {t \in Live : t.stream = s /\ t.kind = "serve"}

\* sent: segments under way or arrived; fin: the edge's FIN.
Receive == [sent : 0 .. MaxSegments, arrived : 0 .. MaxSegments,
            read : 0 .. MaxSegments, fin : {"no", "sent", "arrived", "read"},
            stopped : BOOLEAN]

TypeOK ==
  /\ alike \in [Streams -> SUBSET (2 .. MaxSegments)]
  /\ dial \in {"waiting", "established", "connected", "failed"}
  /\ quic \in {"handshake", "open", "closed"}
  /\ closed \in BOOLEAN
  /\ driver \in {"select", "received", "ended"}
  /\ rx \in [Streams -> Receive]
  /\ \A s \in Streams : rx[s].read <= rx[s].arrived /\ rx[s].arrived <= rx[s].sent
  /\ accepted \subseteq Streams
  /\ readWaker \in [Streams -> SUBSET Tasks]
  /\ \A s \in Streams : Cardinality(readWaker[s]) <= 1
  /\ acceptor \in {"off", "check", "parked", "over"}
  /\ dispatched \in [Streams -> 0 .. MaxDispatch]
  /\ task \in [Tasks ->
               {"off", "preamble", "handling", "draining", "done", "refused"}]
  /\ parked \subseteq Live
  /\ eof \subseteq Tasks

Init ==
  /\ alike \in [Streams -> SUBSET (2 .. MaxSegments)]
  /\ dial = "waiting"
  /\ quic = "handshake"
  /\ closed = FALSE
  /\ driver = "select"
  /\ rx = [s \in Streams |->
             [sent |-> 0, arrived |-> 0, read |-> 0, fin |-> "no", stopped |-> FALSE]]
  /\ accepted = {}
  /\ readWaker = [s \in Streams |-> {}]
  /\ acceptor = "off"
  /\ dispatched = [s \in Streams |-> 0]
  /\ task = [t \in Tasks |-> "off"]
  /\ parked = {}
  /\ eof = {}

-----------------------------------------------------------------------------
(* The edge and the library.                                                *)

\* quiche: the stream has data or a FIN to read.
Readable(s) ==
  /\ ~rx[s].stopped
  /\ \/ rx[s].arrived > rx[s].read
     \/ rx[s].fin = "arrived"

EdgeSends(s) ==
  /\ quic = "open"
  /\ rx[s].fin = "no"
  /\ \/ /\ rx[s].sent < MaxSegments
        /\ rx' = [rx EXCEPT ![s].sent = @ + 1]
     \/ /\ rx[s].sent > 0
        /\ rx' = [rx EXCEPT ![s].fin = "sent"]
  /\ UNCHANGED <<alike, dial, quic, closed, driver, accepted, readWaker,
                 acceptor, dispatched, task, parked, eof>>

-----------------------------------------------------------------------------
(* The driver task.                                                         *)

\* recv: the packet on the socket carries the next segment, the FIN (with the
\* last segment or after it), the end of the handshake, or a close.
DriverReceives ==
  /\ driver # "ended"
  /\ driver' = "received"
  /\ \/ /\ quic = "handshake"
        /\ quic' = "open"
        /\ UNCHANGED rx
     \/ /\ quic # "closed"
        /\ quic' = "closed"
        /\ UNCHANGED rx
     \/ \E s \in Streams :
          /\ quic = "open"
          /\ \/ /\ rx[s].arrived < rx[s].sent
                /\ \E withFin \in BOOLEAN :
                     /\ withFin => rx[s].fin = "sent" /\ rx[s].arrived + 1 = rx[s].sent
                     /\ rx' = [rx EXCEPT ![s].arrived = @ + 1,
                                         ![s].fin = IF withFin THEN "arrived" ELSE @]
             \/ /\ rx[s].fin = "sent"
                /\ rx[s].arrived = rx[s].sent
                /\ rx' = [rx EXCEPT ![s].fin = "arrived"]
          /\ UNCHANGED quic
  /\ UNCHANGED <<alike, dial, closed, accepted, readWaker, acceptor,
                 dispatched, task, parked, eof>>

\* The idle timer fires: on_timeout closes the connection.
DriverTimesOut ==
  /\ driver = "select"
  /\ quic # "closed"
  /\ quic' = "closed"
  /\ driver' = "received"
  /\ UNCHANGED <<alike, dial, closed, rx, accepted, readWaker, acceptor,
                 dispatched, task, parked, eof>>

\* sequence_tx.send: whoever waits on the watch checks again.
Bump == IF acceptor = "parked" THEN "check" ELSE acceptor

\* wake() on the wakers of the streams S.
Wake(S) ==
  /\ parked' = parked \ UNION {readWaker[s] : s \in S}
  /\ readWaker' = [s \in Streams |-> IF s \in S THEN {} ELSE readWaker[s]]

\* What the end of a turn does with the streams S that have something to read.
TurnEnds(S) ==
  /\ driver # "ended"
  /\ dial' = IF dial = "waiting" /\ quic = "open" THEN "established" ELSE dial
  /\ closed' = (closed \/ quic = "closed")
  /\ Wake(IF quic = "closed" THEN Streams ELSE S)
  /\ acceptor' = Bump
  /\ driver' = IF quic = "closed" THEN "ended" ELSE "select"
  /\ UNCHANGED <<alike, quic, rx, accepted, dispatched, task, eof>>

\* Variant: a FIN alone wakes nobody.
DriverWakesForData == TurnEnds({s \in Streams : rx[s].arrived > rx[s].read})

\* The end of a turn, which the 50 ms kick also starts: readable streams wake
\* their reader, a closed connection wakes every reader and ends the driver.
DriverWakes == TurnEnds({s \in Streams : Readable(s)})

\* socket.readable() fails: the driver leaves and tells nobody.
DriverBreaks ==
  /\ driver = "select"
  /\ driver' = "ended"
  /\ UNCHANGED <<alike, dial, quic, closed, rx, accepted, readWaker, acceptor,
                 dispatched, task, parked, eof>>

\* wait_established looks at the flags of Inner.
Connect ==
  /\ \/ /\ dial \in {"waiting", "established"}
        /\ closed
        /\ dial' = "failed"
        /\ UNCHANGED acceptor
     \/ /\ dial = "established"
        /\ ~closed
        /\ dial' = "connected"
        /\ acceptor' = "check"
  /\ UNCHANGED <<alike, quic, closed, driver, rx, accepted, readWaker,
                 dispatched, task, parked, eof>>

\* Variant: close() leaves the watch alone.
CloseQuietly ==
  /\ dial = "connected"
  /\ ~closed
  /\ closed' = TRUE
  /\ quic' = "closed"
  /\ Wake(Streams)
  /\ UNCHANGED <<alike, dial, driver, rx, accepted, acceptor, dispatched, task,
                 eof>>

\* QuicConnection::close, called by run_quic.
Close ==
  /\ dial = "connected"
  /\ ~closed
  /\ closed' = TRUE
  /\ quic' = "closed"
  /\ Wake(Streams)
  /\ acceptor' = Bump
  /\ UNCHANGED <<alike, dial, driver, rx, accepted, dispatched, task, eof>>

-----------------------------------------------------------------------------
(* serve_requests.                                                          *)

\* accept_stream found a readable stream that is not in the accepted set.
Dispatch(s) ==
  /\ acceptor = "check"
  /\ ~closed
  /\ Readable(s)
  /\ s \notin accepted
  /\ dispatched[s] < MaxDispatch
  /\ accepted' = accepted \cup {s}
  /\ dispatched' = [dispatched EXCEPT ![s] = @ + 1]
  /\ task' = [task EXCEPT ![ServeTask(s, dispatched[s] + 1)] = "preamble"]
  /\ UNCHANGED <<alike, dial, quic, closed, driver, rx, readWaker, acceptor,
                 parked, eof>>

\* Nothing to accept: wait for the watch.
AcceptorWaits ==
  /\ acceptor = "check"
  /\ ~closed
  /\ \A s \in Streams : Readable(s) => s \in accepted \/ dispatched[s] = MaxDispatch
  /\ acceptor' = "parked"
  /\ UNCHANGED <<alike, dial, quic, closed, driver, rx, accepted, readWaker,
                 dispatched, task, parked, eof>>

\* accept_stream returns None: the JoinSet aborts the request tasks, the
\* drain tasks are detached and stay.
AcceptorEnds ==
  /\ acceptor = "check"
  /\ closed
  /\ acceptor' = "over"
  /\ task' = [t \in Tasks |->
                CASE task[t] = "preamble" -> "refused"
                  [] task[t] = "handling" -> "done"
                  [] OTHER -> task[t]]
  /\ parked' = {t \in parked : t.kind = "drain"}
  /\ UNCHANGED <<alike, dial, quic, closed, driver, rx, accepted, readWaker,
                 dispatched, eof>>

-----------------------------------------------------------------------------
(* Reading a stream.                                                        *)

\* The next segment ends the stream: stream_recv reports the FIN with it.
LastSegment(s) ==
  rx[s].fin = "arrived" /\ rx[s].read + 1 = rx[s].arrived

Segment(t) == ~closed /\ t \notin eof /\ ~rx[t.stream].stopped
              /\ rx[t.stream].arrived > rx[t.stream].read

AtEnd(t) ==
  /\ ~closed
  /\ \/ t \in eof
     \/ /\ rx[t.stream].fin = "arrived"
        /\ rx[t.stream].read = rx[t.stream].arrived
        /\ ~rx[t.stream].stopped

\* stream_recv has nothing, or the FIN was consumed by another handle, or the
\* stream is gone: every one of them is Pending.
Nothing(t) == ~closed /\ ~Segment(t) /\ ~AtEnd(t)

TakeSegment(s) ==
  rx' = [rx EXCEPT ![s].read = @ + 1,
                   ![s].fin = IF LastSegment(s) THEN "read" ELSE @]

TakeFin(s) == rx' = [rx EXCEPT ![s].fin = IF @ = "arrived" THEN "read" ELSE @]

\* The waker replaces whatever waker the stream had.
Park(t) ==
  /\ parked' = parked \cup {t}
  /\ readWaker' = [readWaker EXCEPT ![t.stream] = {t}]

ReadPends(t) ==
  /\ t \in Live \ parked
  /\ Nothing(t)
  /\ Park(t)
  /\ UNCHANGED <<alike, dial, quic, closed, driver, rx, accepted, acceptor,
                 dispatched, task, eof>>

-----------------------------------------------------------------------------
(* The request task: serve_stream, the handler, and release.                *)

\* Variant: a refused stream keeps its place in the accepted set.
ReleasedIfHandled(t) == IF task[t] = "handling" THEN {t.stream} ELSE {}

\* release: whatever became of the request.
Released(t) == {t.stream}

\* The request task is over, with or without a drain task left behind.
Leave(t, how, drains) ==
  /\ task' = IF drains
             THEN [task EXCEPT ![t] = how, ![DrainOf(t)] = "draining"]
             ELSE [task EXCEPT ![t] = how]
  /\ accepted' = accepted \ Released(t)
  /\ parked' = parked \ {t}

\* Variant: the signature is not looked at.
SignatureUnread(s) == TRUE

\* The bytes that make a segment the start of a request, wherever it is.
Begins(s, i) == i \in {1} \cup alike[s]

\* serve_stream compares what it reads next with the signatures, whether or not
\* that is the start of the stream, and goes on to the version and the request.
Signature(s) == Begins(s, rx[s].read + 1)

\* serve_stream reads the preamble: a request, or an error.
ReadPreamble(t) ==
  /\ task[t] = "preamble"
  /\ t \notin parked
  /\ \/ /\ Segment(t)
        /\ eof' = IF LastSegment(t.stream) THEN eof \cup {t} ELSE eof
        /\ TakeSegment(t.stream)
        /\ \/ /\ Signature(t.stream)
              /\ task' = [task EXCEPT ![t] = "handling"]
              /\ UNCHANGED <<accepted, parked>>
           \/ /\ ~Signature(t.stream)
              /\ Leave(t, "refused", FALSE)
     \/ /\ AtEnd(t)
        /\ TakeFin(t.stream)
        /\ Leave(t, "refused", FALSE)
        /\ UNCHANGED eof
     \/ /\ closed
        /\ Leave(t, "refused", FALSE)
        /\ UNCHANGED <<rx, eof>>
  /\ UNCHANGED <<alike, dial, quic, closed, driver, readWaker, acceptor,
                 dispatched>>

\* The handler reads the request body through its own clone of the handle.
HandlerReads(t) ==
  /\ task[t] = "handling"
  /\ t \notin parked
  /\ \/ Segment(t) /\ TakeSegment(t.stream)
     \/ AtEnd(t) /\ TakeFin(t.stream)
  /\ UNCHANGED <<alike, dial, quic, closed, driver, accepted, readWaker,
                 acceptor, dispatched, task, parked, eof>>

\* The handler answered: the response is copied, a drain task is spawned and
\* the stream is released.
RespondDraining(t) ==
  /\ task[t] = "handling"
  /\ ~closed
  /\ Leave(t, "done", TRUE)
  /\ eof' = IF t \in eof THEN eof \cup {DrainOf(t)} ELSE eof
  /\ UNCHANGED <<alike, dial, quic, closed, driver, rx, readWaker, acceptor,
                 dispatched>>

\* The handler failed, a websocket or TCP pump ended, or a write failed.
RespondPlain(t) ==
  /\ task[t] = "handling"
  /\ Leave(t, "done", FALSE)
  /\ UNCHANGED <<alike, dial, quic, closed, driver, rx, readWaker, acceptor,
                 dispatched, eof>>

-----------------------------------------------------------------------------
(* drain_unread.                                                            *)

DrainReads(t) ==
  /\ task[t] = "draining"
  /\ t \notin parked
  /\ Segment(t)
  /\ eof' = IF LastSegment(t.stream) THEN eof \cup {t} ELSE eof
  /\ TakeSegment(t.stream)
  /\ UNCHANGED <<alike, dial, quic, closed, driver, accepted, readWaker,
                 acceptor, dispatched, task, parked>>

DrainEnds(t) ==
  /\ task[t] = "draining"
  /\ t \notin parked
  /\ AtEnd(t)
  /\ TakeFin(t.stream)
  /\ task' = [task EXCEPT ![t] = "done"]
  /\ UNCHANGED <<alike, dial, quic, closed, driver, accepted, readWaker,
                 acceptor, dispatched, parked, eof>>

\* Variant: a drain that gives up leaves the stream readable.
DrainGivesUpOnly(t) ==
  /\ task[t] = "draining"
  /\ task' = [task EXCEPT ![t] = "done"]
  /\ parked' = parked \ {t}
  /\ UNCHANGED <<alike, dial, quic, closed, driver, rx, accepted, readWaker,
                 acceptor, dispatched, eof>>

\* DRAIN_TIMEOUT, DRAIN_LIMIT, 4096 reads or a read error: stop_read, which
\* does nothing on a closed connection.
DrainGivesUp(t) ==
  /\ task[t] = "draining"
  /\ task' = [task EXCEPT ![t] = "done"]
  /\ parked' = parked \ {t}
  /\ rx' = IF closed THEN rx ELSE [rx EXCEPT ![t.stream].stopped = TRUE]
  /\ UNCHANGED <<alike, dial, quic, closed, driver, accepted, readWaker,
                 acceptor, dispatched, eof>>

-----------------------------------------------------------------------------
Driver == DriverReceives \/ DriverTimesOut \/ DriverWakes \/ DriverBreaks

Acceptor == (\E s \in Streams : Dispatch(s)) \/ AcceptorWaits \/ AcceptorEnds

Request(t) ==
  \/ ReadPreamble(t)
  \/ HandlerReads(t)
  \/ RespondDraining(t)
  \/ RespondPlain(t)
  \/ ReadPends(t)

Drain(t) == DrainReads(t) \/ DrainEnds(t) \/ DrainGivesUp(t)

Next ==
  \/ \E s \in Streams : EdgeSends(s)
  \/ Driver
  \/ Connect
  \/ Close
  \/ Acceptor
  \/ \E t \in Tasks : Request(t) \/ Drain(t)

Spec == Init /\ [][Next]_vars

\* The runtime polls what is ready, the driver's kick and the drain's timer
\* run out.  Nothing is assumed of the edge, the handlers or the socket.
FairSpec ==
  /\ Spec
  /\ WF_vars(DriverWakes)
  /\ WF_vars(Connect)
  /\ WF_vars(Acceptor)
  /\ \A t \in Tasks : WF_vars(ReadPreamble(t)) /\ WF_vars(Drain(t))

-----------------------------------------------------------------------------
(* The state is typed, and while serve_requests runs the accepted set names *)
(* the streams a request task is working on, one task each: it stays        *)
(* bounded (release, serve.rs).                                             *)
AcceptedIsLive ==
  /\ TypeOK
  /\ acceptor # "over" =>
    /\ accepted = {s \in Streams : Serving(s) # {}}
    /\ \A s \in Streams : Cardinality(Serving(s)) <= 1

(* What reaches a handler began with the bytes of a request, and no two     *)
(* requests with the same ones: a stream whose body has no such bytes is    *)
(* handled at most once, however often it is dispatched, and a body that    *)
(* has them at most once more for each of its segments that begins with     *)
(* them (the signature check of serve_stream, serve.rs:82-92).              *)
OneRequestPerBeginning ==
  \A s \in Streams :
    Cardinality({n \in 1 .. MaxDispatch :
                   task[ServeTask(s, n)] \in {"handling", "done"}})
      <= Cardinality({i \in 1 .. rx[s].read : Begins(s, i)})

(* A request task that found nothing to read, alone on its stream, is woken *)
(* when data or a FIN arrive, unless the driver is gone (poll_read, drive). *)
(* The drain of an earlier request may have taken the one waker slot of the *)
(* stream (stream.rs:131): then its end, at the FIN or by stop_read, leaves *)
(* nothing to be woken for.  It says nothing of a drain: one whose waker    *)
(* was replaced is not woken by data, and ends with its timer.              *)
ReaderWoken ==
  \A s \in Streams : \A n \in 1 .. MaxDispatch :
    LET t == ServeTask(s, n)
    IN  t \in parked /\ Readable(s) /\ {u \in Live : u.stream = s} = {t}
          ~> t \notin parked \/ ~Readable(s) \/ driver = "ended"

(* A closed connection ends serve_requests and every task it left behind,   *)
(* although two tasks share one waker slot and the driver may be gone       *)
(* (close, the closed branch of drive, DRAIN_TIMEOUT).                      *)
CloseEndsTasks ==
  closed ~> dial = "failed" \/ (acceptor = "over" /\ Live = {})
=============================================================================
