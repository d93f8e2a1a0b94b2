---------------------------- MODULE Configuration ---------------------------
(***************************************************************************)
(* The edge pushes configurations of a remotely managed tunnel: over QUIC   *)
(* on RPC streams, each served by serve_cloudflared (rpc/src/cloudflared.rs)*)
(* in a task of its own, over HTTP/2 with one request per push              *)
(* (edge/h2/streams.rs).  The tasks share one EdgeConfigurationHandler      *)
(* (edge/configuration.rs) and may run on different threads.  The handler   *)
(* does not await: once entered it runs to its end even when its task is    *)
(* aborted.  Versions are the numbers of the pushes.                        *)
(***************************************************************************)
EXTENDS Integers, Sequences, SequencesExt

CONSTANTS
  Streams,      \* the RPC streams or push requests of one connection
  MaxMessages   \* bound: messages the edge sends, over all streams

ASSUME MessagesAssumption == MaxMessages \in Nat

VARIABLES
  transport,  \* of this connection
  sent,       \* the messages sent on each stream
  number,     \* messages sent so far, over all streams
  read,       \* how many of them were read
  ends,       \* the edge's end of each stream
  task,       \* the task of each stream
  reply,      \* the reply it is about to write
  replies,    \* the replies the edge has
  applied,    \* EdgeConfigurationHandler.applied
  announced,  \* versions options.on_remote_configuration was called with
  overlapped  \* history: a push was sent while another was unanswered

channel == <<transport, sent, number, ends, overlapped>>
handler == <<applied, announced>>
vars == <<channel, read, task, reply, replies, handler>>

\* update: a push.  malformed: a push request whose body does not parse.
\* query: a bootstrap, a UDP call, an unknown method.  note: a finish, a
\* release or a message of another kind.
Kinds(t) == IF t = "H2" THEN {"update", "malformed"}
                        ELSE {"update", "query", "note"}

\* finished: nothing follows that could be decoded.
Ends == {"open", "finished", "reset"}

Message == [kind : Kinds("H2") \cup Kinds("QUIC"), version : 0 .. MaxMessages,
            valid : BOOLEAN, acked : BOOLEAN]

Versions == {-1} \cup 1 .. MaxMessages

Reply == [question : 1 .. MaxMessages, ok : BOOLEAN, version : Versions]

TypeOK ==
  /\ transport \in {"QUIC", "H2"}
  /\ sent \in [Streams -> Seq(Message)]
  /\ number \in 0 .. MaxMessages
  /\ \A s \in Streams : read[s] \in 0 .. Len(sent[s])
  /\ ends \in [Streams -> Ends]
  /\ overlapped \in BOOLEAN
  /\ task \in [Streams ->
               {"reading", "updating", "announcing", "writing", "over"}]
  /\ \A s \in Streams : task[s] = "writing" => reply[s] \in Reply
  /\ replies \in [Streams -> Seq(Reply)]
  /\ applied \in Versions
  /\ announced \in Seq(1 .. MaxMessages)

-----------------------------------------------------------------------------
\* AtomicI32::new(-1).
Nothing == -1

NoReply == [question |-> 0, ok |-> FALSE, version |-> Nothing]

\* A new connection has a new handler.
Init ==
  /\ transport \in {"QUIC", "H2"}
  /\ sent = [s \in Streams |-> <<>>]
  /\ number = 0
  /\ read = [s \in Streams |-> 0]
  /\ ends = [s \in Streams |-> "open"]
  /\ overlapped = FALSE
  /\ task = [s \in Streams |-> "reading"]
  /\ reply = [s \in Streams |-> NoReply]
  /\ replies = [s \in Streams |-> <<>>]
  /\ applied = Nothing
  /\ announced = <<>>

-----------------------------------------------------------------------------
(* The edge.                                                                *)

Gone(s) == ends[s] = "reset"

Pushes(s) == {i \in DOMAIN sent[s] : sent[s][i].kind = "update"}

Unanswered(s) == Pushes(s) \ {r.question : r \in ToSet(replies[s])}

\* The versions the edge was told are applied.
Accepted ==
  UNION {{r.version : r \in {q \in ToSet(replies[s]) :
                               q.ok /\ q.question \in Pushes(s)}} : s \in Streams}

\* A push over HTTP/2 is a whole request; an RPC stream takes many messages.
EdgeSends(s, kind, valid) ==
  /\ ends[s] = "open"
  /\ number < MaxMessages
  /\ number' = number + 1
  /\ kind \in Kinds(transport)
  /\ valid => kind = "update"
  /\ sent' = [sent EXCEPT ![s] =
       Append(@, [kind |-> kind, version |-> number', valid |-> valid,
                  acked |-> Accepted # {}])]
  /\ ends' = [ends EXCEPT ![s] = IF transport = "H2" THEN "finished" ELSE @]
  /\ overlapped' = \/ overlapped
                    \/ /\ kind = "update"
                       /\ \E u \in Streams : Unanswered(u) # {}
  /\ UNCHANGED <<transport, read, task, reply, replies, handler>>

\* The edge ends an RPC stream.  A stream of either kind may be reset, or go
\* down with the connection; only a stream that is served is of interest.
EdgeEnds(s, how) ==
  /\ task[s] # "over"
  /\ \/ how = "finished" /\ transport = "QUIC" /\ ends[s] = "open"
     \/ how = "reset" /\ ~Gone(s)
  /\ ends' = [ends EXCEPT ![s] = how]
  /\ UNCHANGED <<transport, sent, number, read, task, reply, replies, handler,
                 overlapped>>

-----------------------------------------------------------------------------
(* The task of a stream: serve_cloudflared, or handle_h2_configuration.     *)

\* The message under work.
Current(s) == sent[s][read[s]]

Refusal(s, version) == [question |-> read[s], ok |-> FALSE, version |-> version]

Continue(s, next) == task' = [task EXCEPT ![s] = next]

Prepare(s, r) == reply' = [reply EXCEPT ![s] = r] /\ Continue(s, "writing")

\* Variant: a finish is answered too.
NeedsReplyAlways(m) == m.kind \in {"query", "note"}

\* The messages that are answered without regard to what is applied.
NeedsReply(m) == m.kind = "query"

\* A turn of serve_cloudflared's loop, up to the handler or the reply.
ReadMessage(s) ==
  /\ transport = "QUIC"
  /\ task[s] = "reading" /\ ~Gone(s)
  /\ read[s] < Len(sent[s])
  /\ read' = [read EXCEPT ![s] = @ + 1]
  /\ LET m == sent[s][read[s] + 1] IN
     \/ /\ m.kind = "update"
        /\ Continue(s, "updating")
        /\ UNCHANGED reply
     \/ /\ NeedsReply(m)
        /\ Prepare(s, [question |-> read[s] + 1, ok |-> TRUE, version |-> Nothing])
     \/ /\ m.kind = "note" /\ ~NeedsReply(m)
        /\ UNCHANGED <<task, reply>>
  /\ UNCHANGED <<channel, replies, handler>>

\* A push request is read to its end.  A malformed one does not reach the
\* handler, and its answer reports no version.
ReadPush(s) ==
  /\ transport = "H2"
  /\ task[s] = "reading" /\ ~Gone(s)
  /\ sent[s] # <<>>
  /\ read' = [read EXCEPT ![s] = 1]
  /\ IF Head(sent[s]).kind = "update"
     THEN Continue(s, "updating") /\ UNCHANGED reply
     ELSE Prepare(s, [question |-> 1, ok |-> FALSE, version |-> Nothing])
  /\ UNCHANGED <<channel, replies, handler>>

\* update_configuration parsed the push: applied.store.
Store(s) ==
  /\ task[s] = "updating"
  /\ Current(s).valid
  /\ applied' = Current(s).version
  /\ Continue(s, "announcing")
  /\ UNCHANGED <<channel, read, reply, replies, announced>>

\* on_configuration is called, and the answer built from the push's version.
Announce(s) ==
  /\ task[s] = "announcing"
  /\ announced' = Append(announced, Current(s).version)
  /\ Prepare(s, [question |-> read[s], ok |-> TRUE, version |-> Current(s).version])
  /\ UNCHANGED <<channel, read, replies, applied>>

\* Variant: stores the version before it parses the configuration.
RefuseStoring(s) ==
  /\ task[s] = "updating"
  /\ ~Current(s).valid
  /\ applied' = Current(s).version
  /\ Prepare(s, Refusal(s, applied'))
  /\ UNCHANGED <<channel, read, replies, announced>>

\* Variant: a refusal reports no version, like the reply to a malformed body.
LatestNone == -1

\* applied.load.
Latest == applied

\* The push does not parse: the answer reports what is applied.
Refuse(s) ==
  /\ task[s] = "updating"
  /\ ~Current(s).valid
  /\ Prepare(s, Refusal(s, Latest))
  /\ UNCHANGED <<channel, read, replies, handler>>

\* Variant: an RPC stream is served for one call.
AfterReplyOnce == "over"

\* serve_cloudflared's loop goes on, a push request was answered for good.
AfterReply == IF transport = "H2" THEN "over" ELSE "reading"

WriteReply(s) ==
  /\ task[s] = "writing" /\ ~Gone(s)
  /\ replies' = [replies EXCEPT ![s] = Append(@, reply[s])]
  /\ reply' = [reply EXCEPT ![s] = NoReply]
  /\ Continue(s, AfterReply)
  /\ UNCHANGED <<channel, read, handler>>

\* Variant: the task may also be aborted between the store and the callback.
AtAwaitOrCallback(s) == task[s] \in {"reading", "announcing", "writing"}

\* Where the task awaits: only there an error or an abort meets it.
AtAwait(s) == task[s] \in {"reading", "writing"}

\* The stream ended under the task.
TaskEnds(s) ==
  /\ AtAwait(s)
  /\ \/ Gone(s)
     \/ task[s] = "reading" /\ ends[s] # "open" /\ read[s] = Len(sent[s])
  /\ Continue(s, "over")
  /\ reply' = [reply EXCEPT ![s] = NoReply]
  /\ UNCHANGED <<channel, read, replies, handler>>

Serve(s) ==
  \/ ReadMessage(s)
  \/ ReadPush(s)
  \/ Store(s)
  \/ Announce(s)
  \/ Refuse(s)
  \/ WriteReply(s)
  \/ TaskEnds(s)

Next ==
  \E s \in Streams :
    \/ \E kind \in Kinds(transport), valid \in BOOLEAN : EdgeSends(s, kind, valid)
    \/ \E how \in Ends : EdgeEnds(s, how)
    \/ Serve(s)

Spec == Init /\ [][Next]_vars

\* The runtime polls the tasks and the edge takes the replies.
FairSpec == Spec /\ \A s \in Streams : WF_vars(Serve(s))

-----------------------------------------------------------------------------
\* The messages of a stream that were read and are answered, each once.
Asked(s) ==
  {i \in 1 .. read[s] : sent[s][i].kind \in {"update", "query", "malformed"}}

Replied(s) == {r.question : r \in ToSet(replies[s])}

(* The state is typed, and the edge gets one reply to each of its           *)
(* questions, in the order in which it asked, and none to a finish, a       *)
(* release or another message; only the last one may be under work, or lost *)
(* with its stream (serve_cloudflared, rpc/src/cloudflared.rs).             *)
AnsweredInOrder ==
  /\ TypeOK
  /\ \A s \in Streams :
       /\ \A i, j \in DOMAIN replies[s] :
            i < j => replies[s][i].question < replies[s][j].question
       /\ CASE task[s] = "reading" -> Replied(s) = Asked(s)
            [] task[s] = "over" -> Replied(s) \in {Asked(s), Asked(s) \ {read[s]}}
            [] OTHER -> Replied(s) = Asked(s) \ {read[s]}

(* Whatever version is stored, or the edge is told is applied, was given to *)
(* the callback, although pushes overlap and tasks are aborted while they   *)
(* handle one (update_configuration; "Called with each configuration the    *)
(* edge pushes", connector/options.rs:46).                                  *)
AppliedIsAnnounced ==
  /\ Accepted \subseteq ToSet(announced)
  /\ (\A s \in Streams : task[s] # "announcing")
       => applied \in {-1} \cup ToSet(announced)

(* A push the handler refuses is answered with the version of a push that   *)
(* was accepted, once the edge knew of one ("The configuration version the  *)
(* connector applied", cloudflared.rs:29).                                  *)
RefusalReportsApplied ==
  \A s \in Streams : \A r \in ToSet(replies[s]) :
    LET m == sent[s][r.question] IN
    m.kind = "update" /\ ~r.ok =>
      /\ m.acked => r.version # -1
      /\ r.version # -1 =>
           \E u \in Streams : \E i \in DOMAIN sent[u] :
             sent[u][i].valid /\ sent[u][i].version = r.version

(* An edge that awaits each answer before the next push and got them all:   *)
(* the stored version, the last one announced and the last one accepted are *)
(* the same.  With overlapping pushes they may differ for good, since       *)
(* storing and announcing are two steps under no lock.                      *)
SequentialPushesConverge ==
  ~overlapped /\ (\A s \in Streams : Unanswered(s) = {}) =>
    /\ applied = Max(Accepted \cup {-1})
    /\ announced # <<>> => Last(announced) = applied

(* The pushes on a stream that is not reset are answered, whatever calls    *)
(* and notes precede them and whatever follows: the edge sends finitely     *)
(* many, so that none is left in the end.                                   *)
PushesAnswered ==
  \A s \in Streams : []<>(Unanswered(s) = {} \/ Gone(s))
=============================================================================
