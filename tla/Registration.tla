---------------------------- MODULE Registration ----------------------------
(***************************************************************************)
(* The RPC exchange on the control stream: RpcClient (rpc/src/rpc.rs) under *)
(* TunnelClient (rpc/src/tunnel.rs), driven by register_on_stream and       *)
(* unregister (src/edge/control.rs).  The stream is reliable and ordered    *)
(* until it is lost.  The edge takes calls in order and answers each when   *)
(* it likes, and may also send messages the client does not expect: an      *)
(* abort, another kind of message, a return for some other question.        *)
(***************************************************************************)
EXTENDS Naturals, Sequences, SequencesExt, Framing, Credentials

CONSTANT MaxStray   \* bound: unexpected messages the edge sends

ASSUME StrayAssumption == MaxStray \in Nat

VARIABLES
  step,          \* the call the client makes, or between or after its calls
  waiting,       \* RpcClient: the question whose return it reads, if any
  nextQuestion,  \* RpcClient.next_question
  hasBootstrap,  \* RpcClient.has_bootstrap
  outcome,       \* what register_on_stream returned
  goodbye,       \* how the unregister call went
  refused,       \* questions left without a finish: their return was refused
  toEdge,        \* the two directions of the stream
  toClient,
  lost,          \* the stream is gone
  edge,          \* the edge: its answers, its capability, its tunnel
  strays         \* unexpected messages sent so far

vars == <<step, waiting, nextQuestion, hasBootstrap, outcome, goodbye, refused,
          toEdge, toClient, lost, edge, strays>>

client == <<step, waiting, nextQuestion, hasBootstrap, outcome, goodbye, refused>>

Exchange == INSTANCE ControlExchange WITH
  phase <- CASE step \in {"bootstrap", "register"} -> "registering"
             [] step = "configure" -> "configuring"
             [] step = "unregister" -> "unregistering"
             [] OTHER -> step,
  verdict <- IF edge.verdict \in {"exception", "otherKind", "unreadable"}
               THEN "error" ELSE edge.verdict,
  tunnel <- edge.tunnel
-----------------------------------------------------------------------------
Calls == {"register", "configure", "unregister"}
Questions == {"bootstrap"} \cup Calls

\* ConnectionResponse, as register_on_stream tells its forms apart.
Details == {"local", "remote"}
Verdicts == Details \cup {"duplicate", "permanent", "retryable"}

\* Returns that carry no results: an exception, a kind the client does not
\* handle, and results it cannot decode.
Unhappy == {"exception", "otherKind", "unreadable"}
Bodies == {"ok", "empty"} \cup Verdicts \cup Unhappy

\* The returns the edge may give to each question.
BodiesFor(kind) ==
  Unhappy \cup CASE kind = "bootstrap" -> {"ok", "empty"}
                 [] kind = "register" -> Verdicts
                 [] OTHER -> {"ok"}

ToEdge == [kind : Questions \cup {"finish", "release"}, question : Nat]
ToClient == [kind : {"return", "abort", "other"}, answer : Nat, body : Bodies]

Ask(kind, q) == [kind |-> kind, question |-> q]
Finish(q) == [kind |-> "finish", question |-> q]
Release == [kind |-> "release", question |-> 0]
Return(q, body) == [kind |-> "return", answer |-> q, body |-> body]

TypeOK ==
  /\ step \in Questions \cup {"registered", "over"}
  /\ \E q \in 0 .. 3 : waiting \in {{}, {q}}
  /\ nextQuestion \in 0 .. 4
  /\ hasBootstrap \in BOOLEAN
  /\ outcome \in {"none", "error"} \cup Verdicts
  /\ goodbye \in {"none", "confirmed", "failed"}
  /\ refused \subseteq 0 .. 3
  /\ toEdge \in Seq(ToEdge)
  /\ toClient \in Seq(ToClient)
  /\ lost \in BOOLEAN
  /\ edge \in [answers : SUBSET (0 .. 3), replies : SUBSET ToClient,
               capability : {"none", "held", "released"},
               tunnel : BOOLEAN, verdict : {"none"} \cup Bodies]
  /\ strays \in 0 .. MaxStray

Init ==
  /\ step = "bootstrap"
  /\ waiting = {}
  /\ nextQuestion = 0
  /\ hasBootstrap = FALSE
  /\ outcome = "none"
  /\ goodbye = "none"
  /\ refused = {}
  /\ toEdge = <<>>
  /\ toClient = <<>>
  /\ lost = FALSE
  /\ edge = [answers |-> {}, replies |-> {}, capability |-> "none",
             tunnel |-> FALSE, verdict |-> "none"]
  /\ strays = 0

-----------------------------------------------------------------------------
\* RpcClient::bootstrap and call: the id is taken before the write.
MayAsk(kind) == hasBootstrap = (kind \in Calls)

\* Variant: the id is taken once the call succeeded.
SendQuestionLate(kind) ==
  /\ step = kind
  /\ waiting = {}
  /\ MayAsk(kind)
  /\ ~lost
  /\ toEdge' = Append(toEdge, Ask(kind, nextQuestion))
  /\ waiting' = {nextQuestion}
  /\ nextQuestion' = IF kind = "configure" THEN nextQuestion ELSE nextQuestion + 1
  /\ UNCHANGED <<step, hasBootstrap, outcome, goodbye, refused, toClient, lost,
                 edge, strays>>

SendQuestion(kind) ==
  /\ step = kind
  /\ waiting = {}
  /\ MayAsk(kind)
  /\ ~lost
  /\ toEdge' = Append(toEdge, Ask(kind, nextQuestion))
  /\ waiting' = {nextQuestion}
  /\ nextQuestion' = nextQuestion + 1
  /\ UNCHANGED <<step, hasBootstrap, outcome, goodbye, refused, toClient, lost,
                 edge, strays>>

\* Variant: expect_return takes any return for the answer.
AnswersAny(m, q) == m.kind = "return" /\ m.body # "unreadable"

\* decode_bootstrap, decode_call, expect_return: the message is a readable
\* return for this question.  An abort, another message, another answer id
\* and a decoding error all leave through `?`.
Answers(m, q) == m.kind = "return" /\ m.answer = q /\ m.body # "unreadable"

\* Variant: an exception needs no finish.
ClosingOkOnly(q, body) == IF body \in Unhappy THEN <<>> ELSE <<Finish(q)>>

\* send_finish, whatever the return carried.
Closing(q, body) == <<Finish(q)>>

\* RpcClient::close.
Releasing(has) == IF has THEN <<Release>> ELSE <<>>

\* register_on_stream returns; `last` is what it still writes.
Leave(result, last) ==
  /\ step' = "over"
  /\ outcome' = result
  /\ toEdge' = toEdge \o last
  /\ UNCHANGED <<hasBootstrap, goodbye>>

\* The connection is registered: the client is kept to unregister later.
Registered(last) ==
  /\ step' = "registered"
  /\ toEdge' = toEdge \o last
  /\ UNCHANGED <<hasBootstrap, outcome, goodbye>>

\* What TunnelClient::bootstrap's caller does with its result.
BootstrapEnds(ok, last) ==
  IF ok
  THEN /\ step' = "register"
       /\ hasBootstrap' = TRUE
       /\ toEdge' = toEdge \o last
       /\ UNCHANGED <<outcome, goodbye>>
  ELSE Leave("error", last)

\* Variant: a refusal for now is asked about again on the same stream.
RegisterEndsRetrying(body, last) ==
  IF body = "retryable"
  THEN step' = "register" /\ toEdge' = toEdge \o last /\ UNCHANGED <<hasBootstrap, outcome, goodbye>>
  ELSE IF body \in Details
  THEN /\ step' = IF body = "local" THEN "configure" ELSE "registered"
       /\ outcome' = body
       /\ toEdge' = toEdge \o last
       /\ UNCHANGED <<hasBootstrap, goodbye>>
  ELSE Leave(IF body \in Verdicts THEN body ELSE "error", last)

\* The match on ConnectionResponse; a refused client is closed.
RegisterEnds(body, last) ==
  IF body \in Details
  THEN /\ step' = IF body = "local" THEN "configure" ELSE "registered"
       /\ outcome' = body
       /\ toEdge' = toEdge \o last
       /\ UNCHANGED <<hasBootstrap, goodbye>>
  ELSE IF body \in Verdicts
  THEN Leave(body, last \o Releasing(hasBootstrap))
  ELSE Leave("error", last)

\* Variant: a failed push closes the client.
ConfigureEndsClosing(ok, last) ==
  Registered(IF ok THEN last ELSE last \o Releasing(hasBootstrap))

\* A failed push is only logged.
ConfigureEnds(ok, last) == Registered(last)

\* unregister: the result is only logged, and the client is closed.
UnregisterEnds(ok, last) ==
  /\ step' = "over"
  /\ goodbye' = IF ok THEN "confirmed" ELSE "failed"
  /\ toEdge' = IF lost THEN toEdge ELSE toEdge \o last \o Releasing(hasBootstrap)
  /\ hasBootstrap' = FALSE
  /\ UNCHANGED outcome

\* The call in progress is over.
Ends(body, last) ==
  \/ step = "bootstrap" /\ BootstrapEnds(body = "ok", last)
  \/ step = "register" /\ RegisterEnds(body, last)
  \/ step = "configure" /\ ConfigureEnds(body = "ok", last)
  \/ step = "unregister" /\ UnregisterEnds(body = "ok", last)

\* read_message returned: an answer is finished, anything else is not.  On a
\* lost stream the finish fails and takes the answer with it: StreamFails.
ReadMessage ==
  /\ ~lost
  /\ toClient # <<>>
  /\ toClient' = Tail(toClient)
  /\ \E q \in waiting :
       LET m == Head(toClient) IN
       \/ /\ Answers(m, q)
          /\ Ends(m.body, Closing(q, m.body))
          /\ UNCHANGED refused
       \/ /\ ~Answers(m, q)
          /\ Ends("unreadable", <<>>)
          /\ refused' = refused \cup {q}
  /\ waiting' = {}
  /\ UNCHANGED <<nextQuestion, lost, edge, strays>>

\* The stream fails under a read or a write.
StreamFails ==
  /\ lost
  /\ Ends("unreadable", <<>>)
  /\ waiting' = {}
  /\ refused' = refused \cup waiting
  /\ UNCHANGED <<nextQuestion, toClient, lost, edge, strays>>

\* tunnel_identifier_bytes fails between the two calls.
TunnelIdInvalid ==
  /\ step = "register"
  /\ waiting = {}
  /\ Leave("error", <<>>)
  /\ UNCHANGED <<waiting, nextQuestion, refused, toClient, lost, edge, strays>>

\* Variant: only the answer to registerConnection is awaited with a timeout.
RpcTimeoutRegisterOnly ==
  /\ step = "register"
  /\ Leave("error", <<>>)
  /\ waiting' = {}
  /\ refused' = refused \cup waiting
  /\ UNCHANGED <<nextQuestion, toClient, lost, edge, strays>>

\* RPC_TIMEOUT passes: run_quic drops register_on_stream and the client.
RpcTimeout ==
  /\ step \in {"bootstrap", "register", "configure"}
  /\ Leave("error", <<>>)
  /\ waiting' = {}
  /\ refused' = refused \cup waiting
  /\ UNCHANGED <<nextQuestion, toClient, lost, edge, strays>>

\* The session ends by shutdown, or the connection ends it.
StartUnregister ==
  /\ step = "registered"
  /\ step' = "unregister"
  /\ UNCHANGED <<waiting, nextQuestion, hasBootstrap, outcome, goodbye, refused,
                 toEdge, toClient, lost, edge, strays>>

\* The grace period passes: the client is dropped, nothing is released.
UnregisterTimeout ==
  /\ step = "unregister"
  /\ step' = "over"
  /\ goodbye' = "failed"
  /\ waiting' = {}
  /\ refused' = refused \cup waiting
  /\ UNCHANGED <<nextQuestion, hasBootstrap, outcome, toEdge, toClient, lost,
                 edge, strays>>

LoseStream ==
  /\ ~lost
  /\ lost' = TRUE
  /\ UNCHANGED <<client, toEdge, toClient, edge, strays>>

-----------------------------------------------------------------------------
\* What carrying out a question does at the edge.
Serve(kind, body) ==
  [edge EXCEPT
     !.capability = IF kind = "bootstrap" /\ body = "ok" THEN "held" ELSE @,
     !.verdict = IF kind = "register" THEN body ELSE @,
     !.tunnel = IF kind = "register" THEN body \in Details
                ELSE @ /\ kind # "unregister"]

EdgeTakes ==
  /\ ~lost
  /\ toEdge # <<>>
  /\ toEdge' = Tail(toEdge)
  /\ LET m == Head(toEdge) IN
     \/ /\ m.kind \in Questions
        /\ \E body \in BodiesFor(m.kind) :
             edge' = [Serve(m.kind, body) EXCEPT
                        !.answers = @ \cup {m.question},
                        !.replies = @ \cup {Return(m.question, body)}]
     \/ /\ m.kind = "finish"
        /\ edge' = [edge EXCEPT !.answers = @ \ {m.question}]
     \/ /\ m.kind = "release"
        /\ edge' = [edge EXCEPT !.capability = "released"]
  /\ UNCHANGED <<client, toClient, lost, strays>>

EdgeReplies ==
  /\ ~lost
  /\ \E m \in edge.replies :
       /\ toClient' = Append(toClient, m)
       /\ edge' = [edge EXCEPT !.replies = @ \ {m}]
  /\ UNCHANGED <<client, toEdge, lost, strays>>

\* A message the client has no question for: an earlier return repeated at most.
EdgeStrays ==
  /\ ~lost
  /\ strays < MaxStray
  /\ strays' = strays + 1
  /\ \E m \in {[kind |-> k, answer |-> 0, body |-> "ok"] : k \in {"abort", "other"}}
              \cup {Return(q, b) : q \in {p \in 0 .. 3 : p < nextQuestion} \ waiting, b \in {"ok", "remote"}} :
       toClient' = Append(toClient, m)
  /\ UNCHANGED <<client, toEdge, lost, edge>>

-----------------------------------------------------------------------------
Client ==
  \/ \E kind \in Questions : SendQuestion(kind)
  \/ ReadMessage
  \/ StreamFails
  \/ TunnelIdInvalid
  \/ RpcTimeout
  \/ UnregisterTimeout

Next ==
  \/ Client
  \/ StartUnregister
  \/ LoseStream
  \/ EdgeTakes
  \/ EdgeReplies
  \/ EdgeStrays

Spec == Init /\ [][Next]_vars

\* The two timers run out; nothing is assumed of the edge.
FairSpec == Spec /\ WF_vars(RpcTimeout) /\ WF_vars(UnregisterTimeout)

-----------------------------------------------------------------------------
(* The state is typed, and what the client believes is what the edge did:   *)
(* register_on_stream returns the edge's own answer to registerConnection,  *)
(* the tunnel is there until the client asks to be unregistered, and an     *)
(* unregister call that succeeded has been carried out (expect_return,      *)
(* rpc.rs).                                                                 *)
BeliefsAreTrue ==
  /\ TypeOK
  /\ outcome \in Verdicts => edge.verdict = outcome
  /\ step \in {"configure", "registered"} => edge.tunnel
  /\ goodbye = "confirmed" => ~edge.tunnel

(* A question id on its way to the edge is on its way once, and never one   *)
(* the edge still holds an answer for, even after a return was refused and  *)
(* the stream is used again to unregister (next_question, rpc.rs).          *)
FreshQuestions ==
  \A i \in DOMAIN toEdge :
    toEdge[i].kind \in Questions =>
      /\ toEdge[i].question \notin edge.answers
      /\ \A j \in DOMAIN toEdge :
           toEdge[j].kind \in Questions /\ toEdge[j].question = toEdge[i].question
             => i = j

(* Every question the edge holds an answer for is awaited, is about to be   *)
(* finished, or had its return refused: exceptions and unhandled returns    *)
(* are finished too (send_finish, rpc.rs).                                  *)
AnswersAreFinished ==
  edge.answers \subseteq
    waiting \cup refused
      \cup {m.question : m \in {n \in ToSet(toEdge) : n.kind = "finish"}}

(* Every call the edge has yet to take reaches it while it holds the        *)
(* capability out: no call precedes the bootstrap or follows the release,   *)
(* whatever failed in between (has_bootstrap and close, rpc.rs).            *)
CallsHoldCapability ==
  \A i \in DOMAIN toEdge :
    toEdge[i].kind \in Calls =>
      /\ edge.capability = "held"
      /\ \A j \in 1 .. i - 1 : toEdge[j].kind # "release"

(* For a session the exchange is one question and one farewell: whatever    *)
(* is refused, repeated, late or lost among its messages, the edge decides  *)
(* once, a verdict is reported only if it is the edge's, and the tunnel is  *)
(* there from the one to the other.  Both end however silent the edge is    *)
(* (RPC_TIMEOUT and the grace period, control.rs).                          *)
ImplementsExchange == Exchange!Spec /\ Exchange!Ends
=============================================================================
