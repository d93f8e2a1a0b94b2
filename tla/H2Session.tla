------------------------------ MODULE H2Session -----------------------------
(***************************************************************************)
(* One connection attempt over HTTP/2: run_h2 (connector/runtime.rs), the  *)
(* H2EdgeConnection::serve task it spawns (edge/h2/mod.rs), the control    *)
(* stream task serve spawns (edge/h2/register.rs) and the select! of the   *)
(* connector.  The h2 connection moves bytes only while serve's loop polls *)
(* accept(), so the edge is reached only while serve = "running".          *)
(***************************************************************************)
EXTENDS Events

CONSTANT Streams   \* the request streams the edge may open

VARIABLES
  pc,               \* run_h2
  registeredAt,     \* run_h2 saw the registration
  report,           \* the ServeAttempt it returned
  shutdown,         \* shutdown_flag: the connector, run_h2 and serve wait on it
  conn,             \* the HTTP/2 connection: open, closed by the edge, failed
  serve,            \* the serve task
  serveResult,      \* what it returned
  registrationDone, \* registration_done
  registration,     \* the oneshot from the control task to serve
  control,          \* the control stream task
  registered,       \* H2Shared::registered, awaited by run_h2
  controlShutdown,  \* H2Shared::control_shutdown, awaited by the control task
  answer,           \* the edge's answer to registerConnection
  edge,             \* the edge's record of this connection
  streams           \* the task of each request stream

serving == <<serve, serveResult, registrationDone, streams>>
controlling == <<registration, control, registered, answer, edge>>
session == <<pc, registeredAt, report>>

vars == <<session, shutdown, conn, serving, controlling, controlShutdown>>

Contract == INSTANCE ServeAttempt WITH
  phase <- IF pc \in {"ended", "dropped"} THEN "over"
           ELSE IF registeredAt THEN "serving" ELSE "registering",
  fired <- shutdown.fired,
  report <- report

Over == {"ended", "dropped"}
Refusals == {"duplicate", "permanent", "error"}

TypeOK ==
  /\ pc \in {"starting", "registering", "serving"} \cup Over
  /\ registeredAt \in BOOLEAN
  /\ report \in Contract!Reports \cup {Contract!None}
  /\ shutdown \in EventOf({"connector", "session", "serve"})
  /\ conn \in {"open", "closed", "failed"}
  /\ serve \in {"running", "draining", "joining", "over"}
  /\ serveResult \in {"none", "ok"} \cup Refusals
  /\ registrationDone \in BOOLEAN
  /\ registration \in {"empty", "ok"} \cup Refusals
  /\ control \in {"none", "registering", "registered", "waiting",
                  "unregistering", "over"}
  /\ registered \in EventOf({"session"})
  /\ controlShutdown \in EventOf({"control"})
  /\ answer \in {"none", "registered"} \cup Refusals
  /\ edge \in {"none", "registered", "unregistered"}
  /\ streams \in [Streams -> {"idle", "open", "done", "cut"}]

\* run_h2 has spawned serve; shutdown may have fired before the attempt.
Init ==
  /\ pc = "starting"
  /\ registeredAt = FALSE
  /\ report = Contract!None
  /\ \E e \in {NewEvent, Fire(NewEvent)} :
       shutdown = Listen(Listen(e, "connector"), "serve")
  /\ conn = "open"
  /\ serve = "running"
  /\ serveResult = "none"
  /\ registrationDone = FALSE
  /\ registration = "empty"
  /\ control = "none"
  /\ registered = NewEvent
  /\ controlShutdown = NewEvent
  /\ answer = "none"
  /\ edge = "none"
  /\ streams = [s \in Streams |-> "idle"]

-----------------------------------------------------------------------------
\* The caller, the network and the edge.

FireShutdown ==
  /\ ~shutdown.fired
  /\ shutdown' = Fire(shutdown)
  /\ UNCHANGED <<session, conn, serving, controlling, controlShutdown>>

\* accept() will return None (a clean close) or an error.
ConnectionEnds(how) ==
  /\ conn = "open"
  /\ conn' = how
  /\ UNCHANGED <<session, shutdown, serving, controlling, controlShutdown>>

EdgeAnswers(a) ==
  /\ control = "registering"
  /\ answer = "none"
  /\ conn = "open" /\ serve = "running"
  /\ answer' = a
  /\ edge' = IF a = "registered" THEN "registered" ELSE edge
  /\ UNCHANGED <<session, shutdown, conn, serving, registration, control,
                 registered, controlShutdown>>

-----------------------------------------------------------------------------
\* serve: every turn of the loop makes a new shutdown future, so a turn that
\* takes another branch forgets a notification that was ready beside it.

NextTurn ==
  /\ serve = "running"
  /\ shutdown' = Listen(shutdown, "serve")

AcceptControl ==
  /\ conn = "open" /\ control = "none"
  /\ NextTurn
  /\ control' = "registering"
  /\ UNCHANGED <<session, conn, serving, registration, registered, answer,
                 edge, controlShutdown>>

\* A second control stream is answered with 400.
RefuseControl ==
  /\ conn = "open" /\ control # "none"
  /\ NextTurn
  /\ UNCHANGED <<session, conn, serving, controlling, controlShutdown>>

AcceptStream(s) ==
  /\ conn = "open" /\ streams[s] = "idle"
  /\ NextTurn
  /\ streams' = [streams EXCEPT ![s] = "open"]
  /\ UNCHANGED <<session, conn, serve, serveResult, registrationDone,
                 controlling, controlShutdown>>

StreamEnds(s) ==
  /\ streams[s] = "open"
  /\ streams' = [streams EXCEPT ![s] = "done"]
  /\ UNCHANGED <<session, shutdown, conn, serve, serveResult,
                 registrationDone, controlling, controlShutdown>>

Cut == [s \in Streams |-> IF streams[s] = "open" THEN "cut" ELSE streams[s]]

\* Variant: the stream tasks are left to the runtime.
StopServeAlone(result) ==
  /\ serve' = "over"
  /\ serveResult' = result
  /\ controlShutdown' = Fire(controlShutdown)
  /\ shutdown' = Drop(shutdown, "serve")
  /\ UNCHANGED <<session, conn, controlling, streams>>

\* Notify the control task, abort the streams, return.
StopServe(result) ==
  /\ serve' = "over"
  /\ serveResult' = result
  /\ streams' = Cut
  /\ controlShutdown' = Fire(controlShutdown)
  /\ shutdown' = Drop(shutdown, "serve")
  /\ UNCHANGED <<session, conn, controlling>>

TakeRegistration ==
  /\ serve = "running"
  /\ ~registrationDone
  /\ registration # "empty"
  /\ registrationDone' = TRUE
  /\ \/ /\ registration = "ok"
        /\ NextTurn
        /\ UNCHANGED <<session, conn, serve, serveResult, streams,
                       controlling, controlShutdown>>
     \/ /\ registration # "ok"
        /\ StopServe(registration)

\* The sleep beside accept(); it starts again in every turn.
RegistrationTimesOut ==
  /\ serve = "running"
  /\ ~registrationDone
  /\ StopServe("error")
  /\ UNCHANGED registrationDone

SeeConnectionEnd ==
  /\ serve = "running"
  /\ conn # "open"
  /\ StopServe(IF conn = "closed" THEN "ok" ELSE "error")
  /\ UNCHANGED registrationDone

SeeShutdown ==
  /\ serve = "running"
  /\ Woken(shutdown, "serve")
  /\ serve' = "draining"
  /\ shutdown' = Drop(shutdown, "serve")
  /\ controlShutdown' = Fire(controlShutdown)
  /\ UNCHANGED <<session, conn, serveResult, registrationDone, streams,
                 controlling>>

\* serve returns Ok after a shutdown; its JoinSet and the connection go.
ReturnFromDrain ==
  /\ serve' = "over"
  /\ serveResult' = "ok"
  /\ streams' = Cut
  /\ UNCHANGED <<session, shutdown, conn, registrationDone, controlling,
                 controlShutdown>>

\* The streams are joined, or the grace period is over.
StreamsDrained ==
  /\ serve = "draining"
  /\ \/ /\ control = "none"
        /\ ReturnFromDrain
     \/ /\ control # "none"
        /\ serve' = "joining"
        /\ UNCHANGED <<session, shutdown, conn, serveResult,
                       registrationDone, streams, controlling, controlShutdown>>

\* Variant: the control task is joined without a bound.
ControlJoinedUnbounded ==
  /\ serve = "joining"
  /\ control = "over"
  /\ ReturnFromDrain

\* The control task is joined, or a second grace period is over.
ControlJoined ==
  /\ serve = "joining"
  /\ ReturnFromDrain

-----------------------------------------------------------------------------
\* The control stream task.

\* Variant: signals the registration before the edge has answered.
ControlRegisteredEarly ==
  /\ control = "registering"
  /\ control' = "registered"
  /\ registered' = Fire(registered)
  /\ registration' = "ok"
  /\ UNCHANGED <<session, shutdown, conn, serving, answer, edge,
                 controlShutdown>>

ControlRegistered ==
  /\ control = "registering"
  /\ answer = "registered"
  /\ control' = "registered"
  /\ registered' = Fire(registered)
  /\ registration' = "ok"
  /\ UNCHANGED <<session, shutdown, conn, serving, answer, edge,
                 controlShutdown>>

ControlFails(why) ==
  /\ control = "registering"
  /\ control' = "over"
  /\ registration' = why
  /\ UNCHANGED <<session, shutdown, conn, serving, registered, answer, edge,
                 controlShutdown>>

\* The edge refused, or the control stream broke with its connection.
ControlRefused == answer \in Refusals /\ ControlFails(answer)
ControlBroken == (conn # "open" \/ serve = "over") /\ ControlFails("error")

\* control_shutdown.notified(): a notification sent before this step is lost.
ControlWaits ==
  /\ control = "registered"
  /\ control' = "waiting"
  /\ controlShutdown' = Listen(controlShutdown, "control")
  /\ UNCHANGED <<session, shutdown, conn, serving, registration, registered,
                 answer, edge>>

ControlNotified ==
  /\ control = "waiting"
  /\ Woken(controlShutdown, "control")
  /\ control' = "unregistering"
  /\ controlShutdown' = Drop(controlShutdown, "control")
  /\ UNCHANGED <<session, shutdown, conn, serving, registration, registered,
                 answer, edge>>

\* unregister returns.  An edge the call reaches carries it out; otherwise
\* the grace period passes.
ControlUnregisters ==
  /\ control = "unregistering"
  /\ control' = "over"
  /\ edge' = IF conn = "open" /\ serve = "running" THEN "unregistered" ELSE edge
  /\ UNCHANGED <<session, shutdown, conn, serving, registration, registered,
                 answer, controlShutdown>>

-----------------------------------------------------------------------------
\* run_h2, polled beside the connector's own notified().

Proceed(from, to) ==
  /\ pc = from
  /\ ~Woken(shutdown, "connector")
  /\ pc' = to

\* registered.notified() is created after serve was spawned.
AwaitRegistration ==
  /\ Proceed("starting", "registering")
  /\ registered' = Listen(registered, "session")
  /\ UNCHANGED <<registeredAt, report, shutdown, conn, serving, registration,
                 control, answer, edge, controlShutdown>>

\* Variant: waits for the registration without RPC_TIMEOUT.
RegistrationAwaitedUnbounded ==
  /\ Woken(registered, "session")
  /\ Proceed("registering", "serving")
  /\ registeredAt' = TRUE
  /\ registered' = Drop(registered, "session")
  /\ shutdown' = Listen(shutdown, "session")
  /\ UNCHANGED <<report, conn, serving, registration, control, answer, edge,
                 controlShutdown>>

\* Registered in time, or RPC_TIMEOUT passed: serve goes on either way.
RegistrationAwaited ==
  /\ Proceed("registering", "serving")
  /\ registeredAt' = Woken(registered, "session")
  /\ registered' = Drop(registered, "session")
  /\ shutdown' = Listen(shutdown, "session")
  /\ UNCHANGED <<report, conn, serving, registration, control, answer, edge,
                 controlShutdown>>

\* Variant: a closed connection is a clean end of the attempt.
SessionEndsCleanly ==
  /\ pc = "serving"
  /\ serve = "over"
  /\ pc' = "ended"
  /\ report' = [result |-> serveResult, registered |-> registeredAt,
                timedOut |-> FALSE]
  /\ shutdown' = Drop(Drop(shutdown, "connector"), "session")
  /\ UNCHANGED <<registeredAt, conn, serving, controlling, controlShutdown>>

\* serve returned; its Ok is the attempt's Ok only under shutdown.
SessionEnds ==
  /\ pc = "serving"
  /\ serve = "over"
  /\ pc' = "ended"
  /\ report' = [result |-> IF serveResult = "ok" /\ ~shutdown.fired
                             THEN "error" ELSE serveResult,
                registered |-> registeredAt,
                timedOut |-> FALSE]
  /\ shutdown' = Drop(Drop(shutdown, "connector"), "session")
  /\ UNCHANGED <<registeredAt, conn, serving, controlling, controlShutdown>>

\* The connector returns and drops run_h2; the serve task is detached.
ConnectorReturns ==
  /\ pc \notin Over
  /\ Woken(shutdown, "connector")
  /\ pc' = "dropped"
  /\ shutdown' = Drop(Drop(shutdown, "connector"), "session")
  /\ registered' = Drop(registered, "session")
  /\ UNCHANGED <<registeredAt, report, conn, serving, registration, control,
                 answer, edge, controlShutdown>>

-----------------------------------------------------------------------------
Accept == AcceptControl \/ RefuseControl \/ \E s \in Streams : AcceptStream(s)

ServeStops == RegistrationTimesOut \/ SeeConnectionEnd \/ SeeShutdown

Control ==
  \/ ControlRegistered
  \/ ControlRefused
  \/ ControlBroken
  \/ ControlWaits
  \/ ControlNotified
  \/ ControlUnregisters

Session == AwaitRegistration \/ RegistrationAwaited \/ SessionEnds

Next ==
  \/ FireShutdown
  \/ \E how \in {"closed", "failed"} : ConnectionEnds(how)
  \/ \E a \in Refusals \cup {"registered"} : EdgeAnswers(a)
  \/ Accept
  \/ \E s \in Streams : StreamEnds(s)
  \/ TakeRegistration
  \/ ServeStops
  \/ StreamsDrained
  \/ ControlJoined
  \/ Control
  \/ Session
  \/ ConnectorReturns

Spec == Init /\ [][Next]_vars

\* Tasks that can run do, and timers fire; the edge and the caller are free.
Fairness ==
  /\ WF_vars(TakeRegistration)
  /\ WF_vars(SeeConnectionEnd)
  /\ WF_vars(RegistrationTimesOut)
  /\ WF_vars(SeeShutdown)
  /\ WF_vars(StreamsDrained)
  /\ WF_vars(ControlJoined)
  /\ WF_vars(Control)
  /\ WF_vars(Session)
  /\ WF_vars(ConnectorReturns)

FairSpec == Spec /\ Fairness

-----------------------------------------------------------------------------
\* run_h2 is an attempt as EdgeConnector::run expects it: a refusal is never
\* reported for a registration it saw, and a closed connection is no Ok.
ImplementsAttempt == Contract!Spec

\* The registration time that resets the backoff stands for a connection the
\* edge registered (runtime.rs:206-215, register.rs:40-47).
RegistrationTimeEarned == report.registered => answer = "registered"

\* The state is typed, and no stream task runs on once serve returned, however
\* it returned (h2/mod.rs:106, 132-163, 172-179).
StreamsEndWithServe ==
  /\ TypeOK
  /\ serve = "over" => \A s \in Streams : streams[s] # "open"

\* The end of the connection ends the attempt, before, during and after the
\* registration (runtime.rs:207-243).
LostConnectionEndsAttempt == conn # "open" ~> pc \in Over

\* A drain ends although streams hang and although the control task was not
\* yet listening when it was notified (h2/mod.rs:172-178).
DrainIsBounded == serve = "draining" ~> serve = "over"
=============================================================================
