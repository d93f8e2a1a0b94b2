----------------------------- MODULE QuicSession ----------------------------
(***************************************************************************)
(* One connection attempt over QUIC: run_quic (connector/runtime.rs), the  *)
(* serve_requests task it spawns (edge/serve.rs), the registration and     *)
(* unregistration of edge/control.rs, and the select! of EdgeConnector::   *)
(* run (connector/mod.rs) that polls run_quic beside its own notified().   *)
(* The attempt starts on an established connection.                        *)
(***************************************************************************)
EXTENDS Events

CONSTANT Requests   \* the request streams the edge may open

VARIABLES
  pc,          \* run_quic: where it is, or how it went
  report,      \* the ServeAttempt it returned
  shutdown,    \* shutdown_flag; the connector and run_quic wait on it
  conn,        \* the QUIC connection
  answer,      \* the edge's answer to registerConnection
  unregister,  \* unregisterConnection: not sent, sent, carried out by the edge
  serve,       \* the serve_requests task
  requests,    \* the task of each request stream
  backend      \* the QUIC library compiled in: quinn or quiche

vars == <<pc, report, shutdown, conn, answer, unregister, serve, requests,
          backend>>

Contract == INSTANCE ServeAttempt WITH
  phase <- CASE pc \in {"registering", "configuring"} -> "registering"
             [] pc \in {"serving", "unregistering", "draining"} -> "serving"
             [] OTHER -> "over",
  fired <- shutdown.fired,
  report <- report

Over == {"ended", "dropped"}

TypeOK ==
  /\ pc \in {"registering", "configuring", "serving", "unregistering",
             "draining"} \cup Over
  /\ report \in Contract!Reports \cup {Contract!None}
  /\ shutdown \in EventOf({"connector", "session"})
  /\ conn \in {"open", "idle", "lost", "closed"}
  /\ answer \in {"none", "registered", "duplicate", "permanent", "error"}
  /\ unregister \in {"none", "sent", "done"}
  /\ serve \in {"none", "running", "over"}
  /\ requests \in [Requests -> {"idle", "open", "done", "cut"}]
  /\ backend \in {"quinn", "quiche"}

\* The select! of connector/mod.rs:102 has created its future; shutdown may
\* have fired before that, while the connector was not listening.
Init ==
  /\ pc = "registering"
  /\ report = Contract!None
  /\ shutdown \in {Listen(e, "connector") : e \in {NewEvent, Fire(NewEvent)}}
  /\ conn = "open"
  /\ answer = "none"
  /\ unregister = "none"
  /\ serve = "none"
  /\ requests = [r \in Requests |-> "idle"]
  /\ backend \in {"quinn", "quiche"}

-----------------------------------------------------------------------------
\* The requests whose tasks die with the JoinSet of serve_requests.
Cut == [r \in Requests |-> IF requests[r] = "open" THEN "cut" ELSE requests[r]]

\* connection.close().
Closed == IF conn = "open" THEN "closed" ELSE conn

\* Variant: the driver task keeps the connection alive with either library.
DroppedNever == conn

\* The last handle is dropped.  quinn closes the connection; quiche's driver
\* task holds it too and goes on sending keep-alives.
Dropped == IF backend = "quinn" THEN Closed ELSE conn

\* run_quic takes a step that does not finish it: the select! polls the
\* connector's branch too, so the connector is not ready to return.
Proceed(from, to) ==
  /\ pc = from
  /\ ~Woken(shutdown, "connector")
  /\ pc' = to

FireShutdown ==
  /\ ~shutdown.fired
  /\ shutdown' = Fire(shutdown)
  /\ UNCHANGED <<pc, report, conn, answer, unregister, serve, requests, backend>>

\* The peer is silent past the idle timeout, or the connection breaks.
ConnectionFails(how) ==
  /\ conn = "open"
  /\ conn' = how
  /\ UNCHANGED <<pc, report, shutdown, answer, unregister, serve, requests, backend>>

EdgeAnswers(a) ==
  /\ pc = "registering"
  /\ conn = "open"
  /\ answer = "none"
  /\ answer' = a
  /\ UNCHANGED <<pc, report, shutdown, conn, unregister, serve, requests, backend>>

\* The attempt fails before it served: the boxed connection is dropped.
FailEarly(result) ==
  /\ pc' = "ended"
  /\ report' = Contract!Failed(result)
  /\ shutdown' = [shutdown EXCEPT !.live = {}, !.woken = {}]
  /\ conn' = Dropped
  /\ UNCHANGED <<answer, unregister, serve, requests, backend>>

\* register_on_stream got an error, or the RPC timeout passed first.
RegistrationFails ==
  /\ pc = "registering"
  /\ FailEarly("error")

\* The edge refused: a duplicate, for good, or for now.
RegistrationRefused ==
  /\ pc = "registering"
  /\ answer \in {"duplicate", "permanent", "error"}
  /\ FailEarly(answer)

\* A locally managed tunnel still pushes its configuration under the same
\* timeout, which fails an attempt the edge holds as registered.
ConfigurationTimesOut ==
  /\ pc = "configuring"
  /\ FailEarly("error")

StartServing ==
  /\ serve' = "running"
  /\ shutdown' = Listen(shutdown, "session")
  /\ UNCHANGED <<report, conn, answer, unregister, requests, backend>>

Registered ==
  /\ answer = "registered"
  /\ \/ /\ Proceed("registering", "serving")        \* remotely managed
        /\ StartServing
     \/ /\ Proceed("registering", "configuring")
        /\ UNCHANGED <<report, shutdown, conn, answer, unregister, serve, requests, backend>>

\* The push was answered or failed; a failure is only logged.
Configured ==
  /\ Proceed("configuring", "serving")
  /\ StartServing

AcceptStream(r) ==
  /\ serve = "running"
  /\ conn = "open"
  /\ requests[r] = "idle"
  /\ requests' = [requests EXCEPT ![r] = "open"]
  /\ UNCHANGED <<pc, report, shutdown, conn, answer, unregister, serve, backend>>

RequestEnds(r) ==
  /\ requests[r] = "open"
  /\ requests' = [requests EXCEPT ![r] = "done"]
  /\ UNCHANGED <<pc, report, shutdown, conn, answer, unregister, serve, backend>>

\* Variant: the request tasks are spawned on the runtime, not in the JoinSet.
ServeEndsAlone ==
  /\ serve = "running"
  /\ conn # "open"
  /\ serve' = "over"
  /\ UNCHANGED <<pc, report, shutdown, conn, answer, unregister, requests,
                 backend>>

\* accept_stream fails: serve_requests returns and drops its tasks.
ServeEnds ==
  /\ serve = "running"
  /\ conn # "open"
  /\ serve' = "over"
  /\ requests' = Cut
  /\ UNCHANGED <<pc, report, shutdown, conn, answer, unregister, backend>>

\* run_quic's select! takes the serve handle and drops its notified(); the
\* unregister call that follows meets a connection that is already gone.
SeeServeEnd ==
  /\ serve = "over"
  /\ Proceed("serving", "unregistering")
  /\ shutdown' = Drop(shutdown, "session")
  /\ UNCHANGED <<report, conn, answer, unregister, serve, requests, backend>>

EdgeUnregisters ==
  /\ unregister = "sent"
  /\ conn = "open"
  /\ unregister' = "done"
  /\ UNCHANGED <<pc, report, shutdown, conn, answer, serve, requests, backend>>

\* Variant: an accept loop that ended is not an error.
FinishOk ==
  /\ pc' = "ended"
  /\ report' = [result |-> "ok", registered |-> TRUE, timedOut |-> conn = "idle"]
  /\ conn' = Closed
  /\ shutdown' = Drop(shutdown, "connector")
  /\ serve' = "over"
  /\ requests' = Cut
  /\ UNCHANGED <<answer, unregister, backend>>

\* timed_out, close, abort unless shutting down, and the ServeAttempt.  The
\* serve handle was ready, so its error is the result.
Finish ==
  /\ pc' = "ended"
  /\ report' = [result |-> "error", registered |-> TRUE,
                timedOut |-> conn = "idle"]
  /\ conn' = Closed
  /\ shutdown' = Drop(shutdown, "connector")
  /\ IF shutdown.fired
       THEN UNCHANGED <<serve, requests>>
       ELSE serve' = "over" /\ requests' = Cut
  /\ UNCHANGED <<answer, unregister, backend>>

\* Variant: no bound on the unregister RPC.
UnregisterReturnsUnbounded ==
  /\ pc = "unregistering"
  /\ unregister = "done"
  /\ IF shutdown.fired
       THEN /\ Proceed("unregistering", "draining")
            /\ UNCHANGED <<report, shutdown, conn, answer, unregister, serve, requests, backend>>
       ELSE Finish

\* unregister returns: answered, failed, or after the grace period.
UnregisterReturns ==
  /\ pc = "unregistering"
  /\ IF shutdown.fired
       THEN /\ Proceed("unregistering", "draining")
            /\ UNCHANGED <<report, shutdown, conn, answer, unregister, serve, requests, backend>>
       ELSE Finish

\* The grace period after an unregistration under shutdown is over.
GraceElapses ==
  /\ pc = "draining"
  /\ Finish

\* Variant: dropping run_quic aborts the serve task.
ConnectorReturnsAborting(last) ==
  /\ pc \notin Over
  /\ Woken(shutdown, "connector")
  /\ last = "nothing"
  /\ pc' = "dropped"
  /\ conn' = Dropped
  /\ shutdown' = [shutdown EXCEPT !.live = {}, !.woken = {}]
  /\ serve' = "over"
  /\ requests' = Cut
  /\ UNCHANGED <<report, answer, unregister, backend>>

\* What a last poll of run_quic may still do before it is dropped: write the
\* unregister call, or spawn the serve task after a registration.
LastPolls == {"nothing", "unregister", "serve"}

\* The connector's notified() is ready: run returns Ok and drops run_quic,
\* which the select! may have polled once more first.  A running serve task is
\* detached, not aborted, and its handle keeps the connection open.
ConnectorReturns(last) ==
  /\ pc \notin Over
  /\ Woken(shutdown, "connector")
  /\ last = "unregister"
       => pc = "serving" /\ Woken(shutdown, "session") /\ conn = "open"
  /\ last = "serve"
       => pc = "configuring" \/ (pc = "registering" /\ answer = "registered")
  /\ pc' = "dropped"
  /\ unregister' = IF last = "unregister" THEN "sent" ELSE unregister
  /\ serve' = IF last = "serve" THEN "running" ELSE serve
  /\ conn' = IF serve' = "running" THEN conn ELSE Dropped
  /\ shutdown' = [shutdown EXCEPT !.live = {}, !.woken = {}]
  /\ UNCHANGED <<report, answer, requests, backend>>

Answers == {"registered", "duplicate", "permanent", "error"}

SessionEnds == RegistrationFails \/ RegistrationRefused \/ ConfigurationTimesOut

Next ==
  \/ FireShutdown
  \/ \E how \in {"idle", "lost"} : ConnectionFails(how)
  \/ \E a \in Answers : EdgeAnswers(a)
  \/ SessionEnds
  \/ Registered
  \/ Configured
  \/ \E r \in Requests : AcceptStream(r) \/ RequestEnds(r)
  \/ ServeEnds
  \/ SeeServeEnd
  \/ EdgeUnregisters
  \/ UnregisterReturns
  \/ GraceElapses
  \/ \E last \in LastPolls : ConnectorReturns(last)

Spec == Init /\ [][Next]_vars

(***************************************************************************)
(* Timers fire (RPC_TIMEOUT, the grace period) and ready tasks are polled. *)
(* The edge need not answer, requests need not end, a healthy connection   *)
(* need not fail.                                                          *)
(***************************************************************************)
Fairness ==
  /\ WF_vars(SessionEnds \/ Registered \/ Configured)
  /\ WF_vars(ServeEnds)
  /\ WF_vars(SeeServeEnd)
  /\ WF_vars(UnregisterReturns)
  /\ WF_vars(GraceElapses)
  /\ WF_vars(\E last \in LastPolls : ConnectorReturns(last))

FairSpec == Spec /\ Fairness

-----------------------------------------------------------------------------
\* A request in flight is cut only once the connection under it is gone: no
\* shutdown, refusal or end of the attempt aborts it (serve.rs:35-71,
\* runtime.rs:136-150, mod.rs:102-103).
InFlightNotCut ==
  [][\A r \in Requests :
       requests[r] = "open" /\ requests'[r] = "cut" => conn # "open"]_vars

\* The state is typed, and an attempt that is over leaves no open connection
\* that nobody serves, or the edge would route requests into it.  True of
\* quinn; with quiche a failed or dropped registration leaves one behind
\* (runtime.rs:106-120, quiche/mod.rs:81-86).
NoUnservedConnection ==
  /\ TypeOK
  /\ backend = "quinn" /\ pc \in Over /\ conn = "open" => serve = "running"

\* A dead connection ends the attempt, although the unregister RPC on it can
\* not be answered (runtime.rs:136-161, control.rs:149-170).
LostConnectionEndsAttempt == conn # "open" ~> pc \in Over

\* No request task outlives its connection, not even one the attempt left
\* behind when the connector dropped it (serve.rs:35, 63-70).
DeadConnectionFreesRequests ==
  \A r \in Requests :
    requests[r] = "open" /\ conn # "open" ~> requests[r] # "open"

\* run_quic is an attempt as EdgeConnector::run expects it.
ImplementsAttempt == Contract!Spec

\* "Bounded time to wait for a graceful unregister and for in-flight requests
\* to drain after shutdown" (options.rs:40-41).  No timer passes in the step in
\* which run drops a serving session, so none of its requests may be open then.
GracefulShutdown ==
  [][pc = "serving" /\ pc' = "dropped" /\ conn = "open"
       => \A r \in Requests : requests[r] # "open"]_vars
=============================================================================
