-------------------------- MODULE QuicSessionProofs -------------------------
(***************************************************************************)
(* Proofs about QuicSession for any set of request streams: an attempt     *)
(* over QUIC is an attempt as the run loop expects it, cuts no request     *)
(* whose connection lives, and leaves no open connection unserved.         *)
(***************************************************************************)
EXTENDS QuicSession, TLAPS

\* The connector and the session wait on one flag: only a fired one wakes.
SignalInv == shutdown.woken # {} => shutdown.fired

\* The serve task starts when the attempt begins to serve; the unregister call
\* and the drain follow its end (runtime.rs:126-150).
ServeInv ==
  /\ pc \in {"registering", "configuring"} => serve = "none"
  /\ pc \in {"unregistering", "draining"} => serve = "over"
  /\ serve = "over" => \A r \in Requests : requests[r] # "open"

\* Nothing is reported before the attempt has ended.
ReportInv == pc # "ended" => report = Contract!None

IInv ==
  /\ TypeOK
  /\ SignalInv
  /\ ServeInv
  /\ ReportInv
  /\ NoUnservedConnection

\* The definitions a step on the flag expands.
LEMMA EventSteps ==
  ASSUME NEW e \in EventOf({"connector", "session"}), e.woken # {} => e.fired
  PROVE  /\ Fire(e) \in EventOf({"connector", "session"}) /\ Fire(e).fired
         /\ \A w \in {"connector", "session"} :
              /\ Listen(e, w) \in EventOf({"connector", "session"})
              /\ Listen(e, w).fired = e.fired
              /\ Listen(e, w).woken # {} => e.fired
              /\ Drop(e, w) \in EventOf({"connector", "session"})
              /\ Drop(e, w).fired = e.fired
              /\ Drop(e, w).woken # {} => e.fired
              /\ Woken(e, w) => e.fired
         /\ [e EXCEPT !.live = {}, !.woken = {}] \in EventOf({"connector", "session"})
         /\ [e EXCEPT !.live = {}, !.woken = {}].fired = e.fired
         /\ [e EXCEPT !.live = {}, !.woken = {}].woken = {}
BY DEF EventOf, Fire, Listen, Drop, Woken

\* The flag as an attempt finds it, whether shutdown was requested before or
\* not: it has woken nobody.
LEMMA InitialFlag ==
  ASSUME Init
  PROVE  shutdown \in EventOf({"connector", "session"}) /\ shutdown.woken = {}
<1>1. PICK e \in {NewEvent, Fire(NewEvent)} : shutdown = Listen(e, "connector")
  BY DEF Init
<1>2. e \in EventOf({"connector", "session"}) /\ e.woken = {}
  <2>1. CASE e = NewEvent
    BY <2>1 DEF NewEvent, EventOf
  <2>2. CASE e = Fire(NewEvent)
    BY <2>2 DEF NewEvent, Fire, EventOf
  <2> QED
    BY <2>1, <2>2
<1> QED
  BY <1>1, <1>2 DEF Listen, EventOf

\* The JoinSet that is dropped leaves no request open and opens none.
LEMMA CutFacts ==
  ASSUME TypeOK
  PROVE  /\ Cut \in [Requests -> {"idle", "open", "done", "cut"}]
         /\ \A r \in Requests : Cut[r] # "open"
BY DEF TypeOK, Cut

-----------------------------------------------------------------------------
\* A refused or failed registration keeps the invariant: nothing was served.
LEMMA FailEarlyKeepsIInv ==
  ASSUME IInv, pc \in {"registering", "configuring"},
         NEW result \in {"error", "duplicate", "permanent"}, FailEarly(result)
  PROVE  IInv'
<1>1. shutdown' \in EventOf({"connector", "session"}) /\ shutdown'.woken = {}
  BY EventSteps DEF IInv, TypeOK, SignalInv, FailEarly
<1>2. report' \in Contract!Reports
  BY DEF FailEarly, Contract!Failed, Contract!Reports, Contract!Results
<1>3. conn' \in {"open", "idle", "lost", "closed"}
      /\ (backend = "quinn" => conn' # "open")
  BY DEF IInv, TypeOK, FailEarly, Dropped, Closed
<1>4. TypeOK'
  BY <1>1, <1>2, <1>3 DEF IInv, TypeOK, FailEarly, Over
<1> QED
  BY <1>1, <1>3, <1>4
     DEF IInv, SignalInv, ServeInv, ReportInv, NoUnservedConnection, FailEarly

\* The end of run_quic closes the connection, whichever library it is.
LEMMA FinishKeepsIInv ==
  ASSUME IInv, pc \in {"unregistering", "draining"}, Finish
  PROVE  IInv'
<1>1. /\ shutdown \in EventOf({"connector", "session"})
      /\ shutdown.woken # {} => shutdown.fired
  BY DEF IInv, TypeOK, SignalInv
<1>2. SignalInv' /\ shutdown' \in EventOf({"connector", "session"})
  BY <1>1, EventSteps DEF SignalInv, Finish
<1>3. report' \in Contract!Reports
  BY DEF Finish, Contract!Reports, Contract!Results
<1>4. conn' \in {"idle", "lost", "closed"}
  BY DEF IInv, TypeOK, Finish, Closed
<1>5. serve = "over" /\ serve' = "over" /\ (requests' = requests \/ requests' = Cut)
  BY DEF IInv, ServeInv, Finish
<1>6. /\ requests' \in [Requests -> {"idle", "open", "done", "cut"}]
      /\ \A r \in Requests : requests'[r] # "open"
  BY <1>5, CutFacts DEF IInv, TypeOK, ServeInv
<1>7. TypeOK'
  BY <1>2, <1>3, <1>4, <1>5, <1>6 DEF IInv, TypeOK, Finish, Over
<1> QED
  BY <1>2, <1>4, <1>5, <1>6, <1>7
     DEF IInv, ServeInv, ReportInv, NoUnservedConnection, Finish

\* The strengthened invariant is inductive.
LEMMA IInvHolds == Spec => []IInv
<1>1. Init => IInv
  <2> SUFFICES ASSUME Init PROVE IInv
    OBVIOUS
  <2>1. shutdown \in EventOf({"connector", "session"}) /\ SignalInv
    BY InitialFlag DEF SignalInv
  <2> QED
    BY <2>1 DEF Init, IInv, TypeOK, ServeInv, ReportInv, NoUnservedConnection, Over
<1>2. IInv /\ [Next]_vars => IInv'
  <2> SUFFICES ASSUME IInv, [Next]_vars
               PROVE  IInv'
    OBVIOUS
  <2>1. TypeOK /\ SignalInv /\ ServeInv /\ ReportInv /\ NoUnservedConnection
    BY DEF IInv
  <2>2. shutdown \in EventOf({"connector", "session"})
        /\ (shutdown.woken # {} => shutdown.fired)
    BY <2>1 DEF TypeOK, SignalInv
  <2>3. CASE FireShutdown
    <3>1. SignalInv' /\ shutdown' \in EventOf({"connector", "session"})
      BY <2>2, <2>3, EventSteps DEF FireShutdown, SignalInv
    <3> QED
      BY <3>1, <2>1, <2>3
         DEF FireShutdown, IInv, TypeOK, ServeInv, ReportInv, NoUnservedConnection
  <2>4. ASSUME NEW how \in {"idle", "lost"}, ConnectionFails(how) PROVE IInv'
    BY <2>1, <2>4 DEF ConnectionFails, IInv, TypeOK, SignalInv, ServeInv, ReportInv,
                      NoUnservedConnection
  <2>5. ASSUME NEW a \in Answers, EdgeAnswers(a) PROVE IInv'
    BY <2>1, <2>5 DEF EdgeAnswers, Answers, IInv, TypeOK, SignalInv, ServeInv,
                      ReportInv, NoUnservedConnection
  <2>6. CASE SessionEnds
    BY <2>6, FailEarlyKeepsIInv
       DEF SessionEnds, RegistrationFails, RegistrationRefused, ConfigurationTimesOut
  <2>7. CASE Registered \/ Configured
    <3>1. CASE StartServing /\ pc' = "serving"
      <4>1. SignalInv' /\ shutdown' \in EventOf({"connector", "session"})
        BY <3>1, <2>2, EventSteps DEF StartServing, SignalInv
      <4> QED
        BY <3>1, <4>1, <2>1, <2>7
           DEF Registered, Configured, Proceed, StartServing, IInv, TypeOK, ServeInv,
               ReportInv, NoUnservedConnection, Over
    <3>2. CASE Proceed("registering", "configuring")
               /\ UNCHANGED <<report, shutdown, conn, answer, unregister, serve,
                              requests, backend>>
      BY <3>2, <2>1 DEF Proceed, IInv, TypeOK, SignalInv, ServeInv, ReportInv,
                        NoUnservedConnection, Over
    <3> QED
      BY <3>1, <3>2, <2>7 DEF Registered, Configured, Proceed
  <2>8. ASSUME NEW r \in Requests, AcceptStream(r) \/ RequestEnds(r) PROVE IInv'
    BY <2>1, <2>8 DEF AcceptStream, RequestEnds, IInv, TypeOK, SignalInv, ServeInv,
                      ReportInv, NoUnservedConnection
  <2>9. CASE ServeEnds
    BY <2>1, <2>9, CutFacts DEF ServeEnds, IInv, TypeOK, SignalInv, ServeInv,
                                ReportInv, NoUnservedConnection
  <2>10. CASE SeeServeEnd
    <3>1. SignalInv' /\ shutdown' \in EventOf({"connector", "session"})
      BY <2>2, <2>10, EventSteps DEF SeeServeEnd, SignalInv
    <3> QED
      BY <3>1, <2>1, <2>10 DEF SeeServeEnd, Proceed, IInv, TypeOK, ServeInv, ReportInv,
                               NoUnservedConnection, Over
  <2>11. CASE EdgeUnregisters
    BY <2>1, <2>11 DEF EdgeUnregisters, IInv, TypeOK, SignalInv, ServeInv, ReportInv,
                       NoUnservedConnection
  <2>12. CASE UnregisterReturns
    <3>1. CASE shutdown.fired
      BY <3>1, <2>1, <2>12
         DEF UnregisterReturns, Proceed, IInv, TypeOK, SignalInv, ServeInv, ReportInv,
             NoUnservedConnection, Over
    <3>2. CASE ~shutdown.fired
      BY <3>2, <2>12, FinishKeepsIInv DEF UnregisterReturns
    <3> QED
      BY <3>1, <3>2
  <2>13. CASE GraceElapses
    BY <2>13, FinishKeepsIInv DEF GraceElapses
  <2>14. ASSUME NEW last \in LastPolls, ConnectorReturns(last) PROVE IInv'
    <3>1. shutdown' \in EventOf({"connector", "session"}) /\ shutdown'.woken = {}
      BY <2>2, <2>14, EventSteps DEF ConnectorReturns
    <3>2. /\ conn' \in {"open", "idle", "lost", "closed"}
          /\ backend = "quinn" /\ conn' = "open" => serve' = "running"
          /\ serve' \in {"none", "running", "over"}
          /\ serve' = "over" => serve = "over"
          /\ unregister' \in {"none", "sent", "done"}
      BY <2>1, <2>14 DEF ConnectorReturns, Dropped, Closed, TypeOK
    <3> QED
      BY <3>1, <3>2, <2>1, <2>14
         DEF ConnectorReturns, IInv, TypeOK, SignalInv, ServeInv, ReportInv,
             NoUnservedConnection, Over
  <2>15. CASE UNCHANGED vars
    BY <2>1, <2>15 DEF vars, IInv, TypeOK, SignalInv, ServeInv, ReportInv,
                       NoUnservedConnection
  <2> QED
    BY <2>3, <2>4, <2>5, <2>6, <2>7, <2>8, <2>9, <2>10, <2>11, <2>12, <2>13, <2>14,
       <2>15 DEF Next
<1> QED
  BY <1>1, <1>2, PTL DEF Spec

-----------------------------------------------------------------------------
\* An attempt that is over leaves no open quinn connection that nobody serves
\* (runtime.rs:106-120, 136-161).
THEOREM NoConnectionUnserved == Spec => []NoUnservedConnection
BY IInvHolds, PTL DEF IInv

\* No shutdown, refusal or end of an attempt cuts a request: only the loss of
\* its connection does (serve.rs:35-71, runtime.rs:136-150).
THEOREM RequestsAreNotCut == Spec => InFlightNotCut
<1>1. IInv /\ [Next]_vars
        => [\A r \in Requests :
              requests[r] = "open" /\ requests'[r] = "cut" => conn # "open"]_vars
  <2> SUFFICES ASSUME IInv, Next, NEW r \in Requests,
                      requests[r] = "open", requests'[r] = "cut"
               PROVE  conn # "open"
    BY DEF vars
  <2>1. CASE ServeEnds
    BY <2>1 DEF ServeEnds
  <2>2. ASSUME NEW q \in Requests, AcceptStream(q) \/ RequestEnds(q)
        PROVE  requests'[r] # "cut"
    BY <2>2 DEF AcceptStream, RequestEnds, IInv, TypeOK
  <2>3. CASE UnregisterReturns \/ GraceElapses
    BY <2>3 DEF UnregisterReturns, GraceElapses, IInv, ServeInv
  <2>4. CASE UNCHANGED requests
    BY <2>4
  <2> QED
    BY <2>1, <2>2, <2>3, <2>4
       DEF Next, FireShutdown, ConnectionFails, EdgeAnswers, SessionEnds,
           RegistrationFails, RegistrationRefused, ConfigurationTimesOut, FailEarly,
           Registered, Configured, StartServing, SeeServeEnd, EdgeUnregisters,
           ConnectorReturns
<1> QED
  BY <1>1, IInvHolds, PTL DEF Spec, InFlightNotCut

\* run_quic is a connection attempt as EdgeConnector::run expects one: it
\* reports once, a refusal only before it served, an idle timeout only after
\* (runtime.rs:21-42, 93-161).
THEOREM QuicSessionIsAttempt == Spec => ImplementsAttempt
<1>1. Init => Contract!Init
  <2> SUFFICES ASSUME Init PROVE Contract!Init
    OBVIOUS
  <2>1. shutdown.fired \in BOOLEAN
    BY InitialFlag DEF EventOf
  <2> QED
    BY <2>1 DEF Init, Contract!Init
<1>2. IInv /\ [Next]_vars => [Contract!Next]_(Contract!vars)
  <2> SUFFICES ASSUME IInv, [Next]_vars
               PROVE  Contract!Next \/ UNCHANGED Contract!vars
    OBVIOUS
  <2>1. TypeOK /\ SignalInv /\ ServeInv /\ ReportInv
    BY DEF IInv
  <2>2. shutdown \in EventOf({"connector", "session"})
        /\ (shutdown.woken # {} => shutdown.fired)
    BY <2>1 DEF TypeOK, SignalInv
  <2>3. CASE FireShutdown
    <3>1. Contract!RequestShutdown
      BY <2>2, <2>3, EventSteps DEF FireShutdown, Contract!RequestShutdown
    <3> QED
      BY <3>1 DEF Contract!Next
  <2>4. CASE SessionEnds
    <3>1. PICK result \in {"error", "duplicate", "permanent"} :
            FailEarly(result) /\ pc \in {"registering", "configuring"}
      BY <2>4 DEF SessionEnds, RegistrationFails, RegistrationRefused,
                  ConfigurationTimesOut
    <3>2. Contract!Failed(result) \in Contract!Reports
      BY DEF Contract!Failed, Contract!Reports, Contract!Results
    <3>3. shutdown'.fired = shutdown.fired
      BY <2>2, <3>1, EventSteps DEF FailEarly
    <3>4. Contract!Report(Contract!Failed(result))
      BY <3>1, <3>3 DEF FailEarly, Contract!Report, Contract!Failed
    <3> QED
      BY <3>2, <3>4 DEF Contract!Next
  <2>5. CASE Registered \/ Configured
    <3>1. shutdown'.fired = shutdown.fired
      BY <2>2, <2>5, EventSteps DEF Registered, Configured, StartServing
    <3>2. CASE pc' = "serving"
      <4>1. Contract!Register
        BY <2>5, <3>1, <3>2
           DEF Registered, Configured, Proceed, StartServing, Contract!Register
      <4> QED
        BY <4>1 DEF Contract!Next
    <3>3. CASE pc' = "configuring"
      BY <2>5, <3>1, <3>3 DEF Registered, Configured, Proceed, Contract!vars
    <3> QED
      BY <3>2, <3>3, <2>5 DEF Registered, Configured, Proceed
  <2>6. CASE Finish /\ pc \in {"unregistering", "draining"}
    <3> DEFINE r == [result |-> "error", registered |-> TRUE, timedOut |-> conn = "idle"]
    <3>1. r \in Contract!Reports
      BY DEF Contract!Reports, Contract!Results
    <3>2. shutdown'.fired = shutdown.fired
      BY <2>2, <2>6, EventSteps DEF Finish
    <3>3. Contract!Report(r)
      BY <2>6, <3>2 DEF Finish, Contract!Report
    <3> QED
      BY <3>1, <3>3 DEF Contract!Next
  <2>7. CASE \E last \in LastPolls : ConnectorReturns(last)
    <3>1. shutdown.fired /\ shutdown'.fired = shutdown.fired
      BY <2>2, <2>7, EventSteps DEF ConnectorReturns
    <3>2. Contract!Abandon
      BY <2>1, <2>7, <3>1 DEF ConnectorReturns, Over, TypeOK, Contract!Abandon
    <3> QED
      BY <3>2 DEF Contract!Next
  <2>8. CASE SeeServeEnd \/ (UnregisterReturns /\ shutdown.fired)
    <3>1. shutdown'.fired = shutdown.fired
      BY <2>2, <2>8, EventSteps DEF SeeServeEnd, UnregisterReturns
    <3> QED
      BY <2>8, <3>1 DEF SeeServeEnd, UnregisterReturns, Proceed, Contract!vars
  <2>9. CASE UNCHANGED <<pc, report, shutdown>>
    BY <2>9 DEF Contract!vars
  <2> QED
    BY <2>3, <2>4, <2>5, <2>6, <2>7, <2>8, <2>9
       DEF Next, vars, ConnectionFails, EdgeAnswers, AcceptStream, RequestEnds,
           ServeEnds, EdgeUnregisters, UnregisterReturns, GraceElapses
<1> QED
  BY <1>1, <1>2, IInvHolds, PTL DEF Spec, ImplementsAttempt, Contract!Spec
=============================================================================
