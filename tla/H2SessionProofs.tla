--------------------------- MODULE H2SessionProofs --------------------------
(***************************************************************************)
(* Proofs about H2Session for any set of request streams: an attempt over  *)
(* HTTP/2 is an attempt as the run loop expects it, its registration time  *)
(* stands for an answer of the edge, and its streams end with serve.       *)
(***************************************************************************)
EXTENDS H2Session, TLAPS

Waiters == {"connector", "session", "serve"}

\* Three tasks wait on the flag of the shutdown: only a fired one wakes.
SignalInv == shutdown.woken # {} => shutdown.fired

\* The oneshot is sent when the control task is done registering, and an Ok in
\* it, the signal beside it and the time run_h2 took all stand for the answer
\* of the edge (register.rs:40-62, runtime.rs:206-215).
RegistrationInv ==
  /\ registration # "empty" => control \notin {"none", "registering"}
  /\ registration = "ok" => answer = "registered"
  /\ registered.fired \/ registered.woken # {} \/ registeredAt => registration = "ok"

\* A serve that is over has a result, and a refusal in it is the one it took
\* from the oneshot (h2/mod.rs:119-131).
ResultInv ==
  /\ serve = "over" => serveResult # "none"
  /\ serveResult \in {"duplicate", "permanent"} => registration = serveResult

\* What run_h2 reports is what it saw, and it sees a registration only when it
\* is done waiting for one.
ReportInv ==
  /\ pc \in {"starting", "registering"} => ~registeredAt
  /\ pc # "ended" => report = Contract!None
  /\ report.registered => registeredAt

IInv ==
  /\ TypeOK
  /\ SignalInv
  /\ RegistrationInv
  /\ ResultInv
  /\ ReportInv
  /\ StreamsEndWithServe

-----------------------------------------------------------------------------
\* What the operations on a signal keep: its type, and that only a fired one
\* has woken a waiter (event.rs:32-43).
LEMMA EventSteps ==
  ASSUME NEW W, NEW e \in EventOf(W), NEW w \in W
  PROVE  /\ Fire(e) \in EventOf(W) /\ Fire(e).fired
         /\ Listen(e, w) \in EventOf(W)
         /\ Listen(e, w).fired = e.fired
         /\ Listen(e, w).woken # {} => e.woken # {}
         /\ Drop(e, w) \in EventOf(W)
         /\ Drop(e, w).fired = e.fired
         /\ Drop(e, w).woken # {} => e.woken # {}
         /\ Woken(e, w) => e.woken # {}
BY DEF EventOf, Fire, Listen, Drop, Woken

\* The flag as an attempt finds it, whether shutdown was requested before or
\* not: it has woken nobody.
LEMMA InitialFlag ==
  ASSUME Init
  PROVE  shutdown \in EventOf(Waiters) /\ shutdown.woken = {}
<1>1. PICK e \in {NewEvent, Fire(NewEvent)} :
        shutdown = Listen(Listen(e, "connector"), "serve")
  BY DEF Init
<1>2. e \in EventOf(Waiters) /\ e.woken = {}
  <2>1. CASE e = NewEvent
    BY <2>1 DEF NewEvent, EventOf
  <2>2. CASE e = Fire(NewEvent)
    BY <2>2 DEF NewEvent, Fire, EventOf
  <2> QED
    BY <2>1, <2>2
<1> DEFINE e1 == Listen(e, "connector")
<1>3. e1 \in EventOf(Waiters) /\ e1.woken = {}
  BY <1>2, EventSteps DEF Waiters
<1> HIDE DEF e1
<1>4. Listen(e1, "serve") \in EventOf(Waiters) /\ Listen(e1, "serve").woken = {}
  <2>1. "serve" \in Waiters
    BY DEF Waiters
  <2> QED
    BY <2>1, <1>3, EventSteps
<1> QED
  BY <1>1, <1>4 DEF e1

\* The JoinSet that is dropped leaves no stream open and opens none.
LEMMA CutFacts ==
  ASSUME TypeOK
  PROVE  /\ Cut \in [Streams -> {"idle", "open", "done", "cut"}]
         /\ \A s \in Streams : Cut[s] # "open"
BY DEF TypeOK, Cut

\* Both flags that a step of serve or of run_h2 may touch, in one place.
LEMMA FlagSteps ==
  ASSUME TypeOK, SignalInv
  PROVE  /\ Fire(shutdown) \in EventOf(Waiters) /\ Fire(shutdown).fired
         /\ \A w \in Waiters :
              /\ Listen(shutdown, w) \in EventOf(Waiters)
              /\ Listen(shutdown, w).fired = shutdown.fired
              /\ Listen(shutdown, w).woken # {} => shutdown.fired
              /\ Drop(shutdown, w) \in EventOf(Waiters)
              /\ Drop(shutdown, w).fired = shutdown.fired
              /\ Drop(shutdown, w).woken # {} => shutdown.fired
              /\ Woken(shutdown, w) => shutdown.fired
         /\ Fire(controlShutdown) \in EventOf({"control"})
         /\ Listen(controlShutdown, "control") \in EventOf({"control"})
         /\ Drop(controlShutdown, "control") \in EventOf({"control"})
<1>1. shutdown \in EventOf(Waiters) /\ controlShutdown \in EventOf({"control"})
  BY DEF TypeOK, Waiters
<1> QED
  BY <1>1, EventSteps DEF SignalInv, Waiters

\* run_h2 lets go of both its waits at once.
LEMMA SessionDrops ==
  ASSUME TypeOK, SignalInv,
         shutdown' = Drop(Drop(shutdown, "connector"), "session")
  PROVE  /\ shutdown' \in EventOf(Waiters)
         /\ shutdown'.fired = shutdown.fired
         /\ shutdown'.woken # {} => shutdown.fired
<1> DEFINE e == Drop(shutdown, "connector")
<1>1. e \in EventOf(Waiters) /\ e.fired = shutdown.fired
      /\ (e.woken # {} => shutdown.fired)
  BY FlagSteps DEF Waiters
<1> HIDE DEF e
<1>2. /\ Drop(e, "session") \in EventOf(Waiters)
      /\ Drop(e, "session").fired = e.fired
      /\ Drop(e, "session").woken # {} => e.woken # {}
  <2>1. "session" \in Waiters
    BY DEF Waiters
  <2> QED
    BY <2>1, <1>1, EventSteps
<1> QED
  BY <1>1, <1>2 DEF e

\* What StopServe leaves behind, whichever result it stops with.
LEMMA StopServeKeepsIInv ==
  ASSUME IInv, NEW result \in {"ok"} \cup Refusals, StopServe(result),
         result \in {"duplicate", "permanent"} => registration = result,
         registrationDone' \in BOOLEAN
  PROVE  IInv'
<1>1. TypeOK /\ SignalInv
  BY DEF IInv
<1>2. shutdown' \in EventOf(Waiters) /\ SignalInv'
  BY <1>1, FlagSteps DEF StopServe, SignalInv, Waiters
<1>3. controlShutdown' \in EventOf({"control"})
  BY <1>1, FlagSteps DEF StopServe
<1>4. streams' \in [Streams -> {"idle", "open", "done", "cut"}]
      /\ \A s \in Streams : streams'[s] # "open"
  BY <1>1, CutFacts DEF StopServe
<1>5. TypeOK'
  BY <1>1, <1>2, <1>3, <1>4
     DEF TypeOK, StopServe, session, controlling, Waiters
<1> QED
  BY <1>2, <1>4, <1>5
     DEF IInv, RegistrationInv, ResultInv, ReportInv, StreamsEndWithServe, StopServe,
         session, controlling, Refusals

\* A step of the control task or of the edge that touches neither the flag, the
\* session nor serve.
LEMMA ControlKeepsIInv ==
  ASSUME IInv, Control \/ \E a \in Refusals \cup {"registered"} : EdgeAnswers(a)
  PROVE  IInv'
<1>1. TypeOK /\ SignalInv /\ RegistrationInv /\ ResultInv /\ ReportInv /\ StreamsEndWithServe
  BY DEF IInv
<1>2. registered \in EventOf({"session"}) /\ "session" \in {"session"}
  BY <1>1 DEF TypeOK
<1>3. UNCHANGED <<session, shutdown, conn, serving>>
  BY DEF Control, EdgeAnswers, ControlRegistered, ControlRefused, ControlBroken,
         ControlFails, ControlWaits, ControlNotified, ControlUnregisters
<1>4. SignalInv' /\ ReportInv'
  BY <1>1, <1>3 DEF SignalInv, ReportInv, session
<1>5. SUFFICES TypeOK' /\ RegistrationInv' /\ ResultInv'
  BY <1>1, <1>3, <1>4 DEF IInv, StreamsEndWithServe, serving
<1>6. ASSUME NEW a \in Refusals \cup {"registered"}, EdgeAnswers(a)
      PROVE  TypeOK' /\ RegistrationInv' /\ ResultInv'
  BY <1>1, <1>6 DEF EdgeAnswers, TypeOK, RegistrationInv, ResultInv, Refusals,
                    session, serving
<1>7. CASE ControlRegistered
  <2>1. registered' \in EventOf({"session"})
    BY <1>2, <1>7, EventSteps DEF ControlRegistered
  <2>2. ~(serveResult \in {"duplicate", "permanent"})
    BY <1>1, <1>7 DEF ControlRegistered, RegistrationInv, ResultInv
  <2> QED
    BY <2>1, <2>2, <1>1, <1>7
       DEF ControlRegistered, TypeOK, RegistrationInv, ResultInv, session, serving
<1>8. ASSUME NEW why \in Refusals, ControlFails(why)
      PROVE  TypeOK' /\ RegistrationInv' /\ ResultInv'
  <2>1. ~(serveResult \in {"duplicate", "permanent"})
    BY <1>1, <1>8 DEF ControlFails, RegistrationInv, ResultInv
  <2> QED
    BY <2>1, <1>1, <1>8 DEF ControlFails, TypeOK, RegistrationInv, ResultInv, Refusals,
                            session, serving
<1>9. CASE ControlWaits \/ ControlNotified
  <2>1. controlShutdown' \in EventOf({"control"})
    BY <1>1, <1>9, FlagSteps DEF ControlWaits, ControlNotified
  <2> QED
    BY <2>1, <1>1, <1>9 DEF ControlWaits, ControlNotified, TypeOK, RegistrationInv,
                            ResultInv, session, serving
<1>10. CASE ControlUnregisters
  BY <1>1, <1>10 DEF ControlUnregisters, TypeOK, RegistrationInv, ResultInv, session,
                     serving
<1>11. "error" \in Refusals
  BY DEF Refusals
<1> QED
  BY <1>6, <1>7, <1>8, <1>9, <1>10, <1>11 DEF Control, ControlRefused, ControlBroken

\* A turn of serve that leaves its loop running, or the end of its drain.
LEMMA ServeKeepsIInv ==
  ASSUME IInv,
         Accept \/ TakeRegistration \/ ServeStops \/ StreamsDrained \/ ControlJoined
           \/ \E s \in Streams : StreamEnds(s)
  PROVE  IInv'
<1>1. TypeOK /\ SignalInv /\ RegistrationInv /\ ResultInv /\ ReportInv /\ StreamsEndWithServe
  BY DEF IInv
<1>2. ASSUME NextTurn
      PROVE  shutdown' \in EventOf(Waiters) /\ SignalInv'
  BY <1>1, <1>2, FlagSteps DEF NextTurn, SignalInv, Waiters
<1>3. CASE AcceptControl \/ RefuseControl
  <2>1. NextTurn
    BY <1>3 DEF AcceptControl, RefuseControl
  <2> QED
    BY <2>1, <1>1, <1>2, <1>3
       DEF AcceptControl, RefuseControl, IInv, TypeOK, RegistrationInv, ResultInv,
           ReportInv, StreamsEndWithServe, session, serving, controlling, Waiters
<1>4. ASSUME NEW s \in Streams, AcceptStream(s)
      PROVE  IInv'
  <2>1. NextTurn /\ serve = "running" /\ serve' = serve
    BY <1>4 DEF AcceptStream, NextTurn
  <2> QED
    BY <2>1, <1>1, <1>2, <1>4
       DEF AcceptStream, IInv, TypeOK, RegistrationInv, ResultInv,
           ReportInv, StreamsEndWithServe, session, serving, controlling, Waiters
<1>5. ASSUME NEW s \in Streams, StreamEnds(s)
      PROVE  IInv'
  BY <1>1, <1>5 DEF StreamEnds, IInv, TypeOK, SignalInv, RegistrationInv, ResultInv,
                    ReportInv, StreamsEndWithServe, session, serving, controlling
<1>6. CASE TakeRegistration
  <2>1. CASE registration = "ok"
    <3>1. NextTurn
      BY <1>6, <2>1 DEF TakeRegistration
    <3> QED
      BY <3>1, <2>1, <1>1, <1>2, <1>6
         DEF TakeRegistration, IInv, TypeOK, RegistrationInv, ResultInv,
             ReportInv, StreamsEndWithServe, session, serving, controlling, Waiters
  <2>2. CASE registration # "ok"
    <3>1. registration \in Refusals /\ StopServe(registration)
          /\ registrationDone' \in BOOLEAN
      BY <1>1, <1>6, <2>2 DEF TakeRegistration, TypeOK
    <3> QED
      BY <3>1, StopServeKeepsIInv
  <2> QED
    BY <2>1, <2>2
<1>7. CASE RegistrationTimesOut \/ SeeConnectionEnd
  <2>1. PICK result \in {"ok", "error"} : StopServe(result)
    BY <1>7 DEF RegistrationTimesOut, SeeConnectionEnd
  <2>2. registrationDone' \in BOOLEAN
    BY <1>1, <1>7 DEF RegistrationTimesOut, SeeConnectionEnd, TypeOK
  <2> QED
    BY <2>1, <2>2, StopServeKeepsIInv DEF Refusals
<1>8. CASE SeeShutdown
  <2>1. shutdown' \in EventOf(Waiters) /\ SignalInv'
        /\ controlShutdown' \in EventOf({"control"})
    BY <1>1, <1>8, FlagSteps DEF SeeShutdown, SignalInv, Waiters
  <2> QED
    BY <2>1, <1>1, <1>8
       DEF SeeShutdown, IInv, TypeOK, RegistrationInv, ResultInv,
           ReportInv, StreamsEndWithServe, session, controlling, Waiters
<1>9. CASE ReturnFromDrain
  <2>1. streams' \in [Streams -> {"idle", "open", "done", "cut"}]
        /\ \A s \in Streams : streams'[s] # "open"
    BY <1>1, <1>9, CutFacts DEF ReturnFromDrain
  <2> QED
    BY <2>1, <1>1, <1>9
       DEF ReturnFromDrain, IInv, TypeOK, SignalInv, RegistrationInv, ResultInv,
           ReportInv, StreamsEndWithServe, session, controlling
<1>10. CASE StreamsDrained /\ ~ReturnFromDrain
  BY <1>1, <1>10
     DEF StreamsDrained, IInv, TypeOK, SignalInv, RegistrationInv, ResultInv,
         ReportInv, StreamsEndWithServe, session, controlling
<1> QED
  BY <1>3, <1>4, <1>5, <1>6, <1>7, <1>8, <1>9, <1>10
     DEF Accept, ServeStops, StreamsDrained, ControlJoined

\* run_h2 itself, and the connector that drops it.
LEMMA SessionKeepsIInv ==
  ASSUME IInv, Session \/ ConnectorReturns
  PROVE  IInv'
<1>1. TypeOK /\ SignalInv /\ RegistrationInv /\ ResultInv /\ ReportInv /\ StreamsEndWithServe
  BY DEF IInv
<1>2. registered \in EventOf({"session"}) /\ "session" \in {"session"}
  BY <1>1 DEF TypeOK
<1>3. CASE AwaitRegistration
  <2>1. /\ registered' \in EventOf({"session"})
        /\ registered'.fired = registered.fired
        /\ registered'.woken # {} => registered.woken # {}
    BY <1>2, <1>3, EventSteps DEF AwaitRegistration
  <2> QED
    BY <2>1, <1>1, <1>3
       DEF AwaitRegistration, Proceed, IInv, TypeOK, SignalInv, RegistrationInv, ResultInv,
           ReportInv, StreamsEndWithServe, serving, Over
<1>4. CASE RegistrationAwaited
  <2>1. /\ registered' \in EventOf({"session"})
        /\ registered'.fired = registered.fired
        /\ registered'.woken # {} => registered.woken # {}
        /\ registeredAt' => registered.woken # {}
    BY <1>2, <1>4, EventSteps DEF RegistrationAwaited
  <2>2. shutdown' \in EventOf(Waiters) /\ SignalInv'
    BY <1>1, <1>4, FlagSteps DEF RegistrationAwaited, SignalInv, Waiters
  <2>3. registeredAt' \in BOOLEAN
    BY <1>4 DEF RegistrationAwaited, Woken
  <2>4. report' = Contract!None
    BY <1>1, <1>4 DEF RegistrationAwaited, Proceed, ReportInv
  <2> QED
    BY <2>1, <2>2, <2>3, <2>4, <1>1, <1>4
       DEF RegistrationAwaited, Proceed, IInv, TypeOK, RegistrationInv, ResultInv,
           ReportInv, StreamsEndWithServe, serving, Over, Contract!None, Waiters
<1>5. CASE SessionEnds
  <2>1. shutdown' \in EventOf(Waiters) /\ SignalInv'
    BY <1>1, <1>5, SessionDrops DEF SessionEnds, SignalInv
  <2>2. report' \in Contract!Reports /\ report'.registered = registeredAt
    <3>1. serveResult \in {"ok", "duplicate", "permanent", "error"} /\ registeredAt \in BOOLEAN
      BY <1>1, <1>5 DEF SessionEnds, TypeOK, ResultInv, Refusals
    <3> QED
      BY <3>1, <1>5 DEF SessionEnds, Contract!Reports, Contract!Results
  <2> QED
    BY <2>1, <2>2, <1>1, <1>5
       DEF SessionEnds, IInv, TypeOK, RegistrationInv, ResultInv,
           ReportInv, StreamsEndWithServe, serving, controlling, Over, Waiters
<1>6. CASE ConnectorReturns
  <2>1. shutdown' \in EventOf(Waiters) /\ SignalInv'
    BY <1>1, <1>6, SessionDrops DEF ConnectorReturns, SignalInv
  <2>2. /\ registered' \in EventOf({"session"})
        /\ registered'.fired = registered.fired
        /\ registered'.woken # {} => registered.woken # {}
    BY <1>2, <1>6, EventSteps DEF ConnectorReturns
  <2> QED
    BY <2>1, <2>2, <1>1, <1>6
       DEF ConnectorReturns, IInv, TypeOK, RegistrationInv, ResultInv,
           ReportInv, StreamsEndWithServe, serving, Over, Waiters
<1> QED
  BY <1>3, <1>4, <1>5, <1>6 DEF Session

\* The strengthened invariant is inductive.
LEMMA IInvHolds == Spec => []IInv
<1>1. Init => IInv
  <2> SUFFICES ASSUME Init PROVE IInv
    OBVIOUS
  <2>1. shutdown \in EventOf(Waiters) /\ shutdown.woken = {}
    BY InitialFlag
  <2>2. /\ \A W : NewEvent \in EventOf(W)
        /\ ~NewEvent.fired /\ NewEvent.woken = {}
    BY DEF NewEvent, EventOf
  <2>3. TypeOK
    BY <2>1, <2>2 DEF Init, TypeOK, Waiters
  <2>4. ~report.registered
    BY DEF Init, Contract!None
  <2> QED
    BY <2>1, <2>2, <2>3, <2>4
       DEF Init, IInv, SignalInv, RegistrationInv, ResultInv, ReportInv, StreamsEndWithServe
<1>2. IInv /\ [Next]_vars => IInv'
  <2> SUFFICES ASSUME IInv, [Next]_vars
               PROVE  IInv'
    OBVIOUS
  <2>1. TypeOK /\ SignalInv /\ RegistrationInv /\ ResultInv /\ ReportInv /\ StreamsEndWithServe
    BY DEF IInv
  <2>2. CASE FireShutdown
    <3>1. shutdown' \in EventOf(Waiters) /\ SignalInv'
      BY <2>1, <2>2, FlagSteps DEF FireShutdown, SignalInv
    <3> QED
      BY <3>1, <2>1, <2>2
         DEF FireShutdown, IInv, TypeOK, RegistrationInv, ResultInv, ReportInv,
             StreamsEndWithServe, session, serving, controlling, Waiters
  <2>3. ASSUME NEW how \in {"closed", "failed"}, ConnectionEnds(how)
        PROVE  IInv'
    BY <2>1, <2>3
       DEF ConnectionEnds, IInv, TypeOK, SignalInv, RegistrationInv, ResultInv, ReportInv,
           StreamsEndWithServe, session, serving, controlling
  <2>4. CASE UNCHANGED vars
    BY <2>1, <2>4
       DEF vars, IInv, TypeOK, SignalInv, RegistrationInv, ResultInv, ReportInv,
           StreamsEndWithServe, session, serving, controlling
  <2> QED
    BY <2>2, <2>3, <2>4, ControlKeepsIInv, ServeKeepsIInv, SessionKeepsIInv DEF Next
<1> QED
  BY <1>1, <1>2, PTL DEF Spec

-----------------------------------------------------------------------------
\* No stream task runs on once serve returned, however it returned
\* (h2/mod.rs:106, 132-163, 172-179).
THEOREM StreamsEnd == Spec => []StreamsEndWithServe
BY IInvHolds, PTL DEF IInv

\* The time that resets the backoff of the run loop stands for a registration
\* of the edge (runtime.rs:206-215, register.rs:40-47).
THEOREM RegistrationTimeIsEarned == Spec => []RegistrationTimeEarned
<1>1. IInv => RegistrationTimeEarned
  BY DEF IInv, RegistrationInv, ReportInv, RegistrationTimeEarned
<1> QED
  BY <1>1, IInvHolds, PTL

\* run_h2 is a connection attempt as EdgeConnector::run expects one: it
\* reports once, a refusal only for a registration it did not see, and the end
\* of a connection is an Ok only under shutdown (runtime.rs:165-245).
THEOREM H2SessionIsAttempt == Spec => ImplementsAttempt
<1>1. Init => Contract!Init
  <2> SUFFICES ASSUME Init PROVE Contract!Init
    OBVIOUS
  <2>1. shutdown.fired \in BOOLEAN
    BY InitialFlag DEF EventOf
  <2> QED
    BY <2>1 DEF Init, Contract!Init
<1>2. IInv /\ [Next]_vars => [Contract!Next]_(Contract!vars)
  <2> SUFFICES ASSUME IInv, [Next]_vars
               PROVE  Contract!Next \/ UNCHANGED Contract!vars
    OBVIOUS
  <2>1. TypeOK /\ SignalInv /\ RegistrationInv /\ ResultInv /\ ReportInv
    BY DEF IInv
  <2>2. CASE FireShutdown
    <3>1. Contract!RequestShutdown
      BY <2>1, <2>2, FlagSteps DEF FireShutdown, Contract!RequestShutdown, session
    <3> QED
      BY <3>1 DEF Contract!Next
  <2>3. CASE RegistrationAwaited
    <3>1. shutdown'.fired = shutdown.fired /\ registeredAt' \in BOOLEAN
      BY <2>1, <2>3, FlagSteps DEF RegistrationAwaited, Waiters, Woken
    <3>2. pc = "registering" /\ pc' = "serving" /\ report' = report
      BY <2>3 DEF RegistrationAwaited, Proceed
    <3>3. ~registeredAt
      BY <2>1, <3>2 DEF ReportInv
    <3>4. CASE registeredAt'
      BY <3>1, <3>2, <3>3, <3>4 DEF Contract!Next, Contract!Register
    <3>5. CASE ~registeredAt'
      BY <3>1, <3>2, <3>3, <3>5 DEF Contract!vars
    <3> QED
      BY <3>4, <3>5
  <2>4. CASE SessionEnds
    <3> DEFINE r == [result |-> IF serveResult = "ok" /\ ~shutdown.fired
                                  THEN "error" ELSE serveResult,
                     registered |-> registeredAt,
                     timedOut |-> FALSE]
    <3>1. r \in Contract!Reports
      <4>1. serveResult \in {"ok", "duplicate", "permanent", "error"} /\ registeredAt \in BOOLEAN
        BY <2>1, <2>4 DEF SessionEnds, TypeOK, ResultInv, Refusals
      <4> QED
        BY <4>1 DEF Contract!Reports, Contract!Results
    <3>2. shutdown'.fired = shutdown.fired
      BY <2>1, <2>4, SessionDrops DEF SessionEnds
    <3>3. serveResult \in {"duplicate", "permanent"} => ~registeredAt
      BY <2>1 DEF RegistrationInv, ResultInv
    <3>4. Contract!Report(r)
      BY <2>4, <3>2, <3>3 DEF SessionEnds, Contract!Report
    <3> HIDE DEF r
    <3> QED
      BY <3>1, <3>4 DEF Contract!Next
  <2>5. CASE ConnectorReturns
    <3>1. shutdown.fired /\ shutdown'.fired = shutdown.fired
      <4>1. Woken(shutdown, "connector") => shutdown.fired
        BY <2>1, FlagSteps DEF Waiters
      <4> QED
        BY <4>1, <2>1, <2>5, SessionDrops DEF ConnectorReturns
    <3>2. Contract!Abandon
      BY <2>5, <3>1 DEF ConnectorReturns, Over, Contract!Abandon
    <3> QED
      BY <3>2 DEF Contract!Next
  <2>6. CASE shutdown'.fired = shutdown.fired /\ UNCHANGED <<registeredAt, report>>
             /\ (pc' \in Over <=> pc \in Over)
    BY <2>6 DEF Contract!vars, Over
  <2>7. CASE AwaitRegistration
    BY <2>6, <2>7 DEF AwaitRegistration, Proceed, Over
  <2>8. CASE Accept \/ TakeRegistration \/ ServeStops \/ StreamsDrained \/ ControlJoined
               \/ \E s \in Streams : StreamEnds(s)
    <3>1. UNCHANGED session /\ shutdown' \in {shutdown, Listen(shutdown, "serve"),
                                              Drop(shutdown, "serve")}
      BY <2>8 DEF Accept, AcceptControl, RefuseControl, AcceptStream, NextTurn,
         TakeRegistration, ServeStops, RegistrationTimesOut, SeeConnectionEnd,
         SeeShutdown, StopServe, StreamsDrained, ControlJoined, ReturnFromDrain,
         StreamEnds
    <3>2. shutdown'.fired = shutdown.fired
      BY <2>1, <3>1, FlagSteps DEF Waiters
    <3> QED
      BY <2>6, <3>1, <3>2 DEF session
  <2>9. CASE UNCHANGED <<session, shutdown>>
    BY <2>6, <2>9 DEF session
  <2> QED
    BY <2>2, <2>3, <2>4, <2>5, <2>7, <2>8, <2>9
       DEF Next, vars, Session, ConnectionEnds, EdgeAnswers, Control, ControlRegistered,
           ControlRefused, ControlBroken, ControlFails, ControlWaits, ControlNotified,
           ControlUnregisters
<1> QED
  BY <1>1, <1>2, IInvHolds, PTL DEF Spec, ImplementsAttempt, Contract!Spec
=============================================================================
