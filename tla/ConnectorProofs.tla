--------------------------- MODULE ConnectorProofs --------------------------
(***************************************************************************)
(* Proofs about Connector for every value of the counters' limits and of   *)
(* the number of addresses; and that EdgeRun, the run with its discovery   *)
(* opened, implements it for every number of resolvers, answers, addresses *)
(* and failures, and so keeps what is proved of it.                        *)
(***************************************************************************)
EXTENDS Integers, EdgeRun, WellFoundedInduction, TLAPS

\* The flag wakes nobody before it is set.
SignalInv == shutdown.woken # {} => shutdown.fired

\* An attempt has an address and a transport the options allow.
RoundInv ==
  /\ pc \in {"discovering", "attempting"} => transport # "none"
  /\ pc = "attempting" => edges >= 1
  /\ requested = "Quic" => transport # "H2"

\* The failure counter against the history of QUIC rounds.
CountInv ==
  /\ seen.timedOut => quicFailures >= maximum
  /\ seen.timedOut \/ quicFailures <= seen.rounds
  /\ requested = "Auto" /\ transport = "H2" => quicFailures >= maximum
  /\ requested = "Auto" /\ transport = "Quic"
        /\ pc \in {"discovering", "attempting"} => quicFailures < maximum

IInv ==
  /\ TypeOK
  /\ SignalInv
  /\ OkMeansShutdown
  /\ RoundInv
  /\ CountInv

-----------------------------------------------------------------------------
\* What the operations on the flag keep: its type, and that only a fired flag
\* has woken a waiter (event.rs:32-43).
LEMMA EventSteps ==
  ASSUME NEW e \in EventOf({"run"}), e.woken # {} => e.fired
  PROVE  /\ Fire(e) \in EventOf({"run"}) /\ Fire(e).fired
         /\ Listen(e, "run") \in EventOf({"run"})
         /\ Listen(e, "run").fired = e.fired
         /\ Listen(e, "run").woken # {} => e.fired
         /\ Drop(e, "run") \in EventOf({"run"})
         /\ Drop(e, "run").fired = e.fired
         /\ Drop(e, "run").woken # {} => e.fired
         /\ Woken(e, "run") => e.fired
BY DEF EventOf, Fire, Listen, Drop, Woken

\* The new flag of mod.rs:54.
LEMMA NewEventType ==
  NewEvent \in EventOf({"run"}) /\ NewEvent.woken = {} /\ ~NewEvent.fired
BY DEF NewEvent, EventOf

\* saturating_add stays in the type, never decreases and moves below the limit.
LEMMA BumpFacts ==
  ASSUME NEW max \in Nat, NEW n \in 0..max
  PROVE  /\ Bump(n, max) \in 0..max
         /\ Bump(n, max) >= n
         /\ \A m \in 0..max : n <= m => Bump(n, max) <= Bump(m, max)
BY DEF Bump

\* A counted round never takes the failures under the limit they had reached,
\* and a silent QUIC takes them to the limit (mod.rs:163-172).
LEMMA FailureFacts ==
  ASSUME TypeOK, NEW broken \in BOOLEAN
  PROVE  /\ QuicFailuresAfter(broken) \in 0..U8Max
         /\ quicFailures >= maximum => QuicFailuresAfter(broken) >= maximum
         /\ broken => QuicFailuresAfter(broken) >= maximum
         /\ ~broken => QuicFailuresAfter(broken) = Bump(quicFailures, U8Max)
<1>1. quicFailures \in 0..U8Max /\ maximum \in 0..U8Max /\ U8Max \in Nat
  BY ConnectorAssumption DEF TypeOK
<1>2. /\ Bump(quicFailures, U8Max) \in 0..U8Max
      /\ Bump(quicFailures, U8Max) >= quicFailures
  BY <1>1, BumpFacts
<1> QED
  BY <1>1, <1>2 DEF QuicFailuresAfter, Larger

\* Returning from run keeps the invariant: Ok needs a fired flag.
LEMMA ReturnKeepsIInv ==
  ASSUME IInv, NEW result \in {"ok", "permanent"}, Return(result),
         result = "ok" => shutdown.fired
  PROVE  IInv'
<1> USE ConnectorAssumption
<1>1. shutdown \in EventOf({"run"}) /\ (shutdown.woken # {} => shutdown.fired)
  BY DEF IInv, TypeOK, SignalInv
<1>2. TypeOK'
  BY <1>1, EventSteps DEF IInv, TypeOK, Return, options
<1>3. SignalInv' /\ OkMeansShutdown'
  BY <1>1, EventSteps DEF IInv, SignalInv, OkMeansShutdown, Return, options
<1>4. RoundInv' /\ CountInv'
  BY DEF IInv, RoundInv, CountInv, Return, options
<1> QED
  BY <1>2, <1>3, <1>4 DEF IInv

\* Giving up one address keeps the invariant, at the round's end too.
LEMMA NextEdgeKeepsIInv ==
  ASSUME IInv, pc = "attempting",
         NEW broken \in BOOLEAN, NEW base \in 0..U32Max,
         NextEdge(broken, base)
  PROVE  IInv'
<1> USE ConnectorAssumption
<1>1. shutdown \in EventOf({"run"}) /\ (shutdown.woken # {} => shutdown.fired)
  BY DEF IInv, TypeOK, SignalInv
<1>2. shutdown' = Listen(shutdown, "run") /\ outcome' = outcome
  BY DEF NextEdge
<1>3. SignalInv' /\ OkMeansShutdown'
  BY <1>1, <1>2, EventSteps DEF IInv, SignalInv, OkMeansShutdown
<1>4. shutdown' \in EventOf({"run"})
  BY <1>1, <1>2, EventSteps
<1>5. edges >= 1 /\ edges \in 0..MaxEdges /\ edges' = edges - 1
  BY DEF IInv, RoundInv, TypeOK, NextEdge
<1>6. edges' \in 0..MaxEdges
  BY <1>5
<1>7. CASE edges > 1
  <2>1. attempt' = base
        /\ UNCHANGED <<pc, quicFailures, seen>> /\ UNCHANGED <<options, outcome, transport>>
        /\ quicBroken' = broken
    BY <1>7 DEF NextEdge
  <2>2. TypeOK'
    BY <2>1, <1>4, <1>6 DEF IInv, TypeOK, options
  <2>3. RoundInv'
    BY <2>1, <1>5, <1>7 DEF IInv, RoundInv, TypeOK, options
  <2>4. CountInv'
    BY <2>1 DEF IInv, CountInv, TypeOK, options
  <2> QED
    BY <2>2, <2>3, <2>4, <1>3 DEF IInv
<1>8. CASE ~(edges > 1)
  <2>1. EndRound(broken, base) /\ UNCHANGED <<options, outcome, transport>>
        /\ quicBroken' = broken
    BY <1>8 DEF NextEdge
  <2>2. pc' = "waiting" /\ attempt' = Bump(base, U32Max)
    BY <2>1 DEF EndRound
  <2>3. attempt' \in 0..U32Max
    BY <2>2, BumpFacts
  <2>4. seen.rounds \in 0..U8Max /\ seen.timedOut \in BOOLEAN
        /\ quicFailures \in 0..U8Max /\ maximum \in 0..U8Max /\ U8Max \in Nat
    BY DEF IInv, TypeOK
  <2>5. Bump(seen.rounds, U8Max) \in 0..U8Max
        /\ (quicFailures <= seen.rounds
              => Bump(quicFailures, U8Max) <= Bump(seen.rounds, U8Max))
    BY <2>4, BumpFacts
  <2>6. TypeOK /\ RoundInv /\ CountInv
    BY DEF IInv
  <2>7. QuicFailuresAfter(broken) \in 0..U8Max
        /\ (quicFailures >= maximum => QuicFailuresAfter(broken) >= maximum)
        /\ (broken => QuicFailuresAfter(broken) >= maximum)
        /\ (~broken => QuicFailuresAfter(broken) = Bump(quicFailures, U8Max))
    BY <2>6, FailureFacts
  <2>8. RoundInv'
    BY <2>1, <2>2, <2>6 DEF RoundInv, options
  <2>9. CASE transport = "Quic"
    <3>1. quicFailures' = QuicFailuresAfter(broken)
          /\ seen' = [seen EXCEPT !.rounds = Bump(@, U8Max),
                                  !.timedOut = @ \/ broken]
      BY <2>1, <2>9 DEF EndRound
    <3>2. TypeOK'
      BY <3>1, <2>1, <2>2, <2>3, <2>5, <2>6, <2>7, <1>4, <1>6 DEF TypeOK, options
    <3>3. seen'.timedOut = (seen.timedOut \/ broken)
          /\ seen'.rounds = Bump(seen.rounds, U8Max)
      BY <3>1, <2>6 DEF TypeOK
    <3>4. CountInv'
      BY <3>1, <3>3, <2>1, <2>2, <2>5, <2>6, <2>7, <2>9 DEF CountInv, options
    <3> QED
      BY <3>2, <3>4, <2>8, <1>3 DEF IInv
  <2>10. CASE transport # "Quic"
    <3>1. quicFailures' = quicFailures /\ seen' = seen
      BY <2>1, <2>10 DEF EndRound
    <3>2. TypeOK'
      BY <3>1, <2>1, <2>2, <2>3, <2>6, <1>4, <1>6 DEF TypeOK, options
    <3>3. seen'.timedOut = seen.timedOut /\ seen'.rounds = seen.rounds
      BY <3>1, <2>6 DEF TypeOK
    <3>4. CountInv'
      BY <3>1, <3>3, <2>1, <2>2, <2>6, <2>10 DEF CountInv, options
    <3> QED
      BY <3>2, <3>4, <2>8, <1>3 DEF IInv
  <2> QED
    BY <2>9, <2>10
<1> QED
  BY <1>7, <1>8

\* The strengthened invariant is inductive.
LEMMA IInvHolds == Spec => []IInv
<1> USE ConnectorAssumption
<1>1. Init => IInv
  <2> SUFFICES ASSUME Init PROVE IInv
    OBVIOUS
  <2>1. TypeOK
    <3>1. 0 \in 0..U8Max /\ 0 \in 0..U32Max /\ 0 \in 0..MaxEdges
      BY DEF ConnectorAssumption
    <3>2. seen \in [rounds : 0..U8Max, timedOut : BOOLEAN]
      BY <3>1 DEF Init
    <3> QED
      BY <3>1, <3>2, NewEventType DEF Init, TypeOK, Requests
  <2> QED
    BY <2>1, NewEventType
       DEF Init, IInv, SignalInv, OkMeansShutdown, RoundInv, CountInv
<1>2. IInv /\ [Next]_vars => IInv'
  <2> SUFFICES ASSUME IInv, [Next]_vars
               PROVE  IInv'
    OBVIOUS
  <2>1. TypeOK /\ SignalInv /\ OkMeansShutdown /\ RoundInv /\ CountInv
    BY DEF IInv
  <2>2. shutdown \in EventOf({"run"}) /\ (shutdown.woken # {} => shutdown.fired)
    BY <2>1 DEF TypeOK, SignalInv
  <2>3. CASE FireShutdown
    <3>1. TypeOK'
      BY <2>1, <2>2, <2>3, EventSteps DEF FireShutdown, TypeOK, options
    <3>2. SignalInv' /\ OkMeansShutdown'
      BY <2>2, <2>3, EventSteps DEF FireShutdown, SignalInv, OkMeansShutdown
    <3>3. RoundInv' /\ CountInv'
      BY <2>1, <2>3 DEF FireShutdown, RoundInv, CountInv, options
    <3> QED
      BY <3>1, <3>2, <3>3 DEF IInv
  <2>4. CASE BeginRound
    <3>1. transport' \in {"Quic", "H2"}
          /\ (requested = "Quic" => transport' = "Quic")
          /\ (requested = "Auto" => transport' = IF quicFailures >= maximum
                                                   THEN "H2" ELSE "Quic")
      BY <2>1, <2>4 DEF BeginRound, SelectTransport, TypeOK, Requests
    <3>2. TypeOK'
      BY <3>1, <2>1, <2>4 DEF BeginRound, TypeOK, options
    <3>3. SignalInv' /\ OkMeansShutdown'
      BY <2>1, <2>4 DEF BeginRound, SignalInv, OkMeansShutdown
    <3>4. RoundInv' /\ CountInv'
      BY <3>1, <2>1, <2>4 DEF BeginRound, RoundInv, CountInv, TypeOK, options
    <3> QED
      BY <3>2, <3>3, <3>4 DEF IInv
  <2>5. CASE DiscoveryFails
    <3>1. attempt' \in 0..U32Max
      BY <2>1, <2>5, BumpFacts DEF DiscoveryFails, TypeOK
    <3>2. TypeOK'
      BY <3>1, <2>1, <2>2, <2>5, EventSteps DEF DiscoveryFails, TypeOK, options
    <3>3. SignalInv' /\ OkMeansShutdown'
      BY <2>1, <2>2, <2>5, EventSteps DEF DiscoveryFails, SignalInv, OkMeansShutdown
    <3>4. RoundInv' /\ CountInv'
      BY <2>1, <2>5 DEF DiscoveryFails, RoundInv, CountInv, options
    <3> QED
      BY <3>2, <3>3, <3>4 DEF IInv
  <2>6. ASSUME NEW n \in 1..MaxEdges, DiscoverySucceeds(n)
        PROVE  IInv'
    <3>1. TypeOK' /\ seen'.timedOut = seen.timedOut /\ seen'.rounds = seen.rounds
      <4>1. n \in 0..MaxEdges
        BY <2>6 DEF ConnectorAssumption
      <4>2. shutdown' \in EventOf({"run"})
        BY <2>2, <2>6, EventSteps DEF DiscoverySucceeds
      <4> QED
        BY <4>1, <4>2, <2>1, <2>6 DEF DiscoverySucceeds, TypeOK, options
    <3>2. SignalInv' /\ OkMeansShutdown'
      BY <2>1, <2>2, <2>6, EventSteps DEF DiscoverySucceeds, SignalInv, OkMeansShutdown
    <3>3. RoundInv' /\ CountInv'
      BY <3>1, <2>1, <2>6 DEF DiscoverySucceeds, RoundInv, CountInv, options
    <3> QED
      BY <3>1, <3>2, <3>3 DEF IInv
  <2>7. CASE AttemptStops
    BY <2>1, <2>2, <2>7, EventSteps, ReturnKeepsIInv DEF AttemptStops
  <2>8. CASE AttemptDuplicate
    BY <2>1, <2>8, NextEdgeKeepsIInv DEF AttemptDuplicate, TypeOK
  <2>9. CASE AttemptRejected
    BY <2>1, <2>9, ReturnKeepsIInv DEF AttemptRejected
  <2>10. ASSUME NEW timedOut \in BOOLEAN, NEW healthy \in BOOLEAN,
                AttemptFails(timedOut, healthy)
         PROVE  IInv'
    <3>1. (IF healthy THEN 0 ELSE attempt) \in 0..U32Max
          /\ (quicBroken \/ timedOut) \in BOOLEAN
      BY <2>1 DEF TypeOK
    <3>2. pc = "attempting"
          /\ NextEdge(quicBroken \/ timedOut, IF healthy THEN 0 ELSE attempt)
      BY <2>10 DEF AttemptFails
    <3> QED
      BY <3>1, <3>2, NextEdgeKeepsIInv
  <2>11. CASE ShutdownSeen
    BY <2>1, <2>2, <2>11, EventSteps, ReturnKeepsIInv DEF ShutdownSeen
  <2>12. CASE DelayElapses
    <3>1. TypeOK'
      BY <2>1, <2>2, <2>12, EventSteps DEF DelayElapses, TypeOK, options
    <3>2. SignalInv' /\ OkMeansShutdown'
      BY <2>1, <2>2, <2>12, EventSteps DEF DelayElapses, SignalInv, OkMeansShutdown
    <3>3. RoundInv' /\ CountInv'
      BY <2>1, <2>12 DEF DelayElapses, RoundInv, CountInv, options
    <3> QED
      BY <3>1, <3>2, <3>3 DEF IInv
  <2>13. CASE UNCHANGED vars
    BY <2>1, <2>13 DEF vars, IInv, TypeOK, SignalInv, OkMeansShutdown, RoundInv, CountInv
  <2> QED
    BY <2>3, <2>4, <2>5, <2>6, <2>7, <2>8, <2>9, <2>10, <2>11, <2>12, <2>13
       DEF Next, Discovery, AttemptEnds, Returned
<1> QED
  BY <1>1, <1>2, PTL DEF Spec

\* Every variable of run keeps its type: the saturating counters stay inside
\* u8 and u32 (mod.rs:65-68, 87, 166-173).
THEOREM TypeCorrect == Spec => []TypeOK
BY IInvHolds, PTL DEF IInv

\* run returns Ok only after shutdown was requested (mod.rs:46-47).
THEOREM OkOnlyOnShutdown == Spec => []OkMeansShutdown
BY IInvHolds, PTL DEF IInv

\* Auto falls back to HTTP/2 only after `maximum` QUIC rounds or an idle
\* timeout, whatever the limits are (mod.rs:163-171).
THEOREM FallbackIsEarned == Spec => []FallbackEarned
<1>1. IInv => FallbackEarned
  BY DEF IInv, TypeOK, CountInv, FallbackEarned
<1> QED
  BY <1>1, IInvHolds, PTL

\* Once a QUIC round went silent Auto attempts HTTP/2 only (mod.rs:152-168).
THEOREM BrokenIsNotRetried == Spec => []BrokenNeverRetried
<1>1. IInv => BrokenNeverRetried
  <2> SUFFICES ASSUME IInv, requested = "Auto", seen.timedOut, pc = "attempting"
               PROVE  transport = "H2"
    BY DEF BrokenNeverRetried
  <2>1. quicFailures >= maximum /\ quicFailures \in 0..U8Max /\ maximum \in 0..U8Max
    BY DEF IInv, CountInv, TypeOK
  <2>2. transport # "Quic"
    BY <2>1, ConnectorAssumption DEF IInv, CountInv
  <2> QED
    BY <2>2 DEF IInv, RoundInv, TypeOK
<1> QED
  BY <1>1, IInvHolds, PTL

\* The transport never goes back from HTTP/2 (mod.rs:65, 71-75).
THEOREM FallbackIsFinal == Spec => FallbackSticks
<1>1. IInv /\ [Next]_vars => [transport = "H2" => transport' = "H2"]_vars
  <2> SUFFICES ASSUME IInv, Next, transport = "H2"
               PROVE  transport' = "H2"
    BY DEF vars
  <2>1. CASE BeginRound
    BY <2>1 DEF BeginRound, SelectTransport, IInv, CountInv, RoundInv, TypeOK, Requests
  <2>2. CASE ~BeginRound
    BY <2>2 DEF Next, FireShutdown, Discovery, DiscoveryFails, DiscoverySucceeds,
       AttemptEnds, AttemptStops, AttemptDuplicate, AttemptRejected, AttemptFails,
       ShutdownSeen, DelayElapses, Returned, Return, NextEdge, vars
  <2> QED
    BY <2>1, <2>2
<1> QED
  BY <1>1, IInvHolds, PTL DEF Spec, FallbackSticks

-----------------------------------------------------------------------------
(* The discovery opened.                                                    *)

\* The only thing to know about a discovery is that the number of its
\* addresses stays within the connector's bound.
FoundInv == Len(found) \in 0..MaxEdges

\* No step of the discovery or of the loop takes the list beyond the bound.
LEMMA FoundBounded == EdgeSafety => []FoundInv
<1> USE ConnectorAssumption
<1>1. Len(<<>>) \in 0..MaxEdges
  OBVIOUS
<1>2. EdgeInit => FoundInv
  BY <1>1 DEF EdgeInit, InitDiscovery, FoundInv
<1>3. FoundInv /\ [EdgeNext]_edgeRunVars => FoundInv'
  <2> SUFFICES ASSUME FoundInv, [EdgeNext]_edgeRunVars PROVE FoundInv'
    OBVIOUS
  <2>1. CASE RoundStarts
    BY <2>1, <1>1 DEF RoundStarts, StartDiscovery, FoundInv
  <2>2. CASE ResolverAnswers
    BY <2>2 DEF ResolverAnswers, Ask, FoundInv
  <2>3. CASE HostLookedUp
    BY <2>3 DEF HostLookedUp, FoundInv
  <2>4. CASE ParserLoops
    BY <2>4 DEF ParserLoops, NeverParsed, FoundInv
  <2>5. CASE UNCHANGED discoveryVars
    BY <2>5 DEF discoveryVars, FoundInv
  <2> QED
    BY <2>1, <2>2, <2>3, <2>4, <2>5 DEF EdgeNext, DiscoveryReturns, LoopsOn, edgeRunVars
<1> QED
  BY <1>2, <1>3, PTL DEF EdgeSafety

\* A discovery that ends is one of the two ends Connector allows; every other
\* step of a discovery is none of the loop's (mod.rs:82-97).
LEMMA StepImplements ==
  ASSUME FoundInv, [EdgeNext]_edgeRunVars
  PROVE  [Next]_vars
<1>1. CASE RoundStarts
  BY <1>1 DEF RoundStarts, Next
<1>2. CASE ResolverAnswers \/ ParserLoops \/ LoopsOn \/ HostLookedUp
  BY <1>2 DEF ResolverAnswers, ParserLoops, LoopsOn, HostLookedUp, edgeRunVars
<1>3. CASE DiscoveryReturns
  <2>1. CASE Len(found) = 0
    BY <1>3, <2>1 DEF DiscoveryReturns, Discovery, Next
  <2>2. CASE Len(found) # 0
    <3>1. Len(found) \in 1..MaxEdges
      BY <2>2, ConnectorAssumption DEF FoundInv
    <3>2. DiscoverySucceeds(Len(found))
      BY <1>3, <2>2 DEF DiscoveryReturns
    <3> QED
      BY <3>1, <3>2 DEF Discovery, Next
  <2> QED
    BY <2>1, <2>2
<1>4. CASE FireShutdown \/ AttemptEnds \/ ShutdownSeen \/ DelayElapses \/ Returned
  BY <1>4 DEF Next
<1>5. CASE UNCHANGED edgeRunVars
  BY <1>5 DEF edgeRunVars
<1> QED
  BY <1>1, <1>2, <1>3, <1>4, <1>5 DEF EdgeNext

\* EdgeConnector::run with discover_edges in it behaves as Connector says.
THEOREM EdgeRunImplementsConnector == EdgeSafety => Spec
<1>1. EdgeInit => Init
  BY DEF EdgeInit
<1>2. FoundInv /\ [EdgeNext]_edgeRunVars => [Next]_vars
  BY StepImplements
<1> QED
  BY <1>1, <1>2, FoundBounded, PTL DEF EdgeSafety, Spec

\* run returns Ok only after shutdown was requested, whatever its discoveries
\* found (mod.rs:46-47).
THEOREM EdgeRunOkOnlyOnShutdown == EdgeSpec => []OkMeansShutdown
BY EdgeRunImplementsConnector, OkOnlyOnShutdown, PTL DEF EdgeSpec

\* Auto leaves QUIC only when it earned it, whatever the resolvers and the
\* lookups answered (mod.rs:163-171).
THEOREM EdgeRunFallbackIsEarned == EdgeSpec => []FallbackEarned
BY EdgeRunImplementsConnector, FallbackIsEarned, PTL DEF EdgeSpec

\* No discovery takes Auto back to a QUIC that went silent (mod.rs:152-168).
THEOREM EdgeRunBrokenIsNotRetried == EdgeSpec => []BrokenNeverRetried
BY EdgeRunImplementsConnector, BrokenIsNotRetried, PTL DEF EdgeSpec

\* Nor does one undo the fallback (mod.rs:65, 163-172).
THEOREM EdgeRunFallbackIsFinal == EdgeSpec => FallbackSticks
BY EdgeRunImplementsConnector, FallbackIsFinal, PTL DEF EdgeSpec

-----------------------------------------------------------------------------
(* Recursive functions over a sequence: that one exists, and induction.     *)

\* A set with 0 and every successor of its numbers in it holds every number.
LEMMA SetInduction ==
  ASSUME NEW S, 0 \in S, \A n \in Nat : n \in S => n + 1 \in S
  PROVE  Nat \subseteq S
<1> DEFINE rest == Nat \ S
<1>1. SUFFICES ASSUME rest # {} PROVE FALSE
  OBVIOUS
<1>2. \E x \in rest : \A y \in rest : ~(<<y, x>> \in OpToRel(<, Nat))
  <2> HIDE DEF rest
  <2>1. rest \subseteq Nat
    BY DEF rest
  <2> QED
    BY <1>1, <2>1, WFMin, NatLessThanWellFounded
<1>3. PICK x \in rest : \A y \in rest : ~(<<y, x>> \in OpToRel(<, Nat))
  BY <1>2
<1>4. x \in Nat /\ x \notin S /\ x # 0
  OBVIOUS
<1>5. x - 1 \in Nat /\ (x - 1) + 1 = x
  BY <1>4
<1>6. x - 1 \in rest
  BY <1>4, <1>5
<1>7. <<x - 1, x>> \in OpToRel(<, Nat)
  BY <1>4, <1>5 DEF OpToRel
<1> QED
  BY <1>3, <1>6, <1>7

\* The same on the way to n.
LEMMA IntervalInduction ==
  ASSUME NEW n \in Nat, NEW S, 0 \in S, \A i \in 1 .. n : i - 1 \in S => i \in S
  PROVE  0 .. n \subseteq S
<1> DEFINE T == {i \in Nat : i <= n => i \in S}
<1>1. 0 \in T
  OBVIOUS
<1>2. ASSUME NEW i \in Nat, i \in T PROVE i + 1 \in T
  <2>1. i + 1 <= n => i + 1 \in 1 .. n /\ (i + 1) - 1 = i /\ i \in S
    BY <1>2
  <2> QED
    BY <2>1
<1>3. Nat \subseteq T
  <2> HIDE DEF T
  <2> QED
    BY <1>1, <1>2, SetInduction
<1> QED
  BY <1>3

\* g is what recursion over 1..n with these steps defines.
Recurses(n, A, a, step, g) ==
  /\ g \in [0 .. n -> A]
  /\ g[0] = a
  /\ \A i \in 1 .. n : g[i] = step[i][g[i - 1]]

\* Such a function exists, so that a definition by recursion can be unfolded.
LEMMA FiniteRecursion ==
  ASSUME NEW n \in Nat, NEW A, NEW a \in A, NEW step \in [Nat -> [A -> A]]
  PROVE  \E g : Recurses(n, A, a, step, g)
<1> DEFINE S == {k \in Nat : \E g : Recurses(k, A, a, step, g)}
<1>1. 0 \in S
  <2> DEFINE f == [i \in 0 .. 0 |-> a]
  <2>1. Recurses(0, A, a, step, f)
    BY DEF Recurses
  <2> QED
    BY <2>1
<1>2. ASSUME NEW k \in Nat, k \in S PROVE k + 1 \in S
  <2>1. PICK f : Recurses(k, A, a, step, f)
    BY <1>2
  <2>2. PICK next \in A : next = step[k + 1][f[k]]
    BY <2>1 DEF Recurses
  <2> DEFINE g == [i \in 0 .. k + 1 |-> IF i = k + 1 THEN next ELSE f[i]]
  <2>3. g \in [0 .. k + 1 -> A] /\ g[0] = a
    BY <2>1 DEF Recurses
  <2>4. g[k + 1] = next /\ \A i \in 0 .. k : g[i] = f[i]
    OBVIOUS
  <2> HIDE DEF g
  <2>5. ASSUME NEW i \in 1 .. k + 1 PROVE g[i] = step[i][g[i - 1]]
    <3>1. CASE i = k + 1
      BY <2>2, <2>4, <3>1
    <3>2. CASE i # k + 1
      <4>1. i \in 1 .. k /\ i \in 0 .. k /\ i - 1 \in 0 .. k
        BY <3>2
      <4> QED
        BY <2>1, <2>4, <4>1 DEF Recurses
    <3> QED
      BY <3>1, <3>2
  <2>6. Recurses(k + 1, A, a, step, g)
    BY <2>3, <2>5 DEF Recurses
  <2> QED
    BY <2>6
<1>3. Nat \subseteq S
  <2> HIDE DEF S
  <2> QED
    BY <1>1, <1>2, SetInduction
<1> QED
  BY <1>3


-----------------------------------------------------------------------------
(* What a discovery finds.                                                  *)

Edges == [ip : Ips, port : Ports]

\* The discovery between its steps, and against the loop that awaits it.
DiscInv ==
  /\ DiscoveryTypeOK
  /\ IsInjective(found)
  /\ ~looking => found = <<>> /\ targets = <<>> /\ ~fallback /\ ~offered
  /\ looking /\ ~fallback => offered
  /\ fallback => asked = resolvers /\ ~offered
  /\ pc = "discovering" /\ ~looking => asked < resolvers
  /\ pc = "attempting" => edges <= Len(found)

LEMMA KeepType ==
  ASSUME NEW records \in Seq(Ports), NEW answer
  PROVE  Keep(records, answer) \in Seq(Ports)
BY DEF Keep, IsSrv

\* Kept, unfolded: the records among the first i answers.
LEMMA KeptUnfold ==
  ASSUME NEW answers \in Seq(Answers)
  PROVE  /\ Kept(answers) \in [0 .. Len(answers) -> Seq(Ports)]
         /\ Kept(answers)[0] = <<>>
         /\ \A i \in 1 .. Len(answers) :
              Kept(answers)[i] = Keep(Kept(answers)[i - 1], answers[i])
<1> DEFINE step == [i \in Nat |-> [r \in Seq(Ports) |->
                      IF i \in DOMAIN answers THEN Keep(r, answers[i]) ELSE r]]
           Def(g) == g = [i \in 0 .. Len(answers) |->
                            IF i = 0 THEN <<>> ELSE Keep(g[i - 1], answers[i])]
<1>0. PICK n \in Nat : n = Len(answers) /\ DOMAIN answers = 1 .. n
  OBVIOUS
<1>1. /\ step \in [Nat -> [Seq(Ports) -> Seq(Ports)]]
      /\ \A i \in DOMAIN answers, r \in Seq(Ports) : step[i][r] = Keep(r, answers[i])
  <2>1. \A i \in Nat, r \in Seq(Ports) :
          (IF i \in DOMAIN answers THEN Keep(r, answers[i]) ELSE r) \in Seq(Ports)
    BY KeepType
  <2>2. \A i \in DOMAIN answers : i \in Nat
    OBVIOUS
  <2> QED
    BY <2>1, <2>2
<1>2. <<>> \in Seq(Ports)
  OBVIOUS
<1> HIDE DEF step
<1>3. PICK g : Recurses(n, Seq(Ports), <<>>, step, g)
  BY <1>1, <1>2, FiniteRecursion
<1>4. ASSUME NEW i \in 1 .. n PROVE g[i] = Keep(g[i - 1], answers[i])
  <2>1. g[i] = step[i][g[i - 1]] /\ g[i - 1] \in Seq(Ports)
    BY <1>3 DEF Recurses
  <2> QED
    BY <1>0, <1>1, <2>1
<1>5. Def(g)
  BY <1>0, <1>3, <1>4 DEF Recurses
<1>6. Kept(answers) = CHOOSE h : Def(h)
  BY DEF Kept
<1>7. Def(Kept(answers))
  <2> HIDE DEF Def
  <2> QED
    BY <1>5, <1>6
<1>8. DOMAIN Kept(answers) = 0 .. n /\ Kept(answers)[0] = <<>>
  BY <1>0, <1>7
<1>9. \A i \in 1 .. n : Kept(answers)[i] = Keep(Kept(answers)[i - 1], answers[i])
  BY <1>0, <1>7
<1>10. \A i \in 0 .. n : Kept(answers)[i] \in Seq(Ports)
  <2> DEFINE S == {i \in 0 .. n : Kept(answers)[i] \in Seq(Ports)}
  <2>1. 0 \in S
    BY <1>2, <1>8
  <2>2. ASSUME NEW i \in 1 .. n, i - 1 \in S PROVE i \in S
    <3>1. Kept(answers)[i - 1] \in Seq(Ports)
      BY <2>2
    <3>2. Kept(answers)[i] \in Seq(Ports)
      BY <1>9, <3>1, KeepType
    <3> QED
      BY <3>2
  <2> HIDE DEF S
  <2>3. 0 .. n \subseteq S
    BY <1>0, <2>1, <2>2, IntervalInduction
  <2> QED
    BY <2>3 DEF S
<1>11. Kept(answers) \in [0 .. n -> Seq(Ports)]
  <2>1. Kept(answers) = [i \in 0 .. n |-> Kept(answers)[i]]
    BY <1>0, <1>7
  <2> QED
    BY <1>10, <2>1
<1> QED
  BY <1>0, <1>8, <1>9, <1>11

\* No more records than answers, and some record exactly when some answer is one.
LEMMA SrvRecordsFacts ==
  ASSUME NEW answers \in Seq(Answers)
  PROVE  /\ SrvRecords(answers) \in Seq(Ports)
         /\ Len(SrvRecords(answers)) <= Len(answers)
         /\ SrvRecords(answers) # <<>> <=> \E i \in 1 .. Len(answers) : IsSrv(answers[i])
<1>1. PICK n \in Nat : n = Len(answers)
  OBVIOUS
<1> DEFINE kept == Kept(answers)
           S == {k \in 0 .. n :
                   /\ Len(kept[k]) <= k
                   /\ kept[k] # <<>> <=> \E i \in 1 .. k : IsSrv(answers[i])}
<1>2. /\ kept \in [0 .. n -> Seq(Ports)]
      /\ kept[0] = <<>>
      /\ \A i \in 1 .. n : kept[i] = Keep(kept[i - 1], answers[i])
  BY <1>1, KeptUnfold
<1> HIDE DEF kept
<1>3. 0 \in S
  BY <1>2
<1>4. ASSUME NEW k \in 1 .. n, k - 1 \in S PROVE k \in S
  <2>1. /\ kept[k - 1] \in Seq(Ports) /\ kept[k] = Keep(kept[k - 1], answers[k])
        /\ Len(kept[k - 1]) <= k - 1
        /\ kept[k - 1] # <<>> <=> \E i \in 1 .. k - 1 : IsSrv(answers[i])
    BY <1>2, <1>4
  <2>2. \A i : i \in 1 .. k <=> i \in 1 .. k - 1 \/ i = k
    OBVIOUS
  <2>3. CASE IsSrv(answers[k])
    <3>1. kept[k] = Append(kept[k - 1], answers[k]) /\ answers[k] \in Ports
      BY <2>1, <2>3 DEF Keep, IsSrv
    <3>2. Len(kept[k]) = Len(kept[k - 1]) + 1 /\ kept[k] # <<>>
      BY <2>1, <3>1
    <3> QED
      BY <2>1, <2>3, <3>2
  <2>4. CASE ~IsSrv(answers[k])
    <3>1. kept[k] = kept[k - 1]
      BY <2>1, <2>4 DEF Keep
    <3>2. (\E i \in 1 .. k : IsSrv(answers[i])) <=> \E i \in 1 .. k - 1 : IsSrv(answers[i])
      BY <2>2, <2>4
    <3> QED
      BY <2>1, <3>1, <3>2
  <2> QED
    BY <2>3, <2>4
<1>5. 0 .. n \subseteq S
  <2> HIDE DEF S
  <2> QED
    BY <1>3, <1>4, IntervalInduction
<1>6. n \in S /\ kept[n] \in Seq(Ports)
  BY <1>2, <1>5
<1> QED
  BY <1>1, <1>6 DEF SrvRecords, kept

\* What srv_lookup takes from a reply, for every reply within the bound: ports,
\* and at least one exactly when the reply offers one (discovery.rs:147-202).
LEMMA RecordsFacts ==
  ASSUME NEW reply \in Replies
  PROVE  /\ Records(reply) \in Seq(Ports)
         /\ Len(Records(reply)) <= MaxAnswers
         /\ Records(reply) # <<>> <=> Offers(reply)
<1> USE EdgeDiscoveryAssumption
<1>1. /\ reply.ours \in BOOLEAN /\ reply.count \in 0 .. MaxAnswers
      /\ reply.answers \in BoundedSeq(Answers, MaxAnswers)
  BY DEF Replies
<1>2. PICK m \in 0 .. MaxAnswers : reply.answers \in [1 .. m -> Answers]
  BY <1>1 DEF BoundedSeq, SeqOf
<1>3. reply.answers \in Seq(Answers) /\ Len(reply.answers) = m
      /\ DOMAIN reply.answers = 1 .. m
  BY <1>2
<1>4. CASE ~reply.ours \/ Malformed(reply)
  <2>1. Records(reply) = <<>>
    BY <1>4 DEF Records
  <2>2. ~Offers(reply)
    <3>1. CASE reply.count > m
      <4>1. reply.count \in 1 .. reply.count /\ reply.count \notin 1 .. m
        BY <1>1, <3>1
      <4> QED
        BY <1>3, <4>1 DEF Offers
    <3>2. CASE ~(reply.count > m)
      BY <1>3, <1>4, <3>2 DEF Offers, Malformed
    <3> QED
      BY <3>1, <3>2
  <2> QED
    BY <2>1, <2>2
<1>5. CASE reply.ours /\ ~Malformed(reply)
  <2> DEFINE counted == SubSeq(reply.answers, 1, reply.count)
  <2>1. reply.count \in 0 .. m /\ \A i \in 1 .. reply.count : reply.answers[i] # "broken"
    BY <1>1, <1>3, <1>5 DEF Malformed
  <2>2. /\ counted \in Seq(Answers) /\ Len(counted) = reply.count
        /\ \A i \in 1 .. reply.count : counted[i] = reply.answers[i]
    BY <1>3, <2>1
  <2>3. Records(reply) = SrvRecords(counted)
    BY <1>5 DEF Records
  <2> HIDE DEF counted
  <2>4. /\ Records(reply) \in Seq(Ports)
        /\ Len(Records(reply)) <= reply.count
        /\ Records(reply) # <<>> <=> \E i \in 1 .. reply.count : IsSrv(counted[i])
    BY <2>2, <2>3, SrvRecordsFacts
  <2>5. Len(Records(reply)) <= MaxAnswers
    BY <1>1, <2>4
  <2>6. 1 .. reply.count \subseteq DOMAIN reply.answers
    BY <1>3, <2>1
  <2>7. Offers(reply) <=> \E i \in 1 .. reply.count : IsSrv(counted[i])
    BY <1>5, <2>1, <2>2, <2>6 DEF Offers
  <2> QED
    BY <2>4, <2>5, <2>7
<1> QED
  BY <1>1, <1>4, <1>5

\* edges.contains and push: no address is listed twice (discovery.rs:51-53).
LEMMA AddNewFacts ==
  ASSUME NEW list \in Seq(Edges), NEW edge \in Edges
  PROVE  /\ AddNew(list, edge) \in Seq(Edges)
         /\ IsInjective(list) => IsInjective(AddNew(list, edge))
<1>1. CASE Contains(list, edge)
  BY <1>1 DEF AddNew
<1>2. CASE ~Contains(list, edge)
  <2> DEFINE longer == Append(list, edge)
  <2>1. AddNew(list, edge) = longer
    BY <1>2 DEF AddNew
  <2>2. PICK n \in Nat : n = Len(list) /\ DOMAIN list = 1 .. n
    OBVIOUS
  <2>3. /\ longer \in Seq(Edges) /\ Len(longer) = n + 1
        /\ DOMAIN longer = 1 .. n + 1
        /\ longer[n + 1] = edge
        /\ \A i \in 1 .. n : longer[i] = list[i] /\ list[i] # edge
    BY <1>2, <2>2 DEF Contains
  <2>4. \A i \in 1 .. n + 1 : i = n + 1 \/ i \in 1 .. n
    OBVIOUS
  <2> HIDE DEF longer
  <2>5. ASSUME IsInjective(list) PROVE IsInjective(longer)
    BY <2>2, <2>3, <2>4, <2>5 DEF IsInjective
  <2> QED
    BY <2>1, <2>2, <2>3, <2>5
<1> QED
  BY <1>1, <1>2

\* Added, unfolded: the list after the first i addresses of a host.
LEMMA AddedUnfold ==
  ASSUME NEW list \in Seq(Edges), NEW ips \in Seq(Ips), NEW port \in Ports
  PROVE  /\ Added(list, ips, port) \in [0 .. Len(ips) -> Seq(Edges)]
         /\ Added(list, ips, port)[0] = list
         /\ \A i \in 1 .. Len(ips) :
              Added(list, ips, port)[i]
                = AddNew(Added(list, ips, port)[i - 1], [ip |-> ips[i], port |-> port])
<1> DEFINE edge(i) == [ip |-> ips[i], port |-> port]
           step == [i \in Nat |-> [r \in Seq(Edges) |->
                      IF i \in DOMAIN ips THEN AddNew(r, edge(i)) ELSE r]]
           Def(g) == g = [i \in 0 .. Len(ips) |->
                            IF i = 0 THEN list ELSE AddNew(g[i - 1], edge(i))]
           added == Added(list, ips, port)
<1>0. PICK n \in Nat : n = Len(ips) /\ DOMAIN ips = 1 .. n
  OBVIOUS
<1>1. added = CHOOSE h : Def(h)
  BY DEF Added
<1>2. \A i \in DOMAIN ips : i \in Nat /\ edge(i) \in Edges
  BY DEF Edges
<1> HIDE DEF edge
<1>3. /\ step \in [Nat -> [Seq(Edges) -> Seq(Edges)]]
      /\ \A i \in DOMAIN ips, r \in Seq(Edges) : step[i][r] = AddNew(r, edge(i))
  <2>1. \A i \in Nat, r \in Seq(Edges) :
          (IF i \in DOMAIN ips THEN AddNew(r, edge(i)) ELSE r) \in Seq(Edges)
    BY <1>2, AddNewFacts
  <2> QED
    BY <1>2, <2>1
<1> HIDE DEF step
<1>4. PICK g : Recurses(n, Seq(Edges), list, step, g)
  BY <1>3, FiniteRecursion
<1>5. ASSUME NEW i \in 1 .. n PROVE g[i] = AddNew(g[i - 1], edge(i))
  <2>1. g[i] = step[i][g[i - 1]] /\ g[i - 1] \in Seq(Edges)
    BY <1>4 DEF Recurses
  <2> QED
    BY <1>0, <1>3, <2>1
<1>6. Def(g)
  BY <1>0, <1>4, <1>5 DEF Recurses
<1> HIDE DEF added
<1>7. Def(added)
  <2> HIDE DEF Def
  <2> QED
    BY <1>1, <1>6
<1>8. DOMAIN added = 0 .. n /\ added[0] = list
  BY <1>0, <1>7
<1>9. ASSUME NEW i \in 1 .. n PROVE added[i] = AddNew(added[i - 1], edge(i))
  <2>1. i \in 0 .. Len(ips) /\ i # 0
    BY <1>0
  <2> QED
    BY <1>7, <2>1, Zenon
<1>10. \A i \in 0 .. n : added[i] \in Seq(Edges)
  <2> DEFINE S == {i \in 0 .. n : added[i] \in Seq(Edges)}
  <2>1. 0 \in S
    BY <1>8
  <2>2. ASSUME NEW i \in 1 .. n, i - 1 \in S PROVE i \in S
    <3>1. added[i - 1] \in Seq(Edges) /\ edge(i) \in Edges
      BY <1>0, <1>2, <2>2
    <3>2. added[i] \in Seq(Edges)
      BY <1>9, <3>1, AddNewFacts
    <3> QED
      BY <3>2
  <2> HIDE DEF S
  <2>3. 0 .. n \subseteq S
    BY <2>1, <2>2, IntervalInduction
  <2> QED
    BY <2>3 DEF S
<1>11. added \in [0 .. n -> Seq(Edges)]
  <2>1. added = [i \in 0 .. n |-> added[i]]
    BY <1>0, <1>7
  <2> QED
    BY <1>10, <2>1
<1> QED
  BY <1>0, <1>8, <1>9, <1>11 DEF added, edge

\* The addresses of one more host keep the list free of repetitions, whatever
\* the lookup returned.
LEMMA WithNewFacts ==
  ASSUME NEW list \in Seq(Edges), IsInjective(list),
         NEW ips \in Seq(Ips), NEW port \in Ports
  PROVE  WithNew(list, ips, port) \in Seq(Edges) /\ IsInjective(WithNew(list, ips, port))
<1> DEFINE added == Added(list, ips, port)
           n == Len(ips)
           S == {i \in 0 .. n : IsInjective(added[i])}
<1>1. n \in Nat /\ DOMAIN ips = 1 .. n
  OBVIOUS
<1>2. /\ added \in [0 .. n -> Seq(Edges)] /\ added[0] = list
      /\ \A i \in 1 .. n :
           added[i] = AddNew(added[i - 1], [ip |-> ips[i], port |-> port])
  BY AddedUnfold
<1>3. WithNew(list, ips, port) = added[n]
  BY DEF WithNew
<1> HIDE DEF added, n
<1>4. 0 \in S
  BY <1>1, <1>2
<1>5. ASSUME NEW i \in 1 .. n, i - 1 \in S PROVE i \in S
  <2>1. [ip |-> ips[i], port |-> port] \in Edges
    BY <1>1 DEF Edges
  <2>2. added[i - 1] \in Seq(Edges) /\ IsInjective(added[i - 1])
    BY <1>1, <1>2, <1>5
  <2>3. IsInjective(added[i])
    BY <1>2, <2>1, <2>2, AddNewFacts
  <2> QED
    BY <2>3
<1>6. 0 .. n \subseteq S
  <2> HIDE DEF S
  <2> QED
    BY <1>1, <1>4, <1>5, IntervalInduction
<1> QED
  BY <1>1, <1>2, <1>3, <1>6

\* A resolver's answer, whatever it is.
LEMMA AskKeepsDiscInv ==
  ASSUME DiscInv, pc = "discovering", NEW reply \in Replies, Ask(reply), UNCHANGED vars
  PROVE  DiscInv'
<1> USE EdgeDiscoveryAssumption
<1> DEFINE records == Records(reply)
<1>1. /\ ~looking /\ asked' = asked + 1 /\ offered' = (offered \/ Offers(reply))
      /\ resolvers' = resolvers /\ found' = found /\ pc' = pc /\ edges' = edges
      /\ stuck' = stuck
      /\ IF records # <<>> \/ asked' = resolvers
           THEN Resolve(records) ELSE UNCHANGED <<looking, targets, fallback>>
  BY DEF Ask, vars
<1>2. /\ resolvers \in 0 .. MaxResolvers /\ asked \in 0 .. resolvers /\ asked < resolvers
      /\ found = <<>> /\ targets = <<>> /\ looking \in BOOLEAN /\ offered = FALSE
      /\ stuck \in BOOLEAN
      /\ fallback = FALSE /\ found \in Seq([ip : Ips, port : Ports]) /\ IsInjective(found)
  BY <1>1 DEF DiscInv, DiscoveryTypeOK
<1>3. /\ records \in Seq(Ports) /\ Len(records) <= MaxAnswers
      /\ records # <<>> <=> Offers(reply)
  BY RecordsFacts
<1> HIDE DEF records
<1>4. asked' \in 0 .. resolvers' /\ resolvers' \in 0 .. MaxResolvers
  BY <1>1, <1>2
<1>5. offered' = Offers(reply) /\ offered' \in BOOLEAN
  <2>1. Offers(reply) \in BOOLEAN
    BY DEF Offers
  <2> QED
    BY <1>1, <1>2, <2>1
<1>6. CASE records # <<>>
  <2>1. looking' = TRUE /\ fallback' = FALSE /\ targets' = records
    BY <1>1, <1>6 DEF Resolve
  <2>2. Len(targets') <= MaxAnswers + 2
    BY <1>3, <2>1
  <2> QED
    BY <1>1, <1>2, <1>3, <1>4, <1>5, <1>6, <2>1, <2>2 DEF DiscInv, DiscoveryTypeOK
<1>7. CASE records = <<>> /\ asked' = resolvers
  <2>1. looking' = TRUE /\ fallback' = TRUE /\ targets' = FallbackTargets
    BY <1>1, <1>7 DEF Resolve
  <2>2. FallbackTargets \in Seq(Ports) /\ Len(FallbackTargets) <= MaxAnswers + 2
    BY DEF FallbackTargets
  <2> QED
    BY <1>1, <1>2, <1>3, <1>4, <1>5, <1>7, <2>1, <2>2 DEF DiscInv, DiscoveryTypeOK
<1>8. CASE records = <<>> /\ asked' # resolvers
  <2>1. UNCHANGED <<looking, targets, fallback>>
    BY <1>1, <1>8
  <2>2. asked' < resolvers'
    BY <1>1, <1>4, <1>8
  <2>3. targets' \in Seq(Ports) /\ Len(targets') <= MaxAnswers + 2
    BY <1>2, <2>1
  <2> QED
    BY <1>1, <1>2, <1>3, <1>4, <1>5, <1>8, <2>1, <2>2, <2>3 DEF DiscInv, DiscoveryTypeOK
<1> QED
  BY <1>6, <1>7, <1>8

\* A host looked up, whatever its addresses are.
LEMMA LookUpKeepsDiscInv ==
  ASSUME DiscInv, pc = "discovering", NEW ips \in Lookups, LookUp(ips), UNCHANGED vars
  PROVE  DiscInv'
<1>1. /\ looking /\ targets # <<>> /\ targets' = Tail(targets)
      /\ found' = WithNew(found, ips, Head(targets))
      /\ UNCHANGED <<resolvers, asked, looking, fallback, offered, stuck>>
      /\ pc' = pc
  BY DEF LookUp, vars
<1>2. /\ targets \in Seq(Ports) /\ Len(targets) <= MaxAnswers + 2
      /\ found \in Seq(Edges) /\ IsInjective(found)
  BY DEF DiscInv, DiscoveryTypeOK, Edges
<1>3. Head(targets) \in Ports /\ Tail(targets) \in Seq(Ports)
      /\ Len(Tail(targets)) <= MaxAnswers + 2
  BY <1>1, <1>2, EdgeDiscoveryAssumption
<1>4. ips \in Seq(Ips)
  BY DEF Lookups, BoundedSeq, SeqOf
<1>5. found' \in Seq(Edges) /\ IsInjective(found')
  BY <1>1, <1>2, <1>3, <1>4, WithNewFacts
<1>6. found' \in Seq([ip : Ips, port : Ports])
  BY <1>5 DEF Edges
<1> QED
  BY <1>1, <1>3, <1>5, <1>6 DEF DiscInv, DiscoveryTypeOK

\* The loop outside a discovery: an attempt never adds an address.
LEMMA LoopKeepsDiscInv ==
  ASSUME DiscInv, TypeOK, UNCHANGED discoveryVars,
         \/ DiscoveryReturns
         \/ FireShutdown \/ AttemptEnds \/ ShutdownSeen \/ DelayElapses \/ Returned
  PROVE  DiscInv'
<1>1. DiscoveryTypeOK' /\ IsInjective(found')
  BY DEF DiscInv, DiscoveryTypeOK, discoveryVars
<1>2. /\ ~looking' => found' = <<>> /\ targets' = <<>> /\ ~fallback' /\ ~offered'
      /\ looking' /\ ~fallback' => offered'
      /\ fallback' => asked' = resolvers' /\ ~offered'
  BY DEF DiscInv, discoveryVars
<1>3. pc' = "discovering" => pc = "discovering"
  BY DEF DiscoveryReturns, DiscoveryFails, DiscoverySucceeds, FireShutdown, AttemptEnds,
     AttemptStops, AttemptDuplicate, AttemptRejected, AttemptFails, NextEdge, EndRound,
     ShutdownSeen, DelayElapses, Returned, Return, vars
<1>4. pc' = "attempting" => edges' <= Len(found')
  <2> SUFFICES ASSUME pc' = "attempting" PROVE edges' <= Len(found)
    BY DEF discoveryVars
  <2>1. found \in Seq([ip : Ips, port : Ports]) /\ Len(found) \in Nat /\ edges \in 0 .. MaxEdges
        /\ MaxEdges \in Nat
    BY ConnectorAssumption DEF DiscInv, DiscoveryTypeOK, TypeOK
  <2>2. CASE DiscoveryReturns
    BY <2>1, <2>2 DEF DiscoveryReturns, DiscoveryFails, DiscoverySucceeds
  <2>3. CASE FireShutdown \/ AttemptEnds \/ ShutdownSeen \/ DelayElapses \/ Returned
    <3>1. pc = "attempting" /\ edges' \in {edges, edges - 1}
      BY <2>3 DEF FireShutdown, AttemptEnds, AttemptStops, AttemptDuplicate,
         AttemptRejected, AttemptFails, NextEdge, ShutdownSeen, DelayElapses, Returned,
         Return, vars
    <3> QED
      BY <2>1, <3>1 DEF DiscInv
  <2> QED
    BY <2>2, <2>3
<1>5. pc' = "discovering" /\ ~looking' => asked' < resolvers'
  BY <1>3 DEF DiscInv, discoveryVars
<1> QED
  BY <1>1, <1>2, <1>4, <1>5 DEF DiscInv

\* The invariant of the discovery, inductive next to the loop's types.
LEMMA DiscInvHolds == EdgeSafety => []DiscInv
<1> USE EdgeDiscoveryAssumption
<1>1. EdgeInit => DiscInv
  <2> SUFFICES ASSUME EdgeInit PROVE DiscInv
    OBVIOUS
  <2>1. /\ resolvers = 0 /\ asked = 0 /\ looking = FALSE /\ targets = <<>>
        /\ fallback = FALSE /\ found = <<>> /\ offered = FALSE /\ stuck = FALSE
        /\ pc = "round"
    BY DEF EdgeInit, Init, InitDiscovery
  <2>2. <<>> \in Seq(Ports) /\ <<>> \in Seq([ip : Ips, port : Ports]) /\ Len(<<>>) = 0
        /\ IsInjective(<<>>)
    BY DEF IsInjective
  <2>3. 0 \in 0 .. MaxResolvers /\ 0 \in 0 .. 0 /\ 0 <= MaxAnswers + 2
    OBVIOUS
  <2> QED
    BY <2>1, <2>2, <2>3 DEF DiscInv, DiscoveryTypeOK
<1>2. TypeOK /\ DiscInv /\ [EdgeNext]_edgeRunVars => DiscInv'
  <2> SUFFICES ASSUME TypeOK, DiscInv, [EdgeNext]_edgeRunVars PROVE DiscInv'
    OBVIOUS
  <2>1. CASE RoundStarts
    <3>1. /\ resolvers' \in 1 .. MaxResolvers /\ asked' = 0 /\ looking' = FALSE
          /\ targets' = <<>> /\ fallback' = FALSE /\ found' = <<>> /\ offered' = FALSE
          /\ stuck' = FALSE
          /\ pc' = "discovering"
      BY <2>1 DEF RoundStarts, BeginRound, StartDiscovery
    <3>2. <<>> \in Seq(Ports) /\ <<>> \in Seq([ip : Ips, port : Ports]) /\ Len(<<>>) = 0
          /\ IsInjective(<<>>)
      BY DEF IsInjective
    <3>3. asked' \in 0 .. resolvers' /\ asked' < resolvers' /\ 0 <= MaxAnswers + 2
          /\ resolvers' \in 0 .. MaxResolvers
      BY <3>1
    <3> QED
      BY <3>1, <3>2, <3>3 DEF DiscInv, DiscoveryTypeOK
  <2>2. CASE ResolverAnswers
    BY <2>2, AskKeepsDiscInv DEF ResolverAnswers
  <2>3. CASE HostLookedUp
    BY <2>3, LookUpKeepsDiscInv DEF HostLookedUp
  <2>4. CASE DiscoveryReturns
    BY <2>4, LoopKeepsDiscInv DEF DiscoveryReturns
  <2>5. CASE (FireShutdown \/ AttemptEnds \/ ShutdownSeen \/ DelayElapses \/ Returned)
               /\ UNCHANGED discoveryVars
    BY <2>5, LoopKeepsDiscInv
  <2>6. CASE ParserLoops
    BY <2>6 DEF ParserLoops, NeverParsed, vars, DiscInv, DiscoveryTypeOK
  <2>7. CASE LoopsOn \/ UNCHANGED edgeRunVars
    BY <2>7 DEF LoopsOn, edgeRunVars, vars, discoveryVars, DiscInv, DiscoveryTypeOK
  <2> QED
    BY <2>1, <2>2, <2>3, <2>4, <2>5, <2>6, <2>7 DEF EdgeNext
<1> QED
  BY <1>1, <1>2, EdgeRunImplementsConnector, TypeCorrect, PTL DEF EdgeSafety

\* Each round tries every address once and nothing else, and turns to the
\* well-known hosts only when no resolver sent a whole reply with a record in
\* it, whatever the resolvers and the lookups answer (discovery.rs:33-61).
THEOREM AddressesAreRight == EdgeSpec => []RightAddresses
<1>1. DiscInv => RightAddresses
  BY DEF DiscInv, RightAddresses, TriesEachOnce, FallbackLastResort
<1> QED
  BY <1>1, DiscInvHolds, PTL DEF EdgeSpec

-----------------------------------------------------------------------------
(* The delay between two rounds (backoff.rs).  Only the constants' types    *)
(* are assumed: DelaysGrow of Backoff is what is proved.                    *)

\* Shifted, unfolded: it starts at one and doubles.
LEMMA ShiftedUnfold ==
  /\ Shifted \in [0 .. MaxExponent -> Nat \ {0}]
  /\ Shifted[0] = 1
  /\ \A n \in 1 .. MaxExponent : Shifted[n] = 2 * Shifted[n - 1]
<1> USE BackoffConstants
<1> DEFINE positive == Nat \ {0}
           step == [n \in Nat |-> [x \in positive |-> 2 * x]]
           Def(g) == g = [n \in 0 .. MaxExponent |-> IF n = 0 THEN 1 ELSE 2 * g[n - 1]]
<1>1. /\ step \in [Nat -> [positive -> positive]] /\ 1 \in positive
      /\ \A n \in Nat, x \in positive : step[n][x] = 2 * x
  OBVIOUS
<1> HIDE DEF step, positive
<1>2. PICK g : Recurses(MaxExponent, positive, 1, step, g)
  BY <1>1, FiniteRecursion
<1>3. Def(g)
  <2>1. \A n \in 1 .. MaxExponent : n \in Nat /\ g[n - 1] \in positive
    BY <1>2 DEF Recurses
  <2>2. \A n \in 1 .. MaxExponent : g[n] = 2 * g[n - 1]
    BY <1>1, <1>2, <2>1 DEF Recurses
  <2> QED
    BY <1>2, <2>2 DEF Recurses
<1>4. Shifted = CHOOSE h : Def(h)
  BY DEF Shifted
<1>5. Def(Shifted)
  <2> HIDE DEF Def
  <2> QED
    BY <1>3, <1>4
<1>6. DOMAIN Shifted = 0 .. MaxExponent /\ Shifted[0] = 1
  BY <1>5
<1>7. \A n \in 1 .. MaxExponent : Shifted[n] = 2 * Shifted[n - 1]
  BY <1>5
<1>8. \A n \in 0 .. MaxExponent : Shifted[n] \in Nat \ {0}
  <2> DEFINE S == {n \in 0 .. MaxExponent : Shifted[n] \in Nat \ {0}}
  <2>1. 0 \in S
    BY <1>6
  <2>2. ASSUME NEW n \in 1 .. MaxExponent, n - 1 \in S PROVE n \in S
    <3>1. Shifted[n] \in Nat \ {0}
      BY <1>7, <2>2
    <3> QED
      BY <3>1
  <2> HIDE DEF S
  <2>3. 0 .. MaxExponent \subseteq S
    BY <2>1, <2>2, IntervalInduction
  <2> QED
    BY <2>3 DEF S
<1> QED
  BY <1>5, <1>6, <1>7, <1>8

\* A factor that is no smaller gives a delay that is no smaller, and neither
\* the saturated product nor the cap takes it under two.
LEMMA CappedProduct ==
  ASSUME NEW base \in 1 .. (U64 - 1), NEW n \in Nat \ {0}
  PROVE  LET most == AtMost(SaturatingTimes(base % U64, n), U64 \div 4)
             limit == base * n
         IN  /\ most \in Nat /\ limit \in Nat
             /\ most <= limit
             /\ limit <= U64 \div 4 => most = limit
             /\ limit >= 1 /\ most >= 1
             /\ limit >= 2 => most >= 2
             /\ most = AtMost(limit, U64 \div 4)
<1> USE BackoffConstants
<1>1. base % U64 = base
  OBVIOUS
<1>2. PICK limit \in Nat : limit = base * n /\ limit >= 1
  OBVIOUS
<1>3. PICK cap \in Nat : cap = U64 \div 4 /\ cap >= 2 /\ cap <= U64 - 1
  OBVIOUS
<1>4. AtMost(SaturatingTimes(base % U64, n), U64 \div 4) = AtMost(AtMost(limit, U64 - 1), cap)
  BY <1>1, <1>2, <1>3 DEF SaturatingTimes
<1>5. AtMost(AtMost(limit, U64 - 1), cap) = AtMost(limit, cap)
  BY <1>2, <1>3 DEF AtMost
<1>6. AtMost(limit, cap) \in Nat /\ AtMost(limit, cap) <= limit
      /\ (limit <= cap => AtMost(limit, cap) = limit)
      /\ AtMost(limit, cap) >= 1
      /\ (limit >= 2 => AtMost(limit, cap) >= 2)
  BY <1>2, <1>3 DEF AtMost
<1> HIDE DEF AtMost
<1> QED
  BY <1>2, <1>3, <1>4, <1>5, <1>6

\* The delay for every width of the integers, every largest exponent, every
\* base that fits and any number of retries (backoff.rs:7-19).
THEOREM DelaysGrowAlways ==
  \A base \in 1 .. (U64 - 1), retries \in Nat : DelayGrows(base, retries)
<1> USE BackoffConstants
<1> SUFFICES ASSUME NEW base \in 1 .. (U64 - 1), NEW retries \in Nat
             PROVE  DelayGrows(base, retries)
  OBVIOUS
<1> DEFINE Most(n) == AtMost(SaturatingTimes(base % U64, n), U64 \div 4)
           now == Shifted[AtMost(retries, MaxExponent)]
           then == Shifted[AtMost(retries + 1, MaxExponent)]
<1>1. /\ AtMost(retries, MaxExponent) \in 0 .. MaxExponent
      /\ AtMost(retries + 1, MaxExponent) \in 0 .. MaxExponent
      /\ \/ AtMost(retries + 1, MaxExponent) = AtMost(retries, MaxExponent)
         \/ /\ AtMost(retries + 1, MaxExponent) \in 1 .. MaxExponent
            /\ AtMost(retries + 1, MaxExponent) - 1 = AtMost(retries, MaxExponent)
  BY DEF AtMost
<1>2. now \in Nat \ {0} /\ then \in Nat \ {0} /\ now <= then
  <2>1. now \in Nat \ {0} /\ then \in Nat \ {0}
    BY <1>1, ShiftedUnfold
  <2>2. then = now \/ then = 2 * now
    BY <1>1, ShiftedUnfold
  <2> QED
    BY <2>1, <2>2
<1>3. MaxDelay(retries, base) = Most(now) /\ MaxDelay(retries + 1, base) = Most(then)
  BY DEF MaxDelay
<1>4. PICK a, b \in Nat : a = base * now /\ b = base * then
  BY <1>2
<1>5. a <= b
  BY <1>2, <1>4
<1> HIDE DEF Most, now, then
<1>6. /\ Most(now) \in Nat /\ Most(now) >= 1 /\ Most(now) <= a
      /\ a <= U64 \div 4 => Most(now) = a
      /\ a >= 2 => Most(now) >= 2
      /\ Most(now) = AtMost(a, U64 \div 4)
  BY <1>2, <1>4, CappedProduct DEF Most
<1>7. Most(then) \in Nat /\ Most(then) >= 1 /\ Most(then) = AtMost(b, U64 \div 4)
  BY <1>2, <1>4, CappedProduct DEF Most
<1>8. Most(now) <= Most(then)
  BY <1>4, <1>5, <1>6, <1>7 DEF AtMost
<1>9. RetryDelays(retries, base) = 0 .. (Most(now) - 1)
      /\ RetryDelays(retries + 1, base) = 0 .. (Most(then) - 1)
  BY <1>3, <1>6, <1>7 DEF RetryDelays
<1>10. 0 .. (Most(now) - 1) \subseteq 0 .. (a - 1)
       /\ 0 .. (Most(now) - 1) \subseteq 0 .. (Most(then) - 1)
  BY <1>4, <1>6, <1>7, <1>8
<1>11. a >= 2 => 1 \in 0 .. (Most(now) - 1)
  BY <1>6
<1>12. RetryDelays(retries, base) = {0} => 1 \notin RetryDelays(retries, base)
  OBVIOUS
<1> QED
  BY <1>4, <1>6, <1>9, <1>10, <1>11, <1>12 DEF DelayGrows, now
=============================================================================
