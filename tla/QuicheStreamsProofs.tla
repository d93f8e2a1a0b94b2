------------------------ MODULE QuicheStreamsProofs ------------------------
(***************************************************************************)
(* Proofs about QuicheStreams for any set of streams, any number of        *)
(* segments and any number of dispatches: the accepted set names the       *)
(* streams a request task works on, one task each, and each request that   *)
(* reaches a handler began with bytes of its own.                          *)
(***************************************************************************)
EXTENDS QuicheStreams, TLAPS, FiniteSetTheorems

\* A stream has one waker slot (Inner.read_wakers).
OneWaker ==
  \A s \in Streams : readWaker[s] = {} \/ \E t \in Tasks : readWaker[s] = {t}

\* What a task does tells its kind.
KindInv ==
  \A t \in Tasks :
    /\ task[t] \in {"preamble", "handling", "refused"} => t.kind = "serve"
    /\ task[t] = "draining" => t.kind = "drain"

\* Nothing is accepted before the connection is.
DialInv == dial # "connected" => acceptor = "off"

\* The accepted set, as long as serve_requests runs.
AcceptedInv ==
  acceptor # "over" =>
    \A s \in Streams :
      /\ s \in accepted <=> Serving(s) # {}
      /\ \A t, u \in Serving(s) : t = u

\* A request that reached a handler, and the turns of a stream that did.
Handled(t) == t.kind = "serve" /\ task[t] \in {"handling", "done"}

Turns(s) ==
  {n \in 1 .. MaxDispatch : task[ServeTask(s, n)] \in {"handling", "done"}}

\* The segments read of a stream that begin as a request does.
Begun(s) == {i \in 1 .. rx[s].read : Begins(s, i)}

IInv ==
  /\ TypeOK
  /\ OneWaker
  /\ KindInv
  /\ DialInv
  /\ AcceptedInv
  /\ OneRequestPerBeginning

-----------------------------------------------------------------------------
\* A set whose elements are all equal has at most one.
LEMMA AtMostOne ==
  ASSUME NEW S, \A x, y \in S : x = y
  PROVE  Cardinality(S) <= 1
<1>1. CASE S = {}
  BY <1>1, FS_EmptySet
<1>2. CASE S # {}
  <2>1. PICK x \in S : TRUE
    BY <1>2
  <2>2. S = {x}
    BY <2>1
  <2> QED
    BY <2>2, FS_Singleton
<1> QED
  BY <1>1, <1>2

\* The one slot of a stream holds at most one waker.
LEMMA OneWakerEach ==
  ASSUME OneWaker
  PROVE  \A s \in Streams : Cardinality(readWaker[s]) <= 1
<1> SUFFICES ASSUME NEW s \in Streams PROVE Cardinality(readWaker[s]) <= 1
  OBVIOUS
<1>1. \A x, y \in readWaker[s] : x = y
  BY DEF OneWaker
<1> QED
  BY <1>1, AtMostOne

\* The type, but for the wakers.
Typed ==
  /\ alike \in [Streams -> SUBSET (2 .. MaxSegments)]
  /\ dial \in {"waiting", "established", "connected", "failed"}
  /\ quic \in {"handshake", "open", "closed"}
  /\ closed \in BOOLEAN
  /\ driver \in {"select", "received", "ended"}
  /\ rx \in [Streams -> Receive]
  /\ \A s \in Streams : rx[s].read <= rx[s].arrived /\ rx[s].arrived <= rx[s].sent
  /\ accepted \subseteq Streams
  /\ readWaker \in [Streams -> SUBSET Tasks]
  /\ acceptor \in {"off", "check", "parked", "over"}
  /\ dispatched \in [Streams -> 0 .. MaxDispatch]
  /\ task \in [Tasks ->
               {"off", "preamble", "handling", "draining", "done", "refused"}]
  /\ parked \subseteq Live
  /\ eof \subseteq Tasks

LEMMA TypedIsTypeOK == Typed /\ OneWaker <=> TypeOK /\ OneWaker
BY OneWakerEach DEF Typed, TypeOK

LEMMA TypedAfter == Typed' /\ OneWaker' => TypeOK'
BY TypedIsTypeOK, PTL

LEMMA InitInv == Init => IInv
<1> SUFFICES ASSUME Init PROVE IInv
  OBVIOUS
<1> USE DEF Init
<1>1. Typed
  <2>1. rx \in [Streams -> Receive]
    BY BoundsAssumption DEF Receive
  <2>2. dispatched \in [Streams -> 0 .. MaxDispatch]
    BY BoundsAssumption
  <2>3. \A s \in Streams : rx[s].read <= rx[s].arrived /\ rx[s].arrived <= rx[s].sent
    OBVIOUS
  <2>4. /\ readWaker \in [Streams -> SUBSET Tasks]
        /\ task \in [Tasks ->
               {"off", "preamble", "handling", "draining", "done", "refused"}]
        /\ parked \subseteq Live /\ eof \subseteq Tasks /\ accepted \subseteq Streams
    OBVIOUS
  <2>5. closed \in BOOLEAN
    BY Zenon
  <2>6. /\ dial \in {"waiting", "established", "connected", "failed"}
        /\ quic \in {"handshake", "open", "closed"}
        /\ driver \in {"select", "received", "ended"}
        /\ acceptor \in {"off", "check", "parked", "over"}
        /\ alike \in [Streams -> SUBSET (2 .. MaxSegments)]
    OBVIOUS
  <2> HIDE DEF Init
  <2> QED
    BY <2>1, <2>2, <2>3, <2>4, <2>5, <2>6 DEF Typed
<1>2. OneWaker /\ DialInv
  BY DEF OneWaker, DialInv
<1>3. KindInv
  BY DEF KindInv
<1>4. AcceptedInv
  BY DEF AcceptedInv, Serving, Live
<1>5. OneRequestPerBeginning
  <2> SUFFICES ASSUME NEW s \in Streams PROVE Cardinality(Turns(s)) <= Cardinality(Begun(s))
    BY DEF OneRequestPerBeginning, Turns, Begun
  <2>1. Turns(s) = {}
    BY DEF Turns, ServeTask, Tasks
  <2>2. rx[s].read = 0
    OBVIOUS
  <2>3. Begun(s) = {}
    BY <2>2 DEF Begun
  <2> QED
    BY <2>1, <2>3, FS_EmptySet
<1> QED
  BY <1>1, <1>2, <1>3, <1>4, <1>5, TypedIsTypeOK DEF IInv

-----------------------------------------------------------------------------
\* What the tasks and the accepted set are is not touched.
TasksStay == UNCHANGED <<task, accepted, dispatched>>

\* The segments of a stream are only ever read forward, and stay what they are.
RxGrows ==
  /\ alike' = alike
  /\ rx' \in [Streams -> Receive]
  /\ \A s \in Streams :
       /\ rx'[s].read <= rx'[s].arrived /\ rx'[s].arrived <= rx'[s].sent
       /\ rx'[s].read >= rx[s].read

\* serve_requests that is over stays over, and does not start early.
AcceptorGoesOn ==
  /\ acceptor' \in {"off", "check", "parked", "over"}
  /\ acceptor = "over" => acceptor' = "over"
  /\ DialInv'

LEMMA UnchangedRx == ASSUME Typed, UNCHANGED <<alike, rx>> PROVE RxGrows
BY DEF Typed, RxGrows, Receive

\* Some of the first n segments, or turns, are a finite set.
LEMMA Finite ==
  ASSUME NEW n \in Nat, NEW S \in SUBSET (1 .. n)
  PROVE  IsFiniteSet(S) /\ Cardinality(S) \in Nat
<1>1. IsFiniteSet(1 .. n)
  BY FS_Interval
<1>2. IsFiniteSet(S)
  BY <1>1, FS_Subset
<1> QED
  BY <1>2, FS_CardinalityType

LEMMA TurnsAndBegun ==
  ASSUME Typed, RxGrows, NEW s \in Streams
  PROVE  /\ rx[s].read \in Nat /\ rx'[s].read \in Nat
         /\ IsFiniteSet(Turns(s)) /\ IsFiniteSet(Begun(s)) /\ IsFiniteSet(Begun(s)')
         /\ Cardinality(Turns(s)) \in Nat /\ Cardinality(Turns(s)') \in Nat
         /\ Cardinality(Begun(s)) \in Nat /\ Cardinality(Begun(s)') \in Nat
         /\ Begun(s) \subseteq Begun(s)'
<1>1. rx[s].read \in Nat /\ rx'[s].read \in Nat /\ rx'[s].read >= rx[s].read
  BY DEF Typed, RxGrows, Receive
<1>2. /\ Turns(s) \in SUBSET (1 .. MaxDispatch) /\ Turns(s)' \in SUBSET (1 .. MaxDispatch)
      /\ MaxDispatch \in Nat
  BY BoundsAssumption DEF Turns
<1>3. Begun(s) \in SUBSET (1 .. rx[s].read) /\ Begun(s)' \in SUBSET (1 .. rx'[s].read)
  BY DEF Begun
<1>4. Begun(s) \subseteq Begun(s)'
  BY <1>1 DEF Begun, Begins, RxGrows
<1>5. /\ IsFiniteSet(Turns(s)) /\ Cardinality(Turns(s)) \in Nat
      /\ IsFiniteSet(Turns(s)') /\ Cardinality(Turns(s)') \in Nat
  BY <1>2, Finite
<1>6. /\ IsFiniteSet(Begun(s)) /\ Cardinality(Begun(s)) \in Nat
      /\ IsFiniteSet(Begun(s)') /\ Cardinality(Begun(s)') \in Nat
  BY <1>1, <1>3, Finite
<1> QED
  BY <1>1, <1>4, <1>5, <1>6

\* The turns of a stream are its request tasks.
LEMMA TurnsAre ==
  ASSUME NEW s \in Streams
  PROVE  /\ \A n \in 1 .. MaxDispatch :
              /\ ServeTask(s, n) \in Tasks
              /\ n \in Turns(s) <=> Handled(ServeTask(s, n))
              /\ n \in Turns(s)' <=> Handled(ServeTask(s, n))'
         /\ \A t \in Tasks : t.stream = s /\ t.kind = "serve"
              => t.turn \in 1 .. MaxDispatch /\ t = ServeTask(s, t.turn)
BY DEF Turns, Handled, ServeTask, Tasks

\* Without a new request at a handler nothing is taken from the count.
LEMMA NoneHandled ==
  ASSUME Typed, RxGrows, OneRequestPerBeginning, \A u \in Tasks : Handled(u)' => Handled(u)
  PROVE  OneRequestPerBeginning'
<1> SUFFICES ASSUME NEW s \in Streams PROVE Cardinality(Turns(s)') <= Cardinality(Begun(s)')
  BY DEF OneRequestPerBeginning, Turns, Begun
<1>1. Turns(s)' \subseteq Turns(s)
  <2>1. Turns(s)' \subseteq 1 .. MaxDispatch
    BY DEF Turns
  <2> QED
    BY <2>1, TurnsAre
<1>2. Cardinality(Turns(s)') <= Cardinality(Turns(s))
  BY <1>1, TurnsAndBegun, FS_Subset
<1>3. Cardinality(Begun(s)) <= Cardinality(Begun(s)')
  BY TurnsAndBegun, FS_Subset
<1>4. Cardinality(Turns(s)) <= Cardinality(Begun(s))
  BY DEF OneRequestPerBeginning, Turns, Begun
<1> QED
  BY <1>2, <1>3, <1>4, TurnsAndBegun

\* The request that reaches a handler takes a segment that begins as one does.
LEMMA OneHandled ==
  ASSUME Typed, RxGrows, OneRequestPerBeginning,
         NEW t \in Tasks, t.kind = "serve", Signature(t.stream),
         rx'[t.stream].read = rx[t.stream].read + 1,
         \A u \in Tasks : Handled(u)' => Handled(u) \/ u = t
  PROVE  OneRequestPerBeginning'
<1> SUFFICES ASSUME NEW s \in Streams PROVE Cardinality(Turns(s)') <= Cardinality(Begun(s)')
  BY DEF OneRequestPerBeginning, Turns, Begun
<1>1. Cardinality(Turns(s)) <= Cardinality(Begun(s))
  BY DEF OneRequestPerBeginning, Turns, Begun
<1>2. Turns(s)' \subseteq 1 .. MaxDispatch
  BY DEF Turns
<1>3. CASE s # t.stream
  <2>1. \A n \in 1 .. MaxDispatch : ServeTask(s, n) # t
    BY <1>3 DEF ServeTask
  <2>2. Turns(s)' \subseteq Turns(s)
    BY <1>2, <2>1, TurnsAre
  <2>3. Cardinality(Turns(s)') <= Cardinality(Turns(s))
    BY <2>2, TurnsAndBegun, FS_Subset
  <2>4. Cardinality(Begun(s)) <= Cardinality(Begun(s)')
    BY TurnsAndBegun, FS_Subset
  <2> QED
    BY <1>1, <2>3, <2>4, TurnsAndBegun
<1>4. CASE s = t.stream
  <2> DEFINE next == rx[s].read + 1
  <2>1. rx[s].read \in Nat /\ rx'[s].read = next /\ Begins(s, next)
    BY <1>4, TurnsAndBegun DEF Signature
  <2>2. next \notin Begun(s) /\ Begun(s)' = Begun(s) \cup {next}
    BY <2>1 DEF Begun, Begins, RxGrows
  <2>3. Cardinality(Begun(s)') = Cardinality(Begun(s)) + 1
    BY <2>2, TurnsAndBegun, FS_AddElement
  <2>4. Turns(s)' \subseteq Turns(s) \cup {t.turn}
    <3>1. \A n \in Turns(s)' : n \in Turns(s) \/ ServeTask(s, n) = t
      BY <1>2, TurnsAre
    <3>2. \A n \in Turns(s)' : ServeTask(s, n).turn = n
      BY DEF ServeTask
    <3> QED
      BY <3>1, <3>2
  <2>5. /\ IsFiniteSet(Turns(s) \cup {t.turn})
        /\ \/ Cardinality(Turns(s) \cup {t.turn}) = Cardinality(Turns(s))
           \/ Cardinality(Turns(s) \cup {t.turn}) = Cardinality(Turns(s)) + 1
    BY TurnsAndBegun, FS_AddElement
  <2>6. Cardinality(Turns(s)') <= Cardinality(Turns(s) \cup {t.turn})
    BY <2>4, <2>5, FS_Subset
  <2> QED
    BY <1>1, <2>3, <2>5, <2>6, TurnsAndBegun
<1> QED
  BY <1>3, <1>4

\* A step that leaves the tasks alone keeps what is said of them.
LEMMA TasksStayKeeps ==
  ASSUME IInv, TasksStay, RxGrows, AcceptorGoesOn
  PROVE  KindInv' /\ AcceptedInv' /\ OneRequestPerBeginning' /\ Live' = Live
<1>1. Live' = Live /\ \A s \in Streams : Serving(s)' = Serving(s)
  BY DEF TasksStay, Live, Serving
<1>2. KindInv'
  BY DEF IInv, TasksStay, KindInv
<1>3. AcceptedInv'
  BY <1>1 DEF IInv, TasksStay, AcceptorGoesOn, AcceptedInv
<1>4. OneRequestPerBeginning'
  <2>1. \A u \in Tasks : Handled(u)' => Handled(u)
    BY DEF TasksStay, Handled
  <2> QED
    BY <2>1, NoneHandled, TypedIsTypeOK DEF IInv
<1> QED
  BY <1>1, <1>2, <1>3, <1>4

\* The reads move one segment or the FIN.
LEMMA Reads ==
  ASSUME Typed, NEW t \in Tasks,
         \/ Segment(t) /\ TakeSegment(t.stream)
         \/ TakeFin(t.stream),
         UNCHANGED alike
  PROVE  /\ RxGrows
         /\ Segment(t) /\ TakeSegment(t.stream)
              => rx'[t.stream].read = rx[t.stream].read + 1
<1> DEFINE s == t.stream
<1>1. s \in Streams
  BY DEF Tasks
<1>2. rx \in [Streams -> Receive] /\ rx[s] \in Receive
  BY <1>1 DEF Typed
<1>3. CASE Segment(t) /\ TakeSegment(s)
  <2>1. rx[s].read \in Nat /\ rx[s].read + 1 \in 0 .. MaxSegments /\ rx[s].read + 1 <= rx[s].arrived
    BY <1>1, <1>2, <1>3, BoundsAssumption DEF Segment, Receive
  <2> DEFINE f == IF LastSegment(s) THEN "read" ELSE rx[s].fin
  <2>2. f \in {"no", "sent", "arrived", "read"}
    BY <1>2 DEF Receive
  <2>3. rx' = [rx EXCEPT ![s].read = @ + 1, ![s].fin = f]
    BY <1>3 DEF TakeSegment
  <2> HIDE DEF f
  <2>4. /\ rx' \in [Streams -> Receive]
        /\ rx'[s].read = rx[s].read + 1 /\ rx'[s].arrived = rx[s].arrived /\ rx'[s].sent = rx[s].sent
        /\ \A r \in Streams \ {s} : rx'[r] = rx[r]
    BY <1>1, <1>2, <2>1, <2>2, <2>3 DEF Receive
  <2>5. \A r \in Streams : rx[r].read \in Nat
    BY <1>2 DEF Receive
  <2> QED
    BY <1>1, <2>1, <2>4, <2>5 DEF RxGrows, Typed
<1>4. CASE TakeFin(s)
  <2> DEFINE f == IF rx[s].fin = "arrived" THEN "read" ELSE rx[s].fin
  <2>1. f \in {"no", "sent", "arrived", "read"}
    BY <1>2 DEF Receive
  <2>2. rx' = [rx EXCEPT ![s].fin = f]
    BY <1>4 DEF TakeFin
  <2> HIDE DEF f
  <2>3. /\ rx' \in [Streams -> Receive]
        /\ rx'[s].read = rx[s].read /\ rx'[s].arrived = rx[s].arrived /\ rx'[s].sent = rx[s].sent
        /\ \A r \in Streams \ {s} : rx'[r] = rx[r]
    BY <1>1, <1>2, <2>1, <2>2 DEF Receive
  <2>4. \A r \in Streams : rx[r].read \in Nat
    BY <1>2 DEF Receive
  <2>5. RxGrows
    BY <1>1, <2>3, <2>4 DEF RxGrows, Typed
  <2>6. CASE Segment(t) /\ TakeSegment(s)
    BY <1>3, <2>6
  <2> QED
    BY <2>5, <2>6
<1> QED
  BY <1>3, <1>4

-----------------------------------------------------------------------------
\* The steps that leave the tasks alone.
LEMMA EdgeSendsKeeps ==
  ASSUME IInv, NEW s \in Streams, EdgeSends(s)
  PROVE  IInv'
<1>1. Typed /\ OneWaker /\ rx \in [Streams -> Receive] /\ rx[s] \in Receive
  BY TypedIsTypeOK DEF IInv, Typed
<1>2. /\ rx' \in [Streams -> Receive]
      /\ rx'[s].read = rx[s].read /\ rx'[s].arrived = rx[s].arrived
      /\ rx'[s].sent >= rx[s].sent
      /\ \A r \in Streams \ {s} : rx'[r] = rx[r]
  <2>1. CASE rx[s].sent < MaxSegments /\ rx' = [rx EXCEPT ![s].sent = @ + 1]
    <3>1. rx[s].sent + 1 \in 0 .. MaxSegments /\ rx[s].sent \in Nat
      BY <1>1, <2>1, BoundsAssumption DEF Receive
    <3> QED
      BY <1>1, <2>1, <3>1 DEF Receive
  <2>2. CASE rx' = [rx EXCEPT ![s].fin = "sent"]
    <3>1. rx[s].sent \in Nat
      BY <1>1 DEF Receive
    <3> QED
      BY <1>1, <2>2, <3>1 DEF Receive
  <2> QED
    BY <2>1, <2>2 DEF EdgeSends
<1>3. \A r \in Streams : rx[r].read \in Nat /\ rx[r].arrived \in Nat /\ rx[r].sent \in Nat
                         /\ rx'[r].read \in Nat /\ rx'[r].arrived \in Nat /\ rx'[r].sent \in Nat
  BY <1>1, <1>2 DEF Receive
<1>4. RxGrows
  BY <1>1, <1>2, <1>3 DEF RxGrows, Typed, EdgeSends
<1>5. TasksStay /\ AcceptorGoesOn
  BY <1>1 DEF IInv, EdgeSends, TasksStay, AcceptorGoesOn, DialInv, Typed
<1>6. KindInv' /\ AcceptedInv' /\ OneRequestPerBeginning' /\ Live' = Live
  BY <1>4, <1>5, TasksStayKeeps
<1>7. Typed'
  BY <1>1, <1>4, <1>6 DEF Typed, RxGrows, EdgeSends
<1>8. OneWaker'
  BY <1>1 DEF OneWaker, EdgeSends
<1> QED
  BY <1>5, <1>6, <1>7, <1>8, TypedAfter DEF IInv, AcceptorGoesOn

\* A packet carries a segment, the FIN or both, and never more than was sent.
LEMMA Arrivals ==
  ASSUME Typed, DriverReceives
  PROVE  RxGrows
<1>1. rx \in [Streams -> Receive]
  BY DEF Typed
<1>2. CASE UNCHANGED rx
  BY <1>2, UnchangedRx DEF DriverReceives
<1>3. ASSUME NEW s \in Streams,
             \/ /\ rx[s].arrived < rx[s].sent
                /\ \E withFin \in BOOLEAN :
                     rx' = [rx EXCEPT ![s].arrived = @ + 1,
                                      ![s].fin = IF withFin THEN "arrived" ELSE @]
             \/ rx' = [rx EXCEPT ![s].fin = "arrived"]
      PROVE  RxGrows
  <2>1. rx[s] \in Receive
    BY <1>1
  <2>2. /\ rx' \in [Streams -> Receive]
        /\ rx'[s].read = rx[s].read /\ rx'[s].sent = rx[s].sent
        /\ rx'[s].arrived >= rx[s].arrived /\ rx'[s].arrived <= rx[s].sent
        /\ \A r \in Streams \ {s} : rx'[r] = rx[r]
    <3>1. /\ rx[s].arrived \in Nat /\ rx[s].sent \in 0 .. MaxSegments
          /\ rx[s].arrived <= rx[s].sent /\ rx[s].fin \in {"no", "sent", "arrived", "read"}
      BY <2>1, BoundsAssumption DEF Typed, Receive
    <3>2. ASSUME rx[s].arrived < rx[s].sent, NEW f \in {"no", "sent", "arrived", "read"},
                 rx' = [rx EXCEPT ![s].arrived = @ + 1, ![s].fin = f]
          PROVE  /\ rx' \in [Streams -> Receive]
                 /\ rx'[s].read = rx[s].read /\ rx'[s].sent = rx[s].sent
                 /\ rx'[s].arrived >= rx[s].arrived /\ rx'[s].arrived <= rx[s].sent
                 /\ \A r \in Streams \ {s} : rx'[r] = rx[r]
      <4>1. rx[s].arrived + 1 \in 0 .. MaxSegments
        BY <3>1, <3>2, BoundsAssumption
      <4>2. rx' \in [Streams -> Receive]
        BY <1>1, <2>1, <3>2, <4>1 DEF Receive
      <4>3. /\ rx'[s].read = rx[s].read /\ rx'[s].sent = rx[s].sent
            /\ rx'[s].arrived = rx[s].arrived + 1
            /\ \A r \in Streams \ {s} : rx'[r] = rx[r]
        BY <1>1, <2>1, <3>2 DEF Receive
      <4> QED
        BY <3>1, <3>2, <4>2, <4>3
    <3>3. CASE rx' = [rx EXCEPT ![s].fin = "arrived"]
      BY <1>1, <2>1, <3>1, <3>3 DEF Receive
    <3>4. CASE /\ rx[s].arrived < rx[s].sent
               /\ \E withFin \in BOOLEAN :
                    rx' = [rx EXCEPT ![s].arrived = @ + 1,
                                     ![s].fin = IF withFin THEN "arrived" ELSE @]
      <4>1. PICK withFin \in BOOLEAN :
              rx' = [rx EXCEPT ![s].arrived = @ + 1,
                               ![s].fin = IF withFin THEN "arrived" ELSE @]
        BY <3>4
      <4> DEFINE f == IF withFin THEN "arrived" ELSE rx[s].fin
      <4>2. f \in {"no", "sent", "arrived", "read"}
        BY <3>1
      <4>3. rx' = [rx EXCEPT ![s].arrived = @ + 1, ![s].fin = f]
        BY <4>1
      <4> HIDE DEF f
      <4>4. PICK g \in {"no", "sent", "arrived", "read"} : g = f
        BY <4>2
      <4> QED
        BY <3>2, <3>4, <4>3, <4>4
    <3> QED
      BY <1>3, <3>3, <3>4
  <2>3. \A r \in Streams : rx[r].read \in Nat /\ rx[r].arrived \in Nat /\ rx[r].sent \in Nat
                           /\ rx'[r].arrived \in Nat
    BY <1>1, <2>2 DEF Receive
  <2> QED
    BY <2>2, <2>3 DEF RxGrows, Typed, DriverReceives
<1> QED
  BY <1>2, <1>3 DEF DriverReceives

\* wake() empties the slots of its streams and unparks.
LEMMA WakeKeeps ==
  ASSUME Typed, OneWaker, NEW S \in SUBSET Streams, Wake(S), UNCHANGED task
  PROVE  /\ readWaker' \in [Streams -> SUBSET Tasks]
         /\ OneWaker'
         /\ parked' \subseteq Live'
BY DEF Typed, OneWaker, Wake, Live

\* The turns of the driver, Close, Connect and a waiting acceptor.
LEMMA DriverKeeps ==
  ASSUME IInv, Driver \/ Connect \/ Close \/ AcceptorWaits
  PROVE  IInv'
<1>1. Typed /\ OneWaker /\ DialInv
  BY TypedIsTypeOK DEF IInv
<1>2. TasksStay
  BY DEF TasksStay, Driver, DriverReceives, DriverTimesOut, DriverWakes, TurnEnds,
         DriverBreaks, Connect, Close, AcceptorWaits
<1>3. RxGrows
  <2>1. CASE DriverReceives
    BY <1>1, <2>1, Arrivals
  <2>2. CASE ~DriverReceives
    <3>1. UNCHANGED <<alike, rx>>
      BY <2>2 DEF Driver, DriverTimesOut, DriverWakes, TurnEnds, DriverBreaks,
                  Connect, Close, AcceptorWaits
    <3> QED
      BY <1>1, <3>1, UnchangedRx
  <2> QED
    BY <2>1, <2>2
<1>4. AcceptorGoesOn
  <2>1. CASE UNCHANGED <<dial, acceptor>>
    BY <1>1, <2>1 DEF AcceptorGoesOn, DialInv, Typed
  <2>2. CASE DriverWakes
    BY <1>1, <2>2 DEF DriverWakes, TurnEnds, Bump, AcceptorGoesOn, DialInv, Typed
  <2>3. CASE Connect
    BY <1>1, <2>3 DEF Connect, AcceptorGoesOn, DialInv, Typed
  <2>4. CASE Close
    BY <1>1, <2>4 DEF Close, Bump, AcceptorGoesOn, DialInv, Typed
  <2>5. CASE AcceptorWaits
    BY <1>1, <2>5 DEF AcceptorWaits, AcceptorGoesOn, DialInv, Typed
  <2> QED
    BY <2>1, <2>2, <2>3, <2>4, <2>5 DEF Driver, DriverReceives, DriverTimesOut, DriverBreaks
<1>5. KindInv' /\ AcceptedInv' /\ OneRequestPerBeginning' /\ Live' = Live
  BY <1>2, <1>3, <1>4, TasksStayKeeps
<1>6. readWaker' \in [Streams -> SUBSET Tasks] /\ OneWaker' /\ parked' \subseteq Live'
  <2>1. CASE UNCHANGED <<readWaker, parked>>
    BY <1>1, <1>5, <2>1 DEF Typed, OneWaker
  <2>2. CASE \E S \in SUBSET Streams : Wake(S)
    BY <1>1, <1>2, <2>2, WakeKeeps DEF TasksStay
  <2>3. CASE DriverWakes
    <3>1. PICK S \in SUBSET Streams : Wake(S)
      BY <2>3 DEF DriverWakes, TurnEnds
    <3> QED
      BY <2>2, <3>1
  <2>4. CASE Close
    BY <2>2, <2>4 DEF Close
  <2> QED
    BY <2>1, <2>3, <2>4
       DEF Driver, DriverReceives, DriverTimesOut, DriverBreaks, Connect, AcceptorWaits
<1>7. /\ dial' \in {"waiting", "established", "connected", "failed"}
      /\ quic' \in {"handshake", "open", "closed"}
      /\ driver' \in {"select", "received", "ended"}
      /\ eof' = eof
  BY <1>1 DEF Typed, Driver, DriverReceives, DriverTimesOut, DriverWakes, TurnEnds,
              DriverBreaks, Connect, Close, AcceptorWaits
<1>8. closed' \in BOOLEAN
  <2>1. CASE DriverWakes
    BY <2>1, Zenon DEF DriverWakes, TurnEnds
  <2>2. CASE ~DriverWakes
    BY <1>1, <2>2 DEF Typed, Driver, DriverReceives, DriverTimesOut, DriverBreaks,
                      Connect, Close, AcceptorWaits
  <2> QED
    BY <2>1, <2>2
<1>9. Typed'
  BY <1>1, <1>2, <1>3, <1>4, <1>6, <1>7, <1>8 DEF Typed, TasksStay, RxGrows, AcceptorGoesOn
<1> QED
  BY <1>4, <1>5, <1>6, <1>9, TypedAfter DEF IInv, AcceptorGoesOn

\* A read that finds nothing, and the reads of a handler and of a drain.
LEMMA ReadsKeep ==
  ASSUME IInv, NEW t \in Tasks, ReadPends(t) \/ HandlerReads(t) \/ DrainReads(t)
  PROVE  IInv'
<1>1. Typed /\ OneWaker /\ DialInv /\ t.stream \in Streams
  BY TypedIsTypeOK DEF IInv, Tasks
<1>2. TasksStay
  BY DEF TasksStay, ReadPends, HandlerReads, DrainReads
<1>3. RxGrows
  BY <1>1, UnchangedRx, Reads DEF ReadPends, HandlerReads, DrainReads
<1>4. AcceptorGoesOn /\ UNCHANGED <<alike, dial, quic, closed, driver, acceptor>>
  BY <1>1 DEF AcceptorGoesOn, DialInv, Typed, ReadPends, HandlerReads, DrainReads
<1>5. KindInv' /\ AcceptedInv' /\ OneRequestPerBeginning' /\ Live' = Live
  BY <1>2, <1>3, <1>4, TasksStayKeeps
<1>6. readWaker' \in [Streams -> SUBSET Tasks] /\ OneWaker' /\ parked' \subseteq Live'
  BY <1>1, <1>5 DEF Typed, OneWaker, ReadPends, Park, HandlerReads, DrainReads
<1>7. eof' \subseteq Tasks
  BY <1>1 DEF Typed, ReadPends, HandlerReads, DrainReads
<1>8. Typed'
  BY <1>1, <1>2, <1>3, <1>4, <1>6, <1>7 DEF Typed, TasksStay, RxGrows
<1> QED
  BY <1>4, <1>5, <1>6, <1>8, TypedAfter DEF IInv, AcceptorGoesOn

-----------------------------------------------------------------------------
\* A task under way is in Live; a request task of a stream is its only one.
LEMMA ServingIs ==
  ASSUME KindInv
  PROVE  \A t \in Tasks :
           /\ t.stream \in Streams
           /\ t \in Live <=> task[t] \in {"preamble", "handling", "draining"}
           /\ \A s \in Streams :
                t \in Serving(s) <=> t.stream = s /\ task[t] \in {"preamble", "handling"}
BY DEF KindInv, Live, Serving, Tasks

\* The drain task of a request task is another task of the same stream.
LEMMA DrainOfTask ==
  ASSUME NEW t \in Tasks
  PROVE  DrainOf(t) \in Tasks /\ DrainOf(t).kind = "drain" /\ DrainOf(t).stream = t.stream
BY DEF DrainOf, Tasks

\* A request task leaves: its place in the accepted set goes with it.
LEMMA LeaveKeeps ==
  ASSUME IInv, NEW t \in Tasks, t.kind = "serve", task[t] \in {"preamble", "handling"},
         NEW how \in {"done", "refused"}, how = "done" => task[t] = "handling",
         NEW drains \in BOOLEAN, Leave(t, how, drains),
         RxGrows, UNCHANGED <<acceptor, dispatched>>
  PROVE  /\ task' \in [Tasks ->
               {"off", "preamble", "handling", "draining", "done", "refused"}]
         /\ accepted' \subseteq Streams /\ parked' \subseteq Live'
         /\ KindInv' /\ AcceptedInv' /\ OneRequestPerBeginning'
<1> DEFINE d == DrainOf(t)
<1>1. /\ Typed /\ KindInv /\ t.stream \in Streams /\ d \in Tasks
      /\ d.kind = "drain" /\ d # t
  BY TypedIsTypeOK, DrainOfTask, ServingIs DEF IInv
<1> HIDE DEF d
<1>2. /\ task' \in [Tasks ->
               {"off", "preamble", "handling", "draining", "done", "refused"}]
      /\ task'[t] = how
      /\ \A u \in Tasks \ {t} : task'[u] = task[u] \/ (u = d /\ task'[u] = "draining")
  <2>1. CASE drains
    <3>1. task' = [task EXCEPT ![t] = how, ![d] = "draining"]
      BY <2>1 DEF Leave, d
    <3> QED
      BY <1>1, <3>1 DEF Typed
  <2>2. CASE ~drains
    <3>1. task' = [task EXCEPT ![t] = how]
      BY <2>2 DEF Leave
    <3> QED
      BY <1>1, <3>1 DEF Typed
  <2> QED
    BY <2>1, <2>2
<1>3. KindInv'
  BY <1>1, <1>2 DEF KindInv
<1>4. \A u \in Tasks : u # t /\ u \in Live => u \in Live'
  BY <1>2 DEF Live
<1>5. parked' \subseteq Live'
  BY <1>1, <1>4 DEF Leave, Typed, Live
<1>6. AcceptedInv'
  <2> SUFFICES ASSUME acceptor # "over", NEW s \in Streams
               PROVE  /\ s \in accepted' <=> Serving(s)' # {}
                      /\ \A u, v \in Serving(s)' : u = v
    BY DEF AcceptedInv
  <2>1. /\ s \in accepted <=> Serving(s) # {}
        /\ \A u, v \in Serving(s) : u = v
    BY DEF IInv, AcceptedInv
  <2>2. \A u \in Tasks : u \in Serving(s)' <=> u.stream = s /\ task'[u] \in {"preamble", "handling"}
    BY <1>3 DEF KindInv, Live, Serving, Tasks
  <2>3. \A u \in Tasks : u \in Serving(s)' <=> u \in Serving(s) /\ u # t
    <3>1. \A u \in Tasks : u \in Serving(s) <=> u.stream = s /\ task[u] \in {"preamble", "handling"}
      BY <1>1, ServingIs
    <3>2. d \notin Serving(s) /\ d \notin Serving(s)'
      BY <1>1, <1>3, <2>2, <3>1 DEF KindInv
    <3> QED
      BY <1>1, <1>2, <2>2, <3>1, <3>2
  <2>4. Serving(s) \subseteq Tasks /\ Serving(s)' \subseteq Tasks
    BY DEF Serving, Live
  <2>5. t \in Serving(s) <=> t.stream = s
    BY <1>1, ServingIs
  <2> QED
    BY <2>1, <2>3, <2>4, <2>5 DEF Leave, Released
<1>7. OneRequestPerBeginning'
  <2>1. \A u \in Tasks : Handled(u)' => Handled(u)
    BY <1>1, <1>2 DEF Handled
  <2> QED
    BY <1>1, <2>1, NoneHandled DEF IInv
<1> QED
  BY <1>1, <1>2, <1>3, <1>5, <1>6, <1>7 DEF Leave, Typed

LEMMA RespondKeeps ==
  ASSUME IInv, NEW t \in Tasks, RespondDraining(t) \/ RespondPlain(t)
  PROVE  IInv'
<1>1. Typed /\ OneWaker /\ DialInv /\ KindInv /\ task[t] = "handling" /\ t.kind = "serve"
  BY TypedIsTypeOK DEF IInv, KindInv, RespondDraining, RespondPlain
<1>2. PICK drains \in BOOLEAN : Leave(t, "done", drains)
  BY DEF RespondDraining, RespondPlain
<1>3. RxGrows
  BY <1>1, UnchangedRx DEF RespondDraining, RespondPlain
<1>4. UNCHANGED <<alike, dial, quic, closed, driver, readWaker, acceptor, dispatched>>
  BY DEF RespondDraining, RespondPlain
<1>5. /\ task' \in [Tasks ->
               {"off", "preamble", "handling", "draining", "done", "refused"}]
      /\ accepted' \subseteq Streams /\ parked' \subseteq Live'
      /\ KindInv' /\ AcceptedInv' /\ OneRequestPerBeginning'
  BY <1>1, <1>2, <1>3, <1>4, LeaveKeeps
<1>6. eof' \subseteq Tasks
  BY <1>1, DrainOfTask DEF Typed, RespondDraining, RespondPlain
<1>7. Typed' /\ OneWaker' /\ DialInv'
  BY <1>1, <1>3, <1>4, <1>5, <1>6 DEF Typed, OneWaker, DialInv, RxGrows
<1> QED
  BY <1>5, <1>7, TypedAfter DEF IInv

\* serve_stream takes the next segment: the request is handled if that begins as
\* a request does, and no other request of the stream took it.
LEMMA ReadPreambleKeeps ==
  ASSUME IInv, NEW t \in Tasks, ReadPreamble(t)
  PROVE  IInv'
<1>1. /\ Typed /\ OneWaker /\ DialInv /\ KindInv
      /\ task[t] = "preamble" /\ t.kind = "serve" /\ t.stream \in Streams
  BY TypedIsTypeOK DEF IInv, KindInv, ReadPreamble, Tasks
<1>2. UNCHANGED <<alike, dial, quic, closed, driver, readWaker, acceptor, dispatched>>
  BY DEF ReadPreamble
<1>3. RxGrows
  BY <1>1, UnchangedRx, Reads DEF ReadPreamble
<1>4. eof' \subseteq Tasks
  BY <1>1 DEF ReadPreamble, Typed
<1>5. CASE Leave(t, "refused", FALSE)
  <2>1. /\ task' \in [Tasks ->
               {"off", "preamble", "handling", "draining", "done", "refused"}]
        /\ accepted' \subseteq Streams /\ parked' \subseteq Live'
        /\ KindInv' /\ AcceptedInv' /\ OneRequestPerBeginning'
    BY <1>1, <1>2, <1>3, <1>5, LeaveKeeps
  <2>2. Typed' /\ OneWaker' /\ DialInv'
    BY <1>1, <1>2, <1>3, <1>4, <2>1 DEF Typed, OneWaker, DialInv, RxGrows
  <2> QED
    BY <2>1, <2>2, TypedAfter DEF IInv
<1>6. CASE /\ Segment(t) /\ TakeSegment(t.stream) /\ Signature(t.stream)
           /\ task' = [task EXCEPT ![t] = "handling"]
           /\ UNCHANGED <<accepted, parked>>
  <2>1. /\ task' \in [Tasks ->
               {"off", "preamble", "handling", "draining", "done", "refused"}]
        /\ task'[t] = "handling" /\ \A u \in Tasks \ {t} : task'[u] = task[u]
    BY <1>1, <1>6 DEF Typed
  <2>2. KindInv'
    BY <1>1, <2>1 DEF KindInv
  <2>3. Live' = Live /\ \A s \in Streams : Serving(s)' = Serving(s)
    BY <1>1, <2>1 DEF Live, Serving
  <2>4. AcceptedInv'
    BY <1>2, <1>6, <2>3 DEF IInv, AcceptedInv
  <2>5. OneRequestPerBeginning'
    <3>1. rx'[t.stream].read = rx[t.stream].read + 1
      BY <1>1, <1>6, Reads DEF ReadPreamble
    <3>2. \A u \in Tasks : Handled(u)' => Handled(u) \/ u = t
      BY <2>1 DEF Handled
    <3> QED
      BY <1>1, <1>3, <1>6, <3>1, <3>2, OneHandled DEF IInv
  <2>6. Typed' /\ OneWaker' /\ DialInv'
    BY <1>1, <1>2, <1>3, <1>4, <1>6, <2>1, <2>3 DEF Typed, OneWaker, DialInv, RxGrows
  <2> QED
    BY <2>2, <2>4, <2>5, <2>6, TypedAfter DEF IInv
<1> QED
  BY <1>5, <1>6 DEF ReadPreamble

\* accept_stream hands out a stream nobody works on.
LEMMA DispatchKeeps ==
  ASSUME IInv, NEW s \in Streams, Dispatch(s)
  PROVE  IInv'
<1> DEFINE t == ServeTask(s, dispatched[s] + 1)
<1>1. Typed /\ OneWaker /\ DialInv /\ KindInv /\ dispatched \in [Streams -> 0 .. MaxDispatch]
  BY TypedIsTypeOK DEF IInv, Typed
<1>2. dispatched[s] + 1 \in 1 .. MaxDispatch /\ dispatched[s] + 1 \in 0 .. MaxDispatch
  BY <1>1, BoundsAssumption DEF Dispatch
<1>3. t \in Tasks /\ t.stream = s /\ t.kind = "serve"
  BY <1>2 DEF ServeTask, Tasks
<1>4. task' = [task EXCEPT ![t] = "preamble"]
  BY DEF Dispatch
<1>5. /\ s \notin accepted /\ accepted' = accepted \cup {s}
      /\ dispatched' = [dispatched EXCEPT ![s] = @ + 1] /\ acceptor = "check"
      /\ UNCHANGED <<alike, dial, quic, closed, driver, rx, readWaker, acceptor, parked, eof>>
  BY DEF Dispatch
<1> HIDE DEF t
<1>6. /\ task' \in [Tasks ->
               {"off", "preamble", "handling", "draining", "done", "refused"}]
      /\ task'[t] = "preamble" /\ \A u \in Tasks \ {t} : task'[u] = task[u]
  BY <1>1, <1>3, <1>4 DEF Typed
<1>7. KindInv'
  BY <1>1, <1>3, <1>6 DEF KindInv
<1>8. parked' \subseteq Live'
  BY <1>1, <1>5, <1>6 DEF Typed, Live
<1>9. AcceptedInv'
  <2> SUFFICES ASSUME NEW r \in Streams
               PROVE  /\ r \in accepted' <=> Serving(r)' # {}
                      /\ \A u, v \in Serving(r)' : u = v
    BY DEF AcceptedInv
  <2>1. /\ r \in accepted <=> Serving(r) # {}
        /\ \A u, v \in Serving(r) : u = v
    BY <1>5 DEF IInv, AcceptedInv
  <2>2. \A u \in Tasks : u \in Serving(r)' <=> u.stream = r /\ task'[u] \in {"preamble", "handling"}
    BY <1>7 DEF KindInv, Live, Serving, Tasks
  <2>3. \A u \in Tasks : u \in Serving(r) <=> u.stream = r /\ task[u] \in {"preamble", "handling"}
    BY <1>1, ServingIs
  <2>4. Serving(r) \subseteq Tasks /\ Serving(r)' \subseteq Tasks
    BY DEF Serving, Live
  <2>5. CASE r # s
    BY <2>1, <2>2, <2>3, <2>4, <2>5, <1>3, <1>5, <1>6
  <2>6. CASE r = s
    <3>1. Serving(r) = {}
      BY <2>1, <2>6, <1>5
    <3>2. t \in Serving(r)'
      BY <2>2, <2>6, <1>3, <1>6
    <3>3. \A u \in Serving(r)' : u = t
      BY <2>2, <2>3, <2>4, <3>1, <1>6
    <3> QED
      BY <2>6, <3>2, <3>3, <1>5
  <2> QED
    BY <2>5, <2>6
<1>10. RxGrows /\ OneRequestPerBeginning'
  <2>1. \A u \in Tasks : Handled(u)' => Handled(u)
    BY <1>6 DEF Handled
  <2>2. RxGrows
    BY <1>1, <1>5, UnchangedRx
  <2> QED
    BY <1>1, <2>1, <2>2, NoneHandled DEF IInv
<1>11. Typed' /\ OneWaker' /\ DialInv'
  <2>1. dispatched' \in [Streams -> 0 .. MaxDispatch]
    BY <1>1, <1>2, <1>5
  <2> QED
    BY <1>1, <1>5, <1>6, <1>8, <2>1 DEF Typed, OneWaker, DialInv
<1> QED
  BY <1>7, <1>9, <1>10, <1>11, TypedAfter DEF IInv

\* serve_requests is over: the request tasks are aborted, the drains stay.
LEMMA AcceptorEndsKeeps == ASSUME IInv, AcceptorEnds PROVE IInv'
<1>1. Typed /\ OneWaker /\ DialInv /\ KindInv
  BY TypedIsTypeOK DEF IInv
<1>2. /\ acceptor = "check" /\ acceptor' = "over"
      /\ parked' = {t \in parked : t.kind = "drain"}
      /\ UNCHANGED <<alike, dial, quic, closed, driver, rx, accepted, readWaker, dispatched, eof>>
  BY DEF AcceptorEnds
<1>3. \A t \in Tasks :
        /\ task[t] = "preamble" => task'[t] = "refused"
        /\ task[t] = "handling" => task'[t] = "done"
        /\ task[t] \notin {"preamble", "handling"} => task'[t] = task[t]
  BY DEF AcceptorEnds
<1>4. task' \in [Tasks ->
               {"off", "preamble", "handling", "draining", "done", "refused"}]
  <2>1. task' = [t \in Tasks |-> task'[t]]
    BY DEF AcceptorEnds
  <2>2. \A t \in Tasks :
          task'[t] \in {"off", "preamble", "handling", "draining", "done", "refused"}
    BY <1>1, <1>3 DEF Typed
  <2> QED
    BY <2>1, <2>2
<1>5. KindInv'
  BY <1>1, <1>3 DEF KindInv, Typed
<1>6. parked' \subseteq Live'
  <2> SUFFICES ASSUME NEW t \in parked, t.kind = "drain" PROVE t \in Live'
    BY <1>2
  <2>1. t \in Tasks /\ task[t] = "draining"
    BY <1>1 DEF Typed, Live, KindInv
  <2> QED
    BY <1>3, <2>1 DEF Live
<1>7. AcceptedInv'
  BY <1>2 DEF AcceptedInv
<1>8. OneRequestPerBeginning'
  <2>1. \A u \in Tasks : Handled(u)' => Handled(u)
    BY <1>1, <1>3 DEF Handled, Typed
  <2>2. RxGrows
    BY <1>1, <1>2, UnchangedRx
  <2> QED
    BY <1>1, <2>1, <2>2, NoneHandled DEF IInv
<1>9. Typed' /\ OneWaker' /\ DialInv'
  BY <1>1, <1>2, <1>4, <1>6 DEF Typed, OneWaker, DialInv
<1> QED
  BY <1>5, <1>7, <1>8, <1>9, TypedAfter DEF IInv

\* A drain is done, whether it met the end of the stream or gave up.
LEMMA DrainKeeps ==
  ASSUME IInv, NEW t \in Tasks, DrainEnds(t) \/ DrainGivesUp(t)
  PROVE  IInv'
<1>1. /\ Typed /\ OneWaker /\ DialInv /\ KindInv /\ t.stream \in Streams
      /\ task[t] = "draining" /\ t.kind = "drain"
  BY TypedIsTypeOK DEF IInv, KindInv, DrainEnds, DrainGivesUp, Tasks
<1>2. /\ task' = [task EXCEPT ![t] = "done"]
      /\ UNCHANGED <<alike, dial, quic, closed, driver, accepted, readWaker, acceptor,
                     dispatched, eof>>
  BY DEF DrainEnds, DrainGivesUp
<1>3. RxGrows
  <2>1. CASE DrainEnds(t)
    BY <1>1, <2>1, Reads DEF DrainEnds
  <2>2. CASE rx' = [rx EXCEPT ![t.stream].stopped = TRUE]
    <3>1. rx \in [Streams -> Receive] /\ rx[t.stream] \in Receive
      BY <1>1 DEF Typed
    <3>2. rx' \in [Streams -> Receive]
      BY <1>1, <2>2, <3>1 DEF Receive
    <3>3. \A s \in Streams :
            /\ rx'[s].read = rx[s].read /\ rx'[s].arrived = rx[s].arrived
            /\ rx'[s].sent = rx[s].sent /\ rx[s].read \in Nat
      BY <1>1, <2>2, <3>1 DEF Receive
    <3> QED
      BY <1>1, <1>2, <3>2, <3>3 DEF RxGrows, Typed
  <2> QED
    BY <1>1, <2>1, <2>2, UnchangedRx DEF DrainGivesUp
<1>4. /\ task' \in [Tasks ->
               {"off", "preamble", "handling", "draining", "done", "refused"}]
      /\ task'[t] = "done" /\ \A u \in Tasks \ {t} : task'[u] = task[u]
  BY <1>1, <1>2 DEF Typed
<1>5. KindInv'
  BY <1>1, <1>4 DEF KindInv
<1>6. parked' \subseteq Live'
  <2>1. t \notin parked' /\ parked' \subseteq parked
    BY DEF DrainEnds, DrainGivesUp
  <2> QED
    BY <1>1, <1>4, <2>1 DEF Typed, Live
<1>7. AcceptedInv'
  <2>1. \A s \in Streams : Serving(s)' = Serving(s)
    BY <1>1, <1>4 DEF Live, Serving
  <2> QED
    BY <1>2, <2>1 DEF IInv, AcceptedInv
<1>8. OneRequestPerBeginning'
  <2>1. \A u \in Tasks : Handled(u)' => Handled(u)
    BY <1>1, <1>4 DEF Handled
  <2> QED
    BY <1>1, <1>3, <2>1, NoneHandled DEF IInv
<1>9. Typed' /\ OneWaker' /\ DialInv'
  BY <1>1, <1>2, <1>3, <1>4, <1>6 DEF Typed, OneWaker, DialInv, RxGrows
<1> QED
  BY <1>5, <1>7, <1>8, <1>9, TypedAfter DEF IInv

-----------------------------------------------------------------------------
LEMMA NextInv == ASSUME IInv, [Next]_vars PROVE IInv'
<1>1. CASE \E s \in Streams : EdgeSends(s)
  BY <1>1, EdgeSendsKeeps
<1>2. CASE Driver \/ Connect \/ Close
  BY <1>2, DriverKeeps
<1>3. CASE Acceptor
  BY <1>3, DispatchKeeps, DriverKeeps, AcceptorEndsKeeps DEF Acceptor
<1>4. CASE \E t \in Tasks : Request(t) \/ Drain(t)
  BY <1>4, ReadPreambleKeeps, RespondKeeps, ReadsKeep, DrainKeeps DEF Request, Drain
<1>5. CASE UNCHANGED vars
  BY <1>5 DEF vars, IInv, TypeOK, Live, OneWaker, KindInv, DialInv, AcceptedInv, Serving,
              OneRequestPerBeginning, Begins
<1> QED
  BY <1>1, <1>2, <1>3, <1>4, <1>5 DEF Next

LEMMA Invariance == Spec => []IInv
<1>1. Init => IInv
  BY InitInv
<1>2. IInv /\ [Next]_vars => IInv'
  BY NextInv
<1> QED
  BY <1>1, <1>2, PTL DEF Spec

(* While serve_requests runs, the accepted set is exactly the streams with  *)
(* a request task, and each has one: a stream is released whatever became   *)
(* of its request (release, serve.rs).                                      *)
THEOREM AcceptedStreamsAreLive == Spec => []AcceptedIsLive
<1>1. IInv => AcceptedIsLive
  <2> SUFFICES ASSUME IInv PROVE AcceptedIsLive
    OBVIOUS
  <2>1. ASSUME acceptor # "over"
        PROVE  /\ accepted = {s \in Streams : Serving(s) # {}}
               /\ \A s \in Streams : Cardinality(Serving(s)) <= 1
    <3>1. accepted \subseteq Streams
      BY DEF IInv, TypeOK
    <3>2. \A s \in Streams : \A t, u \in Serving(s) : t = u
      BY <2>1 DEF IInv, AcceptedInv
    <3> QED
      BY <2>1, <3>1, <3>2, AtMostOne DEF IInv, AcceptedInv
  <2> QED
    BY <2>1 DEF IInv, AcceptedIsLive
<1> QED
  BY <1>1, Invariance, PTL

(* However often a stream is dispatched, each request of it that reaches a *)
(* handler began with bytes of its own (serve_stream, serve.rs:82-92).      *)
THEOREM RequestsHaveBeginnings == Spec => []OneRequestPerBeginning
BY Invariance, PTL DEF IInv

(* So a stream whose body nowhere begins as a request does is handled at    *)
(* most once: what the first request and its drain left of it is refused.   *)
HandledOnce ==
  \A s \in Streams :
    alike[s] = {} => Cardinality({n \in 1 .. MaxDispatch :
                       task[ServeTask(s, n)] \in {"handling", "done"}}) <= 1

THEOREM PlainBodiesHandledOnce == Spec => []HandledOnce
<1>1. IInv => HandledOnce
  <2> SUFFICES ASSUME IInv, NEW s \in Streams, alike[s] = {}
               PROVE  Cardinality(Turns(s)) <= 1
    BY DEF HandledOnce, Turns
  <2>1. rx[s].read \in Nat /\ MaxDispatch \in Nat
    BY BoundsAssumption DEF IInv, TypeOK, Receive
  <2>2. Begun(s) \in SUBSET (1 .. rx[s].read) /\ Turns(s) \in SUBSET (1 .. MaxDispatch)
    BY DEF Begun, Turns
  <2>3. Cardinality(Begun(s)) \in Nat /\ Cardinality(Turns(s)) \in Nat
    BY <2>1, <2>2, Finite
  <2>4. Cardinality(Begun(s)) <= 1
    BY AtMostOne DEF Begun, Begins
  <2>5. Cardinality(Turns(s)) <= Cardinality(Begun(s))
    BY DEF IInv, OneRequestPerBeginning, Turns, Begun
  <2> QED
    BY <2>3, <2>4, <2>5
<1> QED
  BY <1>1, Invariance, PTL
=============================================================================
