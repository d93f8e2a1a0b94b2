----------------------------- MODULE Connector ------------------------------
(***************************************************************************)
(* EdgeConnector::run (src/edge/connector/mod.rs): the loop that selects a *)
(* transport, discovers the edge addresses, attempts each of them in turn  *)
(* and waits out a backoff, until shutdown or a permanent rejection.       *)
(* A connection attempt is seen through its ServeAttempt only; QuicSession *)
(* and H2Session open that box.                                            *)
(***************************************************************************)
EXTENDS Naturals, Events

CONSTANTS
  U8Max,     \* u8::MAX, where quic_failures saturates
  U32Max,    \* u32::MAX, where attempt saturates
  MaxEdges   \* bound on the addresses one discovery returns

ASSUME ConnectorAssumption ==
  /\ U8Max \in Nat
  /\ U32Max \in Nat \ {0}
  /\ MaxEdges \in Nat \ {0}

VARIABLES
  requested,     \* options.transport
  maximum,       \* options.maximum_quic_failures
  pc,            \* where run is
  outcome,       \* what run returned
  transport,     \* the transport of this round
  edges,         \* addresses of this round not yet given up
  quicBroken,    \* quic_broken
  quicFailures,  \* quic_failures
  attempt,       \* attempt
  shutdown,      \* shutdown_flag, with run as its only waiter
  seen           \* history: how many QUIC rounds were finished, and whether
                 \* one of them met an idle timeout

vars == <<requested, maximum, pc, outcome, transport, edges, quicBroken,
          quicFailures, attempt, shutdown, seen>>

Requests == {"Quic", "H2", "Auto"}

TypeOK ==
  /\ requested \in Requests
  /\ maximum \in 0..U8Max
  /\ pc \in {"round", "discovering", "attempting", "waiting", "done"}
  /\ outcome \in {"none", "ok", "permanent"}
  /\ transport \in {"none", "Quic", "H2"}
  /\ edges \in 0..MaxEdges
  /\ quicBroken \in BOOLEAN
  /\ quicFailures \in 0..U8Max
  /\ attempt \in 0..U32Max
  /\ shutdown \in EventOf({"run"})
  /\ seen \in [rounds : 0..U8Max, timedOut : BOOLEAN]

-----------------------------------------------------------------------------
(***************************************************************************)
(* A definition whose comment begins with "Variant" is a deliberate        *)
(* mistake.  No specification uses it; PROJECT.json's mutants put it in    *)
(* the place of the definition after it to show which property notices.    *)
(***************************************************************************)
\* Variant: an addition that does not saturate.
BumpUnchecked(n, max) == n + 1

\* saturating_add(1) of an integer whose type ends at max.
Bump(n, max) == IF n < max THEN n + 1 ELSE max

Larger(m, n) == IF m < n THEN n ELSE m

\* Variant: falls back one failure early.
SelectTransportEarly ==
  IF requested = "Auto"
    THEN IF quicFailures + 1 >= maximum THEN "H2" ELSE "Quic"
    ELSE requested

\* options.rs: Auto uses QUIC until enough of its rounds have failed.
SelectTransport ==
  IF requested = "Auto"
    THEN IF quicFailures >= maximum THEN "H2" ELSE "Quic"
    ELSE requested

\* Variant: an idle timeout is a failure like any other.
QuicFailuresAfterPlain(broken) == Bump(quicFailures, U8Max)

\* One more failed round, at least the limit when QUIC went silent.
QuicFailuresAfter(broken) ==
  IF broken THEN Larger(Bump(quicFailures, U8Max), maximum)
            ELSE Bump(quicFailures, U8Max)

Init ==
  /\ requested \in Requests
  /\ maximum \in 0..U8Max
  /\ pc = "round"
  /\ outcome = "none"
  /\ transport = "none"
  /\ edges = 0
  /\ quicBroken = FALSE
  /\ quicFailures = 0
  /\ attempt = 0
  /\ shutdown = NewEvent
  /\ seen = [rounds |-> 0, timedOut |-> FALSE]

options == <<requested, maximum>>

\* The task run spawns for the caller's shutdown future fires the flag.
FireShutdown ==
  /\ ~shutdown.fired
  /\ shutdown' = Fire(shutdown)
  /\ UNCHANGED <<options, pc, outcome, transport, edges, quicBroken,
                 quicFailures, attempt, seen>>

\* The top of the loop; discover_edges is awaited with no notified() beside it.
BeginRound ==
  /\ pc = "round"
  /\ pc' = "discovering"
  /\ transport' = SelectTransport
  /\ UNCHANGED <<options, outcome, edges, quicBroken, quicFailures, attempt,
                 shutdown, seen>>

\* Discovery returned n addresses: the first attempt starts.
DiscoverySucceeds(n) ==
  /\ pc = "discovering"
  /\ pc' = "attempting"
  /\ edges' = n
  /\ quicBroken' = FALSE
  /\ shutdown' = Listen(shutdown, "run")
  /\ UNCHANGED <<options, outcome, transport, quicFailures, attempt, seen>>

\* A failed discovery backs off and counts as an attempt, not as a QUIC failure.
DiscoveryFails ==
  /\ pc = "discovering"
  /\ pc' = "waiting"
  /\ attempt' = Bump(attempt, U32Max)
  /\ shutdown' = Listen(shutdown, "run")
  /\ UNCHANGED <<options, outcome, transport, edges, quicBroken, quicFailures,
                 seen>>

Return(result) ==
  /\ pc' = "done"
  /\ outcome' = result
  /\ shutdown' = Drop(shutdown, "run")
  /\ UNCHANGED <<options, transport, edges, quicBroken, quicFailures, attempt,
                 seen>>

\* Variant: a round lost over HTTP/2 gives QUIC another chance.
EndRoundForgiving(broken, base) ==
  /\ pc' = "waiting"
  /\ attempt' = Bump(base, U32Max)
  /\ quicFailures' = IF transport = "Quic" THEN QuicFailuresAfter(broken) ELSE 0
  /\ UNCHANGED seen

\* After the last address: count the round, then sleep a retry_delay.
EndRound(broken, base) ==
  /\ pc' = "waiting"
  /\ attempt' = Bump(base, U32Max)
  /\ IF transport = "Quic"
       THEN /\ quicFailures' = QuicFailuresAfter(broken)
            /\ seen' = [seen EXCEPT !.rounds = Bump(@, U8Max),
                                    !.timedOut = @ \/ broken]
       ELSE UNCHANGED <<quicFailures, seen>>

\* The attempt on one address is over: the next address, or the round's end.
NextEdge(broken, base) ==
  /\ edges' = edges - 1
  /\ quicBroken' = broken
  /\ shutdown' = Listen(shutdown, "run")
  /\ UNCHANGED <<options, outcome, transport>>
  /\ IF edges > 1
       THEN /\ attempt' = base
            /\ UNCHANGED <<pc, quicFailures, seen>>
       ELSE EndRound(broken, base)

\* Variant: an HTTP/2 connection the edge closed always counts as a shutdown.
AttemptStopsUnasked ==
  /\ pc = "attempting"
  /\ Woken(shutdown, "run") \/ transport = "H2"
  /\ Return("ok")

\* ServeAttempt Ok.  A session returns it when its own notified() fired, or,
\* over HTTP/2, when the edge closed and the flag is already set.
AttemptStops ==
  /\ pc = "attempting"
  /\ Woken(shutdown, "run") \/ (transport = "H2" /\ shutdown.fired)
  /\ Return("ok")

\* The edge refused this registration as a duplicate of a live connection.
AttemptDuplicate ==
  /\ pc = "attempting"
  /\ NextEdge(quicBroken, attempt)

\* The edge refused the registration and will not accept a retry.
AttemptRejected ==
  /\ pc = "attempting"
  /\ Return("permanent")

\* Any other error; only QUIC reports an idle timeout.  healthy: the session
\* had been registered for at least the grace period.
AttemptFails(timedOut, healthy) ==
  /\ pc = "attempting"
  /\ timedOut => transport = "Quic"
  /\ NextEdge(quicBroken \/ timedOut, IF healthy THEN 0 ELSE attempt)

\* The branch of the select that listens to the flag.
ShutdownSeen ==
  /\ pc \in {"attempting", "waiting"}
  /\ Woken(shutdown, "run")
  /\ Return("ok")

\* Variant: gives up when the attempt counter is at its limit.
DelayElapsesUnderLimit ==
  /\ pc = "waiting"
  /\ attempt < U32Max
  /\ pc' = "round"
  /\ shutdown' = Drop(shutdown, "run")
  /\ UNCHANGED <<options, outcome, transport, edges, quicBroken, quicFailures,
                 attempt, seen>>

\* The sleep ends; select! may take it although notified() is ready too.
DelayElapses ==
  /\ pc = "waiting"
  /\ pc' = "round"
  /\ shutdown' = Drop(shutdown, "run")
  /\ UNCHANGED <<options, outcome, transport, edges, quicBroken, quicFailures,
                 attempt, seen>>

Discovery == DiscoveryFails \/ \E n \in 1..MaxEdges : DiscoverySucceeds(n)

AttemptEnds ==
  \/ AttemptStops
  \/ AttemptDuplicate
  \/ AttemptRejected
  \/ \E timedOut, healthy \in BOOLEAN : AttemptFails(timedOut, healthy)

Returned == pc = "done" /\ UNCHANGED vars

Next ==
  \/ FireShutdown
  \/ BeginRound
  \/ Discovery
  \/ AttemptEnds
  \/ ShutdownSeen
  \/ DelayElapses
  \/ Returned

Spec == Init /\ [][Next]_vars

(***************************************************************************)
(* Discovery is bounded by its DNS and lookup timeouts, the delay by       *)
(* retry_delay, and a ready branch is polled.  Nothing bounds a session    *)
(* that works, and nobody has to ask for a shutdown.                       *)
(***************************************************************************)
Fairness ==
  /\ WF_vars(BeginRound)
  /\ WF_vars(Discovery)
  /\ WF_vars(ShutdownSeen)
  /\ WF_vars(DelayElapses)

FairSpec == Spec /\ Fairness

-----------------------------------------------------------------------------
\* run returns Ok only when shutdown was asked for (mod.rs:46-47).
OkMeansShutdown == outcome = "ok" => shutdown.fired

\* Auto leaves QUIC only after `maximum` finished QUIC rounds, or after one
\* round that ended in an idle timeout (mod.rs:163-171, options.rs:43).
FallbackEarned ==
  requested = "Auto" /\ transport = "H2"
    => seen.timedOut \/ seen.rounds >= maximum

\* After a round in which QUIC went silent, Auto makes no further attempt over
\* QUIC, however many addresses and refusals followed in it (mod.rs:152-168).
BrokenNeverRetried ==
  requested = "Auto" /\ seen.timedOut /\ pc = "attempting" => transport = "H2"

\* The fallback is for the rest of the run, whatever HTTP/2 then meets
\* (mod.rs:65, 163-172).
FallbackSticks == [][transport = "H2" => transport' = "H2"]_vars

\* Unless it returned or a session lives on, the loop comes around for ever:
\* no counter at its limit and no error ends it (mod.rs:70-180).
KeepsTrying ==
  []<>(pc = "round") \/ <>[](pc = "attempting") \/ <>(pc = "done")

\* "Runs the tunnel until `shutdown` resolves" (mod.rs:46), and so when it does
\* while the first discovery is awaited, before any notified() was made: the
\* attempts are not counted yet only in the first round.
ShutdownStops ==
  shutdown.fired /\ pc = "discovering" /\ attempt = 0 ~> pc = "done"
=============================================================================
