---------------------------- MODULE ServeAttempt ----------------------------
(***************************************************************************)
(* What EdgeConnector::run relies on when it awaits one connection attempt *)
(* (src/edge/connector/runtime.rs, ServeAttempt and EdgeConnection::run):  *)
(* the attempt reports at most once; Ok only after shutdown was requested; *)
(* a refusal only before it served; a registration time and an idle        *)
(* timeout only after.  QuicSession and H2Session implement this.          *)
(***************************************************************************)
VARIABLES
  phase,   \* the attempt: registering, serving requests, or over
  fired,   \* shutdown was requested
  report   \* the ServeAttempt the connector received

vars == <<phase, fired, report>>

Results == {"ok", "duplicate", "permanent", "error"}

None == [result |-> "none", registered |-> FALSE, timedOut |-> FALSE]

\* ServeAttempt::failed.
Failed(result) == [result |-> result, registered |-> FALSE, timedOut |-> FALSE]

Reports == [result : Results, registered : BOOLEAN, timedOut : BOOLEAN]

Init ==
  /\ phase = "registering"
  /\ fired \in BOOLEAN
  /\ report = None

RequestShutdown ==
  /\ ~fired
  /\ fired' = TRUE
  /\ UNCHANGED <<phase, report>>

Register ==
  /\ phase = "registering"
  /\ phase' = "serving"
  /\ UNCHANGED <<fired, report>>

Report(r) ==
  /\ phase # "over"
  /\ r.result = "ok" => fired
  /\ r.result \in {"duplicate", "permanent"} => phase = "registering"
  /\ r.registered => phase = "serving"
  /\ r.timedOut => r.registered
  /\ phase' = "over"
  /\ report' = r
  /\ UNCHANGED fired

\* The connector itself saw the shutdown and dropped the attempt.
Abandon ==
  /\ phase # "over"
  /\ fired
  /\ phase' = "over"
  /\ UNCHANGED <<fired, report>>

Next ==
  \/ RequestShutdown
  \/ Register
  \/ \E r \in Reports : Report(r)
  \/ Abandon

Spec == Init /\ [][Next]_vars
=============================================================================
