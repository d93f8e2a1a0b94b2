--------------------------- MODULE ControlExchange ---------------------------
(***************************************************************************)
(* What a session relies on when it registers and unregisters its          *)
(* connection (register_on_stream and unregister, src/edge/control.rs):    *)
(* one question that the edge decides once, and one farewell.  The client  *)
(* reports a verdict only if it is the edge's, serves only while the edge  *)
(* has its tunnel, and is told that it was unregistered only after it was. *)
(* The edge may still decide, or unregister, after the client gave up.     *)
(*                                                                         *)
(* QuicSession and H2Session contain these steps as theirs; Registration,  *)
(* with its messages, implements them.                                     *)
(***************************************************************************)
VARIABLES
  phase,    \* the client: registering, configuring, registered, unregistering, over
  verdict,  \* the edge's answer to registerConnection
  tunnel,   \* the edge has the connection registered
  outcome,  \* what register_on_stream returned
  goodbye   \* how the unregister call went

vars == <<phase, verdict, tunnel, outcome, goodbye>>

Details == {"local", "remote"}
Refusals == {"duplicate", "permanent", "retryable"}

\* "error" is a return that says nothing of the kind.
Decisions == Details \cup Refusals \cup {"error"}

Init ==
  /\ phase = "registering"
  /\ verdict = "none"
  /\ tunnel = FALSE
  /\ outcome = "none"
  /\ goodbye = "none"

\* A client that gave up has told nobody.
Decide(v) ==
  /\ verdict = "none"
  /\ phase = "registering" \/ (phase = "over" /\ outcome = "error")
  /\ verdict' = v
  /\ tunnel' = (v \in Details)
  /\ UNCHANGED <<phase, outcome, goodbye>>

Accept ==
  /\ phase = "registering"
  /\ verdict \in Details
  /\ outcome' = verdict
  /\ phase' = IF verdict = "local" THEN "configuring" ELSE "registered"
  /\ UNCHANGED <<verdict, tunnel, goodbye>>

Refuse ==
  /\ phase = "registering"
  /\ verdict \in Refusals
  /\ outcome' = verdict
  /\ phase' = "over"
  /\ UNCHANGED <<verdict, tunnel, goodbye>>

\* Whatever went wrong, and whatever the edge makes of it later.
Fail ==
  /\ phase \in {"registering", "configuring"}
  /\ outcome' = "error"
  /\ phase' = "over"
  /\ UNCHANGED <<verdict, tunnel, goodbye>>

Configure ==
  /\ phase = "configuring"
  /\ phase' = "registered"
  /\ UNCHANGED <<verdict, tunnel, outcome, goodbye>>

Unregister ==
  /\ phase = "registered"
  /\ phase' = "unregistering"
  /\ UNCHANGED <<verdict, tunnel, outcome, goodbye>>

\* Only on request, and perhaps after the client stopped waiting for it.
Remove ==
  /\ tunnel
  /\ phase = "unregistering" \/ goodbye = "failed"
  /\ tunnel' = FALSE
  /\ UNCHANGED <<phase, verdict, outcome, goodbye>>

Confirmed ==
  /\ phase = "unregistering"
  /\ ~tunnel
  /\ phase' = "over"
  /\ goodbye' = "confirmed"
  /\ UNCHANGED <<verdict, tunnel, outcome>>

GiveUp ==
  /\ phase = "unregistering"
  /\ phase' = "over"
  /\ goodbye' = "failed"
  /\ UNCHANGED <<verdict, tunnel, outcome>>

Next ==
  \/ \E v \in Decisions : Decide(v)
  \/ Accept
  \/ Refuse
  \/ Fail
  \/ Configure
  \/ Unregister
  \/ Remove
  \/ Confirmed
  \/ GiveUp

Spec == Init /\ [][Next]_vars

\* Both timers run out, however silent the edge is.
Ends ==
  /\ phase = "registering" ~> phase \in {"registered", "unregistering", "over"}
  /\ phase = "unregistering" ~> phase = "over"
=============================================================================
