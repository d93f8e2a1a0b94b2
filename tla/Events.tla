------------------------------- MODULE Events -------------------------------
(***************************************************************************)
(* The signals the connector is built from: `Event` of src/edge/event.rs,  *)
(* an atomic flag beside a tokio `Notify`, and the bare `Notify` the HTTP/2 *)
(* control stream waits on.  An event is a record                          *)
(*    fired : the flag,                                                    *)
(*    live  : the `Notified` futures that exist and were not woken,        *)
(*    woken : the `Notified` futures that exist and are ready.             *)
(* `notify_waiters` wakes the futures that exist when it is called and     *)
(* stores no permit, and `notified` does not look at the flag: a future    *)
(* created after the event fired waits for a second call.                  *)
(***************************************************************************)

NewEvent == [fired |-> FALSE, live |-> {}, woken |-> {}]

\* The events whose futures belong to the waiters W.
EventOf(W) == [fired : BOOLEAN, live : SUBSET W, woken : SUBSET W]

\* Event::fire: store the flag, then notify_waiters.
Fire(e) == [fired |-> TRUE, live |-> {}, woken |-> e.woken \cup e.live]

\* Waiter w evaluates notified(): a fresh future replaces the one it held.
Listen(e, w) == [e EXCEPT !.live = @ \cup {w}, !.woken = @ \ {w}]

\* Waiter w drops its future, woken or not.
Drop(e, w) == [e EXCEPT !.live = @ \ {w}, !.woken = @ \ {w}]

\* The future of waiter w is ready.
Woken(e, w) == w \in e.woken
=============================================================================
