----------------------------- MODULE MCWatchdog -----------------------------
(* TLC instance of Watchdog: the gateway, whose name the other alerts      *)
(* borrow and which follows the session, and the backend, which runs       *)
(* round the clock and answers for the gates.                              *)
EXTENDS Watchdog

MCMonitored == <<"gateway", "backend">>
=============================================================================
