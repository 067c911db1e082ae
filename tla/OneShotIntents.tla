--------------------------- MODULE OneShotIntents ---------------------------
(***************************************************************************)
(* What the execution barrier promises, without queues, leases, workers or *)
(* crashes: an intent (account, strategy, signal) is committed durably     *)
(* before it is submitted, and it is submitted at most once, for ever.     *)
(***************************************************************************)
EXTENDS Integers

CONSTANT Intents

VARIABLES
  committed,    \* intents whose barrier has been raised
  submissions   \* how often each intent reached the broker

vars == <<committed, submissions>>

Init == committed = {} /\ submissions = [i \in Intents |-> 0]

(* A barrier once raised is never lowered.                                 *)
Commit(i) ==
  /\ i \notin committed
  /\ committed' = committed \cup {i}
  /\ UNCHANGED submissions

Submit(i) ==
  /\ i \in committed /\ submissions[i] = 0
  /\ submissions' = [submissions EXCEPT ![i] = 1]
  /\ UNCHANGED committed

Next == \E i \in Intents : Commit(i) \/ Submit(i)

Spec == Init /\ [][Next]_vars
=============================================================================
