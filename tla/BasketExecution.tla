--------------------------- MODULE BasketExecution ---------------------------
(***************************************************************************)
(* BasketCoordinator.execute for one basket, on top of the order state of  *)
(* IBKRExecutionAdapter and a broker that accepts, fills, rejects and      *)
(* cancels orders on its own: legs are submitted one by one, waited for,   *)
(* retried for the missing quantity, and otherwise cancelled and unwound.  *)
(*                                                                         *)
(* Three views of an order are kept apart: what the adapter believes (st,  *)
(* seen), what is true at the broker (at, fill), and what the coordinator  *)
(* wrote about the basket (row).  The adapter hears of an order's fills    *)
(* and then of its end, in that order, any time after they happened; the   *)
(* connection may be lost and restored, and a cancel may starve in the     *)
(* gateway rate limiter.                                                   *)
(***************************************************************************)
EXTENDS Integers, FiniteSets, Functions

CONSTANTS
  NumLegs,      \* legs of the intent
  Quantity,     \* intended quantity of each leg
  Action,       \* OPEN or CLOSE
  MaxRetries,   \* retry_policy.max_retries; 0 when retries are disabled
  MaxDrops      \* bound: connection losses in one behaviour

Legs   == 1..NumLegs
Unwind == MaxRetries + 1
Orders == Legs \X (0..Unwind)     \* attempt 0, the retries, the compensation

Leg(o)     == o[1]
Attempt(o) == o[2]
Basket     == {o \in Orders : Attempt(o) # Unwind}   \* "submitted" in the code

ASSUME BasketAssumption ==
  /\ NumLegs \in Nat \ {0} /\ MaxRetries \in Nat /\ MaxDrops \in Nat
  /\ Quantity \in [Legs -> Nat \ {0}]
  /\ Action \in {"OPEN", "CLOSE"}

(* PENDING, SUBMITTED and PARTIALLY_FILLED are WORKING; PARKED is the      *)
(* ERROR whose message says that the connection closed.                    *)
OrderStatus == {"none", "WORKING", "PARKED", "FILLED", "CANCELLED", "REJECTED", "ERROR"}
Refused     == {"REJECTED", "ERROR", "PARKED"}
BrokerState == {"none", "sent", "live", "filled", "cancelled", "rejected", "lost"}

VARIABLES
  qty, st, seen,     \* adapter: ordered quantity, status, filled_quantity
  at, fill,          \* broker: where the order is, what it has traded
  asked,             \* cancel requests on their way to the broker
  starved,           \* history: orders whose cancel got no gateway token
  conn, drops,       \* TWS connection, connection losses so far
  pc, cur, attempt,  \* coordinator: where it is, leg and retry of its loops
  todo, blocked,     \* working orders still to cancel, legs RMS refused to retry
  row, latched       \* baskets.state, the in-memory OPEN block

adapterVars == <<qty, st, seen>>
brokerVars  == <<at, fill>>
loopVars    == <<pc, cur, attempt, todo, blocked>>
vars == <<adapterVars, brokerVars, asked, starved, conn, drops, loopVars, row, latched>>

Init ==
  /\ qty = [o \in Orders |-> 0] /\ st = [o \in Orders |-> "none"]
  /\ seen = [o \in Orders |-> 0]
  /\ at = [o \in Orders |-> "none"] /\ fill = [o \in Orders |-> 0]
  /\ asked = {} /\ starved = {} /\ conn = TRUE /\ drops = 0
  /\ pc = "submit" /\ cur = 1 /\ attempt = 0 /\ todo = {} /\ blocked = {}
  /\ row = "EXECUTING" /\ latched = FALSE

----------------------------------------------------------------------------
(* What the coordinator computes from its orders.                          *)

OrdersOf(l) == {o \in Basket : Leg(o) = l}

FilledQtyForLeg(l) == SumFunctionOnSet(seen, OrdersOf(l))

(* Plausible bug: a leg with any fill counts as complete.                  *)
BasketComplete_AnyFill == \A l \in Legs : FilledQtyForLeg(l) > 0

BasketComplete == \A l \in Legs : FilledQtyForLeg(l) >= Quantity[l]

Created      == {o \in Orders : st[o] # "none"}
WaitTerminal == {o \in Orders : st[o] \in {"none", "FILLED", "CANCELLED", "REJECTED", "ERROR"}}
Working      == (Basket \cap Created) \ WaitTerminal

Compensation == {o \in Created : Attempt(o) = Unwind}

CompensationComplete ==
  IF Compensation = {}
  THEN \A l \in Legs : FilledQtyForLeg(l) = 0
  ELSE \A o \in Compensation : st[o] = "FILLED"

(* is_account_kill_switch_active, which only an OPEN looks at: the switch  *)
(* may be armed or cleared between any two readings.                       *)
KillSwitchReadings == IF Action = "OPEN" THEN BOOLEAN ELSE {FALSE}

----------------------------------------------------------------------------
(* Submission of the legs.                                                 *)

(* submit_order up to before_place: the connection is up, a token is       *)
(* granted and the account is managed, or the order ends in ERROR.         *)
ReserveLeg ==
  LET o == <<cur, 0>> IN
  /\ pc = "submit"
  /\ qty' = [qty EXCEPT ![o] = Quantity[cur]]
  /\ \/ conn /\ st' = [st EXCEPT ![o] = "WORKING"] /\ pc' = "place"
     \/ st' = [st EXCEPT ![o] = "ERROR"] /\ pc' = "placed"
  /\ UNCHANGED <<seen, brokerVars, asked, starved, conn, drops,
                 cur, attempt, todo, blocked, row, latched>>

(* placeOrder after the row was persisted; the socket may have gone.       *)
PlaceLeg ==
  LET o == <<cur, 0>> IN
  /\ pc = "place"
  /\ IF conn
     THEN at' = [at EXCEPT ![o] = "sent"] /\ UNCHANGED st
     ELSE /\ at' = [at EXCEPT ![o] = "lost"]
          /\ \E s \in {"PARKED", "ERROR"} : st' = [st EXCEPT ![o] = s]
  /\ pc' = "placed"
  /\ UNCHANGED <<qty, seen, fill, asked, starved, conn, drops,
                 cur, attempt, todo, blocked, row, latched>>

(* abort_remaining, or the next leg.                                       *)
CheckLeg ==
  /\ pc = "placed"
  /\ IF st[<<cur, 0>>] \in Refused \/ cur = NumLegs
     THEN pc' = "wait" /\ UNCHANGED cur
     ELSE pc' = "submit" /\ cur' = cur + 1
  /\ UNCHANGED <<adapterVars, brokerVars, asked, starved, conn, drops,
                 attempt, todo, blocked, row, latched>>

(* The fill wait ends by timeout at the latest.  A parked order ends the   *)
(* execution: the basket stays EXECUTING and nothing is compensated.       *)
WaitFills ==
  /\ pc = "wait"
  /\ pc' = IF \E o \in Basket : st[o] = "PARKED" THEN "done" ELSE "assess"
  /\ UNCHANGED <<adapterVars, brokerVars, asked, starved, conn, drops,
                 cur, attempt, todo, blocked, row, latched>>

Assess ==
  /\ pc = "assess"
  /\ \E killed \in KillSwitchReadings :
       IF BasketComplete \/ killed \/ MaxRetries = 0
       THEN pc' = "final" /\ UNCHANGED todo
       ELSE pc' = "rcancel" /\ todo' = Working
  /\ UNCHANGED <<adapterVars, brokerVars, asked, starved, conn, drops,
                 cur, attempt, blocked, row, latched>>

----------------------------------------------------------------------------
(* Cancelling what still works, for a retry and for the unwinding.         *)

(* mark_critical, the CRITICAL row and the scheduled recovery.             *)
FailCritical == row' = "CRITICAL" /\ latched' = TRUE /\ pc' = "done"

(* A failed cancel gives up the retry, and the basket when unwinding.      *)
CancelFailed ==
  IF pc = "rcancel"
  THEN pc' = "final" /\ UNCHANGED <<row, latched>>
  ELSE FailCritical

CancelOrder(o) ==
  /\ pc \in {"rcancel", "ucancel"} /\ o \in todo
  /\ \/ /\ conn /\ st[o] = "WORKING"
        /\ asked' = asked \cup {o} /\ todo' = todo \ {o}
        /\ UNCHANGED <<pc, row, latched>>
     \/ /\ ~conn \/ st[o] # "WORKING"
        /\ CancelFailed /\ todo' = {} /\ UNCHANGED asked
  /\ UNCHANGED <<adapterVars, brokerVars, starved, conn, drops,
                 cur, attempt, blocked>>

(* No token within max_wait_sec: _acquire_for_order sets the order itself  *)
(* to ERROR, whatever it is by then, and the cancel raises.                *)
CancelStarves(o) ==
  /\ pc \in {"rcancel", "ucancel"} /\ o \in todo
  /\ st' = [st EXCEPT ![o] = "ERROR"]
  /\ starved' = starved \cup {o}
  /\ CancelFailed /\ todo' = {}
  /\ UNCHANGED <<qty, seen, brokerVars, asked, conn, drops,
                 cur, attempt, blocked>>

(* Plausible bug: a retry does not wait for the cancels to be confirmed.   *)
RetryCancelWaited_NoCheck ==
  /\ pc = "rcancel" /\ todo = {}
  /\ \/ attempt = 0 /\ pc' = "rhead" /\ UNCHANGED <<cur, attempt>>
     \/ attempt > 0 /\ pc' = "round" /\ cur' = 1 /\ attempt' = attempt + 1
  /\ UNCHANGED <<adapterVars, brokerVars, asked, starved, conn, drops,
                 todo, blocked, row, latched>>

(* The cancel wait of _cancel_working; later rounds sleep and look at the  *)
(* retry window before they start.                                         *)
RetryCancelWaited ==
  /\ pc = "rcancel" /\ todo = {}
  /\ IF Working # {}
     THEN pc' = "final" /\ UNCHANGED <<cur, attempt>>
     ELSE \/ attempt = 0 /\ pc' = "rhead" /\ UNCHANGED <<cur, attempt>>
          \/ attempt > 0 /\ pc' = "round" /\ cur' = 1 /\ attempt' = attempt + 1
          \/ attempt > 0 /\ pc' = "final" /\ UNCHANGED <<cur, attempt>>
  /\ UNCHANGED <<adapterVars, brokerVars, asked, starved, conn, drops,
                 todo, blocked, row, latched>>

----------------------------------------------------------------------------
(* _retry_incomplete: rounds of remainder orders.                          *)

(* The while condition, the window, completeness, and the cancel of what   *)
(* the previous round left working.                                        *)
RetryHead ==
  /\ pc = "rhead"
  /\ \/ pc' = "final" /\ UNCHANGED <<cur, attempt, todo>>
     \/ /\ attempt < MaxRetries /\ ~BasketComplete
        /\ IF attempt = 0
           THEN pc' = "round" /\ cur' = 1 /\ attempt' = 1 /\ UNCHANGED todo
           ELSE pc' = "rcancel" /\ todo' = Working /\ UNCHANGED <<cur, attempt>>
  /\ UNCHANGED <<adapterVars, brokerVars, asked, starved, conn, drops,
                 blocked, row, latched>>

(* submit_one_leg and submit_intent without before_place: sent or ERROR.   *)
Submit(o, q) ==
  /\ qty' = [qty EXCEPT ![o] = q]
  /\ \/ /\ conn
        /\ st' = [st EXCEPT ![o] = "WORKING"] /\ at' = [at EXCEPT ![o] = "sent"]
     \/ st' = [st EXCEPT ![o] = "ERROR"] /\ UNCHANGED at

RetryLeg ==
  LET remaining == Quantity[cur] - FilledQtyForLeg(cur) IN
  /\ pc = "round" /\ cur \in Legs
  /\ cur' = cur + 1
  /\ \/ /\ cur \in blocked \/ remaining <= 0
        /\ UNCHANGED <<qty, st, at, blocked>>
     \/ /\ cur \notin blocked /\ remaining > 0
        /\ \/ blocked' = blocked \cup {cur} /\ UNCHANGED <<qty, st, at>>
           \/ Submit(<<cur, attempt>>, remaining) /\ UNCHANGED blocked
  /\ UNCHANGED <<seen, fill, asked, starved, conn, drops,
                 pc, attempt, todo, row, latched>>

RoundWaited ==
  /\ pc = "round" /\ cur > NumLegs
  /\ pc' = "rhead"
  /\ UNCHANGED <<adapterVars, brokerVars, asked, starved, conn, drops,
                 cur, attempt, todo, blocked, row, latched>>

----------------------------------------------------------------------------
(* The verdict, and the unwinding of what was filled.                      *)

Settle ==
  /\ pc = "final"
  /\ IF BasketComplete
     THEN row' = (IF Action = "CLOSE" THEN "CLOSED" ELSE "OPEN") /\ pc' = "done"
     ELSE row' = "UNWINDING" /\ pc' = "unwind"
  /\ UNCHANGED <<adapterVars, brokerVars, asked, starved, conn, drops,
                 cur, attempt, todo, blocked, latched>>

CancelWorking ==
  /\ pc = "unwind"
  /\ todo' = Working /\ pc' = "ucancel"
  /\ UNCHANGED <<adapterVars, brokerVars, asked, starved, conn, drops,
                 cur, attempt, blocked, row, latched>>

(* Plausible bug: compensation starts before the cancels are confirmed.    *)
UnwindCancelWaited_NoCheck ==
  /\ pc = "ucancel" /\ todo = {}
  /\ cur' = 1 /\ pc' = "comp"
  /\ UNCHANGED <<adapterVars, brokerVars, asked, starved, conn, drops,
                 attempt, todo, blocked, row, latched>>

(* Plausible bug: what cancel_timeout leaves working is cancelled again.   *)
UnwindCancelWaited_Again ==
  /\ pc = "ucancel" /\ todo = {}
  /\ pc' = IF Working # {} THEN "unwind" ELSE "comp"
  /\ cur' = 1
  /\ UNCHANGED <<adapterVars, brokerVars, asked, starved, conn, drops,
                 attempt, todo, blocked, row, latched>>

(* Still working after cancel_timeout is CRITICAL; under the kill switch   *)
(* an OPEN is not compensated, the flatten worker owns the position.       *)
UnwindCancelWaited ==
  /\ pc = "ucancel" /\ todo = {}
  /\ IF Working # {}
     THEN FailCritical /\ UNCHANGED cur
     ELSE /\ \E killed \in KillSwitchReadings : pc' = IF killed THEN "cwait" ELSE "comp"
          /\ cur' = 1 /\ UNCHANGED <<row, latched>>
  /\ UNCHANGED <<adapterVars, brokerVars, asked, starved, conn, drops,
                 attempt, todo, blocked>>

CompensateLeg ==
  /\ pc = "comp" /\ cur \in Legs
  /\ IF FilledQtyForLeg(cur) = 0
     THEN cur' = cur + 1 /\ UNCHANGED <<qty, st, at, pc>>
     ELSE /\ Submit(<<cur, Unwind>>, FilledQtyForLeg(cur))
          /\ pc' = "compd" /\ UNCHANGED cur
  /\ UNCHANGED <<seen, fill, asked, starved, conn, drops,
                 attempt, todo, blocked, row, latched>>

(* A refused compensation order, or one that cannot be persisted, raises   *)
(* out of _compensate_filled.                                              *)
CheckCompensation ==
  /\ pc = "compd"
  /\ \/ FailCritical /\ UNCHANGED cur
     \/ /\ st[<<cur, Unwind>>] \notin Refused
        /\ cur' = cur + 1 /\ pc' = "comp" /\ UNCHANGED <<row, latched>>
  /\ UNCHANGED <<adapterVars, brokerVars, asked, starved, conn, drops,
                 attempt, todo, blocked>>

AtVerdict == pc = "cwait" \/ (pc = "comp" /\ cur > NumLegs)

CompensationWaited ==
  /\ AtVerdict
  /\ IF CompensationComplete
     THEN row' = "COMPENSATED" /\ pc' = "done" /\ UNCHANGED latched
     ELSE FailCritical
  /\ UNCHANGED <<adapterVars, brokerVars, asked, starved, conn, drops,
                 cur, attempt, todo, blocked>>

(* A database error in a write of the basket or of its orders leaves       *)
(* execute where it is; on the way to CRITICAL the latch is already set.   *)
PersistRaises ==
  /\ pc \in {"wait", "rcancel", "rhead", "final", "unwind", "ucancel"} \/ AtVerdict
  /\ pc' = "done"
  /\ \/ UNCHANGED latched
     \/ (pc = "ucancel" \/ AtVerdict) /\ latched' = TRUE
  /\ UNCHANGED <<adapterVars, brokerVars, asked, starved, conn, drops,
                 cur, attempt, todo, blocked, row>>

----------------------------------------------------------------------------
(* The broker, the callbacks and the connection.                           *)

BrokerSteps(o, s, f) ==
  /\ at' = [at EXCEPT ![o] = s] /\ fill' = [fill EXCEPT ![o] = f]
  /\ UNCHANGED <<adapterVars, starved, conn, drops, loopVars, row, latched>>

BrokerAccepts(o) == at[o] = "sent" /\ BrokerSteps(o, "live", 0) /\ UNCHANGED asked

BrokerRejects(o) ==
  at[o] \in {"sent", "live"} /\ BrokerSteps(o, "rejected", fill[o]) /\ UNCHANGED asked

BrokerFills(o) ==
  /\ at[o] = "live"
  /\ BrokerSteps(o, IF fill[o] + 1 = qty[o] THEN "filled" ELSE "live", fill[o] + 1)
  /\ UNCHANGED asked

(* An order the broker never got is answered with a rejection.             *)
BrokerCancels(o) ==
  /\ o \in asked /\ asked' = asked \ {o}
  /\ BrokerSteps(o, CASE at[o] \in {"sent", "live"} -> "cancelled"
                      [] at[o] = "lost" -> "rejected"
                      [] OTHER -> at[o], fill[o])

Heard(s, f) ==
  /\ st' = s /\ seen' = f
  /\ UNCHANGED <<qty, brokerVars, asked, starved, conn, drops, loopVars, row, latched>>

(* execDetails and orderStatus: quantities grow, a terminal status stays.  *)
OnExecDetails(o) ==
  /\ conn /\ seen[o] < fill[o]
  /\ Heard([st EXCEPT ![o] = IF @ = "WORKING" /\ seen[o] + 1 = qty[o] THEN "FILLED" ELSE @],
           [seen EXCEPT ![o] = @ + 1])

(* orderStatus, openOrder or an error end an order that is not terminal.   *)
OnOrderStatus(o) ==
  /\ conn /\ seen[o] = fill[o] /\ st[o] = "WORKING"
  /\ \/ at[o] = "cancelled" /\ Heard([st EXCEPT ![o] = "CANCELLED"], seen)
     \/ at[o] = "rejected" /\ Heard([st EXCEPT ![o] = "REJECTED"], seen)

(* Orders and cancels that TWS had not passed on may be lost with it.      *)
OnConnectionClosed(gone, kept) ==
  /\ conn /\ drops < MaxDrops
  /\ conn' = FALSE /\ drops' = drops + 1
  /\ at' = [o \in Orders |-> IF o \in gone THEN "lost" ELSE at[o]]
  /\ asked' = kept
  /\ st' = [o \in Orders |-> IF st[o] = "WORKING" THEN "PARKED" ELSE st[o]]
  /\ UNCHANGED <<qty, seen, fill, starved, loopVars, row, latched>>

OnConnectionRestored ==
  /\ ~conn /\ conn' = TRUE
  /\ st' = [o \in Orders |-> IF st[o] = "PARKED" THEN "WORKING" ELSE st[o]]
  /\ UNCHANGED <<qty, seen, brokerVars, asked, starved, drops, loopVars, row, latched>>

----------------------------------------------------------------------------

Coordinator ==
  \/ ReserveLeg \/ PlaceLeg \/ CheckLeg \/ WaitFills \/ Assess
  \/ \E o \in Orders : CancelOrder(o) \/ CancelStarves(o)
  \/ RetryCancelWaited \/ RetryHead \/ RetryLeg \/ RoundWaited
  \/ Settle \/ CancelWorking \/ UnwindCancelWaited
  \/ CompensateLeg \/ CheckCompensation \/ CompensationWaited
  \/ PersistRaises

Broker ==
  \E o \in Orders :
    \/ BrokerAccepts(o) \/ BrokerRejects(o) \/ BrokerFills(o) \/ BrokerCancels(o)
    \/ OnExecDetails(o) \/ OnOrderStatus(o)

Connection ==
  \/ \E gone \in SUBSET {o \in Orders : at[o] = "sent"}, kept \in SUBSET asked :
       OnConnectionClosed(gone, kept)
  \/ OnConnectionRestored

Next == Coordinator \/ Broker \/ Connection

Spec == Init /\ [][Next]_vars

(* Every wait of execute has a timeout; broker and connection owe nothing. *)
FairSpec == Spec /\ WF_vars(Coordinator)

----------------------------------------------------------------------------
(* Properties.                                                             *)

(* Every variable stays within its type, and the leg loops within the legs.*)
TypeOK ==
  /\ qty \in [Orders -> Nat] /\ st \in [Orders -> OrderStatus] /\ seen \in [Orders -> Nat]
  /\ at \in [Orders -> BrokerState] /\ fill \in [Orders -> Nat]
  /\ asked \subseteq Orders /\ starved \subseteq Orders
  /\ conn \in BOOLEAN /\ drops \in 0..MaxDrops
  /\ pc \in {"submit", "place", "placed", "wait", "assess", "rcancel", "rhead", "round",
             "final", "unwind", "ucancel", "comp", "compd", "cwait", "done"}
  /\ cur \in 1..NumLegs + 1 /\ (pc \in {"submit", "place", "placed", "compd"} => cur \in Legs)
  /\ attempt \in 0..MaxRetries /\ todo \subseteq Basket /\ blocked \subseteq Legs
  /\ row \in {"EXECUTING", "OPEN", "CLOSED", "UNWINDING", "COMPENSATED", "CRITICAL"}
  /\ latched \in BOOLEAN

Traded(l)  == SumFunctionOnSet(fill, OrdersOf(l))
Unwound(l) == fill[<<l, Unwind>>]

(* No order of the basket, compensation included, can trade any more.      *)
NothingAtBroker == \A o \in Orders : at[o] \notin {"sent", "live"}

Flat == NothingAtBroker /\ \A l \in Legs : Traded(l) = Unwound(l)

(* Retries never trade more than a leg's quantity although fills race the  *)
(* cancels they follow, and compensation never more than the leg traded.   *)
NeverOverTraded ==
  \A l \in Legs : Traded(l) <= Quantity[l] /\ Unwound(l) <= Traded(l)

(* A basket recorded OPEN or CLOSED holds every leg exactly, and no order  *)
(* of it is left at the broker, whatever was parked or starved before.     *)
SettledIsExact ==
  row \in {"OPEN", "CLOSED"} =>
    NothingAtBroker /\ \A l \in Legs : Traded(l) = Quantity[l] /\ Unwound(l) = 0

(* A basket recorded COMPENSATED is flat at the broker and stays so, when  *)
(* no cancel starved in the rate limiter.                                  *)
CompensatedUnlessStarved == row = "COMPENSATED" /\ starved = {} => Flat

(* execute returns: retries, cancels and compensation never loop or block. *)
BasketSettles == <>(pc = "done")

=============================================================================
