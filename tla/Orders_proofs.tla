---------------------------- MODULE Orders_proofs ----------------------------
(* Proofs about what places orders.  BasketExecution: the type invariant,  *)
(* that no leg is traded past its quantity or unwound past what it traded, *)
(* and that the states OPEN, CLOSED and COMPENSATED of a basket are true   *)
(* at the broker, for any number of legs, quantities, retries and          *)
(* connection losses.  ManualTrading: one order per key, the ledger and    *)
(* the statuses when every callback is handled, what may change a terminal *)
(* status, and that a square-off which was not misled ends flat, for any   *)
(* number of requests, lots, handlers at once, crashes and sweeps.         *)
EXTENDS BasketExecution, ManualTrading, SumTheorems

----------------------------------------------------------------------------
(* The inductive invariant.                                                *)

(* Where the loops of execute may be, beyond TypeOK: a round is due only   *)
(* while retries are left, and the first legs belong to attempt 0.         *)
LoopsBounded ==
  /\ pc \in {"submit", "place", "placed", "wait", "assess"} => attempt = 0
  /\ pc = "rcancel" => attempt < MaxRetries
  /\ pc = "round" => attempt > 0

(* The three views of an order: the adapter lags the broker, and a         *)
(* terminal status of it is true unless the cancel of the order starved.   *)
OrderInv ==
  \A o \in Orders :
    /\ seen[o] <= fill[o] /\ fill[o] <= qty[o]
    /\ at[o] \in {"none", "sent", "lost"} => fill[o] = 0
    /\ at[o] \in {"sent", "live"} => fill[o] < qty[o]
    /\ st[o] = "none" => at[o] = "none" /\ qty[o] = 0
    /\ st[o] = "FILLED" => seen[o] = qty[o]
    /\ st[o] \in {"CANCELLED", "REJECTED"} => at[o] \notin {"sent", "live"} /\ seen[o] = fill[o]
    /\ st[o] = "ERROR" /\ o \notin starved => at[o] \notin {"sent", "live"} /\ fill[o] = 0

Fresh(o) == st[o] = "none"

(* The order that a loop is about to send was never sent before.           *)
FreshInv ==
  /\ \A o \in Basket : Attempt(o) > attempt => Fresh(o)
  /\ pc = "submit" => \A l \in Legs : l >= cur => Fresh(<<l, 0>>)
  /\ pc \in {"place", "placed"} => \A l \in Legs : l > cur => Fresh(<<l, 0>>)
  /\ pc = "round" => \A l \in Legs : l >= cur => Fresh(<<l, attempt>>)
  /\ pc = "comp" => \A l \in Legs : l >= cur => Fresh(<<l, Unwind>>)
  /\ pc = "compd" => \A l \in Legs : l > cur => Fresh(<<l, Unwind>>)
  /\ pc \notin {"comp", "compd", "done"} => \A l \in Legs : Fresh(<<l, Unwind>>)

(* Only orders that were made are cancelled.                               *)
TodoInv == \A o \in todo : ~Fresh(o)

(* Between before_place and placeOrder the first order of a leg is nowhere.*)
PlaceInv ==
  pc = "place" => /\ st[<<cur, 0>>] \in {"WORKING", "PARKED"} /\ at[<<cur, 0>>] = "none"
                  /\ qty[<<cur, 0>>] = Quantity[cur]

Ended(o) == st[o] \notin {"WORKING", "PARKED"}

(* A retry, and the compensation, start from orders that have ended.       *)
EndedInv ==
  /\ pc = "rhead" /\ attempt = 0 => \A o \in Basket : Ended(o)
  /\ pc = "round" => \A o \in Basket : Leg(o) >= cur => Ended(o)
  /\ pc \in {"comp", "compd", "cwait"} => \A o \in Basket : Ended(o)

(* After a starved cancel no order of the basket is sent any more.         *)
StarvedInv ==
  pc \in {"submit", "place", "placed", "wait", "assess", "rcancel", "rhead", "round"} => starved = {}

(* What an order has traded or may still trade.                            *)
Promise == [o \in Orders |-> IF at[o] \in {"sent", "live"} THEN qty[o] ELSE fill[o]]

Promised(l) == SumFunctionOnSet(Promise, OrdersOf(l))

(* All orders of a leg together never stand for more than its quantity.    *)
PromiseInv == \A l \in Legs : Promised(l) <= Quantity[l]

(* A compensation order is for no more than was seen filled.               *)
UnwindInv == \A l \in Legs : qty[<<l, Unwind>>] <= FilledQtyForLeg(l)

(* What the loop of _compensate_filled has done with leg l.                *)
Accounted(l) ==
  IF Fresh(<<l, Unwind>>) THEN FilledQtyForLeg(l) = 0
                          ELSE qty[<<l, Unwind>>] = FilledQtyForLeg(l)

AccountedInv ==
  starved = {} =>
    /\ pc = "comp" => \A l \in Legs : l < cur => Accounted(l)
    /\ pc = "compd" => \A l \in Legs : l <= cur => Accounted(l)

(* What a final state of the basket was based on.                          *)
VerdictInv ==
  /\ row \in {"OPEN", "CLOSED", "COMPENSATED"} => pc = "done"
  /\ row \in {"OPEN", "CLOSED"} =>
       BasketComplete /\ NothingAtBroker /\ \A l \in Legs : Fresh(<<l, Unwind>>)
  /\ row = "COMPENSATED" /\ starved = {} =>
       /\ NothingAtBroker /\ \A o \in Basket : Ended(o)
       /\ \A l \in Legs : FilledQtyForLeg(l) = fill[<<l, Unwind>>]

Inv ==
  /\ TypeOK /\ LoopsBounded /\ OrderInv /\ FreshInv /\ TodoInv /\ PlaceInv /\ EndedInv /\ StarvedInv
  /\ PromiseInv /\ UnwindInv /\ AccountedInv /\ VerdictInv
----------------------------------------------------------------------------
(* The orders and their sums.                                              *)

LEMMA OrderFacts ==
  /\ \A l \in Legs : OrdersOf(l) \subseteq Basket /\ IsFiniteSet(OrdersOf(l))
  /\ Basket \subseteq Orders
  /\ \A l \in Legs, a \in 0..MaxRetries :
       <<l, a>> \in Orders /\ <<l, a>> \in Basket /\ Leg(<<l, a>>) = l /\ Attempt(<<l, a>>) = a
  /\ \A l \in Legs : <<l, Unwind>> \in Orders /\ <<l, Unwind>> \notin Basket
  /\ \A o \in Basket : Leg(o) \in Legs /\ Attempt(o) \in 0..MaxRetries /\ o = <<Leg(o), Attempt(o)>>
  /\ \A o \in Orders \ Basket : Leg(o) \in Legs /\ o = <<Leg(o), Unwind>>
  /\ \A o \in Basket, l \in Legs : o \in OrdersOf(l) <=> Leg(o) = l
<1> USE BasketAssumption
<1>1. \A l \in Legs : OrdersOf(l) \subseteq Basket BY DEF OrdersOf
<1>2. Basket \subseteq Orders BY DEF Basket
<1>3. IsFiniteSet(Orders)
  <2>1. IsFiniteSet(Legs) BY FS_Interval DEF Legs
  <2>2. IsFiniteSet(0..Unwind) BY FS_Interval DEF Unwind
  <2> QED BY <2>1, <2>2, FS_Product DEF Orders
<1>4. \A l \in Legs : IsFiniteSet(OrdersOf(l)) BY <1>1, <1>2, <1>3, FS_Subset
<1>5. \A l \in Legs, a \in 0..MaxRetries :
        <<l, a>> \in Orders /\ <<l, a>> \in Basket /\ Leg(<<l, a>>) = l /\ Attempt(<<l, a>>) = a
  BY DEF Orders, Basket, Leg, Attempt, Unwind
<1>6. \A l \in Legs : <<l, Unwind>> \in Orders /\ <<l, Unwind>> \notin Basket
  BY DEF Orders, Basket, Attempt, Unwind
<1>7. \A o \in Basket : Leg(o) \in Legs /\ Attempt(o) \in 0..MaxRetries /\ o = <<Leg(o), Attempt(o)>>
  BY DEF Orders, Basket, Leg, Attempt, Unwind
<1>8. \A o \in Orders \ Basket : Leg(o) \in Legs /\ o = <<Leg(o), Unwind>>
  BY DEF Orders, Basket, Leg, Attempt, Unwind
<1>9. \A o \in Basket, l \in Legs : o \in OrdersOf(l) <=> Leg(o) = l BY DEF OrdersOf
<1> QED BY <1>1, <1>2, <1>4, <1>5, <1>6, <1>7, <1>8, <1>9

(* Each sum of a leg is a natural number.                                  *)
LEMMA SumsTyped ==
  ASSUME TypeOK, NEW l \in Legs
  PROVE  FilledQtyForLeg(l) \in Nat /\ Traded(l) \in Nat /\ Promised(l) \in Nat
<1>1. IsFiniteSet(OrdersOf(l)) /\ OrdersOf(l) \subseteq Orders BY OrderFacts
<1>2. \A o \in OrdersOf(l) : seen[o] \in Nat /\ fill[o] \in Nat BY <1>1 DEF TypeOK
<1>3. \A o \in OrdersOf(l) : Promise[o] \in Nat BY <1>1 DEF TypeOK, Promise
<1>4. FilledQtyForLeg(l) \in Nat BY <1>1, <1>2, SumNat DEF FilledQtyForLeg
<1>5. Traded(l) \in Nat BY <1>1, <1>2, SumNat DEF Traded
<1>6. Promised(l) \in Nat BY <1>1, <1>3, SumNat DEF Promised
<1> QED BY <1>4, <1>5, <1>6

(* What the adapter saw of a leg is no more than what it traded, and that  *)
(* no more than what its orders stand for.                                 *)
LEMMA SumsOrdered ==
  ASSUME TypeOK, OrderInv, NEW l \in Legs
  PROVE  FilledQtyForLeg(l) <= Traded(l) /\ Traded(l) <= Promised(l)
<1>1. IsFiniteSet(OrdersOf(l)) /\ OrdersOf(l) \subseteq Orders BY OrderFacts
<1>2. \A o \in OrdersOf(l) : seen[o] \in Int /\ fill[o] \in Int /\ seen[o] <= fill[o]
  BY <1>1 DEF TypeOK, OrderInv
<1>3. \A o \in OrdersOf(l) : fill[o] \in Int /\ Promise[o] \in Int /\ fill[o] <= Promise[o]
  BY <1>1 DEF TypeOK, OrderInv, Promise
<1>4. FilledQtyForLeg(l) <= Traded(l) BY <1>1, <1>2, SumMonotone DEF FilledQtyForLeg, Traded
<1>5. Traded(l) <= Promised(l) BY <1>1, <1>3, SumMonotone DEF Promised, Traded
<1> QED BY <1>4, <1>5

(* An execution the adapter hears of counts for the leg of its order.      *)
LEMMA SeenGrows ==
  ASSUME TypeOK, NEW o \in Orders, seen' = [seen EXCEPT ![o] = @ + 1], NEW l \in Legs
  PROVE  FilledQtyForLeg(l)' = FilledQtyForLeg(l) + (IF o \in OrdersOf(l) THEN 1 ELSE 0)
<1>1. IsFiniteSet(OrdersOf(l)) /\ OrdersOf(l) \subseteq Orders BY OrderFacts
<1>2. PICK f : f = seen OBVIOUS
<1>3. PICK h : h = seen' OBVIOUS
<1>4. f \in [Orders -> Nat] /\ h = [f EXCEPT ![o] = f[o] + 1] BY <1>2, <1>3 DEF TypeOK
<1>5. FilledQtyForLeg(l) = SumFunctionOnSet(f, OrdersOf(l)) BY <1>2 DEF FilledQtyForLeg
<1>6. FilledQtyForLeg(l)' = SumFunctionOnSet(h, OrdersOf(l)) BY <1>3 DEF FilledQtyForLeg
<1>7. FilledQtyForLeg(l) \in Nat BY SumsTyped
<1>8. ASSUME o \in OrdersOf(l)
      PROVE  SumFunctionOnSet(h, OrdersOf(l)) = SumFunctionOnSet(f, OrdersOf(l)) + (h[o] - f[o])
  <2>1. \A x \in OrdersOf(l) : f[x] \in Int /\ h[x] \in Int /\ (x # o => f[x] = h[x]) BY <1>1, <1>4
  <2> QED BY <1>1, <1>8, <2>1, SumChange
<1>9. ASSUME o \notin OrdersOf(l)
      PROVE  SumFunctionOnSet(h, OrdersOf(l)) = SumFunctionOnSet(f, OrdersOf(l))
  <2>1. \A x \in OrdersOf(l) : f[x] = h[x] BY <1>1, <1>4, <1>9
  <2> QED BY <1>1, <2>1, SumCong
<1>10. h[o] - f[o] = 1 BY <1>4
<1> QED BY <1>5, <1>6, <1>7, <1>8, <1>9, <1>10

(* Nothing but a submission lets an order stand for more.                  *)
LEMMA PromiseFalls ==
  ASSUME TypeOK, TypeOK', \A o \in Basket : Promise'[o] <= Promise[o], PromiseInv
  PROVE  PromiseInv'
<1>1. SUFFICES ASSUME NEW l \in Legs PROVE Promised(l)' <= Quantity[l] BY DEF PromiseInv
<1>2. IsFiniteSet(OrdersOf(l)) /\ OrdersOf(l) \subseteq Orders BY OrderFacts
<1>3. PICK f : f = Promise OBVIOUS
<1>4. PICK h : h = Promise' OBVIOUS
<1>5. \A o \in Orders : f[o] \in Nat BY <1>3 DEF TypeOK, Promise
<1>6. \A o \in Orders : h[o] \in Nat BY <1>4 DEF TypeOK, Promise
<1>7. \A o \in OrdersOf(l) : f[o] \in Int /\ h[o] \in Int /\ h[o] <= f[o]
  BY <1>2, <1>3, <1>4, <1>5, <1>6, OrderFacts
<1>8. SumFunctionOnSet(h, OrdersOf(l)) <= SumFunctionOnSet(f, OrdersOf(l)) BY <1>2, <1>7, SumMonotone
<1>9. Promised(l) = SumFunctionOnSet(f, OrdersOf(l)) BY <1>3 DEF Promised
<1>10. Promised(l)' = SumFunctionOnSet(h, OrdersOf(l)) BY <1>4 DEF Promised
<1>11. Promised(l) \in Nat /\ Promised(l)' \in Nat
  <2>1. Promised(l) \in Nat BY SumsTyped
  <2>2. Promised(l)' \in Nat BY <1>2, <1>6, <1>10, SumNat
  <2> QED BY <2>1, <2>2
<1>12. Quantity[l] \in Nat BY BasketAssumption
<1>13. Promised(l) <= Quantity[l] BY DEF PromiseInv
<1> QED BY <1>8, <1>9, <1>10, <1>11, <1>12, <1>13

----------------------------------------------------------------------------
(* Types.                                                                  *)

LEMMA TypeInit == Init => TypeOK /\ LoopsBounded
<1> SUFFICES ASSUME Init PROVE TypeOK /\ LoopsBounded OBVIOUS
<1>1. 1 \in Legs /\ 1 \in 1..NumLegs + 1 /\ 0 \in 0..MaxRetries /\ 0 \in 0..MaxDrops
  BY BasketAssumption DEF Legs
<1> QED BY <1>1 DEF Init, TypeOK, LoopsBounded, OrderStatus, BrokerState

LEMMA TypeStep == TypeOK /\ LoopsBounded /\ [Next]_vars => TypeOK' /\ LoopsBounded'
<1> SUFFICES ASSUME TypeOK, LoopsBounded, [Next]_vars PROVE TypeOK' /\ LoopsBounded' OBVIOUS
<1> USE BasketAssumption
<1>0. \A l \in Legs : FilledQtyForLeg(l) \in Nat /\ Quantity[l] \in Nat BY SumsTyped
<1>1. CASE ReserveLeg
  BY <1>0, <1>1, OrderFacts DEF ReserveLeg, TypeOK, LoopsBounded, OrderStatus, brokerVars
<1>2. CASE PlaceLeg
  <2>1. <<cur, 0>> \in Orders BY <1>2, OrderFacts DEF PlaceLeg, TypeOK
  <2>2. st' \in [Orders -> OrderStatus] /\ at' \in [Orders -> BrokerState]
    BY <1>2, <2>1 DEF PlaceLeg, TypeOK, OrderStatus, BrokerState
  <2>3. pc = "place" /\ pc' = "placed"
        /\ UNCHANGED <<qty, seen, fill, asked, starved, conn, drops, cur, attempt, todo, blocked, row, latched>>
    BY <1>2 DEF PlaceLeg
  <2> QED BY <2>2, <2>3 DEF TypeOK, LoopsBounded
<1>3. CASE CheckLeg
  BY <1>3 DEF CheckLeg, TypeOK, LoopsBounded, adapterVars, brokerVars, Legs
<1>4. CASE WaitFills
  BY <1>4 DEF WaitFills, TypeOK, LoopsBounded, adapterVars, brokerVars
<1>5. CASE Assess
  BY <1>5 DEF Assess, TypeOK, LoopsBounded, adapterVars, brokerVars, Working
<1>6. ASSUME NEW o \in Orders, CancelOrder(o) PROVE TypeOK' /\ LoopsBounded'
  BY <1>6 DEF CancelOrder, CancelFailed, FailCritical, TypeOK, LoopsBounded, adapterVars, brokerVars
<1>7. ASSUME NEW o \in Orders, CancelStarves(o) PROVE TypeOK' /\ LoopsBounded'
  BY <1>7 DEF CancelStarves, CancelFailed, FailCritical, TypeOK, LoopsBounded, brokerVars, OrderStatus
<1>8. CASE RetryCancelWaited
  BY <1>8 DEF RetryCancelWaited, TypeOK, LoopsBounded, adapterVars, brokerVars
<1>9. CASE RetryHead
  BY <1>9 DEF RetryHead, TypeOK, LoopsBounded, adapterVars, brokerVars, Working
<1>10. CASE RetryLeg
  <2>1. cur \in Legs BY <1>10 DEF RetryLeg
  <2>2. <<cur, attempt>> \in Orders BY <2>1, OrderFacts DEF TypeOK
  <2>3. Quantity[cur] - FilledQtyForLeg(cur) > 0 => Quantity[cur] - FilledQtyForLeg(cur) \in Nat
    BY <1>0, <2>1
  <2>4. qty' \in [Orders -> Nat] /\ st' \in [Orders -> OrderStatus] /\ at' \in [Orders -> BrokerState]
    BY <1>10, <2>2, <2>3 DEF RetryLeg, Submit, TypeOK, OrderStatus, BrokerState
  <2>5. cur' \in 1..NumLegs + 1 /\ blocked' \subseteq Legs /\ pc = "round" /\ pc' = pc /\ attempt' = attempt
    <3>1. cur + 1 \in 1..NumLegs + 1 BY <2>1 DEF Legs
    <3>2. blocked' \subseteq Legs BY <1>10, <2>1 DEF RetryLeg, TypeOK
    <3> QED BY <1>10, <3>1, <3>2 DEF RetryLeg
  <2>6. UNCHANGED <<seen, fill, asked, starved, conn, drops, todo, row, latched>>
    BY <1>10 DEF RetryLeg
  <2> QED BY <2>4, <2>5, <2>6 DEF TypeOK, LoopsBounded
<1>11. CASE RoundWaited
  BY <1>11 DEF RoundWaited, TypeOK, LoopsBounded, adapterVars, brokerVars
<1>12. CASE Settle
  BY <1>12 DEF Settle, TypeOK, LoopsBounded, adapterVars, brokerVars
<1>13. CASE CancelWorking
  BY <1>13 DEF CancelWorking, TypeOK, LoopsBounded, adapterVars, brokerVars, Working
<1>14. CASE UnwindCancelWaited
  <2>1. 1 \in 1..NumLegs + 1 OBVIOUS
  <2>2. /\ pc' \in {"done", "cwait", "comp"} /\ cur' \in {1, cur}
        /\ row' \in {row, "CRITICAL"} /\ latched' \in {latched, TRUE}
    BY <1>14 DEF UnwindCancelWaited, FailCritical
  <2>3. UNCHANGED <<adapterVars, brokerVars, asked, starved, conn, drops, attempt, todo, blocked>>
    BY <1>14 DEF UnwindCancelWaited
  <2> QED BY <2>1, <2>2, <2>3 DEF TypeOK, LoopsBounded, adapterVars, brokerVars
<1>15. CASE CompensateLeg
  <2>1. cur \in Legs /\ pc = "comp" BY <1>15 DEF CompensateLeg
  <2>2. <<cur, Unwind>> \in Orders /\ FilledQtyForLeg(cur) \in Nat BY <1>0, <2>1, OrderFacts
  <2>3. qty' \in [Orders -> Nat] /\ st' \in [Orders -> OrderStatus] /\ at' \in [Orders -> BrokerState]
    BY <1>15, <2>2 DEF CompensateLeg, Submit, TypeOK, OrderStatus, BrokerState
  <2>4. cur' \in 1..NumLegs + 1 /\ (pc' = "comp" \/ (pc' = "compd" /\ cur' \in Legs))
    BY <1>15, <2>1 DEF CompensateLeg, TypeOK, Legs
  <2>5. UNCHANGED <<seen, fill, asked, starved, conn, drops, attempt, todo, blocked, row, latched>>
    BY <1>15 DEF CompensateLeg
  <2> QED BY <2>3, <2>4, <2>5 DEF TypeOK, LoopsBounded
<1>16. CASE CheckCompensation
  <2>1. cur \in Legs /\ cur + 1 \in 1..NumLegs + 1 BY <1>16 DEF CheckCompensation, TypeOK, Legs
  <2>2. /\ pc' \in {"done", "comp"} /\ cur' \in {cur + 1, cur}
        /\ row' \in {row, "CRITICAL"} /\ latched' \in {latched, TRUE}
    BY <1>16 DEF CheckCompensation, FailCritical
  <2>3. UNCHANGED <<adapterVars, brokerVars, asked, starved, conn, drops, attempt, todo, blocked>>
    BY <1>16 DEF CheckCompensation
  <2> QED BY <2>1, <2>2, <2>3 DEF TypeOK, LoopsBounded, adapterVars, brokerVars
<1>17. CASE CompensationWaited
  BY <1>17 DEF CompensationWaited, FailCritical, TypeOK, LoopsBounded, adapterVars, brokerVars
<1>18. CASE PersistRaises
  BY <1>18 DEF PersistRaises, TypeOK, LoopsBounded, adapterVars, brokerVars
<1>19. ASSUME NEW o \in Orders,
              BrokerAccepts(o) \/ BrokerRejects(o) \/ BrokerFills(o) \/ BrokerCancels(o)
       PROVE  TypeOK' /\ LoopsBounded'
  BY <1>19 DEF BrokerAccepts, BrokerRejects, BrokerFills, BrokerCancels, BrokerSteps,
               TypeOK, LoopsBounded, adapterVars, loopVars, BrokerState
<1>20. ASSUME NEW o \in Orders, OnExecDetails(o) \/ OnOrderStatus(o) PROVE TypeOK' /\ LoopsBounded'
  BY <1>20 DEF OnExecDetails, OnOrderStatus, Heard, TypeOK, LoopsBounded, brokerVars, loopVars, OrderStatus
<1>21. ASSUME NEW gone \in SUBSET {o \in Orders : at[o] = "sent"}, NEW kept \in SUBSET asked,
              OnConnectionClosed(gone, kept)
       PROVE  TypeOK' /\ LoopsBounded'
  <2>1. st' \in [Orders -> OrderStatus] /\ at' \in [Orders -> BrokerState]
    BY <1>21 DEF OnConnectionClosed, TypeOK, OrderStatus, BrokerState
  <2>2. asked' \subseteq Orders /\ conn' \in BOOLEAN /\ drops' \in 0..MaxDrops
    <3>1. asked' \subseteq Orders BY <1>21 DEF OnConnectionClosed, TypeOK
    <3>2. drops \in 0..MaxDrops /\ drops < MaxDrops /\ drops' = drops + 1
      BY <1>21 DEF OnConnectionClosed, TypeOK
    <3>3. drops' \in 0..MaxDrops BY <3>2
    <3> QED BY <1>21, <3>1, <3>3 DEF OnConnectionClosed
  <2>3. UNCHANGED <<qty, seen, fill, starved, pc, cur, attempt, todo, blocked, row, latched>>
    BY <1>21 DEF OnConnectionClosed, loopVars
  <2> QED BY <2>1, <2>2, <2>3 DEF TypeOK, LoopsBounded
<1>22. CASE OnConnectionRestored
  BY <1>22 DEF OnConnectionRestored, TypeOK, LoopsBounded, brokerVars, loopVars, OrderStatus
<1>23. CASE UNCHANGED vars
  BY <1>23 DEF vars, adapterVars, brokerVars, loopVars, TypeOK, LoopsBounded
<1> QED
  BY <1>1, <1>2, <1>3, <1>4, <1>5, <1>6, <1>7, <1>8, <1>9, <1>10, <1>11, <1>12, <1>13, <1>14,
     <1>15, <1>16, <1>17, <1>18, <1>19, <1>20, <1>21, <1>22, <1>23
  DEF Next, Coordinator, Broker, Connection

(* The type invariant of the basket, for any legs, retries and drops.      *)
THEOREM TypeCorrect == Spec => []TypeOK
<1>1. TypeOK /\ LoopsBounded /\ [Next]_vars => TypeOK' /\ LoopsBounded' BY TypeStep
<1>2. Init => TypeOK /\ LoopsBounded BY TypeInit
<1> QED BY <1>1, <1>2, PTL DEF Spec

----------------------------------------------------------------------------
(* What the broker, the callbacks and the connection may do to the orders. *)

Alive == {"sent", "live"}
Open  == {"WORKING", "PARKED"}

Environment ==
  /\ UNCHANGED <<qty, starved, pc, cur, attempt, todo, blocked, row, latched>>
  /\ \A o \in Orders :
       /\ st'[o] = "none" <=> st[o] = "none"
       /\ st[o] \notin Open => st'[o] \notin Open
       /\ st[o] \in Open /\ at[o] = "none" => st'[o] \in Open
       /\ at[o] = "none" => at'[o] = "none"
       /\ at[o] \notin Alive => at'[o] \notin Alive /\ fill'[o] = fill[o]
       /\ Promise'[o] <= Promise[o]
  /\ \/ seen' = seen
     \/ \E o \in Orders : seen[o] < fill[o] /\ seen' = [seen EXCEPT ![o] = @ + 1]

LEMMA EnvironmentStep ==
  ASSUME TypeOK, TypeOK', OrderInv, Broker \/ Connection
  PROVE  Environment /\ OrderInv'
<1>1. ASSUME NEW o \in Orders,
             BrokerAccepts(o) \/ BrokerRejects(o) \/ BrokerFills(o) \/ BrokerCancels(o)
      PROVE  Environment /\ OrderInv'
  <2>1. /\ UNCHANGED <<qty, st, seen, starved, conn, drops, pc, cur, attempt, todo, blocked, row, latched>>
        /\ \A p \in Orders : p # o => at'[p] = at[p] /\ fill'[p] = fill[p]
    BY <1>1 DEF BrokerAccepts, BrokerRejects, BrokerFills, BrokerCancels, BrokerSteps,
                TypeOK, adapterVars, loopVars
  <2>2. \/ at[o] = "sent" /\ at'[o] = "live" /\ fill'[o] = 0
        \/ at[o] \in Alive /\ at'[o] \in {"rejected", "cancelled"} /\ fill'[o] = fill[o]
        \/ at[o] = "live" /\ fill'[o] = fill[o] + 1
           /\ at'[o] = IF fill[o] + 1 = qty[o] THEN "filled" ELSE "live"
        \/ at[o] = "lost" /\ at'[o] = "rejected" /\ fill'[o] = fill[o]
        \/ at[o] \notin Alive /\ at'[o] = at[o] /\ fill'[o] = fill[o]
    BY <1>1 DEF BrokerAccepts, BrokerRejects, BrokerFills, BrokerCancels, BrokerSteps, TypeOK, Alive
  <2>3. /\ qty[o] \in Nat /\ seen[o] \in Nat /\ fill[o] \in Nat /\ seen[o] <= fill[o] /\ fill[o] <= qty[o]
        /\ at[o] \in {"none", "sent", "lost"} => fill[o] = 0
        /\ at[o] \in {"sent", "live"} => fill[o] < qty[o]
        /\ st[o] = "none" => at[o] = "none" /\ qty[o] = 0
        /\ st[o] = "FILLED" => seen[o] = qty[o]
        /\ st[o] \in {"CANCELLED", "REJECTED"} => at[o] \notin {"sent", "live"} /\ seen[o] = fill[o]
        /\ st[o] = "ERROR" /\ o \notin starved => at[o] \notin {"sent", "live"} /\ fill[o] = 0
    BY DEF TypeOK, OrderInv
  <2>4. /\ seen[o] <= fill'[o] /\ fill'[o] <= qty[o]
        /\ at'[o] \in {"none", "sent", "lost"} => fill'[o] = 0
        /\ at'[o] \in {"sent", "live"} => fill'[o] < qty[o]
        /\ st[o] = "none" => at'[o] = "none" /\ qty[o] = 0
        /\ st[o] = "FILLED" => seen[o] = qty[o]
        /\ st[o] \in {"CANCELLED", "REJECTED"} => at'[o] \notin {"sent", "live"} /\ seen[o] = fill'[o]
        /\ st[o] = "ERROR" /\ o \notin starved => at'[o] \notin {"sent", "live"} /\ fill'[o] = 0
    BY <2>2, <2>3 DEF Alive
  <2>5. OrderInv' BY <2>1, <2>4 DEF OrderInv
  <2>6. /\ at[o] = "none" => at'[o] = "none"
        /\ at[o] \notin Alive => at'[o] \notin Alive /\ fill'[o] = fill[o]
    BY <2>2 DEF Alive
  <2>7. Promise'[o] <= Promise[o] BY <2>1, <2>2, <2>3 DEF Promise, Alive
  <2>8. \A p \in Orders : p # o => Promise'[p] <= Promise[p] BY <2>1 DEF Promise, TypeOK
  <2> QED BY <2>1, <2>5, <2>6, <2>7, <2>8 DEF Environment
<1>2. ASSUME NEW o \in Orders, OnExecDetails(o) PROVE Environment /\ OrderInv'
  <2>1. /\ UNCHANGED <<qty, at, fill, starved, conn, drops, pc, cur, attempt, todo, blocked, row, latched>>
        /\ seen[o] < fill[o] /\ seen' = [seen EXCEPT ![o] = @ + 1]
        /\ st' = [st EXCEPT ![o] = IF @ = "WORKING" /\ seen[o] + 1 = qty[o] THEN "FILLED" ELSE @]
    BY <1>2 DEF OnExecDetails, Heard, brokerVars, loopVars
  <2>2. OrderInv' BY <2>1 DEF OrderInv, TypeOK
  <2>3. Promise' = Promise BY <2>1 DEF Promise
  <2>4. \A p \in Orders : Promise'[p] <= Promise[p] BY <2>3 DEF Promise, TypeOK
  <2>5. at[o] # "none" BY <2>1 DEF OrderInv, TypeOK
  <2>6. \A p \in Orders : /\ st'[p] = "none" <=> st[p] = "none"
                          /\ st[p] \notin Open => st'[p] \notin Open
                          /\ st[p] \in Open /\ at[p] = "none" => st'[p] \in Open
    BY <2>1, <2>5 DEF TypeOK, Open
  <2> QED BY <2>1, <2>2, <2>4, <2>6 DEF Environment
<1>3. ASSUME NEW o \in Orders, OnOrderStatus(o) PROVE Environment /\ OrderInv'
  <2>1. /\ UNCHANGED <<qty, at, fill, seen, starved, conn, drops, pc, cur, attempt, todo, blocked, row, latched>>
        /\ seen[o] = fill[o] /\ st[o] = "WORKING"
        /\ \/ at[o] = "cancelled" /\ st' = [st EXCEPT ![o] = "CANCELLED"]
           \/ at[o] = "rejected" /\ st' = [st EXCEPT ![o] = "REJECTED"]
    BY <1>3 DEF OnOrderStatus, Heard, brokerVars, loopVars
  <2>2. OrderInv' BY <2>1 DEF OrderInv, TypeOK
  <2>3. Promise' = Promise BY <2>1 DEF Promise
  <2>4. \A p \in Orders : Promise'[p] <= Promise[p] BY <2>3 DEF Promise, TypeOK
  <2>5. \A p \in Orders : /\ st'[p] = "none" <=> st[p] = "none"
                          /\ st[p] \notin Open => st'[p] \notin Open
                          /\ st[p] \in Open /\ at[p] = "none" => st'[p] \in Open
    BY <2>1 DEF TypeOK, Open
  <2> QED BY <2>1, <2>2, <2>4, <2>5 DEF Environment
<1>4. ASSUME NEW gone \in SUBSET {o \in Orders : at[o] = "sent"}, NEW kept \in SUBSET asked,
             OnConnectionClosed(gone, kept)
      PROVE  Environment /\ OrderInv'
  <2>1. /\ UNCHANGED <<qty, seen, fill, starved, pc, cur, attempt, todo, blocked, row, latched>>
        /\ at' = [o \in Orders |-> IF o \in gone THEN "lost" ELSE at[o]]
        /\ st' = [o \in Orders |-> IF st[o] = "WORKING" THEN "PARKED" ELSE st[o]]
    BY <1>4 DEF OnConnectionClosed, loopVars
  <2>2. \A o \in gone : at[o] = "sent" /\ o \in Orders BY <1>4
  <2>3. OrderInv' BY <2>1, <2>2 DEF OrderInv, TypeOK
  <2>4. \A p \in Orders : Promise'[p] <= Promise[p] BY <2>1, <2>2 DEF Promise, TypeOK, OrderInv
  <2>5. \A p \in Orders : /\ st'[p] = "none" <=> st[p] = "none"
                          /\ st[p] \notin Open => st'[p] \notin Open
                          /\ st[p] \in Open => st'[p] \in Open
    BY <2>1 DEF Open
  <2>6. \A p \in Orders : /\ at[p] = "none" => at'[p] = "none"
                          /\ at[p] \notin Alive => at'[p] \notin Alive
    BY <2>1, <2>2 DEF Alive
  <2> QED BY <2>1, <2>3, <2>4, <2>5, <2>6 DEF Environment
<1>5. CASE OnConnectionRestored
  <2>1. /\ UNCHANGED <<qty, seen, at, fill, starved, pc, cur, attempt, todo, blocked, row, latched>>
        /\ st' = [o \in Orders |-> IF st[o] = "PARKED" THEN "WORKING" ELSE st[o]]
    BY <1>5 DEF OnConnectionRestored, brokerVars, loopVars
  <2>2. OrderInv' BY <2>1 DEF OrderInv, TypeOK
  <2>3. Promise' = Promise BY <2>1 DEF Promise
  <2>4. \A p \in Orders : Promise'[p] <= Promise[p] BY <2>3 DEF Promise, TypeOK
  <2>5. \A p \in Orders : /\ st'[p] = "none" <=> st[p] = "none"
                          /\ st[p] \notin Open => st'[p] \notin Open
                          /\ st[p] \in Open => st'[p] \in Open
    BY <2>1 DEF Open
  <2> QED BY <2>1, <2>2, <2>4, <2>5 DEF Environment
<1> QED BY <1>1, <1>2, <1>3, <1>4, <1>5 DEF Broker, Connection

(* The adapter's word that an order has ended is true.                     *)
LEMMA EndedIsQuiet ==
  ASSUME TypeOK, OrderInv, NEW o \in Orders, Ended(o), o \notin starved
  PROVE  seen[o] = fill[o] /\ at[o] \notin Alive /\ Promise[o] = seen[o]
<1>1. seen[o] = fill[o] /\ at[o] \notin Alive BY DEF TypeOK, OrderInv, OrderStatus, Ended, Alive
<1>2. Promise[o] = seen[o] BY <1>1 DEF Promise, Alive
<1> QED BY <1>1, <1>2

(* The part of the invariant that is not about one order alone survives    *)
(* whatever the broker, the callbacks and the connection do.               *)
LEMMA EnvironmentKeeps ==
  ASSUME Inv, TypeOK', LoopsBounded', OrderInv', Environment
  PROVE  Inv'
<1> USE DEF Inv
<1>1. /\ UNCHANGED <<qty, starved, pc, cur, attempt, row>>
      /\ \A o \in Orders : st'[o] = "none" <=> st[o] = "none"
      /\ \A o \in Orders : st[o] \notin Open => st'[o] \notin Open
      /\ \A o \in Orders : st[o] \in Open /\ at[o] = "none" => st'[o] \in Open
      /\ \A o \in Orders : at[o] = "none" => at'[o] = "none"
      /\ \A o \in Orders : at[o] \notin Alive => at'[o] \notin Alive /\ fill'[o] = fill[o]
      /\ \A o \in Orders : Promise'[o] <= Promise[o]
  BY DEF Environment
<1>2. \A l \in Legs : FilledQtyForLeg(l) <= FilledQtyForLeg(l)'
  <2>1. SUFFICES ASSUME NEW l \in Legs PROVE FilledQtyForLeg(l) <= FilledQtyForLeg(l)' OBVIOUS
  <2>2. FilledQtyForLeg(l) \in Nat BY SumsTyped
  <2>3. CASE seen' = seen
    <3>1. FilledQtyForLeg(l)' = FilledQtyForLeg(l) BY <2>3 DEF FilledQtyForLeg
    <3> QED BY <3>1, <2>2
  <2>4. ASSUME NEW o \in Orders, seen' = [seen EXCEPT ![o] = @ + 1]
        PROVE  FilledQtyForLeg(l) <= FilledQtyForLeg(l)'
    <3>1. FilledQtyForLeg(l)' = FilledQtyForLeg(l) + (IF o \in OrdersOf(l) THEN 1 ELSE 0)
      BY <2>4, SeenGrows
    <3> QED BY <3>1, <2>2
  <2> QED BY <2>3, <2>4 DEF Environment
<1>3. ASSUME starved = {}, \A o \in Basket : Ended(o)
      PROVE  \A l \in Legs : FilledQtyForLeg(l)' = FilledQtyForLeg(l)
  <2>1. SUFFICES ASSUME NEW l \in Legs PROVE FilledQtyForLeg(l)' = FilledQtyForLeg(l) OBVIOUS
  <2>2. FilledQtyForLeg(l) \in Nat BY SumsTyped
  <2>3. CASE seen' = seen BY <2>3 DEF FilledQtyForLeg
  <2>4. ASSUME NEW o \in Orders, seen[o] < fill[o], seen' = [seen EXCEPT ![o] = @ + 1]
        PROVE  FilledQtyForLeg(l)' = FilledQtyForLeg(l)
    <3>1. FilledQtyForLeg(l)' = FilledQtyForLeg(l) + (IF o \in OrdersOf(l) THEN 1 ELSE 0)
      BY <2>4, SeenGrows
    <3>2. ASSUME o \in Basket PROVE FALSE
      <4>1. seen[o] = fill[o] BY <1>3, <3>2, EndedIsQuiet
      <4>2. seen[o] \in Nat BY DEF TypeOK
      <4> QED BY <4>1, <4>2, <2>4
    <3>3. o \notin OrdersOf(l) BY <3>2, OrderFacts
    <3> QED BY <3>1, <3>3, <2>2
  <2> QED BY <2>3, <2>4 DEF Environment
<1>4. FreshInv'
  <2>1. \A o \in Orders : Fresh(o)' <=> Fresh(o) BY <1>1 DEF Fresh
  <2>2. \A l \in Legs : <<l, 0>> \in Orders /\ <<l, attempt>> \in Orders /\ <<l, Unwind>> \in Orders
    BY OrderFacts, BasketAssumption DEF TypeOK
  <2>3. Basket \subseteq Orders BY OrderFacts
  <2> QED BY <1>1, <2>1, <2>2, <2>3 DEF FreshInv
<1>5. PlaceInv'
  <2>1. ASSUME pc = "place" PROVE <<cur, 0>> \in Orders BY <2>1, OrderFacts, BasketAssumption DEF TypeOK
  <2> QED BY <1>1, <2>1 DEF PlaceInv, Open
<1>6. EndedInv'
  <2>1. Basket \subseteq Orders BY OrderFacts
  <2>2. \A o \in Basket : Ended(o) => Ended(o)' BY <1>1, <2>1 DEF Ended, Open
  <2> QED BY <1>1, <2>2 DEF EndedInv
<1>7. StarvedInv' BY <1>1 DEF StarvedInv
<1>8. PromiseInv' BY <1>1, PromiseFalls, OrderFacts
<1>9. UnwindInv'
  <2>1. SUFFICES ASSUME NEW l \in Legs PROVE qty[<<l, Unwind>>] <= FilledQtyForLeg(l)'
    BY <1>1 DEF UnwindInv
  <2>2. qty[<<l, Unwind>>] <= FilledQtyForLeg(l) /\ FilledQtyForLeg(l) <= FilledQtyForLeg(l)'
    BY <1>2 DEF UnwindInv
  <2>3. qty[<<l, Unwind>>] \in Nat BY OrderFacts DEF TypeOK
  <2>4. FilledQtyForLeg(l) \in Nat BY SumsTyped
  <2>5. FilledQtyForLeg(l)' \in Nat
    <3>1. IsFiniteSet(OrdersOf(l)) /\ OrdersOf(l) \subseteq Orders BY OrderFacts
    <3>2. \A o \in OrdersOf(l) : seen'[o] \in Nat BY <3>1 DEF TypeOK
    <3> QED BY <3>1, <3>2, SumNat DEF FilledQtyForLeg
  <2> QED BY <2>2, <2>3, <2>4, <2>5
<1>10. AccountedInv'
  <2>1. SUFFICES ASSUME starved = {}, pc \in {"comp", "compd"}
                 PROVE  \A l \in Legs : Accounted(l)' <=> Accounted(l)
    BY <1>1 DEF AccountedInv
  <2>2. \A o \in Basket : Ended(o) BY <2>1 DEF EndedInv
  <2>3. \A l \in Legs : FilledQtyForLeg(l)' = FilledQtyForLeg(l) BY <1>3, <2>1, <2>2
  <2>4. \A l \in Legs : <<l, Unwind>> \in Orders BY OrderFacts
  <2> QED BY <1>1, <2>3, <2>4 DEF Accounted, Fresh
<1>11. VerdictInv'
  <2>1. NothingAtBroker => NothingAtBroker' /\ \A o \in Orders : fill'[o] = fill[o]
    BY <1>1 DEF NothingAtBroker, Alive
  <2>2. \A l \in Legs : <<l, Unwind>> \in Orders BY OrderFacts
  <2>3. ASSUME BasketComplete PROVE BasketComplete'
    <3>1. SUFFICES ASSUME NEW l \in Legs PROVE FilledQtyForLeg(l)' >= Quantity[l] BY DEF BasketComplete
    <3>2. FilledQtyForLeg(l) >= Quantity[l] BY <2>3 DEF BasketComplete
    <3>3. FilledQtyForLeg(l) \in Nat /\ Quantity[l] \in Nat BY SumsTyped, BasketAssumption
    <3>4. FilledQtyForLeg(l) <= FilledQtyForLeg(l)' BY <1>2
    <3>5. FilledQtyForLeg(l)' \in Nat
      <4>1. IsFiniteSet(OrdersOf(l)) /\ OrdersOf(l) \subseteq Orders BY OrderFacts
      <4>2. \A o \in OrdersOf(l) : seen'[o] \in Nat BY <4>1 DEF TypeOK
      <4> QED BY <4>1, <4>2, SumNat DEF FilledQtyForLeg
    <3> QED BY <3>2, <3>3, <3>4, <3>5
  <2>4. ASSUME row \in {"OPEN", "CLOSED"}
        PROVE  BasketComplete' /\ NothingAtBroker' /\ \A l \in Legs : Fresh(<<l, Unwind>>)'
    BY <1>1, <2>1, <2>2, <2>3, <2>4 DEF VerdictInv, Fresh
  <2>5. ASSUME row = "COMPENSATED", starved = {}
        PROVE  /\ NothingAtBroker' /\ \A o \in Basket : Ended(o)'
               /\ \A l \in Legs : FilledQtyForLeg(l)' = fill'[<<l, Unwind>>]
    <3>1. NothingAtBroker /\ \A o \in Basket : Ended(o) BY <2>5 DEF VerdictInv
    <3>2. \A l \in Legs : FilledQtyForLeg(l) = fill[<<l, Unwind>>] BY <2>5 DEF VerdictInv
    <3>3. \A l \in Legs : FilledQtyForLeg(l)' = FilledQtyForLeg(l) BY <1>3, <2>5, <3>1
    <3>4. \A o \in Basket : Ended(o)' BY <1>1, <3>1, OrderFacts DEF Ended, Open
    <3> QED BY <2>1, <2>2, <3>1, <3>2, <3>3, <3>4
  <2>6. row \in {"OPEN", "CLOSED", "COMPENSATED"} => pc = "done" BY DEF VerdictInv
  <2> QED BY <1>1, <2>4, <2>5, <2>6 DEF VerdictInv
<1>12. TodoInv' BY <1>1, OrderFacts DEF TodoInv, TypeOK, Fresh, Environment
<1> QED BY <1>4, <1>5, <1>6, <1>7, <1>8, <1>9, <1>10, <1>11, <1>12

----------------------------------------------------------------------------
(* The steps of execute that only look at the orders.                      *)

(* What they leave alone.                                                  *)
LEMMA Looking ==
  ASSUME Inv, UNCHANGED <<qty, st, seen, at, fill, starved>>
  PROVE  /\ OrderInv' /\ PromiseInv' /\ UnwindInv'
         /\ \A o \in Orders : (Fresh(o)' <=> Fresh(o)) /\ (Ended(o)' <=> Ended(o))
         /\ \A l \in Legs : FilledQtyForLeg(l)' = FilledQtyForLeg(l)
         /\ \A l \in Legs : Accounted(l)' <=> Accounted(l)
         /\ NothingAtBroker' <=> NothingAtBroker
         /\ BasketComplete' <=> BasketComplete
<1> USE DEF Inv
<1>1. OrderInv' BY DEF OrderInv
<1>2. \A l \in Legs : FilledQtyForLeg(l)' = FilledQtyForLeg(l) BY DEF FilledQtyForLeg
<1>3. Promise' = Promise BY DEF Promise
<1>4. \A l \in Legs : Promised(l)' = Promised(l) BY <1>3 DEF Promised
<1>5. PromiseInv' BY <1>4 DEF PromiseInv
<1>6. UnwindInv' BY <1>2 DEF UnwindInv
<1>7. \A o \in Orders : (Fresh(o)' <=> Fresh(o)) /\ (Ended(o)' <=> Ended(o)) BY DEF Fresh, Ended
<1>8. \A l \in Legs : Accounted(l)' <=> Accounted(l) BY <1>2 DEF Accounted, Fresh
<1>9. NothingAtBroker' <=> NothingAtBroker BY DEF NothingAtBroker
<1>10. BasketComplete' <=> BasketComplete BY <1>2 DEF BasketComplete
<1> QED BY <1>1, <1>2, <1>5, <1>6, <1>7, <1>8, <1>9, <1>10

(* The orders a loop may speak about.                                      *)
LEMMA LoopOrders ==
  ASSUME TypeOK
  PROVE  /\ Basket \subseteq Orders
         /\ \A l \in Legs : <<l, 0>> \in Orders /\ <<l, attempt>> \in Orders /\ <<l, Unwind>> \in Orders
BY OrderFacts, BasketAssumption DEF TypeOK

(* When nothing works, every order of the basket has ended.                *)
LEMMA NothingWorks ==
  ASSUME Working = {} PROVE \A o \in Basket : Ended(o)
BY OrderFacts DEF Working, Created, WaitTerminal, Ended

(* Without a final state nothing is due.                                   *)
LEMMA LookingOn ==
  ASSUME Inv, TypeOK', LoopsBounded', UNCHANGED <<qty, st, seen, at, fill, starved>>,
         FreshInv', TodoInv', PlaceInv', EndedInv', StarvedInv', AccountedInv',
         row' \notin {"OPEN", "CLOSED", "COMPENSATED"}
  PROVE  Inv'
BY Looking DEF Inv, VerdictInv

(* A final state is reached at the end, and not left.                      *)
LEMMA NotFinal ==
  ASSUME Inv, pc # "done" PROVE row \notin {"OPEN", "CLOSED", "COMPENSATED"}
BY DEF Inv, VerdictInv

LEMMA LookingSteps ==
  ASSUME Inv, TypeOK', LoopsBounded',
         \/ CheckLeg \/ WaitFills \/ Assess \/ RetryCancelWaited \/ RetryHead \/ RoundWaited
         \/ CancelWorking \/ UnwindCancelWaited \/ CheckCompensation \/ PersistRaises
         \/ \E o \in Orders : CancelOrder(o)
  PROVE  Inv'
<1> USE DEF Inv
<1>a. Basket \subseteq Orders BY LoopOrders
<1>b. \A l \in Legs : <<l, 0>> \in Orders /\ <<l, attempt>> \in Orders /\ <<l, Unwind>> \in Orders
  BY LoopOrders
<1>c. cur \in Int /\ attempt \in Int BY DEF TypeOK
<1>d. TodoInv'
  <2>1. /\ UNCHANGED st
        /\ \A o \in todo' : o \in todo \/ o \in Working
    BY DEF CheckLeg, WaitFills, Assess, RetryCancelWaited, RetryHead, RoundWaited, CancelWorking,
           UnwindCancelWaited, CheckCompensation, PersistRaises, CancelOrder, adapterVars
  <2>2. \A o \in Working : ~Fresh(o) BY DEF Working, Created, Fresh
  <2> QED BY <2>1, <2>2 DEF TodoInv, Fresh
<1>1. CASE CheckLeg
  <2>1. /\ UNCHANGED <<qty, st, seen, at, fill, starved, attempt, row>> /\ pc = "placed"
        /\ \/ pc' = "wait" /\ cur' = cur
           \/ pc' = "submit" /\ cur' = cur + 1
    BY <1>1 DEF CheckLeg, adapterVars, brokerVars
  <2>2. \A o \in Orders : Fresh(o)' <=> Fresh(o) BY <2>1, Looking
  <2>3. FreshInv'
    <3>1. \A l \in Legs : l >= cur + 1 => l > cur BY <1>c DEF Legs
    <3>2. ASSUME pc' = "submit", NEW l \in Legs, l >= cur' PROVE Fresh(<<l, 0>>)'
      <4>1. l > cur BY <2>1, <3>1, <3>2
      <4> QED BY <1>b, <2>1, <2>2, <4>1 DEF FreshInv
    <3>3. /\ \A o \in Basket : Attempt(o) > attempt' => Fresh(o)'
          /\ \A l \in Legs : Fresh(<<l, Unwind>>)'
      BY <1>a, <1>b, <2>1, <2>2 DEF FreshInv
    <3> QED BY <2>1, <3>2, <3>3 DEF FreshInv
  <2>4. PlaceInv' /\ EndedInv' /\ StarvedInv' /\ AccountedInv'
    BY <2>1 DEF PlaceInv, EndedInv, StarvedInv, AccountedInv
  <2> QED BY <2>1, <2>3, <2>4, <1>d, LookingOn, NotFinal
<1>2. CASE WaitFills \/ Assess \/ RoundWaited \/ CancelWorking \/ PersistRaises
  <2>1. UNCHANGED <<qty, st, seen, at, fill, starved, attempt, row>>
    BY <1>2 DEF WaitFills, Assess, RoundWaited, CancelWorking, PersistRaises, adapterVars, brokerVars
  <2>2. \/ pc = "wait" /\ pc' \in {"assess", "done"}
        \/ pc = "assess" /\ pc' \in {"final", "rcancel"}
        \/ pc = "round" /\ pc' = "rhead" /\ attempt > 0
        \/ pc = "unwind" /\ pc' = "ucancel"
        \/ pc # "done" /\ pc' = "done"
    BY <1>2 DEF WaitFills, Assess, RoundWaited, CancelWorking, PersistRaises, AtVerdict, LoopsBounded
  <2>3. \A o \in Orders : Fresh(o)' <=> Fresh(o) BY <2>1, Looking
  <2>4. FreshInv'
    <3>1. \A o \in Basket : Attempt(o) > attempt' => Fresh(o)' BY <1>a, <2>1, <2>3 DEF FreshInv
    <3>2. pc' # "done" => \A l \in Legs : Fresh(<<l, Unwind>>)' BY <1>b, <2>1, <2>2, <2>3 DEF FreshInv
    <3> QED BY <2>2, <3>1, <3>2 DEF FreshInv
  <2>5. PlaceInv' /\ EndedInv' /\ AccountedInv'
    BY <1>c, <2>1, <2>2 DEF PlaceInv, EndedInv, AccountedInv
  <2>6. StarvedInv' BY <2>1, <2>2 DEF StarvedInv
  <2> QED BY <2>1, <2>2, <2>4, <2>5, <2>6, <1>d, LookingOn, NotFinal
<1>3. CASE RetryCancelWaited
  <2>1. /\ UNCHANGED <<qty, st, seen, at, fill, starved, row>> /\ pc = "rcancel"
        /\ \/ pc' = "final" /\ attempt' = attempt
           \/ pc' = "rhead" /\ attempt' = attempt /\ Working = {}
           \/ pc' = "round" /\ attempt' = attempt + 1 /\ cur' = 1 /\ Working = {}
    BY <1>3 DEF RetryCancelWaited, adapterVars, brokerVars
  <2>2. \A o \in Orders : (Fresh(o)' <=> Fresh(o)) /\ (Ended(o)' <=> Ended(o)) BY <2>1, Looking
  <2>3. FreshInv'
    <3>1. \A o \in Basket : Attempt(o) > attempt => Fresh(o)' BY <1>a, <2>2 DEF FreshInv
    <3>2. \A o \in Basket : Attempt(o) \in Int BY OrderFacts
    <3>3. \A o \in Basket : Attempt(o) > attempt' => Fresh(o)' BY <1>c, <2>1, <3>1, <3>2
    <3>4. \A l \in Legs : Fresh(<<l, Unwind>>)' BY <1>b, <2>1, <2>2 DEF FreshInv
    <3>5. ASSUME pc' = "round", NEW l \in Legs PROVE Fresh(<<l, attempt>>)'
      <4>1. PICK n \in 0..MaxRetries : n = attempt' /\ n > attempt BY <1>c, <2>1, <3>5 DEF TypeOK
      <4>2. <<l, n>> \in Basket /\ Attempt(<<l, n>>) = n BY OrderFacts
      <4>3. Fresh(<<l, n>>)' BY <3>1, <4>1, <4>2
      <4> QED BY <4>1, <4>3 DEF Fresh
    <3> QED BY <2>1, <3>3, <3>4, <3>5 DEF FreshInv
  <2>4. EndedInv' BY <1>a, <2>1, <2>2, NothingWorks DEF EndedInv
  <2>5. PlaceInv' /\ StarvedInv' /\ AccountedInv' BY <2>1 DEF PlaceInv, StarvedInv, AccountedInv
  <2> QED BY <2>1, <2>3, <2>4, <2>5, <1>d, LookingOn, NotFinal
<1>4. CASE RetryHead
  <2>1. /\ UNCHANGED <<qty, st, seen, at, fill, starved, row>> /\ pc = "rhead"
        /\ \/ pc' \in {"final", "rcancel"} /\ attempt' = attempt
           \/ pc' = "round" /\ attempt = 0 /\ attempt' = 1 /\ cur' = 1
    BY <1>4 DEF RetryHead, adapterVars, brokerVars
  <2>2. \A o \in Orders : (Fresh(o)' <=> Fresh(o)) /\ (Ended(o)' <=> Ended(o)) BY <2>1, Looking
  <2>3. FreshInv'
    <3>1. \A o \in Basket : Attempt(o) > attempt => Fresh(o)' BY <1>a, <2>2 DEF FreshInv
    <3>2. \A o \in Basket : Attempt(o) \in Int BY OrderFacts
    <3>3. \A o \in Basket : Attempt(o) > attempt' => Fresh(o)' BY <1>c, <2>1, <3>1, <3>2
    <3>4. \A l \in Legs : Fresh(<<l, Unwind>>)' BY <1>b, <2>1, <2>2 DEF FreshInv
    <3>5. ASSUME pc' = "round", NEW l \in Legs PROVE Fresh(<<l, attempt>>)'
      <4>1. PICK n \in 0..MaxRetries : n = attempt' /\ n > attempt BY <1>c, <2>1, <3>5 DEF TypeOK
      <4>2. <<l, n>> \in Basket /\ Attempt(<<l, n>>) = n BY OrderFacts
      <4>3. Fresh(<<l, n>>)' BY <3>1, <4>1, <4>2
      <4> QED BY <4>1, <4>3 DEF Fresh
    <3> QED BY <2>1, <3>3, <3>4, <3>5 DEF FreshInv
  <2>4. EndedInv' BY <1>a, <2>1, <2>2 DEF EndedInv
  <2>5. PlaceInv' /\ StarvedInv' /\ AccountedInv' BY <2>1 DEF PlaceInv, StarvedInv, AccountedInv
  <2> QED BY <2>1, <2>3, <2>4, <2>5, <1>d, LookingOn, NotFinal
<1>5. ASSUME NEW o \in Orders, CancelOrder(o) PROVE Inv'
  <2>1. /\ UNCHANGED <<qty, st, seen, at, fill, starved, cur, attempt>>
        /\ pc \in {"rcancel", "ucancel"} /\ row' \in {row, "CRITICAL"}
        /\ pc' = pc \/ pc' = "final" \/ pc' = "done"
    BY <1>5 DEF CancelOrder, CancelFailed, FailCritical, adapterVars, brokerVars
  <2>2. \A p \in Orders : Fresh(p)' <=> Fresh(p) BY <2>1, Looking
  <2>3. FreshInv' BY <1>a, <1>b, <2>1, <2>2 DEF FreshInv
  <2>4. PlaceInv' /\ EndedInv' /\ StarvedInv' /\ AccountedInv'
    BY <2>1 DEF PlaceInv, EndedInv, StarvedInv, AccountedInv
  <2>5. row' \notin {"OPEN", "CLOSED", "COMPENSATED"} BY <2>1, NotFinal
  <2> QED BY <2>1, <2>3, <2>4, <2>5, <1>d, LookingOn
<1>6. CASE UnwindCancelWaited
  <2>1. /\ UNCHANGED <<qty, st, seen, at, fill, starved, attempt>>
        /\ pc = "ucancel" /\ row' \in {row, "CRITICAL"}
        /\ pc' = "done" \/ (pc' \in {"cwait", "comp"} /\ cur' = 1 /\ Working = {})
    BY <1>6 DEF UnwindCancelWaited, FailCritical, adapterVars, brokerVars
  <2>2. \A o \in Orders : (Fresh(o)' <=> Fresh(o)) /\ (Ended(o)' <=> Ended(o)) BY <2>1, Looking
  <2>3. FreshInv' BY <1>a, <1>b, <2>1, <2>2 DEF FreshInv
  <2>4. EndedInv' BY <1>a, <2>1, <2>2, NothingWorks DEF EndedInv
  <2>5. \A l \in Legs : ~(l < 1) BY DEF Legs
  <2>6. PlaceInv' /\ StarvedInv' /\ AccountedInv' BY <2>1, <2>5 DEF PlaceInv, StarvedInv, AccountedInv
  <2>7. row' \notin {"OPEN", "CLOSED", "COMPENSATED"} BY <2>1, NotFinal
  <2> QED BY <2>1, <2>3, <2>4, <2>6, <2>7, <1>d, LookingOn
<1>7. CASE CheckCompensation
  <2>1. /\ UNCHANGED <<qty, st, seen, at, fill, starved, attempt>>
        /\ pc = "compd" /\ row' \in {row, "CRITICAL"}
        /\ pc' = "done" \/ (pc' = "comp" /\ cur' = cur + 1)
    BY <1>7 DEF CheckCompensation, FailCritical, adapterVars, brokerVars
  <2>2. \A o \in Orders : (Fresh(o)' <=> Fresh(o)) /\ (Ended(o)' <=> Ended(o)) BY <2>1, Looking
  <2>3. \A l \in Legs : (l >= cur + 1 <=> l > cur) /\ (l < cur + 1 <=> l <= cur) BY <1>c DEF Legs
  <2>4. FreshInv'
    <3>1. \A o \in Basket : Attempt(o) > attempt' => Fresh(o)' BY <1>a, <2>1, <2>2 DEF FreshInv
    <3>2. pc' = "comp" => \A l \in Legs : l >= cur' => Fresh(<<l, Unwind>>)'
      BY <1>b, <2>1, <2>2, <2>3 DEF FreshInv
    <3> QED BY <2>1, <3>1, <3>2 DEF FreshInv
  <2>5. EndedInv' BY <1>a, <2>1, <2>2 DEF EndedInv
  <2>6. AccountedInv'
    <3>1. \A l \in Legs : Accounted(l)' <=> Accounted(l) BY <2>1, Looking
    <3> QED BY <2>1, <2>3, <3>1 DEF AccountedInv
  <2>7. PlaceInv' /\ StarvedInv' BY <2>1 DEF PlaceInv, StarvedInv
  <2>8. row' \notin {"OPEN", "CLOSED", "COMPENSATED"} BY <2>1, NotFinal
  <2> QED BY <2>1, <2>4, <2>5, <2>6, <2>7, <2>8, <1>d, LookingOn
<1> QED BY <1>1, <1>2, <1>3, <1>4, <1>5, <1>6, <1>7

----------------------------------------------------------------------------
(* The two steps that write a final state.                                 *)

LEMMA SettleStep ==
  ASSUME Inv, TypeOK', LoopsBounded', Settle
  PROVE  Inv'
<1> USE DEF Inv
<1>1. /\ UNCHANGED <<qty, st, seen, at, fill, starved, todo, attempt>> /\ pc = "final"
      /\ \/ BasketComplete /\ row' \in {"OPEN", "CLOSED"} /\ pc' = "done"
         \/ row' = "UNWINDING" /\ pc' = "unwind"
  BY DEF Settle, adapterVars, brokerVars
<1>2. \A o \in Orders : Fresh(o)' <=> Fresh(o) BY <1>1, Looking
<1>3. \A l \in Legs : Fresh(<<l, Unwind>>) BY <1>1 DEF FreshInv
<1>4. FreshInv' BY <1>1, <1>2, <1>3, LoopOrders DEF FreshInv
<1>5. TodoInv' BY <1>1 DEF TodoInv, Fresh
<1>6. PlaceInv' /\ EndedInv' /\ StarvedInv' /\ AccountedInv'
  BY <1>1 DEF PlaceInv, EndedInv, StarvedInv, AccountedInv
<1>7. ASSUME BasketComplete PROVE NothingAtBroker
  <2>1. SUFFICES ASSUME NEW o \in Orders, at[o] \in Alive PROVE FALSE BY DEF NothingAtBroker, Alive
  <2>2. o \in Basket
    <3>1. st[o] # "none" BY <2>1 DEF OrderInv, Alive
    <3> QED BY <1>3, <3>1, OrderFacts DEF Fresh
  <2>3. PICK l \in Legs : o \in OrdersOf(l) BY <2>2, OrderFacts
  <2>4. IsFiniteSet(OrdersOf(l)) /\ OrdersOf(l) \subseteq Orders BY OrderFacts
  <2>5. \A x \in OrdersOf(l) : seen[x] \in Int /\ Promise[x] \in Int /\ seen[x] <= Promise[x]
    BY <2>4 DEF TypeOK, OrderInv, Promise
  <2>6. SumFunctionOnSet(Promise, OrdersOf(l)) <= SumFunctionOnSet(seen, OrdersOf(l))
    <3>1. FilledQtyForLeg(l) >= Quantity[l] BY <1>7 DEF BasketComplete
    <3>2. Promised(l) <= Quantity[l] BY DEF PromiseInv
    <3>3. FilledQtyForLeg(l) \in Nat /\ Promised(l) \in Nat /\ Quantity[l] \in Nat
      BY SumsTyped, BasketAssumption
    <3>4. Promised(l) <= FilledQtyForLeg(l) BY <3>1, <3>2, <3>3
    <3> QED BY <3>4 DEF Promised, FilledQtyForLeg
  <2>7. Promise[o] = seen[o] BY <2>3, <2>4, <2>5, <2>6, SumTight
  <2>8. Promise[o] = qty[o] BY <2>1 DEF Promise, Alive
  <2>9. seen[o] <= fill[o] /\ fill[o] < qty[o] BY <2>1 DEF OrderInv, Alive
  <2>10. seen[o] \in Nat /\ fill[o] \in Nat /\ qty[o] \in Nat BY DEF TypeOK
  <2> QED BY <2>7, <2>8, <2>9, <2>10
<1>8. VerdictInv'
  <2>1. (BasketComplete' <=> BasketComplete) /\ (NothingAtBroker' <=> NothingAtBroker) BY <1>1, Looking
  <2>2. \A l \in Legs : Fresh(<<l, Unwind>>)' BY <1>2, <1>3, OrderFacts
  <2> QED BY <1>1, <1>7, <2>1, <2>2 DEF VerdictInv
<1> QED BY <1>1, <1>4, <1>5, <1>6, <1>8, Looking

LEMMA CompensationStep ==
  ASSUME Inv, TypeOK', LoopsBounded', CompensationWaited
  PROVE  Inv'
<1> USE DEF Inv
<1>1. /\ UNCHANGED <<qty, st, seen, at, fill, starved, todo, attempt>> /\ AtVerdict /\ pc' = "done"
      /\ \/ CompensationComplete /\ row' = "COMPENSATED"
         \/ row' = "CRITICAL"
  BY DEF CompensationWaited, FailCritical, adapterVars, brokerVars
<1>2. \A o \in Orders : (Fresh(o)' <=> Fresh(o)) /\ (Ended(o)' <=> Ended(o)) BY <1>1, Looking
<1>3. FreshInv' BY <1>1, <1>2, LoopOrders DEF FreshInv
<1>4. TodoInv' BY <1>1 DEF TodoInv, Fresh
<1>5. PlaceInv' /\ EndedInv' /\ StarvedInv' /\ AccountedInv'
  BY <1>1 DEF PlaceInv, EndedInv, StarvedInv, AccountedInv
<1>6. ASSUME CompensationComplete, starved = {}
      PROVE  /\ NothingAtBroker /\ \A o \in Basket : Ended(o)
             /\ \A l \in Legs : FilledQtyForLeg(l) = fill[<<l, Unwind>>]
  <2>1. \A o \in Basket : Ended(o) BY <1>1 DEF AtVerdict, EndedInv
  <2>2. \A l \in Legs : ~Fresh(<<l, Unwind>>) => st[<<l, Unwind>>] = "FILLED"
    <3>1. SUFFICES ASSUME NEW l \in Legs, ~Fresh(<<l, Unwind>>) PROVE st[<<l, Unwind>>] = "FILLED" OBVIOUS
    <3>2. <<l, Unwind>> \in Orders /\ Attempt(<<l, Unwind>>) = Unwind BY OrderFacts DEF Attempt
    <3>3. <<l, Unwind>> \in Compensation BY <3>1, <3>2 DEF Compensation, Created, Fresh
    <3> QED BY <1>6, <3>3 DEF CompensationComplete
  <2>3. NothingAtBroker
    <3>1. SUFFICES ASSUME NEW o \in Orders PROVE at[o] \notin Alive BY DEF NothingAtBroker, Alive
    <3>2. Ended(o)
      <4>1. CASE o \in Basket BY <2>1, <4>1
      <4>2. CASE o \notin Basket BY <2>2, <4>2, OrderFacts DEF Ended, Fresh
      <4> QED BY <4>1, <4>2
    <3> QED BY <1>6, <3>2, EndedIsQuiet
  <2>4. ASSUME NEW l \in Legs PROVE FilledQtyForLeg(l) = fill[<<l, Unwind>>]
    <3>1. <<l, Unwind>> \in Orders BY OrderFacts
    <3>2. PICK o \in Orders : o = <<l, Unwind>> BY <3>1
    <3>3. qty[o] \in Nat /\ seen[o] \in Nat /\ fill[o] \in Nat /\ seen[o] <= fill[o] /\ fill[o] <= qty[o]
      BY DEF TypeOK, OrderInv
    <3>4. ASSUME Fresh(o) PROVE FilledQtyForLeg(l) = 0
      <4>1. CASE pc = "cwait"
        <5>1. \A k \in Legs : Fresh(<<k, Unwind>>) BY <4>1 DEF FreshInv
        <5>2. Compensation = {}
          <6>1. SUFFICES ASSUME NEW p \in Compensation PROVE FALSE OBVIOUS
          <6>2. p \in Orders /\ st[p] # "none" /\ Attempt(p) = Unwind BY DEF Compensation, Created
          <6>3. p \notin Basket BY <6>2 DEF Basket
          <6> QED BY <5>1, <6>2, <6>3, OrderFacts DEF Fresh
        <5> QED BY <1>6, <5>2 DEF CompensationComplete
      <4>2. CASE pc = "comp" /\ cur > NumLegs
        <5>1. l < cur BY <4>2, BasketAssumption DEF Legs, TypeOK
        <5>2. Accounted(l) BY <1>6, <4>2, <5>1 DEF AccountedInv
        <5> QED BY <3>2, <3>4, <5>2 DEF Accounted
      <4> QED BY <1>1, <4>1, <4>2 DEF AtVerdict
    <3>5. CASE Fresh(o)
      <4>1. qty[o] = 0 BY <3>5 DEF OrderInv, Fresh
      <4> QED BY <3>2, <3>3, <3>4, <3>5, <4>1
    <3>6. CASE ~Fresh(o)
      <4>1. pc = "comp" /\ cur > NumLegs
        BY <1>1, <3>2, <3>6 DEF AtVerdict, FreshInv
      <4>2. l < cur BY <4>1, BasketAssumption DEF Legs, TypeOK
      <4>3. Accounted(l) BY <1>6, <4>1, <4>2 DEF AccountedInv
      <4>4. qty[o] = FilledQtyForLeg(l) BY <3>2, <3>6, <4>3 DEF Accounted
      <4>5. seen[o] = qty[o] BY <2>2, <3>2, <3>6 DEF OrderInv
      <4> QED BY <3>2, <3>3, <4>4, <4>5
    <3> QED BY <3>5, <3>6
  <2> QED BY <2>1, <2>3, <2>4
<1>7. VerdictInv'
  <2>1. /\ NothingAtBroker' <=> NothingAtBroker
        /\ \A l \in Legs : FilledQtyForLeg(l)' = FilledQtyForLeg(l)
    BY <1>1, Looking
  <2>2. \A o \in Basket : Ended(o) => Ended(o)' BY <1>2, OrderFacts
  <2>3. row' \notin {"OPEN", "CLOSED"} BY <1>1
  <2>4. ASSUME row' = "COMPENSATED", starved' = {}
        PROVE  /\ NothingAtBroker' /\ \A o \in Basket : Ended(o)'
               /\ \A l \in Legs : FilledQtyForLeg(l)' = fill'[<<l, Unwind>>]
    BY <1>1, <1>6, <2>1, <2>2, <2>4
  <2> QED BY <1>1, <2>3, <2>4 DEF VerdictInv
<1> QED BY <1>1, <1>3, <1>4, <1>5, <1>7, Looking

----------------------------------------------------------------------------
(* The steps that make or send an order.                                   *)

(* An order of the basket that is sent must fit into its leg.              *)
LEMMA PromiseRises ==
  ASSUME TypeOK, TypeOK', PromiseInv, NEW l \in Legs, NEW o \in OrdersOf(l),
         \A p \in Orders : p # o => Promise'[p] = Promise[p],
         Promised(l) + (Promise'[o] - Promise[o]) <= Quantity[l]
  PROVE  PromiseInv'
<1>1. PICK f : f = Promise OBVIOUS
<1>2. PICK h : h = Promise' OBVIOUS
<1>3. /\ \A k \in Legs : Promised(k) = SumFunctionOnSet(f, OrdersOf(k))
      /\ \A k \in Legs : Promised(k)' = SumFunctionOnSet(h, OrdersOf(k))
  BY <1>1, <1>2 DEF Promised
<1>4. \A p \in Orders : f[p] \in Nat /\ h[p] \in Nat
  <2>1. \A p \in Orders : f[p] \in Nat BY <1>1 DEF TypeOK, Promise
  <2>2. \A p \in Orders : h[p] \in Nat BY <1>2 DEF TypeOK, Promise
  <2> QED BY <2>1, <2>2
<1>5. \A p \in Orders : p # o => h[p] = f[p] BY <1>1, <1>2
<1>6. \A k \in Legs : IsFiniteSet(OrdersOf(k)) /\ OrdersOf(k) \subseteq Orders BY OrderFacts
<1>7. SumFunctionOnSet(h, OrdersOf(l)) = SumFunctionOnSet(f, OrdersOf(l)) + (h[o] - f[o])
  <2>1. \A x \in OrdersOf(l) : f[x] \in Int /\ h[x] \in Int /\ (x # o => f[x] = h[x])
    BY <1>4, <1>5, <1>6
  <2> QED BY <1>6, <2>1, SumChange
<1>8. Promised(l)' <= Quantity[l] BY <1>1, <1>2, <1>3, <1>7
<1>9. ASSUME NEW k \in Legs, k # l PROVE Promised(k)' <= Quantity[k]
  <2>1. \A x \in OrdersOf(k) : f[x] = h[x] BY <1>5, <1>6, <1>9, OrderFacts
  <2>2. Promised(k)' = Promised(k) BY <1>3, <1>6, <2>1, SumCong
  <2> QED BY <2>2 DEF PromiseInv
<1> QED BY <1>8, <1>9 DEF PromiseInv

(* An order that was never made has promised nothing.                      *)
LEMMA FreshIsIdle ==
  ASSUME TypeOK, OrderInv, NEW o \in Orders, Fresh(o)
  PROVE  at[o] = "none" /\ fill[o] = 0 /\ seen[o] = 0 /\ qty[o] = 0 /\ Promise[o] = 0 /\ Ended(o)
<1>1. at[o] = "none" /\ fill[o] = 0 /\ seen[o] = 0 /\ qty[o] = 0 BY DEF TypeOK, OrderInv, Fresh
<1>2. Promise[o] = 0 BY <1>1 DEF Promise
<1>3. Ended(o) BY DEF Ended, Fresh
<1> QED BY <1>1, <1>2, <1>3

LEMMA ReserveStep ==
  ASSUME Inv, TypeOK', LoopsBounded', ReserveLeg
  PROVE  Inv'
<1> USE DEF Inv
<1>1. PICK o \in Orders : o = <<cur, 0>> /\ o \in Basket /\ Leg(o) = cur /\ Attempt(o) = 0 /\ cur \in Legs
  <2>1. cur \in Legs BY DEF ReserveLeg, TypeOK
  <2>2. 0 \in 0..MaxRetries BY BasketAssumption
  <2>3. <<cur, 0>> \in Orders /\ <<cur, 0>> \in Basket /\ Leg(<<cur, 0>>) = cur /\ Attempt(<<cur, 0>>) = 0
    BY <2>1, <2>2, OrderFacts
  <2> QED BY <2>1, <2>3
<1>2. /\ UNCHANGED <<seen, at, fill, starved, cur, attempt, todo, row>> /\ pc = "submit" /\ attempt = 0
      /\ qty' = [qty EXCEPT ![o] = Quantity[cur]]
      /\ \/ st' = [st EXCEPT ![o] = "WORKING"] /\ pc' = "place"
         \/ st' = [st EXCEPT ![o] = "ERROR"] /\ pc' = "placed"
  BY <1>1 DEF ReserveLeg, brokerVars, LoopsBounded
<1>3. Fresh(o)
  <2>1. cur >= cur BY DEF TypeOK
  <2> QED BY <1>1, <1>2, <2>1 DEF FreshInv
<1>4. at[o] = "none" /\ fill[o] = 0 /\ seen[o] = 0 BY <1>3, FreshIsIdle
<1>5. Quantity[cur] \in Nat \ {0} BY <1>1, BasketAssumption
<1>6. \A p \in Orders : p # o => st'[p] = st[p] /\ qty'[p] = qty[p] BY <1>2 DEF TypeOK
<1>7. st'[o] \in {"WORKING", "ERROR"} /\ qty'[o] = Quantity[cur] BY <1>2 DEF TypeOK
<1>8. OrderInv' BY <1>2, <1>4, <1>5, <1>6, <1>7 DEF OrderInv
<1>9. \A p \in Orders : p # o => (Fresh(p)' <=> Fresh(p)) BY <1>6 DEF Fresh
<1>10. FreshInv'
  <2>1. ASSUME NEW p \in Basket, Attempt(p) > attempt' PROVE Fresh(p)'
    <3>1. p # o /\ Attempt(p) > attempt BY <1>1, <1>2, <2>1
    <3> QED BY <1>9, <2>1, <3>1, OrderFacts DEF FreshInv
  <2>2. ASSUME NEW l \in Legs, l > cur PROVE Fresh(<<l, 0>>)'
    <3>0. l # cur /\ l >= cur BY <1>1, <2>2 DEF Legs
    <3>1. <<l, 0>> # o /\ <<l, 0>> \in Orders /\ l >= cur BY <1>1, <3>0, LoopOrders
    <3> QED BY <1>2, <1>9, <3>1 DEF FreshInv
  <2>3. ASSUME NEW l \in Legs PROVE Fresh(<<l, Unwind>>)'
    <3>1. <<l, Unwind>> # o /\ <<l, Unwind>> \in Orders BY <1>1, OrderFacts
    <3> QED BY <1>2, <1>9, <3>1 DEF FreshInv
  <2> QED BY <1>2, <2>1, <2>2, <2>3 DEF FreshInv
<1>11. TodoInv' BY <1>2, <1>6, <1>7, OrderFacts DEF TodoInv, Fresh, TypeOK
<1>12. PlaceInv'
  <2>1. ASSUME pc' = "place" PROVE st'[o] = "WORKING" /\ at'[o] = "none" /\ qty'[o] = Quantity[cur]
    BY <1>2, <1>4, <2>1 DEF TypeOK
  <2> QED BY <1>1, <1>2, <2>1 DEF PlaceInv
<1>13. EndedInv' /\ StarvedInv' /\ AccountedInv' BY <1>2 DEF EndedInv, StarvedInv, AccountedInv
<1>14. PromiseInv'
  <2>1. \A p \in Orders : Promise'[p] = Promise[p] BY <1>2, <1>4, <1>6 DEF Promise
  <2>2. \A p \in Basket : Promise'[p] <= Promise[p] BY <2>1, OrderFacts DEF Promise, TypeOK
  <2> QED BY <2>2, PromiseFalls
<1>15. UnwindInv'
  <2>1. \A l \in Legs : FilledQtyForLeg(l)' = FilledQtyForLeg(l) BY <1>2 DEF FilledQtyForLeg
  <2>2. \A l \in Legs : qty'[<<l, Unwind>>] = qty[<<l, Unwind>>] BY <1>1, <1>6, OrderFacts
  <2> QED BY <2>1, <2>2 DEF UnwindInv
<1>16. VerdictInv' BY <1>2, NotFinal DEF VerdictInv
<1> QED BY <1>8, <1>10, <1>11, <1>12, <1>13, <1>14, <1>15, <1>16

LEMMA PlaceStep ==
  ASSUME Inv, TypeOK', LoopsBounded', PlaceLeg
  PROVE  Inv'
<1> USE DEF Inv
<1>1. PICK o \in Orders : o = <<cur, 0>> /\ o \in Basket /\ Leg(o) = cur /\ Attempt(o) = 0 /\ cur \in Legs
  <2>1. cur \in Legs BY DEF PlaceLeg, TypeOK
  <2>2. 0 \in 0..MaxRetries BY BasketAssumption
  <2>3. <<cur, 0>> \in Orders /\ <<cur, 0>> \in Basket /\ Leg(<<cur, 0>>) = cur /\ Attempt(<<cur, 0>>) = 0
    BY <2>1, <2>2, OrderFacts
  <2> QED BY <2>1, <2>3
<1>2. /\ UNCHANGED <<qty, seen, fill, starved, cur, attempt, todo, row>> /\ pc = "place" /\ attempt = 0
      /\ pc' = "placed"
      /\ \/ at' = [at EXCEPT ![o] = "sent"] /\ st' = st
         \/ at' = [at EXCEPT ![o] = "lost"]
            /\ \E s \in {"PARKED", "ERROR"} : st' = [st EXCEPT ![o] = s]
  BY <1>1 DEF PlaceLeg, LoopsBounded
<1>3. st[o] \in Open /\ at[o] = "none" /\ qty[o] = Quantity[cur] BY <1>1, <1>2 DEF PlaceInv, Open
<1>4. fill[o] = 0 /\ seen[o] = 0 BY <1>3 DEF OrderInv, TypeOK
<1>5. Quantity[cur] \in Nat \ {0} BY <1>1, BasketAssumption
<1>6. \A p \in Orders : p # o => st'[p] = st[p] /\ at'[p] = at[p] BY <1>2 DEF TypeOK
<1>7. \/ at'[o] = "sent" /\ st'[o] \in Open
      \/ at'[o] = "lost" /\ st'[o] \in {"PARKED", "ERROR"}
  BY <1>2, <1>3 DEF TypeOK
<1>8. OrderInv' BY <1>2, <1>3, <1>4, <1>5, <1>6, <1>7 DEF OrderInv, Open
<1>9. \A p \in Orders : Fresh(p)' <=> Fresh(p) BY <1>3, <1>6, <1>7 DEF Fresh, Open
<1>10. FreshInv' BY <1>2, <1>9, LoopOrders DEF FreshInv
<1>11. TodoInv' BY <1>2, <1>9, OrderFacts DEF TodoInv, TypeOK
<1>12. PlaceInv' /\ EndedInv' /\ StarvedInv' /\ AccountedInv'
  BY <1>2 DEF PlaceInv, EndedInv, StarvedInv, AccountedInv
<1>13. PromiseInv'
  <2>1. o \in OrdersOf(cur) /\ IsFiniteSet(OrdersOf(cur)) BY <1>1, OrderFacts
  <2>2. \A p \in Orders : p # o => Promise'[p] = Promise[p] BY <1>2, <1>6 DEF Promise
  <2>3. \A p \in OrdersOf(cur) : Promise[p] = 0
    <3>1. SUFFICES ASSUME NEW p \in OrdersOf(cur) PROVE Promise[p] = 0 OBVIOUS
    <3>2. p \in Basket /\ p \in Orders /\ Leg(p) = cur BY <1>1, OrderFacts
    <3>3. CASE p = o BY <1>3, <1>4, <3>3 DEF Promise
    <3>4. CASE p # o
      <4>1. Attempt(p) # 0 /\ Attempt(p) \in 0..MaxRetries BY <1>1, <3>2, <3>4, OrderFacts
      <4>2. Attempt(p) > attempt BY <1>2, <4>1
      <4>3. Fresh(p) BY <3>2, <4>2 DEF FreshInv
      <4> QED BY <3>2, <4>3, FreshIsIdle
    <3> QED BY <3>3, <3>4
  <2>4. Promised(cur) = 0 BY <2>1, <2>3, SumZero DEF Promised
  <2>5. Promise'[o] \in {0, Quantity[cur]} BY <1>2, <1>3, <1>4, <1>7 DEF Promise
  <2>6. Promised(cur) + (Promise'[o] - Promise[o]) <= Quantity[cur] BY <1>5, <2>1, <2>3, <2>4, <2>5
  <2> QED BY <1>1, <2>1, <2>2, <2>6, PromiseRises
<1>14. UnwindInv'
  <2>1. \A l \in Legs : FilledQtyForLeg(l)' = FilledQtyForLeg(l) BY <1>2 DEF FilledQtyForLeg
  <2> QED BY <1>2, <2>1 DEF UnwindInv
<1>15. VerdictInv' BY <1>2, NotFinal DEF VerdictInv
<1> QED BY <1>8, <1>10, <1>11, <1>12, <1>13, <1>14, <1>15

LEMMA RetryStep ==
  ASSUME Inv, TypeOK', LoopsBounded', RetryLeg
  PROVE  Inv'
<1> USE DEF Inv
<1>1. PICK o \in Orders : /\ o = <<cur, attempt>> /\ o \in Basket /\ Leg(o) = cur
                          /\ Attempt(o) = attempt /\ cur \in Legs
  <2>1. cur \in Legs /\ attempt \in 0..MaxRetries BY DEF RetryLeg, TypeOK
  <2>2. /\ <<cur, attempt>> \in Orders /\ <<cur, attempt>> \in Basket
        /\ Leg(<<cur, attempt>>) = cur /\ Attempt(<<cur, attempt>>) = attempt
    BY <2>1, OrderFacts
  <2> QED BY <2>1, <2>2
<1>2. PICK q \in Int : q = Quantity[cur] - FilledQtyForLeg(cur)
  <2>1. Quantity[cur] \in Nat /\ FilledQtyForLeg(cur) \in Nat BY <1>1, SumsTyped, BasketAssumption
  <2> QED BY <2>1
<1>3. /\ UNCHANGED <<seen, fill, starved, attempt, todo, row, pc>> /\ pc = "round" /\ cur' = cur + 1
      /\ starved = {}
  BY DEF RetryLeg, StarvedInv
<1>4. \/ UNCHANGED <<qty, st, at>>
      \/ /\ q > 0 /\ qty' = [qty EXCEPT ![o] = q]
         /\ \/ st' = [st EXCEPT ![o] = "WORKING"] /\ at' = [at EXCEPT ![o] = "sent"]
            \/ st' = [st EXCEPT ![o] = "ERROR"] /\ at' = at
  BY <1>1, <1>2 DEF RetryLeg, Submit
<1>5. \A l \in Legs : l >= cur + 1 => l >= cur /\ l # cur BY <1>1 DEF Legs
<1>6. PlaceInv' /\ StarvedInv' /\ AccountedInv' BY <1>3 DEF PlaceInv, StarvedInv, AccountedInv
<1>7. VerdictInv' BY <1>3, NotFinal DEF VerdictInv
<1>8. CASE UNCHANGED <<qty, st, at>>
  <2>1. \A p \in Orders : (Fresh(p)' <=> Fresh(p)) /\ (Ended(p)' <=> Ended(p)) BY <1>3, <1>8, Looking
  <2>2. FreshInv' BY <1>3, <1>5, <2>1, LoopOrders DEF FreshInv
  <2>3. EndedInv' BY <1>3, <1>5, <2>1, OrderFacts DEF EndedInv
  <2>4. TodoInv' BY <1>3, <1>8 DEF TodoInv, Fresh
  <2> QED BY <1>3, <1>6, <1>7, <1>8, <2>2, <2>3, <2>4, Looking
<1>9. CASE /\ q > 0 /\ qty' = [qty EXCEPT ![o] = q]
           /\ \/ st' = [st EXCEPT ![o] = "WORKING"] /\ at' = [at EXCEPT ![o] = "sent"]
              \/ st' = [st EXCEPT ![o] = "ERROR"] /\ at' = at
  <2>1. Fresh(o)
    <3>1. cur >= cur BY DEF TypeOK
    <3> QED BY <1>1, <1>3, <3>1 DEF FreshInv
  <2>2. at[o] = "none" /\ fill[o] = 0 /\ seen[o] = 0 /\ Promise[o] = 0 BY <2>1, FreshIsIdle
  <2>3. \A p \in Orders : p # o => st'[p] = st[p] /\ qty'[p] = qty[p] /\ at'[p] = at[p] BY <1>9 DEF TypeOK
  <2>4. /\ qty'[o] = q
        /\ \/ st'[o] = "WORKING" /\ at'[o] = "sent"
           \/ st'[o] = "ERROR" /\ at'[o] = "none"
    BY <1>9, <2>2 DEF TypeOK
  <2>5. OrderInv' BY <1>2, <1>3, <1>9, <2>2, <2>3, <2>4 DEF OrderInv
  <2>6. \A p \in Orders : p # o => (Fresh(p)' <=> Fresh(p)) /\ (Ended(p)' <=> Ended(p))
    BY <2>3 DEF Fresh, Ended
  <2>7. FreshInv'
    <3>1. ASSUME NEW p \in Basket, Attempt(p) > attempt PROVE Fresh(p)'
      <4>1. p # o BY <1>1, <3>1 DEF TypeOK
      <4> QED BY <2>6, <3>1, <4>1, OrderFacts DEF FreshInv
    <3>2. ASSUME NEW l \in Legs, l >= cur + 1 PROVE Fresh(<<l, attempt>>)'
      <4>1. <<l, attempt>> # o /\ <<l, attempt>> \in Orders /\ l >= cur BY <1>1, <1>5, <3>2, LoopOrders
      <4>2. Fresh(<<l, attempt>>) BY <1>3, <4>1 DEF FreshInv
      <4> QED BY <1>3, <2>3, <4>1, <4>2 DEF Fresh
    <3>3. ASSUME NEW l \in Legs PROVE Fresh(<<l, Unwind>>)'
      <4>1. <<l, Unwind>> # o /\ <<l, Unwind>> \in Orders BY <1>1, OrderFacts
      <4> QED BY <1>3, <2>6, <4>1 DEF FreshInv
    <3> QED BY <1>3, <3>1, <3>2, <3>3 DEF FreshInv
  <2>8. EndedInv'
    <3>1. ASSUME NEW p \in Basket, Leg(p) >= cur + 1 PROVE Ended(p)'
      <4>1. Leg(p) \in Legs /\ p \in Orders BY OrderFacts
      <4>2. Leg(p) >= cur /\ Leg(p) # cur BY <1>5, <3>1, <4>1
      <4>3. p # o BY <1>1, <4>2
      <4> QED BY <1>3, <2>6, <4>1, <4>2, <4>3 DEF EndedInv
    <3> QED BY <1>3, <3>1 DEF EndedInv
  <2>9. TodoInv' BY <1>3, <2>3, <2>4, OrderFacts DEF TodoInv, Fresh, TypeOK
  <2>10. PromiseInv'
    <3>1. o \in OrdersOf(cur) /\ IsFiniteSet(OrdersOf(cur)) /\ OrdersOf(cur) \subseteq Basket BY <1>1, OrderFacts
    <3>2. \A p \in Orders : p # o => Promise'[p] = Promise[p] BY <1>3, <2>3 DEF Promise
    <3>3. \A p \in OrdersOf(cur) : Promise[p] = seen[p]
      <4>1. SUFFICES ASSUME NEW p \in OrdersOf(cur) PROVE Promise[p] = seen[p] OBVIOUS
      <4>2. p \in Basket /\ p \in Orders /\ Leg(p) = cur BY <1>1, OrderFacts
      <4>3. Leg(p) >= cur BY <4>2 DEF TypeOK
      <4>4. Ended(p) BY <1>3, <4>2, <4>3 DEF EndedInv
      <4> QED BY <1>3, <4>2, <4>4, EndedIsQuiet
    <3>4. Promised(cur) = FilledQtyForLeg(cur) BY <3>1, <3>3, SumCong DEF Promised, FilledQtyForLeg
    <3>5. Promise'[o] \in {0, q} BY <1>3, <2>2, <2>4 DEF Promise
    <3>6. FilledQtyForLeg(cur) \in Nat /\ Quantity[cur] \in Nat BY <1>1, SumsTyped, BasketAssumption
    <3>7. Promised(cur) + (Promise'[o] - Promise[o]) <= Quantity[cur]
      BY <1>2, <1>9, <2>2, <3>4, <3>5, <3>6
    <3> QED BY <1>1, <3>1, <3>2, <3>7, PromiseRises
  <2>11. UnwindInv'
    <3>1. \A l \in Legs : FilledQtyForLeg(l)' = FilledQtyForLeg(l) BY <1>3 DEF FilledQtyForLeg
    <3>2. \A l \in Legs : qty'[<<l, Unwind>>] = qty[<<l, Unwind>>] BY <1>1, <2>3, OrderFacts
    <3> QED BY <3>1, <3>2 DEF UnwindInv
  <2> QED BY <1>6, <1>7, <2>5, <2>7, <2>8, <2>9, <2>10, <2>11
<1> QED BY <1>4, <1>8, <1>9

LEMMA CompensateStep ==
  ASSUME Inv, TypeOK', LoopsBounded', CompensateLeg
  PROVE  Inv'
<1> USE DEF Inv
<1>1. PICK o \in Orders : o = <<cur, Unwind>> /\ o \notin Basket /\ cur \in Legs
  <2>1. cur \in Legs BY DEF CompensateLeg
  <2> QED BY <2>1, OrderFacts
<1>2. PICK q \in Nat : q = FilledQtyForLeg(cur) BY <1>1, SumsTyped
<1>3. /\ UNCHANGED <<seen, fill, starved, attempt, todo, row>> /\ pc = "comp"
      /\ \/ q = 0 /\ cur' = cur + 1 /\ pc' = "comp" /\ UNCHANGED <<qty, st, at>>
         \/ /\ q # 0 /\ cur' = cur /\ pc' = "compd" /\ qty' = [qty EXCEPT ![o] = q]
            /\ \/ st' = [st EXCEPT ![o] = "WORKING"] /\ at' = [at EXCEPT ![o] = "sent"]
               \/ st' = [st EXCEPT ![o] = "ERROR"] /\ at' = at
  BY <1>1, <1>2 DEF CompensateLeg, Submit
<1>4. \A l \in Legs : /\ l >= cur + 1 => l >= cur /\ l # cur
                      /\ l > cur => l >= cur /\ l # cur
                      /\ l < cur + 1 <=> l < cur \/ l = cur
                      /\ l <= cur <=> l < cur \/ l = cur
  BY <1>1 DEF Legs
<1>5. PlaceInv' /\ StarvedInv' BY <1>3 DEF PlaceInv, StarvedInv
<1>6. VerdictInv' BY <1>3, NotFinal DEF VerdictInv
<1>7. Fresh(o)
  <2>1. cur >= cur BY DEF TypeOK
  <2> QED BY <1>1, <1>3, <2>1 DEF FreshInv
<1>8. \A l \in Legs : FilledQtyForLeg(l)' = FilledQtyForLeg(l) BY <1>3 DEF FilledQtyForLeg
<1>9. CASE q = 0 /\ cur' = cur + 1 /\ pc' = "comp" /\ UNCHANGED <<qty, st, at>>
  <2>1. \A p \in Orders : (Fresh(p)' <=> Fresh(p)) /\ (Ended(p)' <=> Ended(p)) BY <1>3, <1>9, Looking
  <2>2. FreshInv' BY <1>3, <1>4, <1>9, <2>1, LoopOrders DEF FreshInv
  <2>3. EndedInv' BY <1>3, <1>9, <2>1, OrderFacts DEF EndedInv
  <2>4. TodoInv' BY <1>3, <1>9 DEF TodoInv, Fresh
  <2>5. AccountedInv'
    <3>1. \A l \in Legs : Accounted(l)' <=> Accounted(l) BY <1>3, <1>9, Looking
    <3>2. Accounted(cur) BY <1>1, <1>2, <1>7, <1>9 DEF Accounted
    <3>3. ASSUME starved = {}, NEW l \in Legs, l < cur + 1 PROVE Accounted(l)'
      <4>1. l < cur \/ l = cur BY <1>4, <3>3
      <4>2. Accounted(l) BY <1>3, <3>2, <3>3, <4>1 DEF AccountedInv
      <4> QED BY <3>1, <4>2
    <3> QED BY <1>3, <1>9, <3>3 DEF AccountedInv
  <2> QED BY <1>3, <1>5, <1>6, <1>9, <2>2, <2>3, <2>4, <2>5, Looking
<1>10. CASE /\ q # 0 /\ cur' = cur /\ pc' = "compd" /\ qty' = [qty EXCEPT ![o] = q]
            /\ \/ st' = [st EXCEPT ![o] = "WORKING"] /\ at' = [at EXCEPT ![o] = "sent"]
               \/ st' = [st EXCEPT ![o] = "ERROR"] /\ at' = at
  <2>2. at[o] = "none" /\ fill[o] = 0 /\ seen[o] = 0 BY <1>7, FreshIsIdle
  <2>3. \A p \in Orders : p # o => st'[p] = st[p] /\ qty'[p] = qty[p] /\ at'[p] = at[p] BY <1>10 DEF TypeOK
  <2>4. /\ qty'[o] = q
        /\ \/ st'[o] = "WORKING" /\ at'[o] = "sent"
           \/ st'[o] = "ERROR" /\ at'[o] = "none"
    BY <1>10, <2>2 DEF TypeOK
  <2>5. OrderInv' BY <1>2, <1>3, <1>10, <2>2, <2>3, <2>4 DEF OrderInv
  <2>6. \A p \in Orders : p # o => (Fresh(p)' <=> Fresh(p)) /\ (Ended(p)' <=> Ended(p))
    BY <2>3 DEF Fresh, Ended
  <2>7. FreshInv'
    <3>1. ASSUME NEW p \in Basket, Attempt(p) > attempt PROVE Fresh(p)'
      BY <1>1, <2>6, <3>1, OrderFacts DEF FreshInv
    <3>2. ASSUME NEW l \in Legs, l > cur PROVE Fresh(<<l, Unwind>>)'
      <4>1. <<l, Unwind>> # o /\ <<l, Unwind>> \in Orders /\ l >= cur BY <1>1, <1>4, <3>2, LoopOrders
      <4> QED BY <1>3, <2>6, <4>1 DEF FreshInv
    <3> QED BY <1>3, <1>10, <3>1, <3>2 DEF FreshInv
  <2>8. EndedInv'
    <3>1. \A p \in Basket : Ended(p)' BY <1>1, <1>3, <2>6, OrderFacts DEF EndedInv
    <3> QED BY <1>10, <3>1 DEF EndedInv
  <2>9. TodoInv' BY <1>3, <2>3, <2>4, OrderFacts DEF TodoInv, Fresh, TypeOK
  <2>10. PromiseInv'
    <3>1. \A p \in Basket : Promise'[p] = Promise[p] BY <1>1, <1>3, <2>3, OrderFacts DEF Promise
    <3>2. \A p \in Basket : Promise[p] \in Nat BY OrderFacts DEF Promise, TypeOK
    <3>3. \A p \in Basket : Promise'[p] <= Promise[p] BY <3>1, <3>2
    <3> QED BY <3>3, PromiseFalls
  <2>11. UnwindInv'
    <3>1. SUFFICES ASSUME NEW l \in Legs PROVE qty'[<<l, Unwind>>] <= FilledQtyForLeg(l) BY <1>8 DEF UnwindInv
    <3>2. CASE l = cur BY <1>1, <1>2, <2>4, <3>2
    <3>3. CASE l # cur
      <4>1. qty'[<<l, Unwind>>] = qty[<<l, Unwind>>] BY <1>1, <2>3, <3>3, OrderFacts
      <4> QED BY <4>1 DEF UnwindInv
    <3> QED BY <3>2, <3>3
  <2>12. AccountedInv'
    <3>1. ASSUME starved = {}, NEW l \in Legs, l <= cur PROVE Accounted(l)'
      <4>1. CASE l = cur
        <5>1. ~Fresh(<<l, Unwind>>)' BY <1>1, <2>4, <4>1 DEF Fresh
        <5>2. qty'[<<l, Unwind>>] = FilledQtyForLeg(l)' BY <1>1, <1>2, <1>8, <2>4, <4>1
        <5> QED BY <5>1, <5>2 DEF Accounted
      <4>2. CASE l < cur
        <5>1. Accounted(l) BY <1>3, <3>1, <4>2 DEF AccountedInv
        <5>2. l # cur BY <1>1, <4>2 DEF Legs
        <5>3. <<l, Unwind>> # o /\ <<l, Unwind>> \in Orders BY <1>1, <5>2, OrderFacts
        <5>4. /\ qty'[<<l, Unwind>>] = qty[<<l, Unwind>>] /\ st'[<<l, Unwind>>] = st[<<l, Unwind>>]
          BY <2>3, <5>3
        <5> QED BY <1>8, <5>1, <5>4 DEF Accounted, Fresh
      <4> QED BY <1>4, <3>1, <4>1, <4>2
    <3> QED BY <1>3, <1>10, <3>1 DEF AccountedInv
  <2> QED BY <1>5, <1>6, <2>5, <2>7, <2>8, <2>9, <2>10, <2>11, <2>12
<1> QED BY <1>3, <1>9, <1>10

LEMMA StarveStep ==
  ASSUME Inv, TypeOK', LoopsBounded', NEW o \in Orders, CancelStarves(o)
  PROVE  Inv'
<1> USE DEF Inv
<1>1. /\ UNCHANGED <<qty, seen, at, fill, cur, attempt>> /\ pc \in {"rcancel", "ucancel"} /\ o \in todo
      /\ st' = [st EXCEPT ![o] = "ERROR"] /\ starved' = starved \cup {o} /\ todo' = {}
      /\ pc' \in {"final", "done"} /\ row' \in {row, "CRITICAL"}
  BY DEF CancelStarves, CancelFailed, FailCritical, brokerVars
<1>2. o \in Basket /\ ~Fresh(o) BY <1>1 DEF TypeOK, TodoInv
<1>3. \A p \in Orders : p # o => st'[p] = st[p] BY <1>1 DEF TypeOK
<1>4. st'[o] = "ERROR" BY <1>1 DEF TypeOK
<1>5. OrderInv' BY <1>1, <1>2, <1>3, <1>4 DEF OrderInv, Fresh
<1>6. \A p \in Orders : Fresh(p)' <=> Fresh(p) BY <1>2, <1>3, <1>4 DEF Fresh
<1>7. FreshInv' BY <1>1, <1>6, LoopOrders DEF FreshInv
<1>8. TodoInv' /\ PlaceInv' /\ EndedInv' /\ StarvedInv' /\ AccountedInv'
  BY <1>1 DEF TodoInv, PlaceInv, EndedInv, StarvedInv, AccountedInv
<1>9. PromiseInv'
  <2>1. \A l \in Legs : Promised(l)' = Promised(l) BY <1>1 DEF Promised, Promise
  <2> QED BY <2>1 DEF PromiseInv
<1>10. UnwindInv'
  <2>1. \A l \in Legs : FilledQtyForLeg(l)' = FilledQtyForLeg(l) BY <1>1 DEF FilledQtyForLeg
  <2> QED BY <1>1, <2>1 DEF UnwindInv
<1>11. VerdictInv' BY <1>1, NotFinal DEF VerdictInv
<1> QED BY <1>5, <1>7, <1>8, <1>9, <1>10, <1>11

----------------------------------------------------------------------------
(* The theorems.                                                           *)

LEMMA InvInit == Init => Inv
<1> SUFFICES ASSUME Init PROVE Inv OBVIOUS
<1>1. TypeOK /\ LoopsBounded BY TypeInit
<1>2. /\ \A o \in Orders : /\ qty[o] = 0 /\ st[o] = "none" /\ seen[o] = 0
                           /\ at[o] = "none" /\ fill[o] = 0
      /\ pc = "submit" /\ row = "EXECUTING" /\ starved = {} /\ todo = {}
  BY DEF Init
<1>3. OrderInv BY <1>2 DEF OrderInv
<1>4. FreshInv BY <1>1, <1>2, LoopOrders DEF FreshInv, Fresh
<1>5. TodoInv /\ PlaceInv /\ EndedInv /\ StarvedInv /\ AccountedInv /\ VerdictInv
  BY <1>2 DEF TodoInv, PlaceInv, EndedInv, StarvedInv, AccountedInv, VerdictInv
<1>6. ASSUME NEW l \in Legs PROVE Promised(l) = 0 /\ FilledQtyForLeg(l) = 0
  <2>1. IsFiniteSet(OrdersOf(l)) /\ OrdersOf(l) \subseteq Orders BY OrderFacts
  <2>2. \A o \in OrdersOf(l) : Promise[o] = 0 /\ seen[o] = 0 BY <1>2, <2>1 DEF Promise
  <2> QED BY <2>1, <2>2, SumZero DEF Promised, FilledQtyForLeg
<1>7. PromiseInv
  <2>1. \A l \in Legs : Quantity[l] \in Nat BY BasketAssumption
  <2> QED BY <1>6, <2>1 DEF PromiseInv
<1>8. UnwindInv BY <1>2, <1>6, OrderFacts DEF UnwindInv
<1> QED BY <1>1, <1>3, <1>4, <1>5, <1>7, <1>8 DEF Inv

LEMMA InvStep == Inv /\ [Next]_vars => Inv'
<1> SUFFICES ASSUME Inv, [Next]_vars PROVE Inv' OBVIOUS
<1>1. TypeOK' /\ LoopsBounded' BY TypeStep DEF Inv
<1>2. CASE Broker \/ Connection
  <2>1. Environment /\ OrderInv' BY <1>1, <1>2, EnvironmentStep DEF Inv
  <2> QED BY <1>1, <2>1, EnvironmentKeeps
<1>3. CASE Coordinator
  BY <1>1, <1>3, LookingSteps, SettleStep, CompensationStep, ReserveStep, PlaceStep, RetryStep,
     CompensateStep, StarveStep
  DEF Coordinator
<1>4. CASE UNCHANGED vars
  <2>1. UNCHANGED <<qty, st, seen, at, fill, starved, pc, cur, attempt, todo, row>>
    BY <1>4 DEF vars, adapterVars, brokerVars, loopVars
  <2>2. FreshInv' /\ TodoInv' /\ PlaceInv' /\ EndedInv' /\ StarvedInv'
    BY <2>1 DEF Inv, FreshInv, TodoInv, PlaceInv, EndedInv, StarvedInv, Fresh, Ended
  <2>3. AccountedInv'
    <3>1. \A l \in Legs : Accounted(l)' <=> Accounted(l) BY <2>1, Looking
    <3> QED BY <2>1, <3>1 DEF Inv, AccountedInv
  <2>4. VerdictInv'
    <3>1. /\ NothingAtBroker' <=> NothingAtBroker
          /\ BasketComplete' <=> BasketComplete
          /\ \A l \in Legs : FilledQtyForLeg(l)' = FilledQtyForLeg(l)
      BY <2>1, Looking
    <3> QED BY <2>1, <3>1 DEF Inv, VerdictInv, Fresh, Ended
  <2> QED BY <1>1, <2>1, <2>2, <2>3, <2>4, Looking DEF Inv
<1> QED BY <1>2, <1>3, <1>4 DEF Next

(* Retries never trade more than the quantity of a leg, although fills     *)
(* race the cancels they follow, and _compensate_filled never more than    *)
(* the leg traded: for any legs, quantities, retries and drops.            *)
THEOREM OverTradingExcluded == Spec => []NeverOverTraded
<1>1. Inv => NeverOverTraded
  <2>1. SUFFICES ASSUME Inv, NEW l \in Legs PROVE Traded(l) <= Quantity[l] /\ Unwound(l) <= Traded(l)
    BY DEF NeverOverTraded
  <2>2. FilledQtyForLeg(l) <= Traded(l) /\ Traded(l) <= Promised(l) BY <2>1, SumsOrdered DEF Inv
  <2>3. Promised(l) <= Quantity[l] /\ qty[<<l, Unwind>>] <= FilledQtyForLeg(l)
    BY <2>1 DEF Inv, PromiseInv, UnwindInv
  <2>4. FilledQtyForLeg(l) \in Nat /\ Traded(l) \in Nat /\ Promised(l) \in Nat BY <2>1, SumsTyped DEF Inv
  <2>5. PICK o \in Orders : o = <<l, Unwind>> BY OrderFacts
  <2>6. fill[o] <= qty[o] /\ fill[o] \in Nat /\ qty[o] \in Nat BY <2>1 DEF Inv, OrderInv, TypeOK
  <2>7. Quantity[l] \in Nat BY BasketAssumption
  <2> QED BY <2>2, <2>3, <2>4, <2>5, <2>6, <2>7 DEF Unwound
<1> QED BY <1>1, InvInit, InvStep, PTL DEF Spec

(* A basket that execute records OPEN or CLOSED holds every leg exactly    *)
(* and has no order left at the broker, whatever was parked or starved.    *)
THEOREM SettledExact == Spec => []SettledIsExact
<1>1. Inv => SettledIsExact
  <2>1. SUFFICES ASSUME Inv, row \in {"OPEN", "CLOSED"}
                 PROVE  NothingAtBroker /\ \A l \in Legs : Traded(l) = Quantity[l] /\ Unwound(l) = 0
    BY DEF SettledIsExact
  <2>2. BasketComplete /\ NothingAtBroker /\ \A l \in Legs : Fresh(<<l, Unwind>>)
    BY <2>1 DEF Inv, VerdictInv
  <2>3. ASSUME NEW l \in Legs PROVE Traded(l) = Quantity[l] /\ Unwound(l) = 0
    <3>1. FilledQtyForLeg(l) <= Traded(l) /\ Traded(l) <= Promised(l) BY <2>1, SumsOrdered DEF Inv
    <3>2. Promised(l) <= Quantity[l] /\ FilledQtyForLeg(l) >= Quantity[l]
      BY <2>1, <2>2 DEF Inv, PromiseInv, BasketComplete
    <3>3. FilledQtyForLeg(l) \in Nat /\ Traded(l) \in Nat /\ Promised(l) \in Nat
      BY <2>1, SumsTyped DEF Inv
    <3>4. Quantity[l] \in Nat BY BasketAssumption
    <3>5. fill[<<l, Unwind>>] = 0
      <4>1. PICK o \in Orders : o = <<l, Unwind>> BY OrderFacts
      <4>2. Fresh(o) BY <2>2, <4>1
      <4> QED BY <2>1, <4>1, <4>2, FreshIsIdle DEF Inv
    <3> QED BY <3>1, <3>2, <3>3, <3>4, <3>5 DEF Unwound
  <2> QED BY <2>2, <2>3
<1> QED BY <1>1, InvInit, InvStep, PTL DEF Spec

(* A basket that execute records COMPENSATED is flat at the broker and     *)
(* stays so, when no cancel starved in the rate limiter.                   *)
THEOREM CompensatedFlat == Spec => []CompensatedUnlessStarved
<1>1. Inv => CompensatedUnlessStarved
  <2>1. SUFFICES ASSUME Inv, row = "COMPENSATED", starved = {} PROVE Flat
    BY DEF CompensatedUnlessStarved
  <2>2. /\ NothingAtBroker /\ \A o \in Basket : Ended(o)
        /\ \A l \in Legs : FilledQtyForLeg(l) = fill[<<l, Unwind>>]
    BY <2>1 DEF Inv, VerdictInv
  <2>3. ASSUME NEW l \in Legs PROVE Traded(l) = Unwound(l)
    <3>1. IsFiniteSet(OrdersOf(l)) /\ OrdersOf(l) \subseteq Basket /\ Basket \subseteq Orders BY OrderFacts
    <3>2. \A o \in OrdersOf(l) : fill[o] = seen[o] BY <2>1, <2>2, <3>1, EndedIsQuiet DEF Inv
    <3>3. Traded(l) = FilledQtyForLeg(l) BY <3>1, <3>2, SumCong DEF Traded, FilledQtyForLeg
    <3> QED BY <2>2, <3>3 DEF Unwound
  <2> QED BY <2>2, <2>3 DEF Flat
<1> QED BY <1>1, InvInit, InvStep, PTL DEF Spec

----------------------------------------------------------------------------
(* The manual desk: sums of executions, and sequences of callbacks.        *)

(* The lots of an execution, plain and with the sign of its order.         *)
Gross     == [x \in Execution |-> x[3] - x[2]]
Signed(l) == [x \in Execution |-> Sign(l[x[1]]) * (x[3] - x[2])]

(* The lots of a set of executions that are an order's.                    *)
LotsOf(S, k) == SumFunctionOnSet(Gross, {x \in S : x[1] = k})

(* What a set of executions leaves held, the orders having quantities l.   *)
Held(S, l) == SumFunctionOnSet(Signed(l), S)

LEMMA SignIs == \A n \in Int : (n < 0 => Sign(n) = -1 /\ Abs(n) = -n) /\ (n >= 0 => Sign(n) = 1 /\ Abs(n) = n)
BY DEF Sign, Abs

LEMMA LotsIsSum ==
  ASSUME NEW S \in SUBSET Execution
  PROVE  Lots(S) = SumFunctionOnSet(Gross, S)
<1>1. PICK v : v = [x \in Execution |-> x[3] - x[2]] OBVIOUS
<1>2. MapThenSumSet(LAMBDA x : x[3] - x[2], S) = SumFunctionOnSet(v, S)
  BY <1>1 DEF MapThenSumSet, SumFunctionOnSet, FoldFunctionOnSet, MapThenFoldSet
<1> QED BY <1>1, <1>2 DEF Lots, Gross

LEMMA HeldIsSum ==
  ASSUME NEW S \in SUBSET Execution, NEW l
  PROVE  MapThenSumSet(LAMBDA x : Sign(l[x[1]]) * (x[3] - x[2]), S) = Held(S, l)
<1>1. PICK v : v = [x \in Execution |-> Sign(l[x[1]]) * (x[3] - x[2])] OBVIOUS
<1>2. MapThenSumSet(LAMBDA x : Sign(l[x[1]]) * (x[3] - x[2]), S) = SumFunctionOnSet(v, S)
  BY <1>1 DEF MapThenSumSet, SumFunctionOnSet, FoldFunctionOnSet, MapThenFoldSet
<1> QED BY <1>1, <1>2 DEF Held, Signed

LEMMA ExecutionFacts ==
  ASSUME NEW x \in Execution
  PROVE  /\ x[1] \in Keys /\ x[2] \in Nat /\ x[3] \in Nat /\ x[2] < x[3] /\ x = <<x[1], x[2], x[3]>>
         /\ Gross[x] = x[3] - x[2] /\ Gross[x] \in Nat \ {0}
BY DEF Execution, Gross

LEMMA SignedFacts ==
  ASSUME NEW x \in Execution, NEW l \in [Keys -> Int]
  PROVE  Signed(l)[x] = Sign(l[x[1]]) * (x[3] - x[2]) /\ Signed(l)[x] \in Int
<1>1. l[x[1]] \in Int /\ x[3] - x[2] \in Int BY ExecutionFacts
<1>2. Sign(l[x[1]]) \in Int BY <1>1, SignIs
<1> QED BY <1>1, <1>2 DEF Signed

(* An order's lots are a natural number, none when nothing was executed.   *)
LEMMA LotsOfType ==
  ASSUME NEW S \in SUBSET Execution, IsFiniteSet(S), NEW k
  PROVE  LotsOf(S, k) \in Nat /\ ((\A x \in S : x[1] # k) => LotsOf(S, k) = 0)
<1>1. PICK T : T = {x \in S : x[1] = k} OBVIOUS
<1>2. IsFiniteSet(T) BY <1>1, FS_Subset
<1>3. \A x \in T : Gross[x] \in Nat BY <1>1, ExecutionFacts
<1>4. SumFunctionOnSet(Gross, T) \in Nat BY <1>2, <1>3, SumNat
<1>5. (\A x \in S : x[1] # k) => T = {} BY <1>1
<1> QED BY <1>1, <1>4, <1>5, SumEmpty DEF LotsOf

LEMMA SumAdd ==
  ASSUME NEW f, NEW S, IsFiniteSet(S), NEW e, e \notin S, \A x \in S \cup {e} : f[x] \in Int
  PROVE  SumFunctionOnSet(f, S \cup {e}) = SumFunctionOnSet(f, S) + f[e]
<1>1. PICK T : T = S \cup {e} OBVIOUS
<1>2. IsFiniteSet(T) BY <1>1, FS_AddElement
<1>3. T \ {e} = S /\ e \in T BY <1>1
<1>4. SumFunctionOnSet(f, T) = f[e] + SumFunctionOnSet(f, S) BY <1>1, <1>2, <1>3, SumRemove
<1>5. SumFunctionOnSet(f, S) \in Int BY SumType
<1> QED BY <1>1, <1>3, <1>4, <1>5

(* One more execution adds its lots to its order and to no other.          *)
LEMMA LotsOfAdd ==
  ASSUME NEW S \in SUBSET Execution, IsFiniteSet(S), NEW e \in Execution, e \notin S, NEW k
  PROVE  LotsOf(S \cup {e}, k) = LotsOf(S, k) + IF e[1] = k THEN e[3] - e[2] ELSE 0
<1>1. PICK T : T = {x \in S : x[1] = k} OBVIOUS
<1>2. IsFiniteSet(T) /\ e \notin T BY <1>1, FS_Subset
<1>3. \A x \in T \cup {e} : Gross[x] \in Int BY <1>1, ExecutionFacts
<1>4. LotsOf(S, k) \in Nat BY LotsOfType
<1>5. CASE e[1] = k
  <2>1. {x \in S \cup {e} : x[1] = k} = T \cup {e} BY <1>1, <1>5
  <2>2. SumFunctionOnSet(Gross, T \cup {e}) = SumFunctionOnSet(Gross, T) + Gross[e] BY <1>2, <1>3, SumAdd
  <2> QED BY <1>1, <1>5, <2>1, <2>2, ExecutionFacts DEF LotsOf
<1>6. CASE e[1] # k
  <2>1. {x \in S \cup {e} : x[1] = k} = T BY <1>1, <1>6
  <2> QED BY <1>1, <1>4, <1>6, <2>1 DEF LotsOf
<1> QED BY <1>5, <1>6

(* Fewer executions are no more lots.                                      *)
LEMMA LotsOfPart ==
  ASSUME NEW S \in SUBSET Execution, IsFiniteSet(S), NEW R \in SUBSET S, NEW k
  PROVE  LotsOf(R, k) <= LotsOf(S, k)
<1>1. PICK T, U, h : /\ T = {x \in S : x[1] = k} /\ U = {x \in R : x[1] = k}
                     /\ h = [x \in T |-> IF x \in U THEN Gross[x] ELSE 0] OBVIOUS
<1>2. IsFiniteSet(T) /\ U \in SUBSET T BY <1>1, FS_Subset
<1>3. \A x \in T : Gross[x] \in Nat BY <1>1, ExecutionFacts
<1>4. \A x \in T : Gross[x] \in Int /\ h[x] = IF x \in U THEN Gross[x] ELSE 0 BY <1>1, <1>3
<1>5. SumFunctionOnSet(Gross, U) = SumFunctionOnSet(h, T) BY <1>2, <1>4, SumPart
<1>6. \A x \in T : h[x] \in Int /\ Gross[x] \in Int /\ h[x] <= Gross[x] BY <1>3, <1>4
<1>7. SumFunctionOnSet(h, T) <= SumFunctionOnSet(Gross, T) BY <1>2, <1>6, SumMonotone
<1> QED BY <1>1, <1>5, <1>7 DEF LotsOf

LEMMA HeldType ==
  ASSUME NEW S \in SUBSET Execution, IsFiniteSet(S), NEW l \in [Keys -> Int]
  PROVE  Held(S, l) \in Int
<1>1. \A x \in S : Signed(l)[x] \in Int BY SignedFacts
<1> QED BY <1>1, SumType DEF Held

LEMMA HeldAdd ==
  ASSUME NEW S \in SUBSET Execution, IsFiniteSet(S), NEW l \in [Keys -> Int], NEW e \in Execution, e \notin S
  PROVE  Held(S \cup {e}, l) = Held(S, l) + Sign(l[e[1]]) * (e[3] - e[2])
<1>1. PICK f : f = Signed(l) OBVIOUS
<1>2. \A x \in S \cup {e} : f[x] \in Int BY <1>1, SignedFacts
<1>3. SumFunctionOnSet(f, S \cup {e}) = SumFunctionOnSet(f, S) + f[e] BY <1>2, SumAdd
<1> QED BY <1>1, <1>3, SignedFacts DEF Held

(* The quantity of an order that was not executed does not count.          *)
LEMMA HeldSame ==
  ASSUME NEW S \in SUBSET Execution, IsFiniteSet(S), NEW l, NEW m, \A x \in S : l[x[1]] = m[x[1]]
  PROVE  Held(S, l) = Held(S, m)
<1>1. PICK f, h : f = Signed(l) /\ h = Signed(m) OBVIOUS
<1>2. \A x \in S : f[x] = h[x] BY <1>1 DEF Signed
<1> QED BY <1>1, <1>2, SumCong DEF Held

LEMMA RangeOfConcat ==
  ASSUME NEW M, NEW w \in Seq(M), NEW v \in Seq(M)
  PROVE  w \o v \in Seq(M) /\ Range(w \o v) = Range(w) \cup Range(v)
<1>1. w \o v \in Seq(M) OBVIOUS
<1>2. PICK m, n \in Nat : m = Len(w) /\ n = Len(v) OBVIOUS
<1>3. Len(w \o v) = m + n /\ DOMAIN (w \o v) = 1 .. (m + n) /\ DOMAIN w = 1 .. m /\ DOMAIN v = 1 .. n BY <1>2
<1>4. \A i \in 1 .. m : (w \o v)[i] = w[i] BY <1>2
<1>5. \A i \in 1 .. n : (w \o v)[m + i] = v[i] BY <1>2
<1>6. ASSUME NEW i \in 1 .. (m + n) PROVE (w \o v)[i] \in Range(w) \cup Range(v)
  <2>1. CASE i <= m
    <3>1. i \in 1 .. m BY <2>1
    <3> QED BY <1>3, <1>4, <3>1 DEF Range
  <2>2. CASE ~(i <= m)
    <3>1. PICK j \in 1 .. n : i = m + j
      <4>1. i - m \in 1 .. n /\ i = m + (i - m) BY <2>2
      <4> QED BY <4>1
    <3> QED BY <1>3, <1>5, <3>1 DEF Range
  <2> QED BY <2>1, <2>2
<1>7. ASSUME NEW i \in 1 .. m PROVE w[i] \in Range(w \o v)
  <2>1. i \in 1 .. (m + n) OBVIOUS
  <2> QED BY <1>3, <1>4, <2>1 DEF Range
<1>8. ASSUME NEW i \in 1 .. n PROVE v[i] \in Range(w \o v)
  <2>1. m + i \in 1 .. (m + n) OBVIOUS
  <2> QED BY <1>3, <1>5, <2>1 DEF Range
<1>9. Range(w \o v) \subseteq Range(w) \cup Range(v) BY <1>3, <1>6 DEF Range
<1>10. Range(w) \subseteq Range(w \o v) BY <1>3, <1>7 DEF Range
<1>11. Range(v) \subseteq Range(w \o v) BY <1>3, <1>8 DEF Range
<1> QED BY <1>1, <1>9, <1>10, <1>11

LEMMA RangeOfOne ==
  ASSUME NEW M, NEW m \in M
  PROVE  <<m>> \in Seq(M) /\ Range(<<m>>) = {m}
BY DEF Range

LEMMA RangeOfNone ==
  ASSUME NEW M
  PROVE  <<>> \in Seq(M) /\ Range(<<>>) = {}
BY DEF Range

LEMMA RangeOfTail ==
  ASSUME NEW M, NEW w \in Seq(M), w # <<>>
  PROVE  Head(w) \in M /\ Tail(w) \in Seq(M) /\ Range(w) = {Head(w)} \cup Range(Tail(w))
<1>1. PICK n \in Nat : n = Len(w) /\ n # 0 OBVIOUS
<1>2. Head(w) \in M /\ Tail(w) \in Seq(M) /\ Head(w) = w[1] OBVIOUS
<1>3. DOMAIN w = 1 .. n /\ DOMAIN Tail(w) = 1 .. (n - 1) BY <1>1
<1>4. \A i \in 1 .. (n - 1) : Tail(w)[i] = w[i + 1] BY <1>1
<1>5. ASSUME NEW i \in 1 .. n PROVE w[i] \in {Head(w)} \cup Range(Tail(w))
  <2>1. CASE i = 1 BY <1>2, <2>1
  <2>2. CASE i # 1
    <3>1. PICK j \in 1 .. (n - 1) : i = j + 1
      <4>1. i - 1 \in 1 .. (n - 1) /\ i = (i - 1) + 1 BY <2>2
      <4> QED BY <4>1
    <3> QED BY <1>3, <1>4, <3>1 DEF Range
  <2> QED BY <2>1, <2>2
<1>6. ASSUME NEW i \in 1 .. (n - 1) PROVE Tail(w)[i] \in Range(w)
  <2>1. i + 1 \in 1 .. n OBVIOUS
  <2> QED BY <1>3, <1>4, <2>1 DEF Range
<1>7. Head(w) \in Range(w)
  <2>1. 1 \in 1 .. n BY <1>1
  <2> QED BY <1>2, <1>3, <2>1 DEF Range
<1>8. Range(w) \subseteq {Head(w)} \cup Range(Tail(w)) BY <1>3, <1>5 DEF Range
<1>9. Range(Tail(w)) \subseteq Range(w) BY <1>3, <1>6 DEF Range
<1> QED BY <1>2, <1>7, <1>8, <1>9

(* The listing of a finite set lists all of it.                            *)
LEMMA RangeOfListing ==
  ASSUME NEW S, IsFiniteSet(S)
  PROVE  SetToSeq(S) \in Seq(S) /\ Range(SetToSeq(S)) = S
<1>1. PICK n \in Nat : n = Cardinality(S) /\ ExistsBijection(1 .. n, S) BY FS_CardinalityType
<1>2. \E f \in [1 .. n -> S] : IsInjective(f) BY <1>1 DEF ExistsBijection, Bijection, Injection
<1>3. PICK q : q = SetToSeq(S) OBVIOUS
<1>4. q \in [1 .. n -> S] /\ IsInjective(q) BY <1>1, <1>2, <1>3 DEF SetToSeq
<1>5. q \in Injection(1 .. n, S) BY <1>4 DEF Injection
<1>6. IsFiniteSet(1 .. n) /\ Cardinality(1 .. n) = n BY FS_Interval
<1>7. q \in Surjection(1 .. n, S) BY <1>1, <1>5, <1>6, FS_Injection
<1>8. q \in Seq(S) BY <1>4
<1>9. DOMAIN q = 1 .. n /\ \A y \in S : \E i \in 1 .. n : q[i] = y BY <1>4, <1>7 DEF Surjection
<1>10. Range(q) = S BY <1>4, <1>9 DEF Range
<1> QED BY <1>3, <1>8, <1>10

----------------------------------------------------------------------------
(* The manual desk: its invariant.                                         *)

AtDesk  == {"idle", "checked", "token", "place", "mark", "fail"}
Unsent  == {"token", "place"}
Sending == {"token", "place", "mark", "fail"}

(* One sender at most carries an order that is not sent, and its row is on *)
(* record.                                                                 *)
OrdersInv ==
  /\ key[Worker] = "flat"
  /\ \A r \in Requests : doing[r] \in AtDesk /\ (doing[r] # "idle" => key[r] \in Tickets)
  /\ \A s \in Senders : doing[s] \in Sending => status[key[s]] # "none"
  /\ \A s \in Senders : doing[s] \in Unsent => placed[key[s]] = 0
  /\ \A s, t \in Senders : doing[s] \in Unsent /\ doing[t] \in Unsent /\ key[s] = key[t] => s = t
  /\ \A k \in Keys : placed[k] <= 1 /\ (placed[k] = 1 => status[k] # "none")

(* The broker executes orders that are on record, in lots that follow one  *)
(* another, and never more than was ordered.                               *)
BrokerInv ==
  /\ \A k \in Keys : status[k] = "none" <=> lots[k] = 0
  /\ \A k \in Keys : book[k] # "none" => status[k] # "none"
  /\ \A x \in tape : book[x[1]] # "none" /\ x[3] <= LotsOf(tape, x[1])
  /\ \A k \in Keys : LotsOf(tape, k) <= Abs(lots[k])

ExecOf(m) == <<m[1], m[3], m[4]>>

(* Callbacks reach a process that is up, are about orders on record, and   *)
(* report what was executed.                                               *)
WireInv ==
  /\ phase # "up" => wire = <<>> /\ busy = {}
  /\ \A m \in Range(wire) : status[m[1]] # "none" /\ (m[2] = "exec" => ExecOf(m) \in tape)
  /\ \A h \in busy : status[h.msg[1]] # "none" /\ (h.msg[2] = "exec" => ExecOf(h.msg) \in tape)

OnItsWay(x) ==
  \/ \E m \in Range(wire) : m[2] = "exec" /\ ExecOf(m) = x
  \/ \E h \in busy : h.msg[2] = "exec" /\ ExecOf(h.msg) = x

(* Until there is a square-off, and until an execution is refused, the     *)
(* position is the sum of the executions on record.                        *)
LedgerInv ==
  /\ op = "none" =>
       /\ status["flat"] = "none" /\ doing[Worker] = "idle" /\ ~verdict
       /\ pos.state \in {"none", "OPEN", "CLOSED"} /\ (pos.state = "OPEN" <=> pos.qty # 0)
  /\ ~off \/ op = "none" => pos.qty = Held(execs, lots)

(* An execution that is not on record and was not refused is on its way.   *)
DeliveryInv == phase = "up" /\ ~off => \A x \in tape : x \in execs \/ OnItsWay(x)

(* An order whose executions on record make it whole reads FILLED.         *)
StatusInv ==
  \A k \in Keys : status[k] # "none" /\ LotsOf(execs, k) >= Abs(lots[k]) => status[k] = "FILLED" \/ k \in over

(* A square-off that was not misled knows all of the trade but its own     *)
(* close order, which has the size of the snapshot; the position is what   *)
(* the executions of that order on record leave, or there is nothing left. *)
FlatInv ==
  op # "none" /\ ~misled =>
    /\ snap # 0
    /\ Held(tape, lots) = snap + Sign(lots["flat"]) * LotsOf(tape, "flat")
    /\ \A x \in tape : x[1] # "flat" => x \in execs
    /\ status["flat"] # "none" => lots["flat"] = -snap
    /\ Held(tape, lots) = 0 \/ pos.qty = Sign(snap) * (Abs(snap) - LotsOf(execs, "flat"))
    /\ verdict \/ op = "COMPLETE" => Held(tape, lots) = 0

DeskInv ==
  DeskTypeOK /\ OrdersInv /\ BrokerInv /\ WireInv /\ LedgerInv /\ DeliveryInv /\ StatusInv /\ FlatInv

LEMMA KeyFacts == "flat" \in Keys /\ "flat" \notin Tickets /\ Tickets \subseteq Keys /\ Worker \in Senders
                  /\ Requests \subseteq Senders /\ Worker \notin Requests
BY ConstantsAssumption DEF Keys, Senders

LEMMA SumsAreLots ==
  ASSUME DeskTypeOK
  PROVE  /\ \A k : Filled(k) = LotsOf(tape, k) /\ LotsOf(tape, k) \in Nat
         /\ \A k : Lots(Of(k)) = LotsOf(execs, k) /\ LotsOf(execs, k) \in Nat /\ LotsOf(execs, k) <= LotsOf(tape, k)
         /\ Net = Held(tape, lots) /\ Held(tape, lots) \in Int /\ Held(execs, lots) \in Int
<1>1. tape \in SUBSET Execution /\ IsFiniteSet(tape) /\ execs \in SUBSET tape /\ lots \in [Keys -> Int] BY DEF DeskTypeOK
<1>2. execs \in SUBSET Execution /\ IsFiniteSet(execs) BY <1>1, FS_Subset
<1>3. ASSUME NEW k PROVE Filled(k) = LotsOf(tape, k) /\ LotsOf(tape, k) \in Nat
  <2>1. PICK S : S = {x \in tape : x[1] = k} OBVIOUS
  <2>2. Lots(S) = SumFunctionOnSet(Gross, S) BY <1>1, <2>1, LotsIsSum
  <2>3. LotsOf(tape, k) \in Nat BY <1>1, LotsOfType
  <2> QED BY <2>1, <2>2, <2>3 DEF Filled, LotsOf
<1>4. ASSUME NEW k
      PROVE  Lots(Of(k)) = LotsOf(execs, k) /\ LotsOf(execs, k) \in Nat /\ LotsOf(execs, k) <= LotsOf(tape, k)
  <2>1. PICK S : S = {x \in execs : x[1] = k} OBVIOUS
  <2>2. Lots(S) = SumFunctionOnSet(Gross, S) BY <1>2, <2>1, LotsIsSum
  <2>3. LotsOf(execs, k) \in Nat BY <1>2, LotsOfType
  <2>4. LotsOf(execs, k) <= LotsOf(tape, k) BY <1>1, LotsOfPart
  <2> QED BY <2>1, <2>2, <2>3, <2>4 DEF Of, LotsOf
<1>5. Net = Held(tape, lots) BY <1>1, HeldIsSum DEF Net
<1>6. Held(tape, lots) \in Int /\ Held(execs, lots) \in Int BY <1>1, <1>2, HeldType
<1> QED BY <1>3, <1>4, <1>5, <1>6

(* What leaves a part of the invariant alone.                              *)

SameOnRecord  == \A k \in Keys : status'[k] = "none" <=> status[k] = "none"
StillOnRecord == \A k \in Keys : status[k] # "none" => status'[k] # "none"

LEMMA BrokerKept ==
  ASSUME BrokerInv, UNCHANGED <<lots, book, tape>>, SameOnRecord
  PROVE  BrokerInv'
BY DEF BrokerInv, SameOnRecord

LEMMA OrdersKept ==
  ASSUME OrdersInv, UNCHANGED <<key, doing, placed>>, SameOnRecord, DeskTypeOK
  PROVE  OrdersInv'
<1>1. \A s \in Senders : key[s] \in Keys BY DEF DeskTypeOK
<1> QED BY <1>1 DEF OrdersInv, SameOnRecord

LEMMA RecordStays == SameOnRecord => StillOnRecord
BY DEF SameOnRecord, StillOnRecord

LEMMA MessageKeys ==
  ASSUME DeskTypeOK
  PROVE  (\A m \in Range(wire) : m \in Message /\ m[1] \in Keys) /\ \A h \in busy : h.msg \in Message /\ h.msg[1] \in Keys
<1>1. wire \in Seq(Message) /\ busy \subseteq [msg : Message, saw : Status, fresh : BOOLEAN] BY DEF DeskTypeOK
<1>2. \A m \in Message : m[1] \in Keys BY DEF Message
<1>3. \A m \in Range(wire) : m \in Message BY <1>1 DEF Range
<1> QED BY <1>1, <1>2, <1>3

LEMMA WireKept ==
  ASSUME WireInv, UNCHANGED <<phase, wire, busy, tape>>, StillOnRecord, DeskTypeOK
  PROVE  WireInv'
BY MessageKeys DEF WireInv, StillOnRecord

LEMMA LedgerKept ==
  ASSUME LedgerInv, UNCHANGED <<op, pos, off, lots, execs, verdict>>, SameOnRecord, doing'[Worker] = doing[Worker]
  PROVE  LedgerInv'
BY KeyFacts DEF LedgerInv, SameOnRecord

LEMMA DeliveryKept ==
  ASSUME DeliveryInv, UNCHANGED <<phase, off, tape, execs, wire, busy>>
  PROVE  DeliveryInv'
BY DEF DeliveryInv, OnItsWay

LEMMA StatusKept ==
  ASSUME StatusInv, UNCHANGED <<status, lots, execs, over>>
  PROVE  StatusInv'
BY DEF StatusInv

LEMMA FlatKept ==
  ASSUME FlatInv, UNCHANGED <<op, misled, snap, lots, tape, execs, pos, verdict>>, SameOnRecord
  PROVE  FlatInv'
BY KeyFacts DEF FlatInv, SameOnRecord

(* Init.                                                                   *)
LEMMA DeskStarts == DeskInit => DeskInv
<1> SUFFICES ASSUME DeskInit PROVE DeskInv OBVIOUS
<1>1. \A k : LotsOf({}, k) = 0
  <2> TAKE k
  <2>1. {x \in {} : x[1] = k} = {} OBVIOUS
  <2> QED BY <2>1, SumEmpty DEF LotsOf
<1>2. Held({}, lots) = 0 BY SumEmpty DEF Held
<1>3. IsFiniteSet({}) BY FS_EmptySet
<1>4. <<>> \in Seq(Message) /\ Range(<<>>) = {} BY RangeOfNone
<1>5. DeskTypeOK
  <2>1. pos \in [qty : Int, state : PosState] BY DEF DeskInit, PosState
  <2>2. status \in [Keys -> Status] /\ bid \in [Keys -> BOOLEAN] /\ lots \in [Keys -> Int]
    BY DEF DeskInit, Status
  <2>3. doing \in [Senders -> {"idle", "checked", "token", "place", "mark", "fail",
                             "start", "close", "recon", "final"}] /\ key \in [Senders -> Keys]
    BY KeyFacts DEF DeskInit
  <2>4. book \in [Keys -> {"none", "working", "done"}] /\ placed \in [Keys -> Nat] BY DEF DeskInit
  <2>5. crashes \in 0..MaxDisturbances /\ sweeps \in 0..MaxDisturbances BY ConstantsAssumption DEF DeskInit
  <2>6. op \in OpState /\ snap \in Int /\ bpos \in Int BY DEF DeskInit, OpState
  <2>7. IsFiniteSet(tape) /\ wire \in Seq(Message) BY <1>3, <1>4 DEF DeskInit
  <2> QED BY <2>1, <2>2, <2>3, <2>4, <2>5, <2>6, <2>7 DEF DeskInit, DeskTypeOK
<1>6. OrdersInv BY KeyFacts DEF DeskInit, OrdersInv, AtDesk, Unsent, Sending
<1>7. BrokerInv BY <1>1, SignIs DEF DeskInit, BrokerInv
<1>8. WireInv BY <1>4 DEF DeskInit, WireInv
<1>9. LedgerInv BY <1>2, KeyFacts DEF DeskInit, LedgerInv
<1>10. DeliveryInv /\ StatusInv /\ FlatInv BY DEF DeskInit, DeliveryInv, StatusInv, FlatInv
<1> QED BY <1>5, <1>6, <1>7, <1>8, <1>9, <1>10 DEF DeskInv

----------------------------------------------------------------------------
(* The operator's requests.                                                *)

LEMMA SubmitStep ==
  ASSUME DeskInv, NEW r \in Requests, NEW k \in Tickets, SubmitOrder(r, k)
  PROVE  DeskInv'
<1> USE DEF DeskInv
<1>1. /\ UNCHANGED <<status, bid, lots, execs, pos, op, snap, bpos, busy, mcache, verdict, phase, wire, book, tape,
                     placed, crashes, sweeps, over, off, misled>>
      /\ key' = [key EXCEPT ![r] = k] /\ doing' = [doing EXCEPT ![r] = "checked"] /\ doing[r] = "idle"
  BY DEF SubmitOrder, Goto, tables, broker, counts, notes
<1>2. r \in Senders /\ k \in Keys /\ r # Worker /\ Worker \in Senders BY KeyFacts
<1>3. DeskTypeOK' BY <1>1, <1>2 DEF DeskTypeOK
<1>4. SameOnRecord /\ doing'[Worker] = doing[Worker] BY <1>1, <1>2 DEF SameOnRecord, DeskTypeOK
<1>5. OrdersInv'
  <2>1. /\ \A s \in Senders : s # r => doing'[s] = doing[s] /\ key'[s] = key[s]
        /\ doing'[r] = "checked" /\ key'[r] = k
    BY <1>1, <1>2 DEF DeskTypeOK
  <2> QED BY <1>1, <1>2, <2>1, KeyFacts DEF OrdersInv, AtDesk, Unsent, Sending
<1>6. BrokerInv' /\ WireInv' BY <1>1, <1>4, BrokerKept, RecordStays, WireKept
<1>7. LedgerInv' /\ DeliveryInv' BY <1>1, <1>4, LedgerKept, DeliveryKept
<1>8. StatusInv' /\ FlatInv' BY <1>1, <1>4, StatusKept, FlatKept
<1> QED BY <1>3, <1>5, <1>6, <1>7, <1>8

(* A row that is written for the first time, with the quantity of its      *)
(* order: nothing of the order was executed yet.                           *)
LEMMA NothingExecuted ==
  ASSUME DeskInv, NEW k \in Keys, status[k] = "none"
  PROVE  /\ placed[k] = 0 /\ book[k] = "none" /\ (\A x \in tape : x[1] # k)
         /\ LotsOf(tape, k) = 0 /\ LotsOf(execs, k) = 0 /\ \A s \in Senders : doing[s] \in Sending => key[s] # k
<1> USE DEF DeskInv
<1>1. book[k] = "none" /\ placed[k] # 1 /\ placed[k] <= 1 /\ placed[k] \in Nat BY DEF BrokerInv, OrdersInv, DeskTypeOK
<1>2. \A x \in tape : x[1] # k BY <1>1 DEF BrokerInv
<1>3. tape \in SUBSET Execution /\ execs \in SUBSET Execution /\ IsFiniteSet(tape) /\ IsFiniteSet(execs)
  BY FS_Subset DEF DeskTypeOK
<1>4. \A x \in execs : x[1] # k BY <1>2 DEF DeskTypeOK
<1>5. LotsOf(tape, k) = 0 BY <1>2, <1>3, LotsOfType
<1>6. LotsOf(execs, k) = 0 BY <1>3, <1>4, LotsOfType
<1>7. \A s \in Senders : doing[s] \in Sending => key[s] # k BY DEF OrdersInv
<1> QED BY <1>1, <1>2, <1>5, <1>6, <1>7

LEMMA RowCreated ==
  ASSUME DeskInv, NEW s \in Senders, NEW k \in Keys, key[s] = k, NEW n \in Int \ {0}, status[k] = "none",
         status' = [status EXCEPT ![k] = "PENDING_SUBMIT"], lots' = [lots EXCEPT ![k] = n],
         doing' = [doing EXCEPT ![s] = "token"],
         UNCHANGED <<key, placed, book, tape, execs, over>>,
         s # Worker => k \in Tickets
  PROVE  /\ OrdersInv' /\ BrokerInv' /\ StatusInv'
         /\ Held(tape, lots') = Held(tape, lots) /\ Held(execs, lots') = Held(execs, lots)
<1> USE DEF DeskInv
<1>1. /\ placed[k] = 0 /\ book[k] = "none" /\ (\A x \in tape : x[1] # k)
      /\ LotsOf(tape, k) = 0 /\ LotsOf(execs, k) = 0 /\ \A t \in Senders : doing[t] \in Sending => key[t] # k
  BY NothingExecuted
<1>2. /\ \A j \in Keys : j # k => status'[j] = status[j] /\ lots'[j] = lots[j]
      /\ status'[k] = "PENDING_SUBMIT" /\ lots'[k] = n
      /\ \A t \in Senders : t # s => doing'[t] = doing[t]
      /\ doing'[s] = "token"
  BY DEF DeskTypeOK
<1>3. OrdersInv'
  <2>1. \A t \in Senders : key[t] \in Keys BY DEF DeskTypeOK
  <2>2. \A r \in Requests : doing'[r] \in AtDesk /\ (doing'[r] # "idle" => key'[r] \in Tickets)
    BY <1>2, KeyFacts DEF OrdersInv, AtDesk
  <2>3. \A t \in Senders : doing'[t] \in Sending => status'[key'[t]] # "none" BY <1>2, <2>1 DEF OrdersInv
  <2>4. \A t \in Senders : doing'[t] \in Unsent => placed'[key'[t]] = 0 BY <1>1, <1>2, <2>1 DEF OrdersInv
  <2>5. \A t, u \in Senders : doing'[t] \in Unsent /\ doing'[u] \in Unsent /\ key'[t] = key'[u] => t = u
    BY <1>1, <1>2, <2>1 DEF OrdersInv, Unsent, Sending
  <2>6. \A j \in Keys : placed'[j] <= 1 /\ (placed'[j] = 1 => status'[j] # "none") BY <1>2 DEF OrdersInv
  <2> QED BY <2>2, <2>3, <2>4, <2>5, <2>6 DEF OrdersInv
<1>4. BrokerInv'
  <2>1. \A j \in Keys : status'[j] = "none" <=> lots'[j] = 0 BY <1>2 DEF BrokerInv
  <2>2. \A j \in Keys : book'[j] # "none" => status'[j] # "none" BY <1>2 DEF BrokerInv
  <2>3. Abs(n) \in Nat BY SignIs
  <2>4. \A j \in Keys : LotsOf(tape', j) <= Abs(lots'[j]) BY <1>1, <1>2, <2>3 DEF BrokerInv
  <2> QED BY <2>1, <2>2, <2>4 DEF BrokerInv
<1>5. StatusInv'
  <2>1. Abs(n) \in Nat \ {0} BY SignIs
  <2>2. ~(LotsOf(execs', k) >= Abs(lots'[k])) BY <1>1, <1>2, <2>1
  <2> QED BY <1>2, <2>2 DEF StatusInv
<1>6. tape \in SUBSET Execution /\ execs \in SUBSET Execution /\ IsFiniteSet(tape) /\ IsFiniteSet(execs)
  BY FS_Subset DEF DeskTypeOK
<1>7. PICK l, m : l = lots' /\ m = lots OBVIOUS
<1>8. (\A x \in tape : l[x[1]] = m[x[1]]) /\ (\A x \in execs : l[x[1]] = m[x[1]])
  <2>1. ASSUME NEW x \in tape PROVE l[x[1]] = m[x[1]]
    <3>1. x[1] \in Keys BY <1>6, ExecutionFacts
    <3> QED BY <1>1, <1>2, <1>7, <3>1
  <2> QED BY <2>1 DEF DeskTypeOK
<1>9. Held(tape, l) = Held(tape, m) /\ Held(execs, l) = Held(execs, m) BY <1>6, <1>8, HeldSame
<1> QED BY <1>3, <1>4, <1>5, <1>7, <1>9

LEMMA CreateStep ==
  ASSUME DeskInv, NEW r \in Requests, CreateOrder(r)
  PROVE  DeskInv'
<1> USE DEF DeskInv
<1>1. /\ UNCHANGED <<bid, execs, pos, op, snap, bpos, key, busy, mcache, verdict, phase, wire, book, tape,
                     placed, crashes, sweeps, over, off, misled>>
      /\ doing[r] = "checked"
  BY DEF CreateOrder, broker, counts, notes
<1>2. PICK k \in Keys : k = key[r] /\ k \in Tickets /\ k # "flat" /\ r \in Senders /\ r # Worker
  BY <1>1, KeyFacts DEF OrdersInv
<1>3. CASE status[k] = "none"
  <2>1. PICK n \in Int \ {0} : n = IF k = "entry" THEN EntryLots ELSE -ExitLots BY ConstantsAssumption
  <2>2. /\ status' = [status EXCEPT ![k] = "PENDING_SUBMIT"] /\ lots' = [lots EXCEPT ![k] = n]
        /\ doing' = [doing EXCEPT ![r] = "token"]
    BY <1>2, <1>3, <2>1 DEF CreateOrder, Goto
  <2>3. DeskTypeOK'
    <3>1. "PENDING_SUBMIT" \in Status BY DEF Status
    <3> QED BY <1>1, <1>2, <2>2, <3>1 DEF DeskTypeOK
  <2>4. OrdersInv' /\ BrokerInv' /\ StatusInv' /\ Held(tape, lots') = Held(tape, lots) /\ Held(execs, lots') = Held(execs, lots)
    BY <1>1, <1>2, <1>3, <2>2, RowCreated
  <2>5. status'["flat"] = status["flat"] /\ lots'["flat"] = lots["flat"] /\ doing'[Worker] = doing[Worker]
    BY <1>2, <2>2, KeyFacts DEF DeskTypeOK
  <2>6. StillOnRecord BY <2>2 DEF StillOnRecord, DeskTypeOK
  <2>9. WireInv' /\ DeliveryInv' BY <1>1, <2>6, WireKept, DeliveryKept
  <2>7. LedgerInv' BY <1>1, <2>4, <2>5 DEF LedgerInv
  <2>8. FlatInv' BY <1>1, <2>4, <2>5 DEF FlatInv
  <2> QED BY <2>3, <2>4, <2>7, <2>8, <2>9
<1>4. CASE status[k] # "none"
  <2>1. UNCHANGED <<status, lots>> /\ doing' = [doing EXCEPT ![r] = "idle"] BY <1>2, <1>4 DEF CreateOrder, Goto
  <2>2. DeskTypeOK' BY <1>1, <1>2, <2>1 DEF DeskTypeOK
  <2>3. SameOnRecord /\ doing'[Worker] = doing[Worker] BY <1>2, <2>1, KeyFacts DEF SameOnRecord, DeskTypeOK
  <2>4. OrdersInv'
    <3>1. doing'[r] = "idle" /\ \A s \in Senders : s # r => doing'[s] = doing[s] BY <1>2, <2>1 DEF DeskTypeOK
    <3> QED BY <1>1, <2>1, <3>1, KeyFacts DEF OrdersInv, AtDesk, Unsent, Sending
  <2>5. BrokerInv' /\ WireInv' BY <1>1, <2>1, <2>3, BrokerKept, RecordStays, WireKept
  <2>6. LedgerInv' /\ DeliveryInv' BY <1>1, <2>1, <2>3, LedgerKept, DeliveryKept
  <2>7. StatusInv' /\ FlatInv' BY <1>1, <2>1, <2>3, StatusKept, FlatKept
  <2> QED BY <2>2, <2>4, <2>5, <2>6, <2>7
<1> QED BY <1>3, <1>4

(* A sender goes on: to "place" from "token", to "mark", "fail" or         *)
(* "recon", or it has done.                                                *)
LEMMA SenderGoesOn ==
  ASSUME DeskInv, NEW s \in Senders, NEW to, doing' = [doing EXCEPT ![s] = to], UNCHANGED <<key, placed>>, SameOnRecord,
         doing[s] \in Sending, \/ doing[s] \in Unsent /\ to \in Unsent
                               \/ to \in {"mark", "fail", "idle"}
                               \/ s = Worker /\ to = "recon"
  PROVE  OrdersInv'
<1> USE DEF DeskInv
<1>1. \A t \in Senders : key[t] \in Keys BY DEF DeskTypeOK
<1>2. doing'[s] = to /\ \A t \in Senders : t # s => doing'[t] = doing[t] BY DEF DeskTypeOK
<1>3. \A r \in Requests : doing'[r] \in AtDesk /\ (doing'[r] # "idle" => key'[r] \in Tickets)
  BY <1>2, KeyFacts DEF OrdersInv, AtDesk, Unsent, Sending
<1>4. \A t \in Senders : doing'[t] \in Sending => status'[key'[t]] # "none"
  BY <1>1, <1>2 DEF OrdersInv, SameOnRecord, Sending, Unsent
<1>5. \A t \in Senders : doing'[t] \in Unsent => placed'[key'[t]] = 0
  BY <1>1, <1>2 DEF OrdersInv, Unsent, Sending
<1>6. \A t, u \in Senders : doing'[t] \in Unsent /\ doing'[u] \in Unsent /\ key'[t] = key'[u] => t = u
  BY <1>1, <1>2 DEF OrdersInv, Unsent, Sending
<1> QED BY <1>3, <1>4, <1>5, <1>6 DEF OrdersInv, SameOnRecord

LEMMA WorkerIdle ==
  ASSUME DeskInv, NEW s \in Senders, doing[s] # "idle", op = "none"
  PROVE  s # Worker
BY DEF DeskInv, LedgerInv

(* The ledger when a sender has moved.                                     *)
LEMMA LedgerKeptSending ==
  ASSUME DeskInv, NEW s \in Senders, doing[s] # "idle", NEW to, doing' = [doing EXCEPT ![s] = to],
         UNCHANGED <<op, pos, off, lots, execs, verdict>>, SameOnRecord
  PROVE  LedgerInv'
<1>1. op = "none" => doing'[Worker] = doing[Worker] BY WorkerIdle, KeyFacts DEF DeskInv, DeskTypeOK
<1> QED BY <1>1, KeyFacts DEF DeskInv, LedgerInv, SameOnRecord

LEMMA AllocateStep ==
  ASSUME DeskInv, NEW s \in Senders, AllocateOrderId(s)
  PROVE  DeskInv'
<1> USE DEF DeskInv
<1>1. /\ UNCHANGED <<status, lots, execs, pos, op, snap, bpos, key, busy, mcache, verdict, phase, wire, book, tape,
                     placed, crashes, sweeps, over, off, misled>>
      /\ doing[s] = "token" /\ (bid' = bid \/ bid' = [bid EXCEPT ![key[s]] = TRUE])
  BY DEF AllocateOrderId, broker, counts, notes
<1>2. PICK to : /\ to \in {"place", "fail"} \/ (s = Worker /\ to = "recon")
                /\ doing' = [doing EXCEPT ![s] = to]
  BY DEF AllocateOrderId, Goto
<1>3. DeskTypeOK' BY <1>1, <1>2 DEF DeskTypeOK
<1>4. SameOnRecord BY <1>1 DEF SameOnRecord
<1>5. OrdersInv' BY <1>1, <1>2, <1>4, SenderGoesOn DEF Unsent, Sending
<1>6. BrokerInv' /\ WireInv' BY <1>1, <1>4, BrokerKept, RecordStays, WireKept
<1>7. LedgerInv' BY <1>1, <1>2, <1>4, LedgerKeptSending
<1>8. DeliveryInv' BY <1>1, DeliveryKept
<1>9. StatusInv' /\ FlatInv' BY <1>1, <1>4, StatusKept, FlatKept
<1> QED BY <1>3, <1>5, <1>6, <1>7, <1>8, <1>9

----------------------------------------------------------------------------
(* Callbacks that the broker sends.                                        *)

LEMMA WireGrows ==
  ASSUME DeskInv, NEW msgs \in Seq(Message), ToWire(msgs), UNCHANGED <<phase, busy, status>>, tape \subseteq tape',
         \A m \in Range(msgs) : status[m[1]] # "none" /\ (m[2] = "exec" => ExecOf(m) \in tape')
  PROVE  wire' \in Seq(Message) /\ WireInv'
<1> USE DEF DeskInv
<1>1. wire \in Seq(Message) BY DEF DeskTypeOK
<1>2. CASE phase = "up"
  <2>1. wire' = wire \o msgs BY <1>2 DEF ToWire
  <2>2. wire \o msgs \in Seq(Message) /\ Range(wire \o msgs) = Range(wire) \cup Range(msgs) BY <1>1, RangeOfConcat
  <2> QED BY <1>2, <2>1, <2>2 DEF WireInv
<1>3. CASE phase # "up"
  <2>1. wire' = wire BY <1>3 DEF ToWire
  <2> QED BY <1>1, <2>1 DEF WireInv
<1> QED BY <1>2, <1>3

LEMMA DeliveryGrows ==
  ASSUME DeskInv, NEW msgs \in Seq(Message), ToWire(msgs), UNCHANGED <<phase, busy, off, execs>>,
         \A x \in tape' : x \in tape \/ \E m \in Range(msgs) : m[2] = "exec" /\ ExecOf(m) = x
  PROVE  DeliveryInv'
<1> USE DEF DeskInv
<1>1. wire \in Seq(Message) BY DEF DeskTypeOK
<1>2. CASE phase = "up"
  <2>1. wire' = wire \o msgs BY <1>2 DEF ToWire
  <2>2. Range(wire') = Range(wire) \cup Range(msgs) BY <1>1, <2>1, RangeOfConcat
  <2> QED BY <1>2, <2>2 DEF DeliveryInv, OnItsWay
<1>3. CASE phase # "up" BY <1>3 DEF DeliveryInv
<1> QED BY <1>2, <1>3

LEMMA DeskPlaceStep ==
  ASSUME DeskInv, NEW s \in Senders, PlaceOrder(s)
  PROVE  DeskInv'
<1> USE DEF DeskInv
<1>1. /\ UNCHANGED <<status, bid, lots, execs, pos, op, snap, bpos, key, busy, mcache, verdict, phase, tape,
                     crashes, sweeps, over, off, misled>>
      /\ doing[s] = "place"
  BY DEF PlaceOrder, tables, counts, notes
<1>2. PICK k \in Keys : k = key[s] BY DEF DeskTypeOK
<1>3. SameOnRecord BY <1>1 DEF SameOnRecord
<1>4. StatusInv' /\ FlatInv' BY <1>1, <1>3, StatusKept, FlatKept
<1>5. CASE /\ placed' = [placed EXCEPT ![k] = @ + 1] /\ book' = [book EXCEPT ![k] = "working"]
           /\ ToWire(<< <<k, "SUBMITTED", 0, 0>> >>) /\ Goto(s, "mark")
  <2>1. doing' = [doing EXCEPT ![s] = "mark"] BY <1>5 DEF Goto
  <2>2. PICK m : m = <<k, "SUBMITTED", 0, 0>> OBVIOUS
  <2>3. m \in Message /\ m[2] # "exec" BY <2>2 DEF Message, Reports
  <2>4. PICK msgs : msgs = <<m>> OBVIOUS
  <2>5. msgs \in Seq(Message) /\ Range(msgs) = {m} BY <2>3, <2>4, RangeOfOne
  <2>6. ToWire(msgs) BY <1>5, <2>2, <2>4
  <2>7. wire' \in Seq(Message) /\ WireInv'
    <3>1. status[m[1]] # "none" BY <1>1, <1>2, <2>2 DEF OrdersInv, Sending
    <3> QED BY <1>1, <2>3, <2>5, <2>6, <3>1, WireGrows
  <2>8. DeliveryInv' BY <1>1, <2>5, <2>6, DeliveryGrows
  <2>9. DeskTypeOK' BY <1>1, <1>5, <2>1, <2>7 DEF DeskTypeOK
  <2>10. placed[k] = 0 /\ status[k] # "none" BY <1>1, <1>2 DEF OrdersInv, Unsent, Sending
  <2>11. /\ placed'[k] = 1 /\ (\A j \in Keys : j # k => placed'[j] = placed[j])
         /\ doing'[s] = "mark" /\ (\A t \in Senders : t # s => doing'[t] = doing[t])
    BY <1>5, <2>1, <2>10 DEF DeskTypeOK
  <2>12. OrdersInv'
    <3>1. \A t \in Senders : key[t] \in Keys BY DEF DeskTypeOK
    <3>2. \A r \in Requests : doing'[r] \in AtDesk /\ (doing'[r] # "idle" => key'[r] \in Tickets)
      BY <1>1, <2>11, KeyFacts DEF OrdersInv, AtDesk
    <3>3. \A t \in Senders : doing'[t] \in Sending => status'[key'[t]] # "none"
      BY <1>1, <1>2, <2>10, <2>11 DEF OrdersInv
    <3>4. \A t \in Senders : doing'[t] \in Unsent => placed'[key'[t]] = 0
      BY <1>1, <1>2, <2>11, <3>1 DEF OrdersInv, Unsent
    <3>5. \A t, u \in Senders : doing'[t] \in Unsent /\ doing'[u] \in Unsent /\ key'[t] = key'[u] => t = u
      BY <1>1, <2>11 DEF OrdersInv, Unsent
    <3>6. \A j \in Keys : placed'[j] <= 1 /\ (placed'[j] = 1 => status'[j] # "none")
      BY <1>1, <2>10, <2>11 DEF OrdersInv
    <3> QED BY <1>1, <3>2, <3>3, <3>4, <3>5, <3>6 DEF OrdersInv
  <2>13. BrokerInv'
    <3>1. book'[k] = "working" /\ \A j \in Keys : j # k => book'[j] = book[j] BY <1>5 DEF DeskTypeOK
    <3>2. \A j \in Keys : book'[j] # "none" => status'[j] # "none" BY <1>1, <2>10, <3>1 DEF BrokerInv
    <3>3. \A x \in tape : x[1] \in Keys BY ExecutionFacts DEF DeskTypeOK
    <3>4. \A x \in tape : book'[x[1]] # "none" BY <3>1, <3>3 DEF BrokerInv
    <3> QED BY <1>1, <3>2, <3>4 DEF BrokerInv
  <2>14. LedgerInv' BY <1>1, <1>3, <2>1, LedgerKeptSending
  <2> QED BY <1>4, <2>7, <2>8, <2>9, <2>12, <2>13, <2>14
<1>6. CASE Goto(s, "fail") /\ UNCHANGED <<placed, book, wire>>
  <2>1. doing' = [doing EXCEPT ![s] = "fail"] BY <1>6 DEF Goto
  <2>2. DeskTypeOK' BY <1>1, <1>6, <2>1 DEF DeskTypeOK
  <2>3. OrdersInv' BY <1>1, <1>3, <1>6, <2>1, SenderGoesOn DEF Unsent, Sending
  <2>4. BrokerInv' /\ WireInv' BY <1>1, <1>3, <1>6, BrokerKept, RecordStays, WireKept
  <2>5. LedgerInv' BY <1>1, <1>3, <2>1, LedgerKeptSending
  <2>6. DeliveryInv' BY <1>1, <1>6, DeliveryKept
  <2> QED BY <1>4, <2>2, <2>3, <2>4, <2>5, <2>6
<1> QED BY <1>2, <1>5, <1>6 DEF PlaceOrder

(* A row that is on record gets another status.                            *)
LEMMA StatusWritten ==
  ASSUME DeskInv, NEW k \in Keys, NEW v \in Status \ {"none"}, status[k] # "none",
         status' = [status EXCEPT ![k] = v] \/ status' = status
  PROVE  SameOnRecord /\ status' \in [Keys -> Status] /\ \A j \in Keys : j # k => status'[j] = status[j]
<1> USE DEF DeskInv
<1>1. status \in [Keys -> Status] BY DEF DeskTypeOK
<1> QED BY <1>1 DEF SameOnRecord

LEMMA RecordStep ==
  ASSUME DeskInv, NEW s \in Senders, RecordSubmission(s)
  PROVE  DeskInv'
<1> USE DEF DeskInv
<1>1. /\ UNCHANGED <<bid, lots, execs, pos, op, snap, bpos, key, busy, mcache, verdict, phase, wire, book, tape,
                     placed, crashes, sweeps, off, misled>>
      /\ doing[s] \in {"mark", "fail"} /\ doing' = [doing EXCEPT ![s] = AfterSend(s)]
  BY DEF RecordSubmission, Goto, broker, counts
<1>2. PICK k \in Keys : k = key[s] /\ status[k] # "none" BY <1>1 DEF DeskTypeOK, OrdersInv, Sending
<1>3. PICK v \in Status \ {"none"} : status' = [status EXCEPT ![k] = v]
  <2>1. PICK v : v = IF doing[s] = "mark" THEN "SUBMITTED" ELSE "ERROR" OBVIOUS
  <2>2. v \in Status \ {"none"} BY <2>1 DEF Status, Terminal
  <2>3. status' = [status EXCEPT ![k] = v] BY <1>2, <2>1 DEF RecordSubmission
  <2> QED BY <2>2, <2>3
<1>4. over' = over \/ over' = over \cup {k} BY <1>2 DEF RecordSubmission
<1>5. SameOnRecord /\ status' \in [Keys -> Status] /\ \A j \in Keys : j # k => status'[j] = status[j]
  BY <1>2, <1>3, StatusWritten
<1>6. AfterSend(s) \in {"idle", "recon"} /\ (AfterSend(s) = "recon" => s = Worker) BY DEF AfterSend
<1>7. DeskTypeOK' BY <1>1, <1>2, <1>4, <1>5, <1>6 DEF DeskTypeOK
<1>8. PICK to : to = AfterSend(s) OBVIOUS
<1>9. OrdersInv' BY <1>1, <1>5, <1>6, <1>8, SenderGoesOn DEF Unsent, Sending
<1>10. BrokerInv' /\ WireInv' BY <1>1, <1>5, BrokerKept, RecordStays, WireKept
<1>11. LedgerInv' BY <1>1, <1>5, <1>8, LedgerKeptSending
<1>12. DeliveryInv' /\ FlatInv' BY <1>1, <1>5, DeliveryKept, FlatKept
<1>13. StatusInv'
  <2>1. k \in over' \/ status[k] = "PENDING_SUBMIT" BY <1>2 DEF RecordSubmission
  <2> QED BY <1>1, <1>2, <1>4, <1>5, <2>1 DEF StatusInv
<1> QED BY <1>7, <1>9, <1>10, <1>11, <1>12, <1>13

LEMMA CancelStep ==
  ASSUME DeskInv, NEW k \in Keys, CancelUnsent(k)
  PROVE  DeskInv'
<1> USE DEF DeskInv
<1>1. /\ UNCHANGED <<bid, lots, execs, pos, op, snap, bpos, doing, key, busy, mcache, verdict, phase, wire, book, tape,
                     placed, crashes, sweeps, over, off, misled>>
      /\ status[k] = "PENDING_SUBMIT" /\ status' = [status EXCEPT ![k] = "CANCELLED"]
  BY DEF CancelUnsent, memory, counts
<1>2. "CANCELLED" \in Status \ {"none"} BY DEF Status, Terminal
<1>3. SameOnRecord /\ status' \in [Keys -> Status] /\ \A j \in Keys : j # k => status'[j] = status[j]
  BY <1>1, <1>2, StatusWritten
<1>4. DeskTypeOK' BY <1>1, <1>3 DEF DeskTypeOK
<1>5. OrdersInv' /\ BrokerInv' /\ WireInv' BY <1>1, <1>3, OrdersKept, BrokerKept, RecordStays, WireKept
<1>6. LedgerInv' /\ DeliveryInv' /\ FlatInv' BY <1>1, <1>3, LedgerKept, DeliveryKept, FlatKept
<1>7. StatusInv' BY <1>1, <1>3 DEF StatusInv
<1> QED BY <1>4, <1>5, <1>6, <1>7

(* One execution at the broker.                                            *)
LEMMA ExecuteStep ==
  ASSUME DeskInv, NEW k \in Keys, NEW n \in 1 .. Abs(lots[k]), BrokerExecutes(k, n)
  PROVE  DeskInv'
<1> USE DEF DeskInv
<1>1. PICK F \in Nat : F = Filled(k) /\ F = LotsOf(tape, k) BY SumsAreLots
<1>2. lots[k] \in Int /\ Abs(lots[k]) \in Nat /\ n \in Nat \ {0} BY SignIs DEF DeskTypeOK
<1>3. PICK x : x = <<k, F, F + n>> OBVIOUS
<1>4. x[1] = k /\ x[2] = F /\ x[3] = F + n /\ x \in Execution BY <1>2, <1>3 DEF Execution
<1>5. /\ UNCHANGED <<status, bid, lots, execs, pos, op, snap, bpos, doing, key, busy, mcache, verdict, phase,
                     placed, crashes, sweeps, over, off>>
      /\ book[k] = "working" /\ x[3] <= Abs(lots[k]) /\ tape' = tape \cup {x}
      /\ book' = [book EXCEPT ![k] = IF x[3] = Abs(lots[k]) THEN "done" ELSE @]
      /\ misled' = (misled \/ (k # "flat" /\ op # "none"))
  BY <1>1, <1>3, <1>4 DEF BrokerExecutes, tables, memory, counts
<1>6. tape \in SUBSET Execution /\ IsFiniteSet(tape) /\ execs \subseteq tape /\ lots \in [Keys -> Int] BY DEF DeskTypeOK
<1>7. x \notin tape
  <2>1. SUFFICES ASSUME x \in tape PROVE FALSE OBVIOUS
  <2>2. x[3] <= LotsOf(tape, x[1]) BY <2>1 DEF BrokerInv
  <2> QED BY <1>1, <1>2, <1>4, <2>2
<1>8. IsFiniteSet(tape') /\ tape' \in SUBSET Execution BY <1>4, <1>5, <1>6, FS_AddElement
<1>9. \A j : LotsOf(tape', j) = LotsOf(tape, j) + IF j = k THEN n ELSE 0
  <2> TAKE j
  <2>1. LotsOf(tape \cup {x}, j) = LotsOf(tape, j) + IF x[1] = j THEN x[3] - x[2] ELSE 0
    BY <1>4, <1>6, <1>7, LotsOfAdd
  <2> QED BY <1>2, <1>4, <1>5, <2>1
<1>10. Held(tape', lots) = Held(tape, lots) + Sign(lots[k]) * n
  <2>1. Held(tape \cup {x}, lots) = Held(tape, lots) + Sign(lots[x[1]]) * (x[3] - x[2])
    BY <1>4, <1>6, <1>7, HeldAdd
  <2>2. x[3] - x[2] = n BY <1>2, <1>4
  <2> QED BY <1>4, <1>5, <2>1, <2>2
<1>11. PICK msgs \in Seq(Message) :
         /\ ToWire(msgs) /\ \E m \in Range(msgs) : m[2] = "exec" /\ ExecOf(m) = x
         /\ \A m \in Range(msgs) : m[1] = k /\ (m[2] = "exec" => ExecOf(m) = x)
  <2>1. PICK e, f : e = <<k, "exec", F, F + n>> /\ f = <<k, "FILLED", 0, 0>> OBVIOUS
  <2>2. e \in Message /\ f \in Message /\ e[2] = "exec" /\ ExecOf(e) = x /\ f[2] # "exec" /\ e[1] = k /\ f[1] = k
    BY <1>2, <1>3, <2>1 DEF Message, Reports, ExecOf
  <2>3. PICK q : q = IF x[3] = Abs(lots[k]) THEN <<f>> ELSE <<>> OBVIOUS
  <2>4. q \in Seq(Message) /\ Range(q) \subseteq {f} BY <2>2, <2>3, RangeOfOne, RangeOfNone
  <2>5. PICK p : p = <<e>> OBVIOUS
  <2>6. p \in Seq(Message) /\ Range(p) = {e} BY <2>2, <2>5, RangeOfOne
  <2>7. p \o q \in Seq(Message) /\ Range(p \o q) = {e} \cup Range(q) BY <2>4, <2>6, RangeOfConcat
  <2>8. q \o p \in Seq(Message) /\ Range(q \o p) = Range(q) \cup {e} BY <2>4, <2>6, RangeOfConcat
  <2>9. ToWire(p \o q) \/ ToWire(q \o p) BY <1>1, <1>3, <1>4, <2>1, <2>3, <2>5 DEF BrokerExecutes
  <2>10. CASE ToWire(p \o q) BY <2>2, <2>4, <2>7, <2>10
  <2>11. CASE ToWire(q \o p) BY <2>2, <2>4, <2>8, <2>11
  <2> QED BY <2>9, <2>10, <2>11
<1>12. wire' \in Seq(Message) /\ WireInv'
  <2>1. status[k] # "none" BY <1>5 DEF BrokerInv
  <2> QED BY <1>5, <1>11, <2>1, WireGrows
<1>13. DeliveryInv' BY <1>5, <1>11, DeliveryGrows
<1>14. DeskTypeOK'
  <2>1. book' \in [Keys -> {"none", "working", "done"}] BY <1>5 DEF DeskTypeOK
  <2>2. misled' \in BOOLEAN BY <1>5 DEF DeskTypeOK
  <2> QED BY <1>5, <1>8, <1>12, <2>1, <2>2 DEF DeskTypeOK
<1>15. SameOnRecord BY <1>5 DEF SameOnRecord
<1>16. OrdersInv' /\ LedgerInv' /\ StatusInv' BY <1>5, <1>15, OrdersKept, LedgerKept, StatusKept
<1>17. BrokerInv'
  <2>1. \A j \in Keys : book'[j] = "none" <=> book[j] = "none" BY <1>5 DEF DeskTypeOK
  <2>2. \A j : LotsOf(tape, j) \in Nat BY SumsAreLots
  <2>3. ASSUME NEW y \in tape' PROVE book'[y[1]] # "none" /\ y[3] <= LotsOf(tape', y[1])
    <3>1. y[1] \in Keys /\ y[3] \in Nat BY <1>8, ExecutionFacts
    <3>2. CASE y \in tape
      <4>1. book[y[1]] # "none" /\ y[3] <= LotsOf(tape, y[1]) BY <3>2 DEF BrokerInv
      <4>2. LotsOf(tape, y[1]) <= LotsOf(tape', y[1]) BY <1>2, <1>9, <2>2
      <4>3. LotsOf(tape', y[1]) \in Nat BY <1>2, <1>9, <2>2
      <4> QED BY <2>1, <2>2, <3>1, <4>1, <4>2, <4>3
    <3>3. CASE y = x
      <4>1. LotsOf(tape', k) = F + n BY <1>1, <1>9
      <4> QED BY <1>2, <1>4, <1>5, <2>1, <3>3, <4>1
    <3> QED BY <1>5, <3>2, <3>3
  <2>4. \A j \in Keys : LotsOf(tape', j) <= Abs(lots'[j])
    <3>1. \A j \in Keys : j # k => LotsOf(tape', j) = LotsOf(tape, j) BY <1>9, <2>2
    <3>2. LotsOf(tape', k) = F + n BY <1>1, <1>9
    <3>3. LotsOf(tape', k) <= Abs(lots[k]) BY <1>4, <1>5, <3>2
    <3> QED BY <1>5, <3>1, <3>3 DEF BrokerInv
  <2> QED BY <1>5, <2>1, <2>3, <2>4 DEF BrokerInv
<1>18. FlatInv'
  <2>1. SUFFICES ASSUME op # "none", ~misled, k = "flat" PROVE FlatInv' BY <1>5 DEF FlatInv
  <2>2. PICK c \in {1, -1} : c = Sign(lots["flat"]) BY SignIs, KeyFacts DEF DeskTypeOK
  <2>3. snap \in Int /\ Held(tape, lots) \in Int /\ LotsOf(tape, "flat") \in Nat BY SumsAreLots DEF DeskTypeOK
  <2>4. Held(tape', lots') = Held(tape, lots) + c * n BY <1>5, <1>10, <2>1, <2>2
  <2>5. LotsOf(tape', "flat") = LotsOf(tape, "flat") + n BY <1>9, <2>1
  <2>6. Held(tape, lots) = snap + c * LotsOf(tape, "flat") BY <2>1, <2>2 DEF FlatInv
  <2>7. Held(tape', lots') = snap + c * LotsOf(tape', "flat")
    <3>1. CASE c = 1 BY <1>2, <2>3, <2>4, <2>5, <2>6, <3>1
    <3>2. CASE c = -1 BY <1>2, <2>3, <2>4, <2>5, <2>6, <3>2
    <3> QED BY <3>1, <3>2
  <2>8. Held(tape, lots) # 0
    <3>1. status["flat"] # "none" BY <1>5, <2>1 DEF BrokerInv
    <3>2. lots["flat"] = -snap BY <2>1, <3>1 DEF FlatInv
    <3>3. LotsOf(tape, "flat") < Abs(-snap) BY <1>1, <1>2, <1>4, <1>5, <2>1, <3>2
    <3>4. CASE -snap < 0
      <4>1. c = -1 /\ Abs(-snap) = snap BY <2>2, <2>3, <3>2, <3>4, SignIs
      <4> QED BY <2>3, <2>6, <3>3, <4>1
    <3>5. CASE -snap >= 0
      <4>1. c = 1 /\ Abs(-snap) = -snap BY <2>2, <2>3, <3>2, <3>5, SignIs
      <4> QED BY <2>3, <2>6, <3>3, <4>1
    <3> QED BY <2>3, <3>4, <3>5
  <2>9. \A y \in tape' : y[1] # "flat" => y \in execs' BY <1>4, <1>5, <2>1 DEF FlatInv
  <2> QED BY <1>5, <2>1, <2>2, <2>7, <2>8, <2>9 DEF FlatInv
<1> QED BY <1>12, <1>13, <1>14, <1>16, <1>17, <1>18

LEMMA EndStep ==
  ASSUME DeskInv, NEW k \in Keys, BrokerEnds(k)
  PROVE  DeskInv'
<1> USE DEF DeskInv
<1>1. /\ UNCHANGED <<status, bid, lots, execs, pos, op, snap, bpos, doing, key, busy, mcache, verdict, phase, tape,
                     placed, crashes, sweeps, over, off, misled>>
      /\ book[k] = "working" /\ book' = [book EXCEPT ![k] = "done"]
  BY DEF BrokerEnds, tables, memory, counts, notes
<1>2. PICK kind \in {"CANCELLED", "REJECTED"} : ToWire(<< <<k, kind, 0, 0>> >>) BY DEF BrokerEnds
<1>3. PICK m : m = <<k, kind, 0, 0>> OBVIOUS
<1>4. m \in Message /\ m[2] # "exec" BY <1>3 DEF Message, Reports
<1>5. PICK msgs : msgs = <<m>> OBVIOUS
<1>6. msgs \in Seq(Message) /\ Range(msgs) = {m} BY <1>4, <1>5, RangeOfOne
<1>7. ToWire(msgs) BY <1>2, <1>3, <1>5
<1>8. wire' \in Seq(Message) /\ WireInv'
  <2>1. status[m[1]] # "none" BY <1>1, <1>3 DEF BrokerInv
  <2> QED BY <1>1, <1>4, <1>6, <1>7, <2>1, WireGrows
<1>9. DeliveryInv' BY <1>1, <1>6, <1>7, DeliveryGrows
<1>10. DeskTypeOK' BY <1>1, <1>8 DEF DeskTypeOK
<1>11. SameOnRecord BY <1>1 DEF SameOnRecord
<1>12. OrdersInv' /\ LedgerInv' /\ StatusInv' /\ FlatInv' BY <1>1, <1>11, OrdersKept, LedgerKept, StatusKept, FlatKept
<1>13. BrokerInv'
  <2>1. \A j \in Keys : book'[j] = "none" <=> book[j] = "none" BY <1>1 DEF DeskTypeOK
  <2>2. \A x \in tape : x[1] \in Keys BY ExecutionFacts DEF DeskTypeOK
  <2> QED BY <1>1, <2>1, <2>2 DEF BrokerInv
<1> QED BY <1>8, <1>9, <1>10, <1>12, <1>13

----------------------------------------------------------------------------
(* The callback handlers.                                                  *)

LEMMA DispatchStep ==
  ASSUME DeskInv, Dispatch
  PROVE  DeskInv'
<1> USE DEF DeskInv
<1>1. /\ UNCHANGED <<status, bid, lots, execs, pos, op, snap, bpos, doing, key, mcache, verdict, phase, book, tape,
                     placed, crashes, sweeps, over, off, misled>>
      /\ phase = "up" /\ wire # <<>> /\ wire' = Tail(wire)
  BY DEF Dispatch, tables, counts, notes
<1>2. wire \in Seq(Message) BY DEF DeskTypeOK
<1>3. PICK m : m = Head(wire) OBVIOUS
<1>4. m \in Message /\ wire' \in Seq(Message) /\ Range(wire) = {m} \cup Range(wire') BY <1>1, <1>2, <1>3, RangeOfTail
<1>5. PICK h : h = [msg |-> m, saw |-> status[m[1]], fresh |-> m[2] = "exec" /\ pos.state = "none"] OBVIOUS
<1>6. busy' = busy \cup {h} /\ h.msg = m BY <1>3, <1>5 DEF Dispatch
<1>7. h \in [msg : Message, saw : Status, fresh : BOOLEAN]
  <2>1. m[1] \in Keys BY <1>4 DEF Message
  <2>2. status[m[1]] \in Status BY <2>1 DEF DeskTypeOK
  <2> QED BY <1>4, <1>5, <2>2
<1>8. DeskTypeOK' BY <1>1, <1>4, <1>6, <1>7 DEF DeskTypeOK
<1>9. SameOnRecord BY <1>1 DEF SameOnRecord
<1>10. OrdersInv' /\ BrokerInv' BY <1>1, <1>9, OrdersKept, BrokerKept
<1>11. LedgerInv' /\ StatusInv' /\ FlatInv' BY <1>1, <1>9, LedgerKept, StatusKept, FlatKept
<1>12. WireInv' BY <1>1, <1>4, <1>6 DEF WireInv
<1>13. DeliveryInv' BY <1>1, <1>4, <1>6 DEF DeliveryInv, OnItsWay
<1> QED BY <1>8, <1>10, <1>11, <1>12, <1>13

(* The order a handler is about, and what it has read.                     *)
LEMMA HandlerFacts ==
  ASSUME DeskInv, NEW h \in busy
  PROVE  h.msg \in Message /\ h.msg[1] \in Keys /\ h.saw \in Status /\ status[h.msg[1]] # "none" /\ phase = "up"
BY MessageKeys DEF DeskInv, DeskTypeOK, WireInv

LEMMA ReportStep ==
  ASSUME DeskInv, NEW h \in busy, HandleReport(h)
  PROVE  DeskInv'
<1> USE DEF DeskInv
<1>1. /\ UNCHANGED <<bid, lots, execs, pos, op, snap, bpos, doing, key, mcache, verdict, phase, wire, book, tape,
                     placed, crashes, sweeps, off, misled>>
      /\ h.msg[2] \in Reports /\ busy' = busy \ {h}
  BY DEF HandleReport, broker, counts
<1>2. PICK k \in Keys : k = h.msg[1] /\ status[k] # "none" /\ h.saw \in Status BY HandlerFacts
<1>3. PICK v : v = ReportedStatus(h.saw, h.msg[2]) OBVIOUS
<1>4. v \in Status \ {"none"} /\ (h.saw = "FILLED" => v = h.saw)
  BY <1>1, <1>2, <1>3 DEF ReportedStatus, Reports, Status, Terminal
<1>5. /\ status' = IF v # h.saw THEN [status EXCEPT ![k] = v] ELSE status
      /\ over' = IF status[k] # h.saw THEN over \cup {k} ELSE over
  BY <1>2, <1>3 DEF HandleReport, WriteStatus
<1>6. SameOnRecord /\ status' \in [Keys -> Status] /\ \A j \in Keys : j # k => status'[j] = status[j]
  BY <1>2, <1>4, <1>5, StatusWritten
<1>7. DeskTypeOK' BY <1>1, <1>5, <1>6 DEF DeskTypeOK
<1>8. OrdersInv' /\ BrokerInv' /\ LedgerInv' /\ FlatInv'
  BY <1>1, <1>6, OrdersKept, BrokerKept, LedgerKept, FlatKept
<1>9. WireInv'
  <2>1. StillOnRecord BY <1>6, RecordStays
  <2> QED BY <1>1, <2>1, MessageKeys DEF WireInv, StillOnRecord
<1>10. DeliveryInv' BY <1>1 DEF DeliveryInv, OnItsWay, Reports
<1>11. StatusInv'
  <2>1. \A j \in Keys : over \subseteq over' BY <1>5
  <2>2. status[k] = "FILLED" => status'[k] = "FILLED" \/ k \in over' BY <1>4, <1>5
  <2> QED BY <1>1, <1>2, <1>6, <2>1, <2>2 DEF StatusInv
<1> QED BY <1>7, <1>8, <1>9, <1>10, <1>11

LEMMA ExecDetailsStep ==
  ASSUME DeskInv, NEW h \in busy, HandleExecDetails(h)
  PROVE  DeskInv'
<1> USE DEF DeskInv
<1>1. /\ UNCHANGED <<bid, lots, op, snap, bpos, doing, key, mcache, verdict, phase, wire, book, tape,
                     placed, crashes, sweeps, misled>>
      /\ h.msg[2] = "exec" /\ busy' = busy \ {h}
  BY DEF HandleExecDetails, broker, counts
<1>2. PICK k \in Keys : k = h.msg[1] /\ status[k] # "none" /\ h.saw \in Status BY HandlerFacts
<1>3. PICK x : x = ExecOf(h.msg) OBVIOUS
<1>4. x = <<k, h.msg[3], h.msg[4]>> /\ x \in tape /\ x[1] = k BY <1>1, <1>2, <1>3 DEF ExecOf, WireInv
<1>5. x \in Execution /\ x[2] \in Nat /\ x[3] \in Nat /\ x[2] < x[3] BY <1>4, ExecutionFacts DEF DeskTypeOK
<1>6. \A y : OnItsWay(y) => y = x \/ OnItsWay(y)' BY <1>1, <1>3 DEF OnItsWay
<1>7. CASE off' = (off \/ x \notin execs) /\ UNCHANGED <<status, execs, pos, over>>
  <2>1. DeskTypeOK'
    <3>1. off' \in BOOLEAN BY <1>7
    <3> QED BY <1>1, <1>7, <3>1 DEF DeskTypeOK
  <2>2. SameOnRecord BY <1>7 DEF SameOnRecord
  <2>3. OrdersInv' /\ BrokerInv' /\ StatusInv' /\ FlatInv'
    BY <1>1, <1>7, <2>2, OrdersKept, BrokerKept, StatusKept, FlatKept
  <2>4. WireInv' BY <1>1, <1>7 DEF WireInv
  <2>5. LedgerInv' BY <1>1, <1>7 DEF LedgerInv
  <2>6. DeliveryInv' BY <1>1, <1>6, <1>7 DEF DeliveryInv
  <2> QED BY <2>1, <2>3, <2>4, <2>5, <2>6
<1>8. CASE /\ ~Reused /\ ~Duplicate(x) /\ execs' = execs \cup {x}
           /\ pos' = Applied(Sign(lots[k]) * (x[3] - x[2]))
           /\ WriteStatus(k, h.saw, ExecutedStatus(k, h.saw, Lots(Of(k) \cup {x})))
           /\ UNCHANGED off
  <2>1. x \notin execs BY <1>8 DEF Duplicate
  <2>2. execs \in SUBSET Execution /\ IsFiniteSet(execs) /\ lots \in [Keys -> Int] /\ execs' \subseteq tape
    BY <1>4, <1>8, FS_Subset DEF DeskTypeOK
  <2>3. PICK d \in Int : d = Sign(lots[k]) * (x[3] - x[2]) /\ d # 0
    <3>1. PICK c \in {1, -1} : c = Sign(lots[k]) BY <2>2, SignIs
    <3>2. PICK d : d = c * (x[3] - x[2]) OBVIOUS
    <3>3. CASE c = 1 BY <1>5, <3>1, <3>2, <3>3
    <3>4. CASE c = -1 BY <1>5, <3>1, <3>2, <3>4
    <3> QED BY <3>1, <3>3, <3>4
  <2>4. pos.qty \in Int /\ pos.state \in PosState BY DEF DeskTypeOK
  <2>5. /\ pos' = [qty |-> pos.qty + d, state |-> IF pos.qty + d = 0 /\ pos.qty # 0 THEN "CLOSED" ELSE "OPEN"]
    BY <1>8, <2>3 DEF Applied
  <2>6. pos' \in [qty : Int, state : PosState] BY <2>3, <2>4, <2>5 DEF PosState
  <2>7. \A j : LotsOf(execs', j) = LotsOf(execs, j) + IF x[1] = j THEN x[3] - x[2] ELSE 0
    <3> TAKE j
    <3>1. LotsOf(execs \cup {x}, j) = LotsOf(execs, j) + IF x[1] = j THEN x[3] - x[2] ELSE 0
      BY <1>5, <2>1, <2>2, LotsOfAdd
    <3> QED BY <1>8, <3>1
  <2>8. Held(execs', lots) = Held(execs, lots) + d
    <3>1. Held(execs \cup {x}, lots) = Held(execs, lots) + Sign(lots[x[1]]) * (x[3] - x[2])
      BY <1>5, <2>1, <2>2, HeldAdd
    <3> QED BY <1>4, <1>8, <2>3, <3>1
  <2>9. PICK total : total = Lots(Of(k) \cup {x}) OBVIOUS
  <2>10. total = LotsOf(execs', k)
    <3>1. PICK S : S = Of(k) \cup {x} OBVIOUS
    <3>2. S = {y \in execs' : y[1] = k} BY <1>4, <1>8, <3>1 DEF Of
    <3>3. S \in SUBSET Execution BY <1>5, <1>8, <2>2, <3>2
    <3> QED BY <2>9, <3>1, <3>2, <3>3, LotsIsSum DEF LotsOf
  <2>11. PICK v : v = ExecutedStatus(k, h.saw, total) OBVIOUS
  <2>12. v \in Status \ {"none"} /\ (total >= Abs(lots[k]) => v = "FILLED")
    BY <1>2, <2>11 DEF ExecutedStatus, Status, Terminal
  <2>13. /\ status' = IF v # h.saw THEN [status EXCEPT ![k] = v] ELSE status
         /\ over' = IF status[k] # h.saw THEN over \cup {k} ELSE over
    BY <1>8, <2>9, <2>11 DEF WriteStatus
  <2>14. SameOnRecord /\ status' \in [Keys -> Status] /\ \A j \in Keys : j # k => status'[j] = status[j]
    BY <1>2, <2>12, <2>13, StatusWritten
  <2>15. DeskTypeOK' BY <1>1, <1>8, <2>2, <2>6, <2>13, <2>14 DEF DeskTypeOK
  <2>16. OrdersInv' /\ BrokerInv' BY <1>1, <2>14, OrdersKept, BrokerKept
  <2>17. WireInv'
    <3>1. StillOnRecord BY <2>14, RecordStays
    <3> QED BY <1>1, <3>1, MessageKeys DEF WireInv, StillOnRecord
  <2>18. LedgerInv'
    <3>1. pos'.qty = pos.qty + d /\ pos'.state = IF pos.qty + d = 0 /\ pos.qty # 0 THEN "CLOSED" ELSE "OPEN" BY <2>5
    <3>2. (~off \/ op = "none") => pos'.qty = Held(execs', lots) BY <2>8, <3>1 DEF LedgerInv
    <3>3. pos'.state \in {"none", "OPEN", "CLOSED"} /\ (pos'.state = "OPEN" <=> pos'.qty # 0)
      BY <2>3, <2>4, <3>1
    <3>4. status'["flat"] = "none" <=> status["flat"] = "none" BY <2>14, KeyFacts DEF SameOnRecord
    <3> QED BY <1>1, <1>8, <3>2, <3>3, <3>4 DEF LedgerInv
  <2>19. DeliveryInv' BY <1>1, <1>6, <1>8 DEF DeliveryInv
  <2>20. StatusInv'
    <3>1. status'[k] = "FILLED" \/ k \in over' \/ ~(LotsOf(execs', k) >= Abs(lots'[k]))
      <4>1. SUFFICES ASSUME total >= Abs(lots[k]), status[k] = h.saw PROVE status'[k] = "FILLED" BY <1>1, <2>10, <2>13
      <4>2. v = "FILLED" BY <2>12, <4>1
      <4> QED BY <2>13, <4>1, <4>2 DEF DeskTypeOK
    <3>2. \A j \in Keys : j # k => LotsOf(execs', j) = LotsOf(execs, j)
      <4>1. \A j : LotsOf(execs, j) \in Nat BY SumsAreLots
      <4> QED BY <1>4, <2>7, <4>1
    <3>3. over \subseteq over' BY <2>13
    <3> QED BY <1>1, <2>14, <3>1, <3>2, <3>3 DEF StatusInv
  <2>21. FlatInv'
    <3>1. SUFFICES ASSUME op # "none", ~misled PROVE FlatInv' BY <1>1 DEF FlatInv
    <3>2. k = "flat" BY <1>4, <2>1, <3>1 DEF FlatInv
    <3>3. lots["flat"] = -snap /\ snap # 0 /\ snap \in Int BY <1>2, <3>1, <3>2 DEF FlatInv, DeskTypeOK
    <3>4. PICK n \in Nat : n = LotsOf(execs, "flat") BY SumsAreLots
    <3>5. LotsOf(execs', "flat") = n + (x[3] - x[2]) BY <1>4, <2>7, <3>2, <3>4
    <3>6. pos'.qty = pos.qty + d BY <2>5
    <3>7. pos.qty = Sign(snap) * (Abs(snap) - n) => pos'.qty = Sign(snap) * (Abs(snap) - LotsOf(execs', "flat"))
      <4>1. CASE snap < 0
        <5>1. Sign(snap) = -1 /\ Abs(snap) = -snap /\ Sign(-snap) = 1 BY <3>3, <4>1, SignIs
        <5>2. d = x[3] - x[2] BY <1>5, <2>3, <3>2, <3>3, <5>1
        <5> QED BY <1>5, <2>4, <3>3, <3>5, <3>6, <5>1, <5>2
      <4>2. CASE snap > 0
        <5>1. Sign(snap) = 1 /\ Abs(snap) = snap /\ Sign(-snap) = -1 BY <3>3, <4>2, SignIs
        <5>2. d = -(x[3] - x[2]) BY <1>5, <2>3, <3>2, <3>3, <5>1
        <5> QED BY <1>5, <2>4, <3>3, <3>5, <3>6, <5>1, <5>2
      <4> QED BY <3>3, <4>1, <4>2
    <3>8. status'["flat"] = "none" <=> status["flat"] = "none" BY <2>14, KeyFacts DEF SameOnRecord
    <3>9. Held(tape', lots') = 0 \/ pos'.qty = Sign(snap') * (Abs(snap') - LotsOf(execs', "flat"))
      BY <1>1, <3>1, <3>4, <3>7 DEF FlatInv
    <3>10. \A y \in tape' : y[1] # "flat" => y \in execs' BY <1>1, <1>8, <3>1 DEF FlatInv
    <3> QED BY <1>1, <3>1, <3>8, <3>9, <3>10 DEF FlatInv
  <2> QED BY <2>15, <2>16, <2>17, <2>18, <2>19, <2>20, <2>21
<1> QED
  <2>1. \/ off' = (off \/ x \notin execs) /\ UNCHANGED <<status, execs, pos, over>>
        \/ /\ ~Reused /\ ~Duplicate(x) /\ execs' = execs \cup {x}
           /\ pos' = Applied(Sign(lots[k]) * (x[3] - x[2]))
           /\ WriteStatus(k, h.saw, ExecutedStatus(k, h.saw, Lots(Of(k) \cup {x})))
           /\ UNCHANGED off
    BY <1>2, <1>4 DEF HandleExecDetails
  <2> QED BY <1>7, <1>8, <2>1

----------------------------------------------------------------------------
(* The square-off.                                                         *)

LEMMA WorkerGoesOn ==
  ASSUME DeskInv, NEW to, to \notin Sending, doing' = [doing EXCEPT ![Worker] = to], UNCHANGED <<key, placed>>, SameOnRecord
  PROVE  OrdersInv'
<1> USE DEF DeskInv
<1>1. \A t \in Senders : key[t] \in Keys BY DEF DeskTypeOK
<1>2. doing'[Worker] = to /\ \A t \in Senders : t # Worker => doing'[t] = doing[t] BY KeyFacts DEF DeskTypeOK
<1>3. \A t \in Senders : doing'[t] \in Sending => status'[key'[t]] # "none" BY <1>1, <1>2 DEF OrdersInv, SameOnRecord
<1>4. \A t \in Senders : doing'[t] \in Unsent => placed'[key'[t]] = 0 BY <1>2 DEF OrdersInv, Unsent, Sending
<1>5. \A t, u \in Senders : doing'[t] \in Unsent /\ doing'[u] \in Unsent /\ key'[t] = key'[u] => t = u
  BY <1>2 DEF OrdersInv, Unsent, Sending
<1>6. \A r \in Requests : doing'[r] = doing[r] BY <1>2, KeyFacts
<1> QED BY <1>3, <1>4, <1>5, <1>6 DEF OrdersInv, SameOnRecord

LEMMA SquareOffStep ==
  ASSUME DeskInv, SquareOff
  PROVE  DeskInv'
<1> USE DEF DeskInv
<1>1. UNCHANGED <<status, bid, lots, execs, pos, bpos, key, busy, verdict, phase, wire, book, tape,
                  placed, crashes, sweeps, over, off>>
  BY DEF SquareOff, broker, counts
<1>2. SameOnRecord BY <1>1 DEF SameOnRecord
<1>3. BrokerInv' /\ WireInv' BY <1>1, <1>2, BrokerKept, RecordStays, WireKept
<1>4. DeliveryInv' /\ StatusInv' BY <1>1, DeliveryKept, StatusKept
<1>5. CASE /\ op = "none" /\ pos.state \notin {"none", "CLOSED"}
           /\ op' = "ACTIVATING" /\ snap' = pos.qty /\ mcache' = TRUE /\ Goto(Worker, "start")
           /\ misled' = (misled \/ execs # tape)
  <2>1. doing' = [doing EXCEPT ![Worker] = "start"] BY <1>5 DEF Goto
  <2>2. DeskTypeOK'
    <3>1. snap' \in Int /\ op' \in OpState /\ misled' \in BOOLEAN BY <1>5 DEF DeskTypeOK, OpState
    <3> QED BY <1>1, <1>5, <2>1, <3>1 DEF DeskTypeOK
  <2>3. OrdersInv' BY <1>1, <1>2, <2>1, WorkerGoesOn DEF Sending
  <2>4. LedgerInv' BY <1>1, <1>5 DEF LedgerInv
  <2>5. FlatInv'
    <3>1. SUFFICES ASSUME execs = tape PROVE FlatInv' BY <1>5 DEF FlatInv
    <3>2. pos.qty \in Int /\ pos.qty # 0 /\ pos.qty = Held(execs, lots) /\ status["flat"] = "none" /\ ~verdict
      BY <1>5 DEF LedgerInv, DeskTypeOK
    <3>3. LotsOf(tape, "flat") = 0 /\ LotsOf(execs, "flat") = 0 BY <3>2, KeyFacts, NothingExecuted
    <3>4. lots["flat"] = 0 /\ Sign(lots["flat"]) = 1 BY <3>2, KeyFacts, SignIs DEF BrokerInv
    <3>5. pos.qty = Sign(pos.qty) * (Abs(pos.qty) - 0)
      <4>1. CASE pos.qty < 0
        <5>1. Sign(pos.qty) = -1 /\ Abs(pos.qty) = -pos.qty BY <3>2, <4>1, SignIs
        <5> QED BY <3>2, <5>1
      <4>2. CASE pos.qty >= 0
        <5>1. Sign(pos.qty) = 1 /\ Abs(pos.qty) = pos.qty BY <3>2, <4>2, SignIs
        <5> QED BY <3>2, <5>1
      <4> QED BY <3>2, <4>1, <4>2
    <3>6. Held(tape, lots) = pos.qty + Sign(lots["flat"]) * LotsOf(tape, "flat") BY <3>1, <3>2, <3>3, <3>4
    <3> QED BY <1>1, <1>5, <3>1, <3>2, <3>3, <3>5, <3>6 DEF FlatInv
  <2> QED BY <1>3, <1>4, <2>2, <2>3, <2>4, <2>5
<1>6. CASE op \in Active /\ ~mcache /\ mcache' = TRUE /\ UNCHANGED <<op, snap, doing, misled>>
  <2>1. DeskTypeOK' BY <1>1, <1>6 DEF DeskTypeOK
  <2>2. OrdersInv' /\ LedgerInv' /\ FlatInv' BY <1>1, <1>2, <1>6, OrdersKept, LedgerKept, FlatKept
  <2> QED BY <1>3, <1>4, <2>1, <2>2
<1> QED BY <1>5, <1>6 DEF SquareOff

(* The task of the square-off is at work.                                  *)
LEMMA WorkerAtWork ==
  ASSUME DeskInv, doing[Worker] # "idle"
  PROVE  op # "none"
BY DEF DeskInv, LedgerInv

LEMMA StartStep ==
  ASSUME DeskInv, StartFlatten
  PROVE  DeskInv'
<1> USE DEF DeskInv
<1>1. /\ UNCHANGED <<status, bid, lots, execs, pos, snap, bpos, key, busy, mcache, verdict, phase, wire, book, tape,
                     placed, crashes, sweeps, over, off, misled>>
      /\ doing[Worker] = "start"
  BY DEF StartFlatten, broker, counts, notes
<1>2. PICK to \in {"close", "idle"} : /\ doing' = [doing EXCEPT ![Worker] = to]
                                      /\ op' = op \/ op' = "FLATTENING"
  BY DEF StartFlatten, Goto
<1>3. SameOnRecord /\ op # "none" BY <1>1, WorkerAtWork DEF SameOnRecord
<1>4. DeskTypeOK' BY <1>1, <1>2 DEF DeskTypeOK, OpState
<1>5. OrdersInv' BY <1>1, <1>2, <1>3, WorkerGoesOn DEF Sending
<1>6. BrokerInv' /\ WireInv' BY <1>1, <1>3, BrokerKept, RecordStays, WireKept
<1>7. DeliveryInv' /\ StatusInv' BY <1>1, DeliveryKept, StatusKept
<1>8. LedgerInv' BY <1>1, <1>2, <1>3 DEF LedgerInv
<1>9. FlatInv' BY <1>1, <1>2, <1>3 DEF FlatInv
<1> QED BY <1>4, <1>5, <1>6, <1>7, <1>8, <1>9

LEMMA CloseStep ==
  ASSUME DeskInv, CloseOrder
  PROVE  DeskInv'
<1> USE DEF DeskInv
<1>1. /\ UNCHANGED <<bid, execs, pos, op, snap, bpos, key, busy, mcache, verdict, phase, wire, book, tape,
                     placed, crashes, sweeps, over, off, misled>>
      /\ doing[Worker] = "close"
  BY DEF CloseOrder, broker, counts, notes
<1>2. op # "none" /\ key[Worker] = "flat" /\ "flat" \in Keys /\ Worker \in Senders
  BY <1>1, WorkerAtWork, KeyFacts DEF OrdersInv
<1>3. CASE pos.state = "CLOSED" \/ pos.qty = 0 \/ status["flat"] # "none"
  <2>1. UNCHANGED <<status, lots>> /\ doing' = [doing EXCEPT ![Worker] = "recon"] BY <1>3 DEF CloseOrder, Goto
  <2>2. SameOnRecord BY <2>1 DEF SameOnRecord
  <2>3. DeskTypeOK' BY <1>1, <2>1 DEF DeskTypeOK
  <2>4. OrdersInv' BY <1>1, <2>1, <2>2, WorkerGoesOn DEF Sending
  <2>5. BrokerInv' /\ WireInv' BY <1>1, <2>1, <2>2, BrokerKept, RecordStays, WireKept
  <2>6. DeliveryInv' /\ StatusInv' /\ FlatInv' BY <1>1, <2>1, <2>2, DeliveryKept, StatusKept, FlatKept
  <2>7. LedgerInv' BY <1>1, <1>2, <2>1 DEF LedgerInv
  <2> QED BY <2>3, <2>4, <2>5, <2>6, <2>7
<1>4. CASE ~(pos.state = "CLOSED" \/ pos.qty = 0 \/ status["flat"] # "none")
  <2>1. PICK n \in Int \ {0} : n = -pos.qty BY <1>4 DEF DeskTypeOK
  <2>2. /\ status' = [status EXCEPT !["flat"] = "PENDING_SUBMIT"] /\ lots' = [lots EXCEPT !["flat"] = n]
        /\ doing' = [doing EXCEPT ![Worker] = "token"] /\ status["flat"] = "none"
    BY <1>4, <2>1 DEF CloseOrder, Goto
  <2>3. OrdersInv' /\ BrokerInv' /\ StatusInv' /\ Held(tape, lots') = Held(tape, lots) /\ Held(execs, lots') = Held(execs, lots)
    BY <1>1, <1>2, <2>2, RowCreated
  <2>4. DeskTypeOK'
    <3>1. "PENDING_SUBMIT" \in Status BY DEF Status
    <3> QED BY <1>1, <1>2, <2>2, <3>1 DEF DeskTypeOK
  <2>5. StillOnRecord BY <2>2 DEF StillOnRecord, DeskTypeOK
  <2>6. WireInv' /\ DeliveryInv' BY <1>1, <2>5, WireKept, DeliveryKept
  <2>7. LedgerInv' BY <1>1, <1>2, <2>3 DEF LedgerInv
  <2>8. FlatInv'
    <3>1. SUFFICES ASSUME ~misled PROVE FlatInv' BY <1>1 DEF FlatInv
    <3>2. LotsOf(tape, "flat") = 0 /\ LotsOf(execs, "flat") = 0 BY <1>2, <2>2, NothingExecuted
    <3>3. lots["flat"] = 0 /\ Sign(lots["flat"]) = 1 BY <1>2, <2>2, SignIs DEF BrokerInv
    <3>4. snap \in Int /\ snap # 0 /\ Held(tape, lots) = snap BY <1>2, <3>1, <3>2, <3>3 DEF FlatInv, DeskTypeOK
    <3>5. pos.qty = Sign(snap) * (Abs(snap) - 0) BY <1>2, <3>1, <3>2, <3>4 DEF FlatInv
    <3>6. pos.qty = snap
      <4>1. CASE snap < 0
        <5>1. Sign(snap) = -1 /\ Abs(snap) = -snap BY <3>4, <4>1, SignIs
        <5> QED BY <3>4, <3>5, <5>1
      <4>2. CASE snap >= 0
        <5>1. Sign(snap) = 1 /\ Abs(snap) = snap BY <3>4, <4>2, SignIs
        <5> QED BY <3>4, <3>5, <5>1
      <4> QED BY <3>4, <4>1, <4>2
    <3>7. lots'["flat"] = -snap BY <1>2, <2>1, <2>2, <3>6 DEF DeskTypeOK
    <3>8. Sign(lots'["flat"]) * 0 = 0
      <4>1. Sign(-snap) \in Int BY <3>4, SignIs
      <4> QED BY <3>7, <4>1
    <3>9. Held(tape', lots') = snap' + Sign(lots'["flat"]) * LotsOf(tape', "flat") BY <1>1, <2>3, <3>2, <3>4, <3>8
    <3> QED BY <1>1, <1>2, <2>3, <3>1, <3>4, <3>7, <3>9 DEF FlatInv
  <2> QED BY <2>3, <2>4, <2>6, <2>7, <2>8
<1> QED BY <1>3, <1>4

(* All of the snapshot executed by the close order is all there was.       *)
LEMMA AllClosed ==
  ASSUME DeskInv, op # "none", ~misled, LotsOf(execs, "flat") >= Abs(snap)
  PROVE  Held(tape, lots) = 0
<1> USE DEF DeskInv
<1>1. snap \in Int /\ snap # 0 /\ "flat" \in Keys /\ lots["flat"] \in Int BY KeyFacts DEF FlatInv, DeskTypeOK
<1>2. /\ LotsOf(execs, "flat") \in Nat /\ LotsOf(tape, "flat") \in Nat /\ LotsOf(execs, "flat") <= LotsOf(tape, "flat")
      /\ LotsOf(tape, "flat") <= Abs(lots["flat"])
  BY <1>1, SumsAreLots DEF BrokerInv
<1>3. Abs(snap) \in Nat \ {0} BY <1>1, SignIs
<1>4. status["flat"] # "none" BY <1>1, <1>2, <1>3, NothingExecuted
<1>5. lots["flat"] = -snap BY <1>4 DEF FlatInv
<1>6. Held(tape, lots) = snap + Sign(-snap) * LotsOf(tape, "flat") BY <1>5 DEF FlatInv
<1>7. CASE snap < 0
  <2>1. Abs(snap) = -snap /\ Abs(-snap) = -snap /\ Sign(-snap) = 1 BY <1>1, <1>7, SignIs
  <2>2. LotsOf(tape, "flat") = -snap BY <1>1, <1>2, <1>5, <2>1
  <2> QED BY <1>1, <1>6, <2>1, <2>2
<1>8. CASE snap > 0
  <2>1. Abs(snap) = snap /\ Abs(-snap) = snap /\ Sign(-snap) = -1 BY <1>1, <1>8, SignIs
  <2>2. LotsOf(tape, "flat") = snap BY <1>1, <1>2, <1>5, <2>1
  <2> QED BY <1>1, <1>6, <2>1, <2>2
<1> QED BY <1>1, <1>7, <1>8

(* A position of zero says so too.                                         *)
LEMMA NothingLeft ==
  ASSUME DeskInv, op # "none", ~misled, pos.qty = 0
  PROVE  Held(tape, lots) = 0
<1> USE DEF DeskInv
<1>1. SUFFICES ASSUME 0 = Sign(snap) * (Abs(snap) - LotsOf(execs, "flat")) PROVE Held(tape, lots) = 0 BY DEF FlatInv
<1>2. snap \in Int /\ LotsOf(execs, "flat") \in Nat BY SumsAreLots DEF DeskTypeOK
<1>3. LotsOf(execs, "flat") = Abs(snap)
  <2>1. CASE snap < 0
    <3>1. Sign(snap) = -1 /\ Abs(snap) = -snap BY <1>2, <2>1, SignIs
    <3> QED BY <1>1, <1>2, <3>1
  <2>2. CASE snap >= 0
    <3>1. Sign(snap) = 1 /\ Abs(snap) = snap BY <1>2, <2>2, SignIs
    <3> QED BY <1>1, <1>2, <3>1
  <2> QED BY <1>2, <2>1, <2>2
<1>4. Abs(snap) \in Nat BY <1>2, SignIs
<1> QED BY <1>2, <1>3, <1>4, AllClosed

(* What a reconciliation writes.                                           *)
LEMMA ReconcileWrites ==
  ASSUME DeskInv, Reconcile
  PROVE  /\ pos' \in [qty : Int, state : PosState] /\ verdict' \in BOOLEAN /\ misled' \in BOOLEAN /\ (misled => misled')
         /\ ~misled' => /\ Held(tape, lots) = 0 \/ pos'.qty = Sign(snap) * (Abs(snap) - LotsOf(execs, "flat"))
                        /\ verdict' => Held(tape, lots) = 0
<1> USE DEF DeskInv
<1>1. op # "none" BY WorkerAtWork DEF Reconcile
<1>2. /\ Lots(Of("flat")) = LotsOf(execs, "flat") /\ LotsOf(execs, "flat") \in Nat
      /\ Net = Held(tape, lots) /\ snap \in Int /\ pos \in [qty : Int, state : PosState] /\ misled \in BOOLEAN
  BY SumsAreLots DEF DeskTypeOK
<1>3. Sign(snap) \in Int /\ Abs(snap) \in Int /\ Sign(snap) * (Abs(snap) - LotsOf(execs, "flat")) \in Int
  <2>1. Sign(snap) \in {1, -1} /\ Abs(snap) \in Int BY <1>2, SignIs
  <2>2. PICK c, y : c = Sign(snap) /\ y = Abs(snap) - LotsOf(execs, "flat") OBVIOUS
  <2>3. y \in Int /\ c \in {1, -1} BY <1>2, <2>1, <2>2
  <2>4. c * y \in Int BY <2>3
  <2> QED BY <2>1, <2>2, <2>4
<1>4. /\ \A n \in Int : \A ps \in {"CLOSED", "CLOSING", "PENDING_PRICE"} :
           Written(n, ps) \in [qty : Int, state : PosState] /\ Written(n, ps).qty = n
      BY DEF Written, PosState
<1>5. ~misled => Held(tape, lots) = 0 \/ pos.qty = Sign(snap) * (Abs(snap) - LotsOf(execs, "flat")) BY <1>1 DEF FlatInv
<1>6. /\ Reduced \in [qty : Int, state : PosState]
      /\ ~misled => Held(tape, lots) = 0 \/ Reduced.qty = Sign(snap) * (Abs(snap) - LotsOf(execs, "flat"))
  <2>1. CASE Closing /\ Of("flat") # {}
    <3>1. Reduced = Written(Sign(snap) * (Abs(snap) - LotsOf(execs, "flat")), "CLOSING") BY <1>2, <2>1 DEF Reduced
    <3> QED BY <1>3, <1>4, <3>1
  <2>2. CASE ~(Closing /\ Of("flat") # {})
    <3>1. Reduced = pos BY <2>2 DEF Reduced
    <3> QED BY <1>2, <1>5, <3>1
  <2> QED BY <2>1, <2>2
<1>7. CASE Reused /\ Settled(pos, TRUE) /\ UNCHANGED misled
  <2>1. pos' = pos /\ verdict' = TRUE /\ pos.qty = 0 BY <1>7 DEF Settled, Reused
  <2>2. ~misled => Held(tape, lots) = 0 BY <1>1, <2>1, NothingLeft
  <2> QED BY <1>2, <1>7, <2>1, <2>2
<1>8. CASE ClosedByOrder /\ Settled(Written(0, "CLOSED"), TRUE) /\ UNCHANGED misled
  <2>1. pos' = Written(0, "CLOSED") /\ verdict' = TRUE BY <1>8 DEF Settled
  <2>2. LotsOf(execs, "flat") >= Abs(snap) BY <1>2, <1>8 DEF ClosedByOrder
  <2>3. ~misled => Held(tape, lots) = 0 BY <1>1, <2>2, AllClosed
  <2> QED BY <1>2, <1>4, <1>8, <2>1, <2>3
<1>9. CASE AwaitsPrice /\ Settled(Written(pos.qty, "PENDING_PRICE"), FALSE) /\ UNCHANGED misled
  <2>1. pos' = Written(pos.qty, "PENDING_PRICE") /\ verdict' = FALSE BY <1>9 DEF Settled
  <2>2. pos.qty \in Int BY <1>2
  <2> QED BY <1>2, <1>4, <1>5, <1>9, <2>1, <2>2
<1>10. CASE Settled(Reduced, FALSE) /\ UNCHANGED misled
  <2>1. pos' = Reduced /\ verdict' = FALSE BY <1>10 DEF Settled
  <2> QED BY <1>2, <1>6, <1>10, <2>1
<1>11. CASE Settled(Written(0, "CLOSED"), TRUE) /\ misled' = (misled \/ Net # 0)
  <2>1. pos' = Written(0, "CLOSED") /\ verdict' = TRUE BY <1>11 DEF Settled
  <2>2. misled' \in BOOLEAN /\ (misled => misled') /\ (~misled' => Net = 0) BY <1>11
  <2>3. pos' \in [qty : Int, state : PosState] BY <1>4, <2>1
  <2> QED BY <1>2, <2>1, <2>2, <2>3
<1> QED BY <1>7, <1>8, <1>9, <1>10, <1>11 DEF Reconcile

LEMMA ReconcileStep ==
  ASSUME DeskInv, Reconcile
  PROVE  DeskInv'
<1> USE DEF DeskInv
<1>1. /\ UNCHANGED <<status, bid, lots, execs, op, snap, bpos, key, busy, mcache, phase, wire, book, tape,
                     placed, crashes, sweeps, over>>
      /\ doing[Worker] = "recon" /\ doing' = [doing EXCEPT ![Worker] = "final"]
      /\ off' = (off \/ pos'.qty # pos.qty)
  BY DEF Reconcile, Goto, broker, counts
<1>2. /\ pos' \in [qty : Int, state : PosState] /\ verdict' \in BOOLEAN /\ misled' \in BOOLEAN /\ (misled => misled')
      /\ ~misled' => /\ Held(tape, lots) = 0 \/ pos'.qty = Sign(snap) * (Abs(snap) - LotsOf(execs, "flat"))
                     /\ verdict' => Held(tape, lots) = 0
  BY ReconcileWrites
<1>3. SameOnRecord /\ op # "none" BY <1>1, WorkerAtWork DEF SameOnRecord
<1>4. DeskTypeOK'
  <2>1. off' \in BOOLEAN BY <1>1
  <2> QED BY <1>1, <1>2, <2>1 DEF DeskTypeOK
<1>5. OrdersInv' BY <1>1, <1>3, WorkerGoesOn DEF Sending
<1>6. BrokerInv' /\ WireInv' /\ StatusInv' BY <1>1, <1>3, BrokerKept, RecordStays, WireKept, StatusKept
<1>7. DeliveryInv' BY <1>1 DEF DeliveryInv, OnItsWay
<1>8. LedgerInv' BY <1>1, <1>3 DEF LedgerInv
<1>9. FlatInv' BY <1>1, <1>2, <1>3 DEF FlatInv
<1> QED BY <1>4, <1>5, <1>6, <1>7, <1>8, <1>9

LEMMA FinalizeStep ==
  ASSUME DeskInv, Finalize
  PROVE  DeskInv'
<1> USE DEF DeskInv
<1>1. /\ UNCHANGED <<status, bid, lots, execs, pos, snap, bpos, key, busy, phase, wire, book, tape,
                     placed, crashes, sweeps, over, off, misled>>
      /\ doing[Worker] = "final" /\ doing' = [doing EXCEPT ![Worker] = "idle"]
      /\ mcache' = (mcache /\ ~verdict) /\ verdict' = FALSE
      /\ op' = IF verdict \/ op = "COMPLETE" THEN "COMPLETE" ELSE "UNRESOLVED"
  BY DEF Finalize, Goto, broker, counts, notes
<1>2. SameOnRecord /\ op # "none" /\ op' # "none" BY <1>1, WorkerAtWork DEF SameOnRecord
<1>3. DeskTypeOK'
  <2>1. mcache' \in BOOLEAN /\ op' \in OpState BY <1>1 DEF OpState
  <2> QED BY <1>1, <2>1 DEF DeskTypeOK
<1>4. OrdersInv' BY <1>1, <1>2, WorkerGoesOn DEF Sending
<1>5. BrokerInv' /\ WireInv' BY <1>1, <1>2, BrokerKept, RecordStays, WireKept
<1>6. DeliveryInv' /\ StatusInv' BY <1>1, DeliveryKept, StatusKept
<1>7. LedgerInv' BY <1>1, <1>2 DEF LedgerInv
<1>8. FlatInv' BY <1>1, <1>2 DEF FlatInv
<1> QED BY <1>3, <1>4, <1>5, <1>6, <1>7, <1>8

LEMMA SweepStep ==
  ASSUME DeskInv, Sweep
  PROVE  DeskInv'
<1> USE DEF DeskInv
<1>1. /\ UNCHANGED <<status, bid, lots, execs, pos, op, snap, key, busy, mcache, verdict, phase, wire, book, tape,
                     placed, crashes, over, off, misled>>
      /\ op # "none" /\ crashes + sweeps < MaxDisturbances /\ sweeps' = sweeps + 1 /\ bpos' = Net
      /\ doing' = doing \/ doing' = [doing EXCEPT ![Worker] = "recon"]
  BY DEF Sweep, Goto, broker, notes
<1>2. SameOnRecord BY <1>1 DEF SameOnRecord
<1>3. DeskTypeOK'
  <2>1. bpos' \in Int BY <1>1, SumsAreLots
  <2>2. sweeps' \in 0 .. MaxDisturbances
    <3>1. crashes \in Nat /\ sweeps \in Nat BY DEF DeskTypeOK
    <3> QED BY <1>1, <3>1, ConstantsAssumption
  <2> QED BY <1>1, <2>1, <2>2 DEF DeskTypeOK
<1>4. OrdersInv'
  <2>1. CASE doing' = doing BY <1>1, <1>2, <2>1, OrdersKept
  <2>2. CASE doing' = [doing EXCEPT ![Worker] = "recon"] BY <1>1, <1>2, <2>2, WorkerGoesOn DEF Sending
  <2> QED BY <1>1, <2>1, <2>2
<1>5. BrokerInv' /\ WireInv' BY <1>1, <1>2, BrokerKept, RecordStays, WireKept
<1>6. DeliveryInv' /\ StatusInv' /\ FlatInv' BY <1>1, <1>2, DeliveryKept, StatusKept, FlatKept
<1>7. LedgerInv' BY <1>1 DEF LedgerInv
<1> QED BY <1>3, <1>4, <1>5, <1>6, <1>7

----------------------------------------------------------------------------
(* Crash and restart.                                                      *)

LEMMA DeskCrashStep ==
  ASSUME DeskInv, Crash
  PROVE  DeskInv'
<1> USE DEF DeskInv
<1>1. /\ UNCHANGED <<status, bid, lots, execs, pos, op, snap, bpos, key, book, tape, placed, sweeps, over, off, misled>>
      /\ crashes + sweeps < MaxDisturbances /\ crashes' = crashes + 1 /\ phase' = "down"
      /\ doing' = [s \in Senders |-> "idle"]
      /\ busy' = {} /\ wire' = <<>> /\ mcache' = FALSE /\ verdict' = FALSE
  BY DEF Crash, tables, notes
<1>2. SameOnRecord BY <1>1 DEF SameOnRecord
<1>3. wire' \in Seq(Message) /\ Range(wire') = {} BY <1>1, RangeOfNone
<1>4. DeskTypeOK'
  <2>1. crashes' \in 0 .. MaxDisturbances
    <3>1. crashes \in Nat /\ sweeps \in Nat BY DEF DeskTypeOK
    <3> QED BY <1>1, <3>1, ConstantsAssumption
  <2> QED BY <1>1, <1>3, <2>1 DEF DeskTypeOK
<1>5. \A s \in Senders : doing'[s] = "idle" BY <1>1
<1>6. OrdersInv' BY <1>1, <1>5, KeyFacts DEF OrdersInv, AtDesk, Unsent, Sending
<1>7. BrokerInv' /\ StatusInv' BY <1>1, <1>2, BrokerKept, StatusKept
<1>8. WireInv' BY <1>1, <1>3 DEF WireInv
<1>9. DeliveryInv' BY <1>1 DEF DeliveryInv
<1>10. LedgerInv' BY <1>1, <1>5, KeyFacts DEF LedgerInv
<1>11. FlatInv' BY <1>1 DEF FlatInv
<1> QED BY <1>4, <1>6, <1>7, <1>8, <1>9, <1>10, <1>11

LEMMA DeskRestartStep ==
  ASSUME DeskInv, Restart
  PROVE  DeskInv'
<1> USE DEF DeskInv
<1>1. /\ UNCHANGED <<status, bid, lots, execs, pos, op, snap, bpos, key, busy, verdict, wire, book, tape,
                     placed, crashes, sweeps, over, off, misled>>
      /\ phase = "down" /\ phase' = "boot" /\ mcache' = (op \in Active)
  BY DEF Restart, tables, broker, counts, notes
<1>2. doing' = doing \/ (op # "none" /\ \E to \in {"start", "recon"} : doing' = [doing EXCEPT ![Worker] = to])
  <2>1. CASE op \in Active
    <3>1. doing' = [doing EXCEPT ![Worker] = "start"] /\ op # "none" BY <2>1 DEF Restart, Goto, Active
    <3> QED BY <3>1
  <2>2. CASE op \notin Active /\ op = "UNRESOLVED"
    <3>1. doing' = [doing EXCEPT ![Worker] = "recon"] /\ op # "none" BY <2>2 DEF Restart, Goto
    <3> QED BY <3>1
  <2>3. CASE op \notin Active /\ op # "UNRESOLVED"
    <3>1. doing' = doing BY <2>3 DEF Restart
    <3> QED BY <3>1
  <2> QED BY <2>1, <2>2, <2>3
<1>3. SameOnRecord /\ StillOnRecord BY <1>1 DEF SameOnRecord, StillOnRecord
<1>4. DeskTypeOK'
  <2>1. mcache' \in BOOLEAN BY <1>1
  <2> QED BY <1>1, <1>2, <2>1 DEF DeskTypeOK
<1>5. OrdersInv'
  <2>1. CASE doing' = doing BY <1>1, <1>3, <2>1, OrdersKept
  <2>2. ASSUME NEW to \in {"start", "recon"}, doing' = [doing EXCEPT ![Worker] = to] PROVE OrdersInv'
    BY <1>1, <1>3, <2>2, WorkerGoesOn DEF Sending
  <2> QED BY <1>2, <2>1, <2>2
<1>6. BrokerInv' /\ StatusInv' /\ FlatInv' BY <1>1, <1>3, BrokerKept, StatusKept, FlatKept
<1>7. WireInv' BY <1>1 DEF WireInv
<1>8. DeliveryInv' BY <1>1 DEF DeliveryInv
<1>9. LedgerInv' BY <1>1, <1>2 DEF LedgerInv
<1> QED BY <1>4, <1>5, <1>6, <1>7, <1>8, <1>9

(* What the broker answers at start: its working orders, and all it has    *)
(* executed.                                                               *)
LEMMA ReplayFacts ==
  ASSUME DeskInv, ScanUnresolved
  PROVE  /\ wire' \in Seq(Message)
         /\ \A m \in Range(wire') : status[m[1]] # "none" /\ (m[2] = "exec" => ExecOf(m) \in tape)
         /\ \A x \in tape : \E m \in Range(wire') : m[2] = "exec" /\ ExecOf(m) = x
<1> USE DEF DeskInv
<1>1. PICK W, A, B : /\ W = {k \in Keys : book[k] = "working"}
                     /\ A = {<<k, "SUBMITTED", 0, 0>> : k \in W} /\ B = {<<x[1], "exec", x[2], x[3]>> : x \in tape}
  OBVIOUS
<1>2. wire' = SetToSeq(A) \o SetToSeq(B) BY <1>1 DEF ScanUnresolved
<1>3. IsFiniteSet(A)
  <2>1. IsFiniteSet({"entry", "exit", "flat"})
    <3>1. IsFiniteSet({"entry"}) BY FS_Singleton
    <3>2. IsFiniteSet({"entry"} \cup {"exit"}) BY <3>1, FS_AddElement
    <3>3. IsFiniteSet(({"entry"} \cup {"exit"}) \cup {"flat"}) BY <3>2, FS_AddElement
    <3>4. ({"entry"} \cup {"exit"}) \cup {"flat"} = {"entry", "exit", "flat"} OBVIOUS
    <3> QED BY <3>3, <3>4
  <2>2. W \in SUBSET {"entry", "exit", "flat"} BY <1>1, ConstantsAssumption DEF Keys
  <2>3. IsFiniteSet(W) BY <2>1, <2>2, FS_Subset
  <2>4. PICK f : f = [k \in W |-> <<k, "SUBMITTED", 0, 0>>] OBVIOUS
  <2>5. f \in Surjection(W, A) BY <1>1, <2>4 DEF Surjection
  <2> QED BY <2>3, <2>5, FS_Surjection
<1>4. IsFiniteSet(B)
  <2>1. PICK f : f = [x \in tape |-> <<x[1], "exec", x[2], x[3]>>] OBVIOUS
  <2>2. f \in Surjection(tape, B) BY <1>1, <2>1 DEF Surjection
  <2>3. IsFiniteSet(tape) BY DEF DeskTypeOK
  <2> QED BY <2>2, <2>3, FS_Surjection
<1>5. A \subseteq Message BY <1>1 DEF Message, Reports
<1>6. ASSUME NEW x \in tape
      PROVE  /\ <<x[1], "exec", x[2], x[3]>> \in Message
             /\ ExecOf(<<x[1], "exec", x[2], x[3]>>) = x /\ status[x[1]] # "none"
  <2>1. x \in Execution BY DEF DeskTypeOK
  <2>2. x[1] \in Keys /\ x[2] \in Nat /\ x[3] \in Nat /\ x = <<x[1], x[2], x[3]>> BY <2>1, ExecutionFacts
  <2>3. <<x[1], "exec", x[2], x[3]>> \in Message BY <2>2 DEF Message
  <2>4. ExecOf(<<x[1], "exec", x[2], x[3]>>) = x BY <2>2 DEF ExecOf
  <2> QED BY <2>2, <2>3, <2>4 DEF BrokerInv
<1>7. B \subseteq Message BY <1>1, <1>6
<1>8. PICK a, b : a = SetToSeq(A) /\ b = SetToSeq(B) OBVIOUS
<1>9. a \in Seq(A) /\ Range(a) = A /\ b \in Seq(B) /\ Range(b) = B BY <1>3, <1>4, <1>8, RangeOfListing
<1>10. a \in Seq(Message) /\ b \in Seq(Message) BY <1>5, <1>7, <1>9
<1>11. wire' \in Seq(Message) /\ Range(wire') = A \cup B BY <1>2, <1>8, <1>9, <1>10, RangeOfConcat
<1>12. \A m \in A : status[m[1]] # "none" /\ m[2] # "exec" BY <1>1 DEF BrokerInv
<1>13. \A m \in B : status[m[1]] # "none" /\ ExecOf(m) \in tape BY <1>1, <1>6
<1>14. ASSUME NEW x \in tape PROVE \E m \in B : m[2] = "exec" /\ ExecOf(m) = x
  <2>1. PICK m : m = <<x[1], "exec", x[2], x[3]>> OBVIOUS
  <2>2. m \in B /\ m[2] = "exec" /\ ExecOf(m) = x BY <1>1, <1>6, <2>1
  <2> QED BY <2>2
<1> QED BY <1>11, <1>12, <1>13, <1>14

LEMMA ScanStep ==
  ASSUME DeskInv, ScanUnresolved
  PROVE  DeskInv'
<1> USE DEF DeskInv
<1>1. /\ UNCHANGED <<bid, lots, execs, pos, op, snap, bpos, doing, key, busy, mcache, verdict, book, tape,
                     placed, crashes, sweeps, over, off, misled>>
      /\ phase = "boot" /\ phase' = "up" /\ status' = [k \in Keys |-> UnresolvedStatus(k)]
  BY DEF ScanUnresolved, counts, notes
<1>2. /\ wire' \in Seq(Message)
      /\ \A m \in Range(wire') : status[m[1]] # "none" /\ (m[2] = "exec" => ExecOf(m) \in tape)
      /\ \A x \in tape : \E m \in Range(wire') : m[2] = "exec" /\ ExecOf(m) = x
  BY ReplayFacts
<1>3. \A k \in Keys : status'[k] = IF status[k] = "PENDING_SUBMIT" THEN "ERROR" ELSE status[k]
  BY <1>1 DEF UnresolvedStatus
<1>4. SameOnRecord BY <1>3 DEF SameOnRecord
<1>5. status' \in [Keys -> Status]
  <2>1. \A k \in Keys : status'[k] \in Status BY <1>3 DEF DeskTypeOK, Status, Terminal
  <2>2. status' = [k \in Keys |-> status'[k]] BY <1>1
  <2> QED BY <2>1, <2>2
<1>6. DeskTypeOK' BY <1>1, <1>2, <1>5 DEF DeskTypeOK
<1>7. OrdersInv' /\ BrokerInv' BY <1>1, <1>4, OrdersKept, BrokerKept
<1>8. LedgerInv' /\ FlatInv' BY <1>1, <1>4, LedgerKept, FlatKept
<1>9. busy' = {} BY <1>1 DEF WireInv
<1>10. WireInv'
  <2>1. \A m \in Range(wire') : m[1] \in Keys
    <3>1. \A m \in Message : m[1] \in Keys BY DEF Message
    <3>2. \A m \in Range(wire') : m \in Message BY <1>2 DEF Range
    <3> QED BY <3>1, <3>2
  <2> QED BY <1>1, <1>2, <1>4, <1>9, <2>1 DEF WireInv, SameOnRecord
<1>11. DeliveryInv' BY <1>1, <1>2 DEF DeliveryInv, OnItsWay
<1>12. StatusInv' BY <1>1, <1>3, <1>4 DEF StatusInv, SameOnRecord
<1> QED BY <1>6, <1>7, <1>8, <1>10, <1>11, <1>12

(* The invariant holds in every reachable state.                           *)
LEMMA DeskKept == DeskInv /\ [DeskNext]_deskVars => DeskInv'
<1> SUFFICES ASSUME DeskInv, [DeskNext]_deskVars PROVE DeskInv' OBVIOUS
<1>1. CASE Desk
  <2>1. ASSUME NEW r \in Requests, CreateOrder(r) PROVE DeskInv' BY <2>1, CreateStep
  <2>2. ASSUME NEW r \in Requests, NEW k \in Tickets, SubmitOrder(r, k) PROVE DeskInv' BY <2>2, SubmitStep
  <2>3. ASSUME NEW s \in Senders, AllocateOrderId(s) PROVE DeskInv' BY <2>3, AllocateStep
  <2>4. ASSUME NEW s \in Senders, PlaceOrder(s) PROVE DeskInv' BY <2>4, DeskPlaceStep
  <2>5. ASSUME NEW s \in Senders, RecordSubmission(s) PROVE DeskInv' BY <2>5, RecordStep
  <2>6. ASSUME NEW k \in Keys, CancelUnsent(k) PROVE DeskInv' BY <2>6, CancelStep
  <2> QED BY <1>1, <2>1, <2>2, <2>3, <2>4, <2>5, <2>6 DEF Desk
<1>2. CASE BrokerSide
  <2>1. ASSUME NEW k \in Keys, BrokerEnds(k) PROVE DeskInv' BY <2>1, EndStep
  <2>2. ASSUME NEW k \in Keys, NEW n \in 1 .. Abs(lots[k]), BrokerExecutes(k, n) PROVE DeskInv' BY <2>2, ExecuteStep
  <2> QED BY <1>2, <2>1, <2>2 DEF BrokerSide
<1>3. CASE Callbacks
  <2>1. CASE Dispatch BY <2>1, DispatchStep
  <2>2. ASSUME NEW h \in busy, HandleReport(h) PROVE DeskInv' BY <2>2, ReportStep
  <2>3. ASSUME NEW h \in busy, HandleExecDetails(h) PROVE DeskInv' BY <2>3, ExecDetailsStep
  <2> QED BY <1>3, <2>1, <2>2, <2>3 DEF Callbacks
<1>4. CASE Flatten
  BY <1>4, SquareOffStep, StartStep, CloseStep, ReconcileStep, FinalizeStep, SweepStep DEF Flatten
<1>5. CASE Crash BY <1>5, DeskCrashStep
<1>6. CASE Restart BY <1>6, DeskRestartStep
<1>7. CASE ScanUnresolved BY <1>7, ScanStep
<1>8. CASE UNCHANGED deskVars
  <2> USE DEF DeskInv
  <2>1. UNCHANGED <<status, bid, lots, execs, pos, op, snap, bpos, doing, key, busy, mcache, verdict, phase, wire, book, tape,
                    placed, crashes, sweeps, over, off, misled>>
    BY <1>8 DEF deskVars, tables, memory, broker, counts, notes
  <2>2. SameOnRecord BY <2>1 DEF SameOnRecord
  <2>3. DeskTypeOK' BY <2>1 DEF DeskTypeOK
  <2>4. OrdersInv' /\ BrokerInv' /\ WireInv' BY <2>1, <2>2, OrdersKept, BrokerKept, RecordStays, WireKept
  <2>5. LedgerInv' /\ DeliveryInv' BY <2>1, <2>2, LedgerKept, DeliveryKept
  <2>6. StatusInv' /\ FlatInv' BY <2>1, <2>2, StatusKept, FlatKept
  <2> QED BY <2>3, <2>4, <2>5, <2>6
<1> QED BY <1>1, <1>2, <1>3, <1>4, <1>5, <1>6, <1>7, <1>8 DEF DeskNext

LEMMA DeskAlways == DeskSpec => []DeskInv
BY DeskStarts, DeskKept, PTL DEF DeskSpec

(* Whatever is retried, raced or restarted, an idempotency key is one      *)
(* placeOrder call at most, and the row is committed before the call.      *)
THEOREM OneOrder == DeskSpec => []OneOrderPerKey
<1>1. DeskInv => OneOrderPerKey BY DEF DeskInv, OrdersInv, OneOrderPerKey
<1> QED BY <1>1, DeskAlways, PTL

(* When every callback is handled all executions are on record.            *)
LEMMA QuietIsBooked ==
  ASSUME DeskInv, Quiet, ~off
  PROVE  execs = tape
<1>1. Range(wire) = {} BY RangeOfNone DEF Quiet
<1> QED BY <1>1 DEF DeskInv, Quiet, DeliveryInv, OnItsWay, DeskTypeOK

(* The manual position is what the broker executed for the trade, each     *)
(* execution counted once, when every callback is handled and none was     *)
(* refused or overwritten by the square-off.                               *)
THEOREM LedgerMatches == DeskSpec => []LedgerMatchesFills
<1>1. DeskInv => LedgerMatchesFills
  <2>1. SUFFICES ASSUME DeskInv, Quiet, ~off PROVE pos.qty = Net BY DEF LedgerMatchesFills
  <2>2. execs = tape BY <2>1, QuietIsBooked
  <2>3. Net = Held(tape, lots) BY <2>1, SumsAreLots DEF DeskInv
  <2> QED BY <2>1, <2>2, <2>3 DEF DeskInv, LedgerInv
<1> QED BY <1>1, DeskAlways, PTL

(* An order executed in full reads FILLED when every callback is handled,  *)
(* also after a crash that made it ERROR.                                  *)
THEOREM FilledRecorded == DeskSpec => []FilledIsRecorded
<1>1. DeskInv => FilledIsRecorded
  <2>1. SUFFICES ASSUME DeskInv, NEW k \in Keys, Quiet, ~off, lots[k] # 0, Filled(k) = Abs(lots[k])
                 PROVE  status[k] = "FILLED" \/ k \in over
    BY DEF FilledIsRecorded
  <2>2. execs = tape BY <2>1, QuietIsBooked
  <2>3. LotsOf(execs, k) = Abs(lots[k]) /\ LotsOf(execs, k) \in Nat BY <2>1, <2>2, SumsAreLots DEF DeskInv
  <2>4. status[k] # "none" BY <2>1 DEF DeskInv, BrokerInv
  <2> QED BY <2>1, <2>3, <2>4 DEF DeskInv, StatusInv
<1> QED BY <1>1, DeskAlways, PTL

(* A square-off that ends COMPLETE leaves nothing of the trade at the      *)
(* broker, unless it was misled.                                           *)
THEOREM ManualCompleteFlat == DeskSpec => []CompleteIsFlat
<1>1. DeskInv => CompleteIsFlat BY SumsAreLots DEF DeskInv, FlatInv, CompleteIsFlat, Active
<1> QED BY <1>1, DeskAlways, PTL

(* How a terminal status may change.                                       *)
LeavesTerminal(k) ==
  \/ k \in over'
  \/ status'[k] = "FILLED" /\ Lots(Of(k)') = Abs(lots[k])
  \/ status[k] = "FILLED" /\ status'[k] = "PARTIALLY_FILLED" /\ Lots(Of(k)') < Abs(lots[k])

(* Of an execution's handler: the lots on record never exceed the order's. *)
LEMMA ExecDetailsTerminal ==
  ASSUME DeskInv, NEW h \in busy, HandleExecDetails(h), NEW k \in Keys, status[k] \in Terminal, status'[k] # status[k]
  PROVE  LeavesTerminal(k)
<1> USE DEF DeskInv
<1>1. PICK j \in Keys : j = h.msg[1] /\ h.saw \in Status BY HandlerFacts
<1>2. PICK x : x = ExecOf(h.msg) OBVIOUS
<1>3. x = <<j, h.msg[3], h.msg[4]>> /\ x \in tape /\ x[1] = j BY <1>1, <1>2 DEF ExecOf, WireInv, HandleExecDetails
<1>4. /\ execs' = execs \cup {x} /\ tape' = tape /\ lots' = lots
      /\ WriteStatus(j, h.saw, ExecutedStatus(j, h.saw, Lots(Of(j) \cup {x})))
  BY <1>1, <1>3 DEF HandleExecDetails, broker
<1>5. k = j /\ status' = [status EXCEPT ![k] = ExecutedStatus(k, h.saw, Lots(Of(k) \cup {x}))]
  BY <1>4 DEF WriteStatus, DeskTypeOK
<1>6. SUFFICES ASSUME status[k] = h.saw PROVE LeavesTerminal(k)
  BY <1>4, <1>5 DEF WriteStatus, LeavesTerminal
<1>7. Of(k)' = Of(k) \cup {x} BY <1>3, <1>4, <1>5 DEF Of
<1>8. PICK S : S = {y \in execs' : y[1] = k} OBVIOUS
<1>9. execs' \in SUBSET tape /\ tape \in SUBSET Execution /\ IsFiniteSet(tape) BY <1>3, <1>4 DEF DeskTypeOK
<1>10. Of(k)' = S /\ S \in SUBSET Execution BY <1>8, <1>9 DEF Of
<1>11. PICK total : total = Lots(S) OBVIOUS
<1>12. total = LotsOf(execs', k) BY <1>8, <1>10, <1>11, LotsIsSum DEF LotsOf
<1>13. total \in Nat /\ total <= Abs(lots[k]) /\ Abs(lots[k]) \in Nat
  <2>1. PICK E : E = execs' OBVIOUS
  <2>2. E \in SUBSET Execution /\ IsFiniteSet(E) BY <1>9, <2>1, FS_Subset
  <2>3. LotsOf(E, k) \in Nat BY <2>2, LotsOfType
  <2>4. LotsOf(E, k) <= LotsOf(tape, k) BY <1>9, <2>1, LotsOfPart
  <2>5. LotsOf(tape, k) \in Nat /\ LotsOf(tape, k) <= Abs(lots[k]) BY SumsAreLots DEF BrokerInv
  <2>6. Abs(lots[k]) \in Nat BY SignIs DEF DeskTypeOK
  <2> QED BY <1>12, <2>1, <2>3, <2>4, <2>5, <2>6
<1>14. status'[k] = ExecutedStatus(k, h.saw, total) BY <1>5, <1>7, <1>10, <1>11 DEF DeskTypeOK
<1>15. Lots(Of(k)') = total BY <1>10, <1>11
<1>16. CASE total >= Abs(lots[k])
  <2>1. status'[k] = "FILLED" BY <1>14, <1>16 DEF ExecutedStatus
  <2>2. total = Abs(lots[k]) BY <1>13, <1>16
  <2> QED BY <1>15, <2>1, <2>2 DEF LeavesTerminal
<1>17. CASE ~(total >= Abs(lots[k]))
  <2>1. status[k] = "FILLED" /\ status'[k] = "PARTIALLY_FILLED" BY <1>6, <1>14, <1>17 DEF ExecutedStatus, Terminal
  <2>2. total < Abs(lots[k]) BY <1>13, <1>17
  <2> QED BY <1>15, <2>1, <2>2 DEF LeavesTerminal
<1> QED BY <1>16, <1>17

LEMMA TerminalStep ==
  ASSUME DeskInv, [DeskNext]_deskVars, NEW k \in Keys, status[k] \in Terminal, status'[k] # status[k]
  PROVE  LeavesTerminal(k)
<1> USE DEF DeskInv
<1>1. status[k] # "none" /\ status[k] # "PENDING_SUBMIT" BY DEF Terminal
<1>2. status' # status OBVIOUS
<1>3. CASE Desk
  <2>1. ASSUME NEW r \in Requests, CreateOrder(r) PROVE LeavesTerminal(k) BY <1>1, <2>1 DEF CreateOrder, DeskTypeOK
  <2>2. ASSUME NEW r \in Requests, NEW j \in Tickets, SubmitOrder(r, j) PROVE LeavesTerminal(k)
    BY <1>2, <2>2 DEF SubmitOrder, tables
  <2>3. ASSUME NEW s \in Senders, AllocateOrderId(s) PROVE LeavesTerminal(k) BY <1>2, <2>3 DEF AllocateOrderId
  <2>4. ASSUME NEW s \in Senders, PlaceOrder(s) PROVE LeavesTerminal(k) BY <1>2, <2>4 DEF PlaceOrder, tables
  <2>5. ASSUME NEW s \in Senders, RecordSubmission(s) PROVE LeavesTerminal(k)
    <3>1. key[s] = k BY <2>5 DEF RecordSubmission, DeskTypeOK
    <3>2. k \in over' BY <1>1, <2>5, <3>1 DEF RecordSubmission
    <3> QED BY <3>2 DEF LeavesTerminal
  <2>6. ASSUME NEW j \in Keys, CancelUnsent(j) PROVE LeavesTerminal(k) BY <1>1, <2>6 DEF CancelUnsent, DeskTypeOK
  <2> QED BY <1>3, <2>1, <2>2, <2>3, <2>4, <2>5, <2>6 DEF Desk
<1>4. CASE BrokerSide BY <1>2, <1>4 DEF BrokerSide, BrokerEnds, BrokerExecutes, tables
<1>5. CASE Callbacks
  <2>1. CASE Dispatch BY <1>2, <2>1 DEF Dispatch, tables
  <2>2. ASSUME NEW h \in busy, HandleReport(h) PROVE LeavesTerminal(k)
    <3>1. PICK v : v = ReportedStatus(h.saw, h.msg[2]) OBVIOUS
    <3>2. WriteStatus(h.msg[1], h.saw, v) BY <2>2, <3>1 DEF HandleReport
    <3>3. h.msg[1] = k /\ v # h.saw BY <3>2 DEF WriteStatus, DeskTypeOK
    <3>4. status[k] # h.saw BY <3>1, <3>3 DEF ReportedStatus
    <3>5. k \in over' BY <3>2, <3>3, <3>4 DEF WriteStatus
    <3> QED BY <3>5 DEF LeavesTerminal
  <2>3. ASSUME NEW h \in busy, HandleExecDetails(h) PROVE LeavesTerminal(k) BY <2>3, ExecDetailsTerminal
  <2> QED BY <1>5, <2>1, <2>2, <2>3 DEF Callbacks
<1>6. CASE Flatten
  <2>1. CASE CloseOrder BY <1>1, <2>1 DEF CloseOrder, DeskTypeOK
  <2>2. CASE SquareOff \/ StartFlatten \/ Reconcile \/ Finalize \/ Sweep
    BY <1>2, <2>2 DEF SquareOff, StartFlatten, Reconcile, Finalize, Sweep
  <2> QED BY <1>6, <2>1, <2>2 DEF Flatten
<1>7. CASE Crash \/ Restart BY <1>2, <1>7 DEF Crash, Restart, tables
<1>8. CASE ScanUnresolved BY <1>1, <1>8 DEF ScanUnresolved, UnresolvedStatus
<1>9. CASE UNCHANGED deskVars BY <1>2, <1>9 DEF deskVars, tables
<1> QED BY <1>3, <1>4, <1>5, <1>6, <1>7, <1>8, <1>9 DEF DeskNext

(* A terminal status is left only for FILLED on the execution of all of    *)
(* the order, from FILLED while executions of it are missing, or under the *)
(* pen of a writer that had read an earlier status.                        *)
THEOREM TerminalStaysFinal == DeskSpec => TerminalIsFinal
<1>1. DeskInv /\ [DeskNext]_deskVars =>
        [\A k \in Keys : status[k] \in Terminal /\ status'[k] # status[k] =>
           \/ k \in over'
           \/ status'[k] = "FILLED" /\ Lots(Of(k)') = Abs(lots[k])
           \/ status[k] = "FILLED" /\ status'[k] = "PARTIALLY_FILLED" /\ Lots(Of(k)') < Abs(lots[k])]_deskVars
  BY TerminalStep DEF LeavesTerminal
<1> QED BY <1>1, DeskAlways, PTL DEF DeskSpec, TerminalIsFinal

=============================================================================
