----------------------- MODULE CriticalRecovery_proofs -----------------------
(***************************************************************************)
(* Proofs about the CRITICAL latch and the recovery of what a basket left  *)
(* at the broker, for any set of baskets and every bound.                  *)
(***************************************************************************)
EXTENDS CriticalRecovery, TLAPS

----------------------------------------------------------------------------
(* The latch.  What covers a CRITICAL basket in the end covers it from the *)
(* moment a coroutine or a clear_critical is committed to a change of the  *)
(* latch: the two intermediate states, "failing" and "discard", have a     *)
(* claim of their own, and so has the startup before it serves.            *)

Serving == phase = "up"

(* execute at work on a basket: no task of it has been scheduled yet.      *)
AtWork == {"none", "gated", "executing", "unwinding", "compensating", "failing"}

LatchTyped ==
  /\ row \in [Baskets -> RowState] /\ run \in [Baskets -> RunPc] /\ task \in [Baskets -> TaskPc]
  /\ gap \subseteq Baskets /\ phase \in {"up", "down", "hydrated"}

(* Only a process that serves has coroutines and tasks.                    *)
IdleWhenDown ==
  ~Serving => /\ \A b \in Baskets : run[b] \in {"none", "done"} /\ task[b] = "none"
              /\ phase = "down" => ~latch

RowOfARun == \A b \in Baskets : row[b] # "none" => run[b] \notin {"none", "gated"}

TaskAfterRun == \A b \in Baskets : task[b] # "none" => run[b] \notin AtWork

(* enqueue_all_critical finds no basket that is still being executed: the  *)
(* reapers' two minutes are longer than the startup.                       *)
EnqueuedAfterRun ==
  Serving /\ enqueue => \A b \in Critical : run[b] \notin AtWork

CoveredByGap == phase # "down" /\ ~latch => Critical \subseteq gap

CoveredFailing ==
  Serving /\ ~latch => \A b \in Baskets : run[b] = "failing" => b \in gap

CoveredClear == ClearUnderWay => Critical \subseteq gap

LatchInv == /\ LatchTyped /\ IdleWhenDown /\ RowOfARun /\ TaskAfterRun /\ EnqueuedAfterRun
            /\ CoveredByGap /\ CoveredFailing /\ CoveredClear

(* A step that leaves these alone changes nothing here.                    *)
latchVars == <<row, run, task, latch, gap, phase, enqueue>>

USE DEF LatchTyped, IdleWhenDown, RowOfARun, TaskAfterRun, EnqueuedAfterRun, CoveredByGap,
        CoveredFailing, CoveredClear, Serving, AtWork, Critical, ClearUnderWay

LEMMA LatchInit == Init => LatchInv
BY DEF Init, LatchInv, RowState, RunPc, TaskPc

LEMMA LatchStep ==
  ASSUME LatchInv, [Next]_vars
  PROVE  LatchInv'
<1> USE DEF LatchInv
<1>1. ASSUME NEW b \in Baskets, PassGate(b) PROVE LatchInv'
  BY <1>1 DEF PassGate, RunStep, rowVars, bootVars, RunPc
<1>2. ASSUME NEW b \in Baskets, StartBasket(b) PROVE LatchInv'
  BY <1>2 DEF StartBasket, RunStep, SetRow, bootVars, RunPc, RowState
<1>3. ASSUME NEW b \in Baskets, Settle(b) PROVE LatchInv'
  BY <1>3 DEF Settle, RunStep, SetRow, bootVars, RunPc, RowState
<1>4. ASSUME NEW b \in Baskets, BeginUnwind(b) PROVE LatchInv'
  BY <1>4 DEF BeginUnwind, RunStep, SetRow, bootVars, RunPc, RowState
<1>5. ASSUME NEW b \in Baskets, Compensate(b) PROVE LatchInv'
  BY <1>5 DEF Compensate, RunStep, rowVars, bootVars, RunPc
<1>6. ASSUME NEW b \in Baskets, Compensated(b) PROVE LatchInv'
  BY <1>6 DEF Compensated, RunStep, SetRow, bootVars, RunPc, RowState
<1>7. ASSUME NEW b \in Baskets, FailCritical(b) PROVE LatchInv'
  BY <1>7 DEF FailCritical, RunStep, rowVars, bootVars, RunPc
<1>8. ASSUME NEW b \in Baskets, PersistCritical(b) PROVE LatchInv'
  BY <1>8 DEF PersistCritical, RunStep, SetRow, bootVars, RunPc, RowState
<1>9. ASSUME NEW b \in Baskets, ScheduleRecovery(b) PROVE LatchInv'
  BY <1>9 DEF ScheduleRecovery, RunStep, Schedule, rowVars, bootVars, RunPc, TaskPc
<1>10. ASSUME NEW b \in Baskets, ExecuteRaises(b) PROVE LatchInv'
  BY <1>10 DEF ExecuteRaises, RunStep, rowVars, bootVars, RunPc
<1>11. ASSUME NEW b \in Baskets, BeginAttempt(b) PROVE LatchInv'
  BY <1>11 DEF BeginAttempt, TaskStep, bootVars, TaskPc
<1>12. ASSUME NEW b \in Baskets, Collect(b) PROVE LatchInv'
  BY <1>12 DEF Collect, TaskStep, rowVars, bootVars, TaskPc
<1>13. ASSUME NEW b \in Baskets, FetchSnapshot(b) PROVE LatchInv'
  BY <1>13 DEF FetchSnapshot, TaskStep, rowVars, bootVars, TaskPc
<1>14. ASSUME NEW b \in Baskets, StoreSnapshot(b) PROVE LatchInv'
  BY <1>14 DEF StoreSnapshot, TaskStep, rowVars, bootVars, TaskPc
<1>15. ASSUME NEW b \in Baskets, FlattenLine(b) PROVE LatchInv'
  BY <1>15 DEF FlattenLine, TaskStep, rowVars, bootVars, TaskPc
<1>16. ASSUME NEW b \in Baskets, FlattenReturns(b) PROVE LatchInv'
  BY <1>16 DEF FlattenReturns, TaskStep, rowVars, bootVars, TaskPc
<1>17. ASSUME NEW b \in Baskets, VerifyFlat(b) PROVE LatchInv'
  BY <1>17 DEF VerifyFlat, TaskStep, rowVars, bootVars, TaskPc
<1>18. ASSUME NEW b \in Baskets, MarkFailed(b) PROVE LatchInv'
  BY <1>18 DEF MarkFailed, Again, TaskStep, bootVars, TaskPc
<1>19. ASSUME NEW b \in Baskets, ClearCritical(b) PROVE LatchInv'
  BY <1>19 DEF ClearCritical, TaskStep, SetRow, bootVars, TaskPc, RowState
<1>20. ASSUME NEW b \in Baskets, Discard(b) PROVE LatchInv'
  BY <1>20 DEF Discard, TaskStep, rowVars, bootVars, TaskPc
<1>21. ASSUME NEW b \in Baskets, TaskRaises(b) PROVE LatchInv'
  BY <1>21 DEF TaskRaises, Again, TaskStep, rowVars, bootVars, TaskPc
<1>22. ASSUME NEW b \in Baskets, ReapStaleExecuting(b) PROVE LatchInv'
  BY <1>22 DEF ReapStaleExecuting, Escalate, SetRow, bootVars, RowState
<1>23. ASSUME NEW b \in Baskets, ReapStaleOrders(b) PROVE LatchInv'
  BY <1>23 DEF ReapStaleOrders, Escalate, SetRow, bootVars, RowState
<1>24. CASE Crash
  BY <1>24 DEF Crash, rowVars, RunPc, TaskPc
<1>25. CASE Hydrate
  BY <1>25 DEF Hydrate, rowVars
<1>26. CASE RecoveryScan
  <2>1. /\ phase = "hydrated" /\ phase' = "up" /\ run' = run
        /\ \A b \in Baskets : run[b] \in {"none", "done"} /\ task[b] = "none"
    BY <1>26 DEF RecoveryScan
  <2>2. CASE UNCHANGED <<row, latch, task, gap>>
    BY <2>1, <2>2
  <2>3. ASSUME NEW escalated \in {{}, Partial},
               row' = [b \in Baskets |-> IF b \in escalated THEN "CRITICAL" ELSE row[b]],
               latch' = (latch \/ Critical \cup escalated # {}),
               Schedule(Critical \cup escalated), gap' = {}
        PROVE  LatchInv'
    <3>1. escalated \subseteq Baskets /\ \A b \in escalated : row[b] # "none"
      BY DEF Partial, Incomplete
    <3>2. Critical' = Critical \cup escalated
      BY <2>3, <3>1
    <3>3. LatchTyped' /\ IdleWhenDown' /\ RowOfARun' /\ CoveredClear'
      BY <2>1, <2>3, <3>1 DEF Schedule, RowState, TaskPc
    <3>4. TaskAfterRun' /\ EnqueuedAfterRun' /\ CoveredFailing'
      BY <2>1, <2>3, <3>1 DEF Schedule
    <3>5. CoveredByGap'
      BY <2>3, <3>2
    <3> QED BY <3>3, <3>4, <3>5
  <2> QED BY <1>26, <2>2, <2>3 DEF RecoveryScan
<1>27. CASE EnqueueAllCritical
  BY <1>27 DEF EnqueueAllCritical, Schedule, rowVars, TaskPc
<1>28. CASE UNCHANGED latchVars
  BY <1>28 DEF latchVars
<1>29. CASE \E b \in Baskets : BrokerTrades(b) \/ BrokerEnds(b) \/ PersistSnapshot(b)
  BY <1>28, <1>29 DEF BrokerTrades, Trades, BrokerEnds, PersistSnapshot, latchVars, rowVars, bootVars
<1>30. CASE SweepStore \/ \E lost \in SUBSET Baskets : SweepFetch(lost)
  BY <1>28, <1>30 DEF SweepStore, SweepFetch, latchVars, rowVars, bootVars
<1>31. CASE UNCHANGED vars
  BY <1>28, <1>31 DEF vars, latchVars, rowVars, bootVars
<1> QED
  BY <1>1, <1>2, <1>3, <1>4, <1>5, <1>6, <1>7, <1>8, <1>9, <1>10, <1>11, <1>12, <1>13, <1>14, <1>15, <1>16, <1>17, <1>18, <1>19, <1>20, <1>21, <1>22, <1>23, <1>24, <1>25, <1>26, <1>27, <1>29, <1>30, <1>31 DEF Next, Execute, Recover, Boot

(* While a basket is CRITICAL the latch is up, except in the gap: an OPEN  *)
(* of the strategy is let through only when every CRITICAL basket was      *)
(* escalated by a reaper with the latch down, was overtaken by             *)
(* clear_critical, or could not be read at startup.                        *)
THEOREM LatchGap == Spec => []LatchGapIsKnown
<1>1. LatchInv => LatchGapIsKnown
  BY DEF LatchInv, LatchGapIsKnown
<1> QED BY <1>1, LatchInit, LatchStep, PTL DEF Spec

----------------------------------------------------------------------------
(* The recovery of a basket.  Unless its history says otherwise, a basket  *)
(* whose attempt is past its reading of the ledger has orders that ended,  *)
(* and what the flatten has at work cannot cross zero: flat is final.      *)

FlatTyped ==
  /\ seen \in [Baskets -> Int] /\ live \in [Baskets -> Nat] /\ traded \in [Baskets -> Nat]
  /\ sell \in [Baskets -> Nat] /\ buy \in [Baskets -> Nat] /\ pos \in [Baskets -> Int]
  /\ table \in [Baskets -> Int] /\ got \in [Baskets \cup {Reconciler} -> [Baskets -> Int]]
  /\ unclear \subseteq Baskets

(* What no order of the basket ever traded, nobody has ever seen.          *)
NothingFromNothing ==
  \A b \in Baskets : traded[b] = 0 =>
    /\ sell[b] = 0 /\ buy[b] = 0 /\ pos[b] = 0 /\ table[b] = 0
    /\ \A x \in Baskets \cup {Reconciler} : got[x][b] = 0

Attempt == {"before", "storing", "flatten", "flattening", "after", "restoring", "verify",
            "unflat", "clear"}

OrdersEnded(b) == live[b] = 0 /\ seen[b] = traded[b] /\ run[b] = "done"

NothingWorks(b) == sell[b] = 0 /\ buy[b] = 0

TowardsFlat(b) ==
  \/ NothingWorks(b)
  \/ buy[b] = 0 /\ sell[b] <= pos[b]
  \/ sell[b] = 0 /\ buy[b] <= - pos[b]

AttemptIsSound ==
  \A b \in Baskets : b \notin unclear =>
    /\ task[b] \in Attempt => OrdersEnded(b) /\ TowardsFlat(b)
    /\ task[b] \in {"before", "storing", "flatten"} => NothingWorks(b)
    /\ task[b] = "flatten" => table[b] = pos[b]
    /\ task[b] = "verify" /\ table[b] = 0 => pos[b] = 0
    /\ task[b] = "clear" => pos[b] = 0

RecoveredHasNoTask ==
  \A b \in Baskets : row[b] = "RECOVERED" => task[b] \in {"none", "discard", "start"}

RecoveredStaysFlat ==
  \A b \in Baskets : row[b] = "RECOVERED" /\ b \notin unclear =>
    OrdersEnded(b) /\ NothingWorks(b) /\ pos[b] = 0

FlatInv == /\ FlatTyped /\ NothingFromNothing /\ AttemptIsSound /\ RecoveredHasNoTask
           /\ RecoveredStaysFlat

USE DEF FlatTyped, NothingFromNothing, AttemptIsSound, RecoveredHasNoTask, RecoveredStaysFlat,
        Attempt, OrdersEnded, NothingWorks, TowardsFlat

LEMMA NothingLeft ==
  ASSUME NEW l \in Nat, NEW s \in Nat, NEW u \in Nat, ~(l + s + u > 0)
  PROVE  l = 0 /\ s = 0 /\ u = 0
OBVIOUS

LEMMA SettledOrders ==
  ASSUME FlatTyped, NEW b \in Baskets, ~Unsettled(b), run[b] \notin AtWork
  PROVE  OrdersEnded(b) /\ NothingWorks(b)
<1>1. PICK l, s, u \in Nat : l = live[b] /\ s = sell[b] /\ u = buy[b]
  OBVIOUS
<1>2. ~(l + s + u > 0)
  BY <1>1 DEF Unsettled
<1>3. seen[b] = traded[b] /\ run[b] = "done"
  BY DEF Unsettled
<1>4. l = 0 /\ s = 0 /\ u = 0
  BY <1>2, NothingLeft
<1> QED BY <1>1, <1>3, <1>4

LEMMA FlatInit == Init => FlatInv
BY DEF Init, FlatInv, NoLines

LEMMA FlatStep ==
  ASSUME LatchInv, FlatInv, [Next]_vars
  PROVE  FlatInv'
<1> USE DEF LatchInv, FlatInv
<1>1. ASSUME NEW b \in Baskets, PassGate(b) PROVE FlatInv'
  BY <1>1 DEF PassGate, RunStep, rowVars, ledgerVars, brokerVars, snapVars
<1>2. ASSUME NEW b \in Baskets, StartBasket(b) PROVE FlatInv'
  BY CriticalAssumption, <1>2 DEF StartBasket, RunStep, SetRow, snapVars
<1>3. ASSUME NEW b \in Baskets, Settle(b) PROVE FlatInv'
  BY <1>3 DEF Settle, RunStep, SetRow, WriteLedger, brokerVars, snapVars
<1>4. ASSUME NEW b \in Baskets, BeginUnwind(b) PROVE FlatInv'
  BY <1>4 DEF BeginUnwind, RunStep, SetRow, ledgerVars, brokerVars, snapVars
<1>5. ASSUME NEW b \in Baskets, Compensate(b) PROVE FlatInv'
  BY <1>5 DEF Compensate, RunStep, WriteLedger, rowVars, snapVars
<1>6. ASSUME NEW b \in Baskets, Compensated(b) PROVE FlatInv'
  BY <1>6 DEF Compensated, RunStep, SetRow, ledgerVars, brokerVars, snapVars
<1>7. ASSUME NEW b \in Baskets, FailCritical(b) PROVE FlatInv'
  BY <1>7 DEF FailCritical, RunStep, rowVars, ledgerVars, brokerVars, snapVars
<1>8. ASSUME NEW b \in Baskets, PersistCritical(b) PROVE FlatInv'
  BY <1>8 DEF PersistCritical, RunStep, SetRow, ledgerVars, brokerVars, snapVars
<1>9. ASSUME NEW b \in Baskets, ScheduleRecovery(b) PROVE FlatInv'
  BY <1>9 DEF ScheduleRecovery, RunStep, WriteLedger, Schedule, rowVars, brokerVars, snapVars
<1>10. ASSUME NEW b \in Baskets, ExecuteRaises(b) PROVE FlatInv'
  BY <1>10 DEF ExecuteRaises, RunStep, rowVars, ledgerVars, brokerVars, snapVars
<1>11. ASSUME NEW b \in Baskets, BeginAttempt(b) PROVE FlatInv'
  <2>1. PICK to \in {"collect", "none"} :
          /\ task[b] = "start" /\ task' = [task EXCEPT ![b] = to]
          /\ to = "collect" => row[b] = "CRITICAL"
    BY <1>11 DEF BeginAttempt, TaskStep
  <2>2. UNCHANGED <<row, run, seen, live, traded, sell, buy, pos, table, got, unclear>>
    BY <1>11 DEF BeginAttempt, ledgerVars, brokerVars, snapVars
  <2> QED BY <2>1, <2>2
<1>12. ASSUME NEW b \in Baskets, Collect(b) PROVE FlatInv'
  <2>1. task[b] = "collect" /\ task' = [task EXCEPT ![b] = IF seen[b] = 0 THEN "clear" ELSE "before"]
    BY <1>12 DEF Collect, TaskStep
  <2>2. /\ UNCHANGED <<row, run, seen, live, traded, sell, buy, pos, table, got>>
        /\ unclear' \in {unclear \cup {b}, unclear \ {b}}
    BY <1>12 DEF Collect, rowVars, ledgerVars, brokerVars, snapVars
  <2>3. run[b] \notin AtWork /\ run[b] \in RunPc
    BY <2>1
  <2>4. b \notin unclear' => OrdersEnded(b) /\ NothingWorks(b)
    <3>1. b \notin unclear' => ~Unsettled(b)
      BY <1>12 DEF Collect
    <3> QED BY <2>3, <3>1, SettledOrders
  <2>5. FlatTyped' /\ NothingFromNothing' /\ RecoveredHasNoTask' /\ RecoveredStaysFlat'
    BY <2>1, <2>2
  <2>6. AttemptIsSound'
    <3> SUFFICES ASSUME NEW c \in Baskets, c \notin unclear'
                 PROVE  /\ task'[c] \in Attempt => OrdersEnded(c) /\ TowardsFlat(c)
                        /\ task'[c] \in {"before", "storing", "flatten"} => NothingWorks(c)
                        /\ task'[c] = "flatten" => table[c] = pos[c]
                        /\ task'[c] = "verify" /\ table[c] = 0 => pos[c] = 0
                        /\ task'[c] = "clear" => pos[c] = 0
      BY <2>2
    <3>1. CASE c # b
      BY <2>1, <2>2, <3>1
    <3>2. CASE c = b
      BY <2>1, <2>2, <2>4, <3>2
    <3> QED BY <3>1, <3>2
  <2> QED BY <2>5, <2>6
<1>13. ASSUME NEW b \in Baskets, FetchSnapshot(b) PROVE FlatInv'
  <2>1. PICK from, to :
          /\ task[b] = from /\ task' = [task EXCEPT ![b] = to]
          /\ <<from, to>> \in {<<"before", "storing">>, <<"after", "restoring">>, <<"before", "unflat">>,
                              <<"after", "unflat">>}
    BY <1>13 DEF FetchSnapshot, TaskStep
  <2>2. got' = got \/ \E lines \in {pos, NoLines} : got' = [got EXCEPT ![b] = lines]
    BY <1>13 DEF FetchSnapshot
  <2>3. UNCHANGED <<row, run, seen, live, traded, sell, buy, pos, table, unclear>>
    BY <1>13 DEF FetchSnapshot, rowVars, ledgerVars, brokerVars
  <2>4. NoLines \in [Baskets -> Int] /\ \A c \in Baskets : NoLines[c] = 0
    BY DEF NoLines
  <2>5. FlatTyped' /\ NothingFromNothing'
    <3>1. CASE got' = got
      BY <2>3, <3>1
    <3>2. ASSUME NEW lines \in {pos, NoLines}, got' = [got EXCEPT ![b] = lines]
          PROVE  FlatTyped' /\ NothingFromNothing'
      <4>1. lines \in [Baskets -> Int] /\ \A c \in Baskets : traded[c] = 0 => lines[c] = 0
        BY <2>4
      <4> QED BY <2>3, <3>2, <4>1
    <3> QED BY <2>2, <3>1, <3>2
  <2>6. AttemptIsSound'
    BY <2>1, <2>3
  <2>7. RecoveredHasNoTask' /\ RecoveredStaysFlat'
    BY <2>1, <2>3
  <2> QED BY <2>5, <2>6, <2>7
<1>14. ASSUME NEW b \in Baskets, StoreSnapshot(b) PROVE FlatInv'
  <2>1. PICK from, to :
          /\ task[b] = from /\ task' = [task EXCEPT ![b] = to]
          /\ <<from, to>> \in {<<"storing", "flatten">>, <<"restoring", "verify">>}
    BY <1>14 DEF StoreSnapshot, TaskStep
  <2>2. FlatTyped' /\ NothingFromNothing'
    BY <1>14 DEF StoreSnapshot, StoredBy, NoLines, rowVars, ledgerVars, brokerVars, snapVars
  <2>3. /\ UNCHANGED <<row, run, seen, live, traded, sell, buy, pos>> /\ unclear \subseteq unclear'
        /\ \A c \in Baskets : c \notin unclear' /\ task'[c] \in {"flatten", "verify"}
                                => table'[c] = pos[c]
    BY <1>14 DEF StoreSnapshot, StoredBy, rowVars, ledgerVars, brokerVars
  <2>4. AttemptIsSound'
    BY <2>1, <2>3
  <2>5. RecoveredHasNoTask' /\ RecoveredStaysFlat'
    BY <2>1, <2>3
  <2> QED BY <2>2, <2>4, <2>5
<1>15. ASSUME NEW b \in Baskets, FlattenLine(b) PROVE FlatInv'
  <2>1. CASE TaskStep(b, "flatten", "after") /\ UNCHANGED <<sell, buy>>
    <3>1. task[b] = "flatten" /\ task' = [task EXCEPT ![b] = "after"]
      BY <2>1 DEF TaskStep
    <3> QED BY <1>15, <2>1, <3>1 DEF FlattenLine, rowVars, ledgerVars, brokerVars, snapVars
  <2>2. CASE TaskStep(b, "flatten", "flattening") /\ table[b] > 0
    <3>1. task[b] = "flatten" /\ task' = [task EXCEPT ![b] = "flattening"]
      BY <2>2 DEF TaskStep
    <3>2. sell' = [sell EXCEPT ![b] = sell[b] + table[b]] /\ buy' = buy
      BY <1>15, <2>2 DEF FlattenLine, TaskStep
    <3> QED BY <1>15, <2>2, <3>1, <3>2 DEF FlattenLine, rowVars, ledgerVars, brokerVars, snapVars
  <2>3. CASE TaskStep(b, "flatten", "flattening") /\ table[b] < 0
    <3>1. task[b] = "flatten" /\ task' = [task EXCEPT ![b] = "flattening"]
      BY <2>3 DEF TaskStep
    <3>2. buy' = [buy EXCEPT ![b] = buy[b] - table[b]] /\ sell' = sell
      BY <1>15, <2>3 DEF FlattenLine, TaskStep
    <3> QED BY <1>15, <2>3, <3>1, <3>2 DEF FlattenLine, rowVars, ledgerVars, brokerVars, snapVars
  <2> QED BY <1>15, <2>1, <2>2, <2>3 DEF FlattenLine
<1>16. ASSUME NEW b \in Baskets, FlattenReturns(b) PROVE FlatInv'
  BY <1>16 DEF FlattenReturns, TaskStep, rowVars, ledgerVars, brokerVars, snapVars
<1>17. ASSUME NEW b \in Baskets, VerifyFlat(b) PROVE FlatInv'
  BY <1>17 DEF VerifyFlat, TaskStep, rowVars, ledgerVars, brokerVars, snapVars
<1>18. ASSUME NEW b \in Baskets, MarkFailed(b) PROVE FlatInv'
  BY <1>18 DEF MarkFailed, TaskStep, Again, ledgerVars, brokerVars, snapVars
<1>19. ASSUME NEW b \in Baskets, ClearCritical(b) PROVE FlatInv'
  BY <1>19 DEF ClearCritical, TaskStep, SetRow, ledgerVars, brokerVars, snapVars
<1>20. ASSUME NEW b \in Baskets, Discard(b) PROVE FlatInv'
  BY <1>20 DEF Discard, TaskStep, rowVars, ledgerVars, brokerVars, snapVars
<1>21. ASSUME NEW b \in Baskets, TaskRaises(b) PROVE FlatInv'
  BY <1>21 DEF TaskRaises, TaskStep, Again, rowVars, ledgerVars, brokerVars, snapVars
<1>22. ASSUME NEW b \in Baskets, ReapStaleExecuting(b) PROVE FlatInv'
  BY <1>22 DEF ReapStaleExecuting, Escalate, SetRow, ledgerVars, brokerVars, snapVars
<1>23. ASSUME NEW b \in Baskets, ReapStaleOrders(b) PROVE FlatInv'
  BY <1>23 DEF ReapStaleOrders, Escalate, SetRow, ledgerVars, brokerVars, snapVars
<1>24. ASSUME NEW b \in Baskets, BrokerTrades(b) PROVE FlatInv'
  <2>1. CASE live[b] > 0 /\ Trades(b, 1, 0, 0, 1)
    BY <2>1 DEF Trades, rowVars, ledgerVars, brokerVars, snapVars
  <2>2. CASE sell[b] > 0 /\ Trades(b, 0, 1, 0, -1)
    BY <2>2 DEF Trades, rowVars, ledgerVars, brokerVars, snapVars
  <2>3. CASE buy[b] > 0 /\ Trades(b, 0, 0, 1, 1)
    BY <2>3 DEF Trades, rowVars, ledgerVars, brokerVars, snapVars
  <2> QED BY <1>24, <2>1, <2>2, <2>3 DEF BrokerTrades
<1>25. ASSUME NEW b \in Baskets, BrokerEnds(b) PROVE FlatInv'
  <2>1. CASE live' = [live EXCEPT ![b] = 0] /\ UNCHANGED <<sell, buy>>
    BY <1>25, <2>1 DEF BrokerEnds, rowVars, ledgerVars, brokerVars, snapVars
  <2>2. CASE sell' = [sell EXCEPT ![b] = 0] /\ buy' = [buy EXCEPT ![b] = 0] /\ UNCHANGED live
    BY <1>25, <2>2 DEF BrokerEnds, rowVars, ledgerVars, brokerVars, snapVars
  <2> QED BY <1>25, <2>1, <2>2 DEF BrokerEnds
<1>26. ASSUME NEW b \in Baskets, PersistSnapshot(b) PROVE FlatInv'
  BY <1>26 DEF PersistSnapshot, WriteLedger, rowVars, brokerVars, snapVars
<1>27. CASE Crash
  BY <1>27 DEF Crash, NoLines, rowVars, ledgerVars, brokerVars
<1>28. CASE Hydrate
  BY <1>28 DEF Hydrate, rowVars, ledgerVars, brokerVars, snapVars
<1>29. CASE RecoveryScan
  BY <1>29 DEF RecoveryScan, Schedule, Incomplete, Partial, ledgerVars, brokerVars, snapVars
<1>30. CASE EnqueueAllCritical
  BY <1>30 DEF EnqueueAllCritical, Schedule, rowVars, ledgerVars, brokerVars, snapVars
<1>31. CASE SweepStore
  BY <1>31 DEF SweepStore, StoredBy, NoLines, rowVars, ledgerVars, brokerVars
<1>32. ASSUME NEW lost \in SUBSET Baskets, SweepFetch(lost) PROVE FlatInv'
  BY <1>32 DEF SweepFetch, rowVars, ledgerVars, brokerVars
<1>33. CASE UNCHANGED vars
  BY <1>33 DEF vars, rowVars, ledgerVars, brokerVars, snapVars
<1> QED
  BY <1>1, <1>2, <1>3, <1>4, <1>5, <1>6, <1>7, <1>8, <1>9, <1>10, <1>11, <1>12, <1>13, <1>14, <1>15, <1>16, <1>17, <1>18, <1>19, <1>20, <1>21, <1>22, <1>23, <1>24, <1>25, <1>26, <1>27, <1>28, <1>29, <1>30, <1>31, <1>32, <1>33 DEF Next, Execute, Recover, Boot

(* A basket recorded RECOVERED left no position at the broker, if its      *)
(* recovery began with its orders ended and their fills on record and went *)
(* by snapshots that showed its line: what a flatten of an earlier attempt *)
(* still has at work never takes the line through zero.                    *)
THEOREM RecoveredFlat == Spec => []RecoveredIsFlat
<1>1. FlatInv => RecoveredIsFlat
  BY DEF FlatInv, RecoveredIsFlat
<1> QED BY <1>1, LatchInit, LatchStep, FlatInit, FlatStep, PTL DEF Spec
=============================================================================
