-------------------------- MODULE CriticalRecovery --------------------------
(***************************************************************************)
(* What happens to a basket that could be neither completed nor unwound:   *)
(* its row becomes CRITICAL, an in-memory latch blocks new OPENs of the    *)
(* (account, strategy), and CriticalRecoveryService flattens what the      *)
(* basket left at the broker, verifies it and clears the latch.  Reapers   *)
(* escalate aged baskets, and a restart rebuilds the latch from the rows.  *)
(*                                                                         *)
(* One (account, strategy); a basket is an OPEN of Lots lots of a contract *)
(* of its own.  BasketExecution details what is here one step of execute.  *)
(***************************************************************************)
EXTENDS Integers, FiniteSets

CONSTANTS
  Baskets,
  Lots,          \* intended quantity of a basket
  MaxAttempts,   \* MAX_RECOVERY_ATTEMPTS (2 in the code)
  Reconciler,    \* PositionReconciler, the other writer of broker_positions
  MaxWorking,    \* bound: closing lots of one line at work at the broker
  MaxSweeps,     \* bound: sweeps of the reconciler in one behaviour
  MaxCrashes,    \* bound: process crashes in one behaviour
  MaxFaults      \* bound: database calls that raise in one behaviour

ASSUME CriticalAssumption ==
  /\ IsFiniteSet(Baskets) /\ Reconciler \notin Baskets
  /\ Lots \in Nat \ {0} /\ MaxAttempts \in Nat \ {0}
  /\ MaxWorking \in Nat /\ MaxSweeps \in Nat /\ MaxCrashes \in Nat /\ MaxFaults \in Nat

(* SETTLED stands for OPEN, CLOSED and COMPENSATED.                        *)
RowState  == {"none", "EXECUTING", "UNWINDING", "SETTLED", "CRITICAL", "RECOVERED"}
RecStatus == {"none", "RECOVERING", "FAILED", "CLEARED", "REAPED", "ORDER_REAPED"}

(* The coroutine of execute; "failing" has marked the latch and not yet    *)
(* written the row, "failed" has written it and not yet scheduled recovery.*)
RunPc  == {"none", "gated", "executing", "unwinding", "compensating", "failing", "failed",
           "done"}
TaskPc == {"none", "start", "collect", "before", "storing", "flatten", "flattening", "after",
           "restoring", "verify", "unflat", "clear", "discard"}

VARIABLES
  row, rec,            \* baskets.state, baskets.recovery_status
  seen, closed,        \* orders: fill_qty of the basket's orders, all of them terminal
  live, traded,        \* broker: working and traded lots of the basket's orders
  sell, buy, pos,      \* broker: working lots that close the line, its position
  latch,               \* (account, strategy) \in BasketCoordinator._critical
  run, task, tries,    \* execute, the recovery task and its attempt
  table, got, sweeping,\* broker_positions, snapshots not yet stored, a sweep is under way
  phase, enqueue,      \* process lifecycle; enqueue_all_critical still to come
  sweeps, crashes, faults,
  gap, unclear         \* history, see PersistCritical, Escalate, Collect, StoredBy

rowVars    == <<row, rec>>
ledgerVars == <<seen, closed>>
brokerVars == <<live, traded, sell, buy, pos>>
snapVars   == <<table, got, sweeping, sweeps>>
bootVars   == <<phase, enqueue, crashes>>
vars == <<rowVars, ledgerVars, brokerVars, latch, run, task, tries, snapVars, bootVars,
          faults, gap, unclear>>

NoLines == [b \in Baskets |-> 0]

Init ==
  /\ row = [b \in Baskets |-> "none"] /\ rec = [b \in Baskets |-> "none"]
  /\ seen = NoLines /\ closed = [b \in Baskets |-> TRUE]
  /\ live = NoLines /\ traded = NoLines /\ sell = NoLines /\ buy = NoLines /\ pos = NoLines
  /\ latch = FALSE /\ run = [b \in Baskets |-> "none"]
  /\ task = [b \in Baskets |-> "none"] /\ tries = NoLines
  /\ table = NoLines /\ got = [x \in Baskets \cup {Reconciler} |-> NoLines] /\ sweeping = FALSE
  /\ sweeps = 0
  /\ phase = "up" /\ enqueue = FALSE /\ crashes = 0 /\ faults = 0
  /\ gap = {} /\ unclear = {}

Fault == faults < MaxFaults /\ faults' = faults + 1

Critical == {b \in Baskets : row[b] = "CRITICAL"}

Abs(n) == IF n < 0 THEN -n ELSE n

----------------------------------------------------------------------------
(* execute, seen from outside.                                             *)

RunStep(b, from, to) == phase = "up" /\ run[b] = from /\ run' = [run EXCEPT ![b] = to]

SetRow(b, state) == row' = [row EXCEPT ![b] = state]

(* persist_child writes what the adapter has heard of the basket's orders. *)
WriteLedger(b) ==
  /\ seen' = [seen EXCEPT ![b] = traded[b]]
  /\ closed' = [closed EXCEPT ![b] = live[b] = 0]

(* is_open_blocked, the last thing an OPEN asks before its claim.          *)
PassGate(b) ==
  /\ ~latch /\ RunStep(b, "none", "gated")
  /\ UNCHANGED <<rowVars, ledgerVars, brokerVars, latch, task, tries, snapVars, bootVars,
                 faults, gap, unclear>>

(* The rows are written and the legs placed, or refused by the adapter.    *)
StartBasket(b) ==
  /\ RunStep(b, "gated", "executing") /\ SetRow(b, "EXECUTING")
  /\ \E lots \in {0, Lots} : /\ live' = [live EXCEPT ![b] = lots]
                             /\ closed' = [closed EXCEPT ![b] = lots = 0]
  /\ UNCHANGED <<rec, seen, traded, sell, buy, pos, latch, task, tries, snapVars, bootVars,
                 faults, gap, unclear>>

(* A complete basket: OPEN.                                                *)
Settle(b) ==
  /\ RunStep(b, "executing", "done") /\ traded[b] = Lots
  /\ SetRow(b, "SETTLED") /\ WriteLedger(b)
  /\ UNCHANGED <<rec, brokerVars, latch, task, tries, snapVars, bootVars, faults, gap, unclear>>

BeginUnwind(b) ==
  /\ RunStep(b, "executing", "unwinding") /\ SetRow(b, "UNWINDING")
  /\ UNCHANGED <<rec, ledgerVars, brokerVars, latch, task, tries, snapVars, bootVars,
                 faults, gap, unclear>>

(* The orders have ended; closing orders are sent for what has traded.     *)
(* (BasketExecution has the cancel that starves and leaves one at work.)   *)
Compensate(b) ==
  /\ RunStep(b, "unwinding", "compensating") /\ live[b] = 0 /\ WriteLedger(b)
  /\ sell' = [sell EXCEPT ![b] = traded[b]]
  /\ UNCHANGED <<rowVars, live, traded, buy, pos, latch, task, tries, snapVars, bootVars,
                 faults, gap, unclear>>

Compensated(b) ==
  /\ RunStep(b, "compensating", "done") /\ sell[b] = 0 /\ pos[b] <= 0
  /\ SetRow(b, "SETTLED")
  /\ UNCHANGED <<rec, ledgerVars, brokerVars, latch, task, tries, snapVars, bootVars,
                 faults, gap, unclear>>

(* _fail_critical up to its first await: a cancel or a compensation did    *)
(* not end in time, failed, or was withheld by the kill switch.            *)
FailCritical(b) ==
  /\ \E from \in {"unwinding", "compensating"} : RunStep(b, from, "failing")
  /\ latch' = TRUE
  /\ UNCHANGED <<rowVars, ledgerVars, brokerVars, task, tries, snapVars, bootVars,
                 faults, gap, unclear>>

(* A clear_critical has committed and has not yet dropped the latch.       *)
ClearUnderWay == \E b \in Baskets : task[b] = "discard"

PersistCritical(b) ==
  /\ RunStep(b, "failing", "failed") /\ SetRow(b, "CRITICAL")
  /\ rec' = [rec EXCEPT ![b] = "RECOVERING"]
  /\ gap' = IF ClearUnderWay THEN gap \cup {b} ELSE gap
  /\ UNCHANGED <<ledgerVars, brokerVars, latch, task, tries, snapVars, bootVars,
                 faults, unclear>>

(* schedule_recovery for each basket of a set: a task that is in flight    *)
(* already is left alone.                                                  *)
Schedule(some) ==
  LET new == {b \in some : task[b] = "none"} IN
  /\ task' = [b \in Baskets |-> IF b \in new THEN "start" ELSE task[b]]
  /\ tries' = [b \in Baskets |-> IF b \in new THEN 1 ELSE tries[b]]

ScheduleRecovery(b) ==
  /\ RunStep(b, "failed", "done") /\ WriteLedger(b) /\ Schedule({b})
  /\ UNCHANGED <<rowVars, brokerVars, latch, snapVars, bootVars, faults, gap, unclear>>

(* A database call of execute raises and nothing after it happens.         *)
ExecuteRaises(b) ==
  /\ Fault
  /\ \E from \in {"executing", "unwinding", "compensating", "failing", "failed"} :
       RunStep(b, from, "done")
  /\ UNCHANGED <<rowVars, ledgerVars, brokerVars, latch, task, tries, snapVars, bootVars,
                 gap, unclear>>

----------------------------------------------------------------------------
(* Broker, and the callbacks that write the ledger.                        *)

Trades(b, ours, closing, opening, gain) ==
  /\ live' = [live EXCEPT ![b] = @ - ours] /\ traded' = [traded EXCEPT ![b] = @ + ours]
  /\ sell' = [sell EXCEPT ![b] = @ - closing] /\ buy' = [buy EXCEPT ![b] = @ - opening]
  /\ pos' = [pos EXCEPT ![b] = @ + gain]
  /\ UNCHANGED <<rowVars, ledgerVars, latch, run, task, tries, snapVars, bootVars,
                 faults, gap, unclear>>

BrokerTrades(b) ==
  \/ live[b] > 0 /\ Trades(b, 1, 0, 0, 1)
  \/ sell[b] > 0 /\ Trades(b, 0, 1, 0, -1)
  \/ buy[b] > 0 /\ Trades(b, 0, 0, 1, 1)

(* Orders are cancelled, on request or not, or rejected.                   *)
BrokerEnds(b) ==
  /\ \/ live[b] > 0 /\ live' = [live EXCEPT ![b] = 0] /\ UNCHANGED <<sell, buy>>
     \/ sell[b] + buy[b] > 0 /\ sell' = [sell EXCEPT ![b] = 0]
          /\ buy' = [buy EXCEPT ![b] = 0] /\ UNCHANGED live
  /\ UNCHANGED <<rowVars, ledgerVars, traded, pos, latch, run, task, tries, snapVars, bootVars,
                 faults, gap, unclear>>

(* A broker callback reaches the orders table; it may also never come.     *)
PersistSnapshot(b) ==
  /\ phase = "up" /\ row[b] # "none"
  /\ seen[b] # traded[b] \/ closed[b] # (live[b] = 0)
  /\ WriteLedger(b)
  /\ UNCHANGED <<rowVars, brokerVars, latch, run, task, tries, snapVars, bootVars,
                 faults, gap, unclear>>

----------------------------------------------------------------------------
(* The reapers of the worker pool's reclaimer loop.  Neither touches the   *)
(* latch: a basket they escalate while it is down, or about to be dropped, *)
(* joins the gap.  They escalate what is two minutes old: older than a     *)
(* startup still under way.                                                *)

Escalate(b, status) ==
  /\ phase = "up" /\ (enqueue => run[b] = "done")
  /\ SetRow(b, "CRITICAL") /\ rec' = [rec EXCEPT ![b] = status]
  /\ gap' = IF latch /\ ~ClearUnderWay THEN gap ELSE gap \cup {b}
  /\ UNCHANGED <<ledgerVars, brokerVars, latch, run, task, tries, snapVars, bootVars,
                 faults, unclear>>

ReapStaleExecuting(b) == row[b] = "EXECUTING" /\ seen[b] = 0 /\ Escalate(b, "REAPED")

(* An order of the basket with no fill, one it compensates with included   *)
(* (a flatten that lingers is taken for one).                              *)
StaleOrder(b) ==
  \/ ~closed[b] /\ seen[b] = 0
  \/ run[b] \in {"compensating", "failing", "failed", "done"} /\ sell[b] > 0

ReapStaleOrders(b) ==
  /\ row[b] \notin {"none", "EXECUTING"} /\ StaleOrder(b)
  /\ <<row[b], rec[b]>> # <<"CRITICAL", "ORDER_REAPED">>
  /\ Escalate(b, "ORDER_REAPED")

----------------------------------------------------------------------------
(* CriticalRecoveryService: one task per basket.                           *)

(* A step of the task; going back to its start is the next attempt.        *)
TaskStep(b, from, to) ==
  /\ phase = "up" /\ task[b] = from /\ task' = [task EXCEPT ![b] = to]
  /\ tries' = [tries EXCEPT ![b] = CASE to = "none" -> 0 [] to = "start" -> @ + 1
                                      [] OTHER -> @]

SetRec(b, status) == rec' = [rec EXCEPT ![b] = status]

(* An attempt that fails is retried after a pause, up to the maximum.      *)
Again(b, from) == TaskStep(b, from, IF tries[b] < MaxAttempts THEN "start" ELSE "none")

(* First transaction of _recover_once.                                     *)
BeginAttempt(b) ==
  /\ \/ TaskStep(b, "start", "collect") /\ row[b] = "CRITICAL" /\ SetRec(b, "RECOVERING")
     \/ TaskStep(b, "start", "none") /\ row[b] # "CRITICAL" /\ UNCHANGED rec
  /\ UNCHANGED <<row, ledgerVars, brokerVars, latch, run, snapVars, bootVars,
                 faults, gap, unclear>>

(* Orders of the basket still at work, fills the ledger has not heard of   *)
(* or execute still running.                                               *)
Unsettled(b) ==
  \/ live[b] + sell[b] + buy[b] > 0 \/ seen[b] # traded[b]
  \/ run[b] \notin {"none", "done"}

(* _collect_leftover_legs: with no fill on record the basket is cleared    *)
(* without a look at the broker.                                           *)
Collect(b) ==
  /\ TaskStep(b, "collect", IF seen[b] = 0 THEN "clear" ELSE "before")
  /\ unclear' = IF Unsettled(b) THEN unclear \cup {b} ELSE unclear \ {b}
  /\ UNCHANGED <<rowVars, ledgerVars, brokerVars, latch, run, snapVars, bootVars,
                 faults, gap>>

(* _fetch_and_persist_snapshot: the positions arrive, or the request fails *)
(* or times out.  request_positions answers with no lines, and no timeout, *)
(* when the connection went after the caller had checked it.               *)
FetchSnapshot(b) ==
  /\ \/ /\ TaskStep(b, "before", "storing") \/ TaskStep(b, "after", "restoring")
        /\ \E lines \in {pos, NoLines} : got' = [got EXCEPT ![b] = lines]
     \/ /\ TaskStep(b, "before", "unflat") \/ TaskStep(b, "after", "unflat")
        /\ UNCHANGED got
  /\ UNCHANGED <<rowVars, ledgerVars, brokerVars, latch, run, table, sweeping, sweeps,
                 bootVars, faults, gap, unclear>>

(* replace_snapshot: the whole table.  A basket about to be flattened or   *)
(* verified whose line in it is missing or out of date will be misjudged.  *)
StoredBy(x) ==
  /\ table' = got[x] /\ got' = [got EXCEPT ![x] = NoLines]
  /\ unclear' = unclear \cup {b \in Baskets : /\ task'[b] \in {"flatten", "verify"}
                                             /\ got[x][b] # pos[b]}

StoreSnapshot(b) ==
  /\ TaskStep(b, "storing", "flatten") \/ TaskStep(b, "restoring", "verify")
  /\ StoredBy(b)
  /\ UNCHANGED <<rowVars, ledgerVars, brokerVars, latch, run, sweeping, sweeps,
                 bootVars, faults, gap>>

(* flatten_line sends the reverse of the line in the table; a flat line is *)
(* left alone, and the flatten may be refused.                             *)
FlattenLine(b) ==
  /\ \/ /\ TaskStep(b, "flatten", "flattening") /\ table[b] # 0
        /\ sell[b] + buy[b] + Abs(table[b]) <= MaxWorking
        /\ IF table[b] > 0 THEN sell' = [sell EXCEPT ![b] = @ + table[b]] /\ UNCHANGED buy
                           ELSE buy' = [buy EXCEPT ![b] = @ - table[b]] /\ UNCHANGED sell
     \/ TaskStep(b, "flatten", "after") /\ UNCHANGED <<sell, buy>>
  /\ UNCHANGED <<rowVars, ledgerVars, live, traded, pos, latch, run, snapVars, bootVars,
                 faults, gap, unclear>>

(* execute of the flatten returns: filled, given up, or with an order that *)
(* could not be cancelled.  A partial flatten that was itself compensated  *)
(* is one that traded nothing.                                             *)
FlattenReturns(b) ==
  /\ TaskStep(b, "flattening", "after")
  /\ UNCHANGED <<rowVars, ledgerVars, brokerVars, latch, run, snapVars, bootVars,
                 faults, gap, unclear>>

(* Plausible bug: an attempt that flattened without an error is trusted.   *)
VerifyFlat_Trusting(b) ==
  /\ TaskStep(b, "verify", "clear")
  /\ UNCHANGED <<rowVars, ledgerVars, brokerVars, latch, run, snapVars, bootVars,
                 faults, gap, unclear>>

(* _broker_flat_for_conids reads the table, whoever wrote it last.         *)
VerifyFlat(b) ==
  /\ TaskStep(b, "verify", IF table[b] = 0 THEN "clear" ELSE "unflat")
  /\ UNCHANGED <<rowVars, ledgerVars, brokerVars, latch, run, snapVars, bootVars,
                 faults, gap, unclear>>

MarkFailed(b) ==
  /\ Again(b, "unflat") /\ SetRec(b, "FAILED")
  /\ UNCHANGED <<row, ledgerVars, brokerVars, latch, run, snapVars, bootVars,
                 faults, gap, unclear>>

(* Plausible bug: the latch is dropped without a look at the other rows.   *)
ClearCritical_Blind(b) ==
  /\ TaskStep(b, "clear", "discard")
  /\ SetRow(b, "RECOVERED") /\ SetRec(b, "CLEARED") /\ gap' = gap \ {b}
  /\ UNCHANGED <<ledgerVars, brokerVars, latch, run, snapVars, bootVars,
                 faults, unclear>>

(* The transaction of clear_critical, and what it reads of other baskets.  *)
ClearCritical(b) ==
  /\ TaskStep(b, "clear", IF Critical \ {b} = {} THEN "discard" ELSE "none")
  /\ SetRow(b, "RECOVERED") /\ SetRec(b, "CLEARED") /\ gap' = gap \ {b}
  /\ UNCHANGED <<ledgerVars, brokerVars, latch, run, snapVars, bootVars,
                 faults, unclear>>

(* After the commit, the latch drops; a basket that has marked the latch   *)
(* and not yet written its row is overtaken.                               *)
Discard(b) ==
  /\ TaskStep(b, "discard", "none") /\ latch' = FALSE
  /\ gap' = gap \cup {x \in Baskets : run[x] = "failing"}
  /\ UNCHANGED <<rowVars, ledgerVars, brokerVars, run, snapVars, bootVars,
                 faults, unclear>>

(* A database call of an attempt raises: the attempt counts as failed.     *)
TaskRaises(b) ==
  /\ Fault
  /\ \E from \in TaskPc \ {"none", "discard", "flattening"} : Again(b, from)
  /\ UNCHANGED <<rowVars, ledgerVars, brokerVars, latch, run, snapVars, bootVars,
                 gap, unclear>>

(* A sweep of the position reconciler.  It stores what a request that timed*)
(* out has returned, too.                                                  *)
SweepFetch(lost) ==
  /\ phase = "up" /\ ~sweeping /\ sweeping' = TRUE
  /\ sweeps < MaxSweeps /\ sweeps' = sweeps + 1
  /\ got' = [got EXCEPT ![Reconciler] = [b \in Baskets |-> IF b \in lost THEN 0 ELSE pos[b]]]
  /\ UNCHANGED <<rowVars, ledgerVars, brokerVars, latch, run, task, tries, table, bootVars,
                 faults, gap, unclear>>

SweepStore ==
  /\ phase = "up" /\ sweeping /\ sweeping' = FALSE
  /\ UNCHANGED task /\ StoredBy(Reconciler)
  /\ UNCHANGED <<rowVars, ledgerVars, brokerVars, latch, run, tries, sweeps, bootVars,
                 faults, gap>>

----------------------------------------------------------------------------
(* Crash and startup.                                                      *)

Crash ==
  /\ crashes < MaxCrashes /\ crashes' = crashes + 1
  /\ phase' = "down" /\ enqueue' = FALSE /\ latch' = FALSE
  /\ run' = [b \in Baskets |-> IF run[b] = "none" THEN "none" ELSE "done"]
  /\ task' = [b \in Baskets |-> "none"] /\ tries' = NoLines
  /\ got' = [x \in DOMAIN got |-> NoLines] /\ sweeping' = FALSE
  /\ UNCHANGED <<rowVars, ledgerVars, brokerVars, table, sweeps, faults, gap, unclear>>

(* hydrate_critical_from_db, before recovery has been wired and before TWS *)
(* is connected: the latch only.  An exception is logged.                  *)
Hydrate ==
  /\ phase = "down" /\ phase' = "hydrated"
  /\ \/ latch' = (Critical # {}) /\ gap' = {} /\ UNCHANGED faults
     \/ Fault /\ gap' = Critical /\ UNCHANGED latch
  /\ UNCHANGED <<rowVars, ledgerVars, brokerVars, run, task, tries, snapVars, enqueue, crashes,
                 unclear>>

Incomplete == {b \in Baskets : row[b] \in {"EXECUTING", "UNWINDING"}}
Partial    == {b \in Incomplete : 0 < seen[b] /\ seen[b] < Lots}

(* RecoveryManager hydrates a second time when it finds a job or a basket  *)
(* to recover; once TWS is connected, partly filled baskets are escalated. *)
RecoveryScan ==
  /\ phase = "hydrated" /\ phase' = "up" /\ enqueue' = TRUE
  /\ \/ /\ \E escalated \in {{}, Partial} :
             /\ row' = [b \in Baskets |-> IF b \in escalated THEN "CRITICAL" ELSE row[b]]
             /\ latch' = (latch \/ Critical \cup escalated # {})
             /\ Schedule(Critical \cup escalated)
        /\ gap' = {} /\ UNCHANGED faults
     \/ Incomplete = {} /\ UNCHANGED <<row, latch, task, tries, faults, gap>>
     \/ Fault /\ UNCHANGED <<row, latch, task, tries, gap>>
  /\ UNCHANGED <<rec, ledgerVars, brokerVars, run, snapVars, crashes, unclear>>

(* Plausible bug: a row that says RECOVERING is taken to be in good hands. *)
EnqueueAllCritical_SkipsRecovering ==
  /\ phase = "up" /\ enqueue /\ enqueue' = FALSE
  /\ Schedule({b \in Critical : rec[b] # "RECOVERING"})
  /\ UNCHANGED <<rowVars, ledgerVars, brokerVars, latch, run, snapVars, phase, crashes,
                 faults, gap, unclear>>

(* The last step of the startup, after the pool has been started.          *)
EnqueueAllCritical ==
  /\ phase = "up" /\ enqueue /\ enqueue' = FALSE
  /\ \/ Schedule(Critical) /\ UNCHANGED faults
     \/ Fault /\ UNCHANGED <<task, tries>>
  /\ UNCHANGED <<rowVars, ledgerVars, brokerVars, latch, run, snapVars, phase, crashes,
                 gap, unclear>>

----------------------------------------------------------------------------

Execute(b) ==
  \/ PassGate(b) \/ StartBasket(b) \/ Settle(b) \/ BeginUnwind(b) \/ Compensate(b)
  \/ Compensated(b) \/ FailCritical(b) \/ PersistCritical(b) \/ ScheduleRecovery(b)

Recover(b) ==
  \/ BeginAttempt(b) \/ Collect(b) \/ FetchSnapshot(b) \/ StoreSnapshot(b) \/ FlattenLine(b)
  \/ FlattenReturns(b) \/ VerifyFlat(b) \/ MarkFailed(b) \/ ClearCritical(b)
  \/ Discard(b)

Boot == Hydrate \/ RecoveryScan \/ EnqueueAllCritical

Next ==
  \/ \E b \in Baskets :
       \/ Execute(b) \/ ExecuteRaises(b) \/ Recover(b) \/ TaskRaises(b)
       \/ BrokerTrades(b) \/ BrokerEnds(b) \/ PersistSnapshot(b)
       \/ ReapStaleExecuting(b) \/ ReapStaleOrders(b)
  \/ \E lost \in SUBSET Baskets : SweepFetch(lost)
  \/ SweepStore
  \/ Crash \/ Boot

Spec == Init /\ [][Next]_vars

(* Coroutines are scheduled, their waits time out, a dead process restarts.*)
Fairness ==
  /\ \A b \in Baskets : WF_vars(PersistCritical(b) \/ ScheduleRecovery(b)) /\ WF_vars(Recover(b))
  /\ WF_vars(Boot)

FairSpec == Spec /\ Fairness

----------------------------------------------------------------------------
(* Properties.                                                             *)

(* Every variable stays within its type.                                   *)
TypeOK ==
  /\ row \in [Baskets -> RowState] /\ rec \in [Baskets -> RecStatus]
  /\ seen \in [Baskets -> 0..Lots] /\ closed \in [Baskets -> BOOLEAN]
  /\ live \in [Baskets -> 0..Lots] /\ traded \in [Baskets -> 0..Lots]
  /\ sell \in [Baskets -> Nat] /\ buy \in [Baskets -> Nat] /\ pos \in [Baskets -> Int]
  /\ latch \in BOOLEAN /\ run \in [Baskets -> RunPc]
  /\ task \in [Baskets -> TaskPc] /\ tries \in [Baskets -> 0..MaxAttempts]
  /\ table \in [Baskets -> Int]
  /\ got \in [Baskets \cup {Reconciler} -> [Baskets -> Int]] /\ sweeping \in BOOLEAN
  /\ phase \in {"up", "down", "hydrated"} /\ enqueue \in BOOLEAN
  /\ sweeps \in 0..MaxSweeps /\ crashes \in 0..MaxCrashes /\ faults \in 0..MaxFaults
  /\ gap \subseteq Baskets /\ unclear \subseteq Baskets

(* While a basket is CRITICAL the latch is up, through recoveries of other *)
(* baskets, failures and restarts, unless a reaper escalated it with the   *)
(* latch down, clear_critical overtook it, or the startup read failed.     *)
LatchGapIsKnown == phase = "up" /\ ~latch => Critical \subseteq gap

(* A basket recorded RECOVERED has left no position at the broker, when    *)
(* its orders had ended and their fills were on record as its recovery     *)
(* began, and the snapshots it went by showed its line as it was.          *)
RecoveredIsFlat ==
  \A b \in Baskets : row[b] = "RECOVERED" /\ b \notin unclear => pos[b] = 0

(* No basket is left RECOVERING with nobody to recover it: a crash between *)
(* the row and the task, or in the middle of an attempt, is made up for.   *)
RecoveryConcludes ==
  \A b \in Baskets : (row[b] = "CRITICAL" /\ rec[b] = "RECOVERING") ~>
    (row[b] # "CRITICAL" \/ rec[b] # "RECOVERING" \/ faults > 0)

=============================================================================
