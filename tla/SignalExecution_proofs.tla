----------------------- MODULE SignalExecution_proofs -----------------------
(***************************************************************************)
(* Proofs about SignalExecution, for every set of trades, accounts and     *)
(* workers and every value of the bounds.                                  *)
(***************************************************************************)
EXTENDS SignalExecution, TLAPS

(* The types every step relies on.                                         *)
LEMMA KeyOfType ==
  ASSUME NEW j \in Jobs, NEW a \in Accounts
  PROVE  <<Signal(j), a>> \in Keys
BY DEF Jobs, Keys, Signal

USE DEF JobStatus, Claimable, ActiveLease, Terminal, ClaimState, WorkerPc, TaskState,
        InFlight, Finished, NoTasks

(* A worker that holds the domain lock or waits for it holds a job; so     *)
(* the job a step reads is a row of the table.                             *)
BusyHasJob == \A w \in Workers : pc[w] # "idle" => wjob[w] \in Jobs

TypeInv == TypeOK /\ BusyHasJob

WorkersTyped ==
  /\ pc \in [Workers -> WorkerPc] /\ wjob \in [Workers -> Jobs \cup {NoJob}]
  /\ lost \in [Workers -> BOOLEAN] /\ verdict \in [Workers -> JobStatus]
  /\ task \in [Workers -> [Accounts -> TaskState]]
  /\ BusyHasJob

(* A worker that gives a job up keeps the worker variables typed ...       *)
LEMMA IdleTyped ==
  ASSUME TypeInv, NEW w \in Workers, BackToIdle(w)
  PROVE  WorkersTyped'
BY DEF TypeInv, TypeOK, BusyHasJob, BackToIdle, WorkersTyped

(* ... and so does one that has decided which status to write.             *)
LEMMA DecideTyped ==
  ASSUME TypeInv, NEW w \in Workers, NEW v \in JobStatus, Decide(w, v), pc[w] # "idle"
  PROVE  WorkersTyped'
BY DEF TypeInv, TypeOK, BusyHasJob, Decide, WorkersTyped

LEMMA SetTaskTyped ==
  ASSUME TypeInv, NEW w \in Workers, NEW a \in Accounts, NEW t \in TaskState,
         SetTask(w, a, t)
  PROVE  task' \in [Workers -> [Accounts -> TaskState]]
BY DEF TypeInv, TypeOK, SetTask

LEMMA TypeInit == Init => TypeInv
BY ConstantsAssumption DEF Init, TypeInv, TypeOK, BusyHasJob, Jobs

LEMMA TypeStep == TypeInv /\ [Next]_vars => TypeInv'
<1> SUFFICES ASSUME TypeInv, [Next]_vars PROVE TypeInv'
  OBVIOUS
<1> USE DEF TypeInv, TypeOK, BusyHasJob
<1>1. ASSUME NEW s \in Alerts, NEW scopes \in RouteSets, Ingest(s, scopes)
      PROVE  TypeInv'
  BY <1>1 DEF Ingest, CreateJobIfNotExists, workerVars
<1>2. ASSUME NEW w \in Workers, NEW j \in Jobs, ClaimNextJob(w, j)
      PROVE  TypeInv'
  BY <1>2 DEF ClaimNextJob
<1>3. ASSUME NEW w \in Workers, AcquireDomainLock(w) PROVE TypeInv'
  <2>1. WorkersTyped'
    <3>1. CASE lost[w] BY <1>3, <3>1, IdleTyped DEF AcquireDomainLock
    <3>2. CASE ~lost[w] BY <1>3, <3>2 DEF AcquireDomainLock, WorkersTyped
    <3> QED BY <3>1, <3>2
  <2> QED BY <1>3, <2>1 DEF AcquireDomainLock, WorkersTyped, jobVars
<1>4. ASSUME NEW w \in Workers, StartProcessing(w) PROVE TypeInv'
  <2>1. CASE Owns(w, wjob[w])
    BY <1>4, <2>1, ZenonT(60) DEF StartProcessing
  <2>2. CASE ~Owns(w, wjob[w])
    BY <1>4, <2>2, IdleTyped DEF StartProcessing, WorkersTyped
  <2> QED BY <2>1, <2>2
<1>5. ASSUME NEW w \in Workers, RejectPayload(w) \/ DeferAtGate(w) \/ DeferAtEntry(w)
      PROVE  TypeInv'
  <2>1. CASE RejectPayload(w) BY <2>1 DEF RejectPayload, Decide, jobVars
  <2>2. CASE DeferAtGate(w) BY <2>2 DEF DeferAtGate, Decide, jobVars
  <2>3. CASE DeferAtEntry(w) BY <2>3 DEF DeferAtEntry, Decide, jobVars
  <2> QED BY <1>5, <2>1, <2>2, <2>3
<1>6. ASSUME NEW w \in Workers, NEW accts \in SUBSET Accounts, ResolveContexts(w, accts)
      PROVE  TypeInv'
  BY <1>6 DEF ResolveContexts, jobVars
<1>7. ASSUME NEW w \in Workers, NEW a \in Accounts, TaskStep(w, a) PROVE TypeInv'
  <2> USE DEF At, SetTask, jobVars
  <2>k. pc[w] = "running" => KeyOf(w, a) \in Keys
    BY KeyOfType DEF KeyOf
  <2>1. CASE \E t \in {"rejected", "error"} : RefuseAtGates(w, a, t)
    BY <2>1 DEF RefuseAtGates
  <2>2. CASE DeferBeforeClaim(w, a)
    BY <2>2 DEF DeferBeforeClaim
  <2>3. CASE AcquireClaim(w, a)
    <3> DEFINE k == KeyOf(w, a)
    <3>0. k \in Keys BY <2>3, <2>k DEF AcquireClaim
    <3> HIDE DEF k
    <3>1. \/ claim' = [claim EXCEPT ![k] = "CLAIMED"] /\ task' = [task EXCEPT ![w][a] = "claimed"]
          \/ claim' = claim /\ task' = [task EXCEPT ![w][a] = "error"]
      BY <2>3 DEF AcquireClaim, k
    <3>2. claim' \in [Keys -> ClaimState]
      BY <3>0, <3>1
    <3>3. task' \in [Workers -> [Accounts -> TaskState]]
      BY <3>1, SetTaskTyped
    <3> QED BY <2>3, <3>2, <3>3 DEF AcquireClaim
  <2>4. CASE PersistReservedChild(w, a)
    BY <2>4, <2>k DEF PersistReservedChild
  <2>5. CASE PlaceOrder(w, a)
    BY <2>5, <2>k DEF PlaceOrder
  <2>6. CASE \E t \in {"success", "error", "rejected"} : SettleBasket(w, a, t)
    <3> PICK t \in {"success", "error", "rejected"} : SettleBasket(w, a, t)
      BY <2>6
    <3> DEFINE k == KeyOf(w, a)
    <3>0. k \in Keys BY <2>k DEF SettleBasket
    <3> HIDE DEF k
    <3>4. \/ claim' = [claim EXCEPT ![k] = IF claim[k] = "CLAIMED" THEN "EXECUTED" ELSE claim[k]]
          \/ claim' = claim
      BY DEF SettleBasket, Seal, k
    <3>5. claim \in [Keys -> ClaimState] /\ claim[k] \in ClaimState
      BY <3>0
    <3>1. claim' \in [Keys -> ClaimState]
      BY <3>4, <3>5
    <3>2. faults' \in Nat
      BY DEF SettleBasket, Fault
    <3>3. task' \in [Workers -> [Accounts -> TaskState]]
      BY DEF SettleBasket
    <3> QED BY <3>1, <3>2, <3>3 DEF SettleBasket
  <2>7. CASE \E t \in {"unsettled", "error", "rejected"} : LeaveClaimHeld(w, a, t)
    BY <2>7 DEF LeaveClaimHeld
  <2> QED BY <1>7, <2>1, <2>2, <2>3, <2>4, <2>5, <2>6, <2>7 DEF TaskStep
<1>8. ASSUME NEW w \in Workers, HandleException(w) PROVE TypeInv'
  <2>1. WorkersTyped' /\ faults' \in Nat
    BY <1>8, DecideTyped DEF HandleException, HandlerVerdict, FanoutDone, Fault
  <2> QED BY <1>8, <2>1 DEF HandleException, WorkersTyped, jobVars
<1>9. ASSUME NEW w \in Workers, CollectOutcomes(w) PROVE TypeInv'
  <2>1. WorkersTyped'
    <3>1. FanoutVerdict(w) \in JobStatus BY DEF FanoutVerdict
    <3>2. CASE lost[w] BY <1>9, <3>2, IdleTyped DEF CollectOutcomes
    <3>3. CASE ~lost[w]
      BY <1>9, <3>1, <3>3, DecideTyped DEF CollectOutcomes, FanoutDone
    <3> QED BY <3>2, <3>3
  <2> QED BY <1>9, <2>1 DEF CollectOutcomes, WorkersTyped, jobVars
<1>10. ASSUME NEW w \in Workers, WriteStatus(w) PROVE TypeInv'
  <2>1. WorkersTyped' BY <1>10, IdleTyped DEF WriteStatus
  <2>2. status' \in [Jobs -> JobStatus] /\ lease' \in [Jobs -> {"none", "live", "expired"}]
    <3>1. CASE Owns(w, wjob[w])
      <4>1. verdict[w] \in JobStatus /\ wjob[w] \in Jobs BY <1>10 DEF WriteStatus
      <4>2. /\ status' = [status EXCEPT ![wjob[w]] = verdict[w]]
            /\ lease' = [lease EXCEPT ![wjob[w]] = IF verdict[w] \in Terminal THEN "none" ELSE @]
        BY <1>10, <3>1 DEF WriteStatus
      <4> QED BY <4>1, <4>2
    <3>2. CASE ~Owns(w, wjob[w]) BY <1>10, <3>2 DEF WriteStatus
    <3> QED BY <3>1, <3>2
  <2> QED BY <1>10, <2>1, <2>2 DEF WriteStatus, WorkersTyped
<1>11. ASSUME NEW w \in Workers, ParkFence(w) PROVE TypeInv'
  <2>1. WorkersTyped'
    <3>1. CASE Owns(w, wjob[w]) BY <1>11, <3>1 DEF ParkFence, WorkersTyped
    <3>2. CASE ~Owns(w, wjob[w]) BY <1>11, <3>2, IdleTyped DEF ParkFence
    <3> QED BY <3>1, <3>2
  <2> QED BY <1>11, <2>1 DEF ParkFence, WorkersTyped, jobVars
<1>12. ASSUME NEW w \in Workers, ParkWrite(w) PROVE TypeInv'
  <2>1. WorkersTyped' BY <1>12, IdleTyped DEF ParkWrite
  <2> QED BY <1>12, <2>1 DEF ParkWrite, WorkersTyped
<1>13. ASSUME NEW w \in Workers, Heartbeat(w) \/ HeartbeatFails(w) PROVE TypeInv'
  <2>1. CASE Heartbeat(w) /\ Owns(w, wjob[w]) BY <2>1 DEF Heartbeat, HeartbeatLease
  <2>2. CASE Heartbeat(w) /\ ~Owns(w, wjob[w]) BY <2>2 DEF Heartbeat, HeartbeatLease
  <2>3. CASE HeartbeatFails(w) BY <2>3 DEF HeartbeatFails, Fault, jobVars
  <2> QED BY <1>13, <2>1, <2>2, <2>3
<1>14. ASSUME NEW j \in Jobs, LeaseRunsOut(j) PROVE TypeInv'
  BY <1>14 DEF LeaseRunsOut, Fault, workerVars
<1>15. ASSUME NEW j \in Jobs, RecoverJob(j) PROVE TypeInv'
  BY <1>15 DEF RecoverJob, RecoveredStatus, workerVars
<1>16. CASE ReclaimScan
  BY <1>16 DEF ReclaimScan, jobVars, workerVars
<1>17. CASE ReclaimStaleJobs
  BY <1>17 DEF ReclaimStaleJobs, ReclaimedStatus, workerVars
<1>18. ASSUME NEW k \in Keys, ReconcileStaleClaim(k) PROVE TypeInv'
  BY <1>18 DEF ReconcileStaleClaim, Seal, jobVars, workerVars
<1>19. ASSUME NEW z \in Zones, ClockMoves(z) PROVE TypeInv'
  BY <1>19 DEF ClockMoves, jobVars, workerVars
<1>20. ASSUME NEW voided \in SUBSET Deferred, ReleaseDeferred(voided) PROVE TypeInv'
  BY <1>20 DEF ReleaseDeferred, ReleasedStatus, workerVars
<1>21. CASE Crash
  BY <1>21 DEF Crash, Fault, jobVars
<1>22. CASE RecoverClaims
  BY <1>22 DEF RecoverClaims, jobVars, workerVars
<1>23. CASE StartPool
  BY <1>23 DEF StartPool, Fault, jobVars, workerVars
<1>24. CASE UNCHANGED vars
  BY <1>24 DEF vars, jobVars, workerVars
<1>25. ASSUME NEW w \in Workers, StatusWriteFails(w) PROVE TypeInv'
  <2>1. WorkersTyped'
    <3>1. CASE pc[w] = "starting" \/ RaisedOut(w)
      BY <1>25, <3>1, IdleTyped DEF StatusWriteFails
    <3>2. CASE ~(pc[w] = "starting" \/ RaisedOut(w))
      <4>1. HandlerVerdict(wjob[w]) \in JobStatus BY DEF HandlerVerdict
      <4>2. /\ verdict' = [verdict EXCEPT ![w] = HandlerVerdict(wjob[w])]
            /\ task' = [task EXCEPT ![w] = NoTasks] /\ UNCHANGED <<pc, wjob, lost>>
        BY <1>25, <3>2 DEF StatusWriteFails
      <4> QED BY <4>1, <4>2 DEF WorkersTyped
    <3> QED BY <3>1, <3>2
  <2> QED BY <1>25, <2>1 DEF StatusWriteFails, WorkersTyped, jobVars, Fault
<1>26. ASSUME NEW w \in Workers, ParkFails(w) PROVE TypeInv'
  <2>v. HandlerVerdict(wjob[w]) \in JobStatus BY DEF HandlerVerdict
  <2>1. WorkersTyped'
    <3>1. CASE BackToIdle(w) BY <3>1, IdleTyped
    <3>2. CASE Decide(w, HandlerVerdict(wjob[w]))
      BY <1>26, <2>v, <3>2, DecideTyped DEF ParkFails
    <3>3. CASE /\ pc' = [pc EXCEPT ![w] = "entry"]
               /\ verdict' = [verdict EXCEPT ![w] = "ABSENT"]
               /\ UNCHANGED <<wjob, lost, task>>
      BY <1>26, <3>3 DEF ParkFails, WorkersTyped
    <3> QED BY <1>26, <3>1, <3>2, <3>3 DEF ParkFails
  <2> QED BY <1>26, <2>1 DEF ParkFails, WorkersTyped, jobVars, Fault
<1> QED
  BY <1>1, <1>2, <1>3, <1>4, <1>5, <1>6, <1>7, <1>8, <1>9, <1>10, <1>11, <1>12, <1>13,
     <1>14, <1>15, <1>16, <1>17, <1>18, <1>19, <1>20, <1>21, <1>22, <1>23, <1>24,
     <1>25, <1>26 DEF Next, WorkerStep, ReclaimerStep

(* Type correctness of the queue, the claims, the ledger and the workers.  *)
THEOREM TypeCorrect == Spec => []TypeOK
<1>1. TypeInv => TypeOK BY DEF TypeInv
<1> QED BY TypeInit, TypeStep, <1>1, PTL DEF Spec

----------------------------------------------------------------------------
(* At most one submission.  The claim of an intent is taken by one task;   *)
(* until that task has placed the order nobody has, and afterwards the     *)
(* raised barrier keeps everybody else out.                                *)

Raised    == {"CLAIMED", "EXECUTED"}
BeforeBroker == {"claimed", "reserved"}

InFlightHoldsBarrier ==
  \A w \in Workers, a \in Accounts : task[w][a] \in InFlight =>
    pc[w] = "running" /\ claim[KeyOf(w, a)] \in Raised

NothingSentBefore ==
  \A w \in Workers, a \in Accounts :
    /\ task[w][a] \in BeforeBroker => sent[KeyOf(w, a)] = <<>>
    /\ task[w][a] = "reserved" => KeyOf(w, a) \in orders

OneTaskPerKey ==
  \A w \in Workers, v \in Workers, a \in Accounts :
    /\ w # v /\ task[w][a] \in BeforeBroker /\ task[v][a] \in BeforeBroker
    => KeyOf(w, a) # KeyOf(v, a)

LedgerBehindBarrier ==
  \A k \in Keys : /\ sent[k] # <<>> => k \in orders
                  /\ k \in orders => claim[k] \in Raised
                  /\ Len(sent[k]) <= 1

BarrierInv ==
  InFlightHoldsBarrier /\ NothingSentBefore /\ OneTaskPerKey /\ LedgerBehindBarrier

USE DEF Raised, BeforeBroker

LEMMA BarrierInit == Init => BarrierInv
BY DEF Init, BarrierInv, InFlightHoldsBarrier, NothingSentBefore, OneTaskPerKey,
       LedgerBehindBarrier

(* A step that leaves ledger and broker alone, raises and lowers no barrier *)
(* and puts no task in flight.                                                     *)
QuietStep ==
  /\ UNCHANGED <<orders, sent>>
  /\ \A k \in Keys : claim'[k] \in Raised <=> claim[k] \in Raised
  /\ \A w \in Workers, a \in Accounts : task'[w][a] \in InFlight =>
       task'[w][a] = task[w][a] /\ pc'[w] = pc[w] /\ wjob'[w] = wjob[w]

LEMMA QuietPreserves == TypeInv /\ BarrierInv /\ QuietStep => BarrierInv'
<1> SUFFICES ASSUME TypeInv, BarrierInv, QuietStep PROVE BarrierInv'
  OBVIOUS
<1> USE DEF BarrierInv, QuietStep
<1>k. \A w \in Workers, a \in Accounts : task[w][a] \in InFlight => KeyOf(w, a) \in Keys
  BY KeyOfType DEF TypeInv, BusyHasJob, KeyOf, InFlightHoldsBarrier
<1>1. \A w \in Workers, a \in Accounts : task'[w][a] \in InFlight => KeyOf(w, a)' = KeyOf(w, a)
  BY DEF KeyOf
<1>2. InFlightHoldsBarrier'
  BY <1>k, <1>1 DEF InFlightHoldsBarrier
<1>3. NothingSentBefore'
  BY <1>1 DEF NothingSentBefore
<1>4. OneTaskPerKey'
  BY <1>1 DEF OneTaskPerKey
<1>5. LedgerBehindBarrier'
  BY DEF LedgerBehindBarrier
<1> QED BY <1>2, <1>3, <1>4, <1>5

(* Every step is quiet except the three that take an intent to the broker. *)
LEMMA StepKinds ==
  ASSUME TypeInv, BarrierInv, [Next]_vars
  PROVE  \/ QuietStep
         \/ \E w \in Workers, a \in Accounts :
              \/ AcquireClaim(w, a) \/ PersistReservedChild(w, a) \/ PlaceOrder(w, a)
<1> USE DEF TypeInv, TypeOK, QuietStep, BarrierInv
<1>r. \A w \in Workers, a \in Accounts : task[w][a] \in InFlight => pc[w] = "running"
  BY DEF InFlightHoldsBarrier
<1>1. ASSUME NEW s \in Alerts, NEW scopes \in RouteSets, Ingest(s, scopes)
      PROVE  QuietStep
  BY <1>1 DEF Ingest, CreateJobIfNotExists, workerVars
<1>2. ASSUME NEW w \in Workers, NEW j \in Jobs, ClaimNextJob(w, j)
      PROVE  QuietStep
  BY <1>2, <1>r DEF ClaimNextJob
<1>i. ASSUME NEW w \in Workers, BackToIdle(w), UNCHANGED <<claim, orders, sent>>
      PROVE  QuietStep
  BY <1>i DEF BackToIdle
<1>d. ASSUME NEW w \in Workers, NEW v, Decide(w, v), UNCHANGED <<claim, orders, sent>>,
             \A a \in Accounts : task[w][a] \notin InFlight
      PROVE  QuietStep
  BY <1>d DEF Decide
<1>f. ASSUME NEW w \in Workers, FanoutDone(w)
      PROVE  \A a \in Accounts : task[w][a] \notin InFlight
  BY <1>f DEF FanoutDone, Fanout
<1>3. ASSUME NEW w \in Workers, AcquireDomainLock(w) PROVE QuietStep
  <2>1. CASE lost[w] BY <1>3, <2>1, <1>i DEF AcquireDomainLock
  <2>2. CASE ~lost[w] BY <1>3, <2>2, <1>r DEF AcquireDomainLock
  <2> QED BY <2>1, <2>2
<1>4. ASSUME NEW w \in Workers, StartProcessing(w) PROVE QuietStep
  <2>1. CASE Owns(w, wjob[w]) BY <1>4, <2>1, <1>r DEF StartProcessing
  <2>2. CASE ~Owns(w, wjob[w]) BY <1>4, <2>2, <1>i DEF StartProcessing
  <2> QED BY <2>1, <2>2
<1>5. ASSUME NEW w \in Workers, RejectPayload(w) \/ DeferAtGate(w) \/ DeferAtEntry(w)
      PROVE  QuietStep
  BY <1>5, <1>d, <1>r DEF RejectPayload, DeferAtGate, DeferAtEntry
<1>6. ASSUME NEW w \in Workers, NEW accts \in SUBSET Accounts, ResolveContexts(w, accts)
      PROVE  QuietStep
  BY <1>6 DEF ResolveContexts
<1>7. ASSUME NEW w \in Workers, NEW a \in Accounts, TaskStep(w, a)
      PROVE  \/ QuietStep
             \/ AcquireClaim(w, a) \/ PersistReservedChild(w, a) \/ PlaceOrder(w, a)
  <2> USE DEF At, SetTask
  <2>1. CASE \E t \in {"rejected", "error"} : RefuseAtGates(w, a, t)
    BY <2>1 DEF RefuseAtGates
  <2>2. CASE DeferBeforeClaim(w, a)
    BY <2>2 DEF DeferBeforeClaim
  <2>3. CASE \E t \in {"success", "error", "rejected"} : SettleBasket(w, a, t)
    <3>1. \A k \in Keys : claim'[k] \in Raised <=> claim[k] \in Raised
      BY <2>3 DEF SettleBasket, Seal
    <3> QED BY <2>3, <3>1 DEF SettleBasket
  <2>4. CASE \E t \in {"unsettled", "error", "rejected"} : LeaveClaimHeld(w, a, t)
    BY <2>4 DEF LeaveClaimHeld
  <2> QED BY <1>7, <2>1, <2>2, <2>3, <2>4 DEF TaskStep
<1>8. ASSUME NEW w \in Workers, HandleException(w) PROVE QuietStep
  BY <1>8, <1>d, <1>f DEF HandleException
<1>9. ASSUME NEW w \in Workers, CollectOutcomes(w) PROVE QuietStep
  BY <1>9, <1>d, <1>f, <1>i DEF CollectOutcomes
<1>10. ASSUME NEW w \in Workers, WriteStatus(w) \/ ParkWrite(w) PROVE QuietStep
  BY <1>10, <1>i DEF WriteStatus, ParkWrite
<1>11. ASSUME NEW w \in Workers, ParkFence(w) PROVE QuietStep
  <2>1. CASE Owns(w, wjob[w]) BY <1>11, <2>1, <1>r DEF ParkFence
  <2>2. CASE ~Owns(w, wjob[w]) BY <1>11, <2>2, <1>i DEF ParkFence
  <2> QED BY <2>1, <2>2
<1>13. ASSUME NEW w \in Workers, Heartbeat(w) \/ HeartbeatFails(w) PROVE QuietStep
  BY <1>13 DEF Heartbeat, HeartbeatFails
<1>14. ASSUME NEW j \in Jobs, LeaseRunsOut(j) \/ RecoverJob(j) PROVE QuietStep
  BY <1>14 DEF LeaseRunsOut, RecoverJob, workerVars
<1>16. CASE ReclaimScan \/ ReclaimStaleJobs
  BY <1>16 DEF ReclaimScan, ReclaimStaleJobs, workerVars
<1>18. ASSUME NEW k \in Keys, ReconcileStaleClaim(k) PROVE QuietStep
  BY <1>18 DEF ReconcileStaleClaim, Seal, workerVars
<1>19. ASSUME NEW z \in Zones, ClockMoves(z) PROVE QuietStep
  BY <1>19 DEF ClockMoves, workerVars
<1>20. ASSUME NEW voided \in SUBSET Deferred, ReleaseDeferred(voided) PROVE QuietStep
  BY <1>20 DEF ReleaseDeferred, ReleasedStatus, workerVars
<1>21. CASE Crash
  BY <1>21 DEF Crash
<1>22. CASE RecoverClaims
  BY <1>22 DEF RecoverClaims, workerVars
<1>23. CASE StartPool
  BY <1>23 DEF StartPool, workerVars
<1>24. CASE UNCHANGED vars
  BY <1>24 DEF vars, workerVars
<1>25. ASSUME NEW w \in Workers, StatusWriteFails(w) PROVE QuietStep
  <2>1. CASE pc[w] = "starting" \/ RaisedOut(w)
    BY <1>25, <2>1, <1>i DEF StatusWriteFails
  <2>2. CASE ~(pc[w] = "starting" \/ RaisedOut(w))
    <3>1. /\ task' = [task EXCEPT ![w] = NoTasks]
          /\ UNCHANGED <<claim, orders, sent, pc, wjob>>
      BY <1>25, <2>2 DEF StatusWriteFails
    <3> QED BY <3>1
  <2> QED BY <2>1, <2>2
<1>26. ASSUME NEW w \in Workers, ParkFails(w) PROVE QuietStep
  <2>1. /\ UNCHANGED <<claim, orders, sent>>
        /\ \A a \in Accounts : task[w][a] \notin InFlight
    BY <1>26, <1>r DEF ParkFails
  <2>2. CASE BackToIdle(w) BY <2>1, <2>2, <1>i
  <2>3. CASE Decide(w, HandlerVerdict(wjob[w])) BY <2>1, <2>3, <1>d
  <2>4. CASE pc' = [pc EXCEPT ![w] = "entry"] /\ UNCHANGED <<wjob, task>>
    BY <2>1, <2>4
  <2> QED BY <1>26, <2>2, <2>3, <2>4 DEF ParkFails
<1> QED
  BY <1>1, <1>2, <1>3, <1>4, <1>5, <1>6, <1>7, <1>8, <1>9, <1>10, <1>11, <1>13, <1>14,
     <1>16, <1>18, <1>19, <1>20, <1>21, <1>22, <1>23, <1>24, <1>25, <1>26
     DEF Next, WorkerStep, ReclaimerStep

(* Acquire: the claim was down, so nothing was sent and no other task is   *)
(* before the broker with this key.                                        *)
LEMMA AcquirePreserves ==
  ASSUME TypeInv, BarrierInv, NEW w \in Workers, NEW a \in Accounts, AcquireClaim(w, a)
  PROVE  BarrierInv'
<1> DEFINE k == KeyOf(w, a)
<1> USE DEF BarrierInv
<1>k. k \in Keys
  BY KeyOfType DEF TypeInv, BusyHasJob, KeyOf, AcquireClaim, At
<1>s. \A v \in Workers, b \in Accounts : KeyOf(v, b)' = KeyOf(v, b)
  BY DEF AcquireClaim, KeyOf
<1> HIDE DEF k
<1>1. CASE claim[k] \notin {"NONE", "ABANDONED"}
  <2>1. /\ task' = [task EXCEPT ![w][a] = "error"]
        /\ UNCHANGED <<claim, orders, sent, pc, wjob>>
    BY <1>1 DEF AcquireClaim, SetTask, k
  <2>2. task \in [Workers -> [Accounts -> TaskState]]
    BY DEF TypeInv, TypeOK
  <2>3. QuietStep
    BY <2>1, <2>2 DEF QuietStep
  <2> QED BY <2>3, QuietPreserves
<1>2. CASE claim[k] \in {"NONE", "ABANDONED"}
  <2>1. /\ claim' = [claim EXCEPT ![k] = "CLAIMED"]
        /\ task' = [task EXCEPT ![w][a] = "claimed"]
        /\ pc[w] = "running" /\ UNCHANGED <<orders, sent, pc, wjob>>
    BY <1>2 DEF AcquireClaim, SetTask, At, k
  <2>2. sent[k] = <<>>
    BY <1>2, <1>k DEF LedgerBehindBarrier
  <2>3. \A v \in Workers, b \in Accounts : task[v][b] \in InFlight => KeyOf(v, b) # k
    BY <1>2 DEF InFlightHoldsBarrier
  <2>4. \A v \in Workers, b \in Accounts :
          IF v = w /\ b = a THEN task'[v][b] = "claimed" ELSE task'[v][b] = task[v][b]
    BY <2>1 DEF TypeInv, TypeOK
  <2>5. InFlightHoldsBarrier'
    BY <1>k, <1>s, <2>1, <2>4 DEF InFlightHoldsBarrier, TypeInv, TypeOK, k
  <2>6. NothingSentBefore'
    BY <1>s, <2>1, <2>2, <2>4 DEF NothingSentBefore, k
  <2>7. OneTaskPerKey'
    BY <1>s, <2>3, <2>4 DEF OneTaskPerKey, k
  <2>8. LedgerBehindBarrier'
    BY <1>k, <2>1 DEF LedgerBehindBarrier, TypeInv, TypeOK
  <2> QED BY <2>5, <2>6, <2>7, <2>8
<1> QED BY <1>1, <1>2

LEMMA PersistPreserves ==
  ASSUME TypeInv, BarrierInv, NEW w \in Workers, NEW a \in Accounts,
         PersistReservedChild(w, a)
  PROVE  BarrierInv'
<1> USE DEF BarrierInv
<1>s. \A v \in Workers, b \in Accounts : KeyOf(v, b)' = KeyOf(v, b)
  BY DEF PersistReservedChild, KeyOf
<1>1. /\ orders' = orders \cup {KeyOf(w, a)} /\ UNCHANGED <<claim, sent, pc>>
      /\ task[w][a] = "claimed" /\ task' = [task EXCEPT ![w][a] = "reserved"]
  BY DEF PersistReservedChild, SetTask, At
<1>2. \A v \in Workers, b \in Accounts :
        IF v = w /\ b = a THEN task'[v][b] = "reserved" ELSE task'[v][b] = task[v][b]
  BY <1>1 DEF TypeInv, TypeOK
<1>3. InFlightHoldsBarrier'
  BY <1>s, <1>1, <1>2 DEF InFlightHoldsBarrier
<1>4. NothingSentBefore'
  BY <1>s, <1>1, <1>2 DEF NothingSentBefore
<1>5. OneTaskPerKey'
  BY <1>s, <1>1, <1>2 DEF OneTaskPerKey
<1>6. LedgerBehindBarrier'
  BY <1>1 DEF LedgerBehindBarrier, InFlightHoldsBarrier
<1> QED BY <1>3, <1>4, <1>5, <1>6

LEMMA PlacePreserves ==
  ASSUME TypeInv, BarrierInv, NEW w \in Workers, NEW a \in Accounts, PlaceOrder(w, a)
  PROVE  BarrierInv'
<1> DEFINE k == KeyOf(w, a)
<1> USE DEF BarrierInv
<1>k. k \in Keys /\ wjob[w] \in Jobs
  BY KeyOfType DEF TypeInv, BusyHasJob, KeyOf, PlaceOrder, At
<1>s. \A v \in Workers, b \in Accounts : KeyOf(v, b)' = KeyOf(v, b)
  BY DEF PlaceOrder, KeyOf
<1> HIDE DEF k
<1>1. /\ sent' = [sent EXCEPT ![k] = Append(sent[k], wjob[w])]
      /\ UNCHANGED <<claim, orders, pc>>
      /\ task[w][a] = "reserved" /\ task' = [task EXCEPT ![w][a] = "placed"]
  BY DEF PlaceOrder, SetTask, At, k
<1>2. \A v \in Workers, b \in Accounts :
        IF v = w /\ b = a THEN task'[v][b] = "placed" ELSE task'[v][b] = task[v][b]
  BY <1>1 DEF TypeInv, TypeOK
<1>3. sent[k] = <<>> /\ k \in orders
  BY <1>1 DEF NothingSentBefore, k
<1>4. \A v \in Workers, b \in Accounts :
        task'[v][b] \in BeforeBroker => KeyOf(v, b) # k
  BY <1>1, <1>2 DEF OneTaskPerKey, KeyOf, k
<1>5. InFlightHoldsBarrier'
  BY <1>s, <1>1, <1>2 DEF InFlightHoldsBarrier
<1>6. NothingSentBefore'
  BY <1>s, <1>1, <1>2, <1>4 DEF NothingSentBefore, TypeInv, TypeOK
<1>7. OneTaskPerKey'
  BY <1>s, <1>2 DEF OneTaskPerKey
<1>8. sent'[k] = <<wjob[w]>> /\ \A i \in Keys : i # k => sent'[i] = sent[i]
  BY <1>k, <1>1, <1>3 DEF TypeInv, TypeOK
<1>9. LedgerBehindBarrier'
  BY <1>1, <1>3, <1>8 DEF LedgerBehindBarrier
<1> QED BY <1>5, <1>6, <1>7, <1>9

LEMMA BarrierStep == TypeInv /\ BarrierInv /\ [Next]_vars => BarrierInv'
BY StepKinds, QuietPreserves, AcquirePreserves, PersistPreserves, PlacePreserves

LEMMA BarrierInvariant == Spec => [](TypeInv /\ BarrierInv)
BY TypeInit, TypeStep, BarrierInit, BarrierStep, PTL DEF Spec

(* An intent reaches the broker at most once, whatever the number of       *)
(* workers, accounts, duplicate jobs, lost leases and crashes.             *)
THEOREM AtMostOnce == Spec => []AtMostOnceSubmission
<1>1. BarrierInv => AtMostOnceSubmission
  BY DEF BarrierInv, LedgerBehindBarrier, AtMostOnceSubmission
<1> QED BY BarrierInvariant, <1>1, PTL

(* Whatever was sent has its ledger row and its barrier.                   *)
THEOREM Recorded == Spec => []SubmissionIsRecorded
<1>1. BarrierInv => SubmissionIsRecorded
  BY DEF BarrierInv, LedgerBehindBarrier, SubmissionIsRecorded
<1> QED BY BarrierInvariant, <1>1, PTL

----------------------------------------------------------------------------
(* The queue, the pool, the reclaimer and recovery implement the one-shot  *)
(* intents: raising a barrier is Commit, placing an order is Submit, every *)
(* other step is a stutter.                                                *)
LEMMA RefinesInit == Init => OneShot!Init
BY DEF Init, OneShot!Init, Committed

LEMMA RefinesStep ==
  ASSUME TypeInv, BarrierInv, [Next]_vars
  PROVE  [OneShot!Next]_(OneShot!vars)
<1> DEFINE lens == [k \in Keys |-> Len(sent[k])]
<1> USE DEF OneShot!vars
<1>1. CASE QuietStep
  <2>1. Committed' = Committed
    BY <1>1 DEF QuietStep, Committed, Raised
  <2>2. lens' = lens
    BY <1>1 DEF QuietStep
  <2> QED BY <2>1, <2>2
<1>2. ASSUME NEW w \in Workers, NEW a \in Accounts, AcquireClaim(w, a)
      PROVE  [OneShot!Next]_(OneShot!vars)
  <2> DEFINE k == KeyOf(w, a)
  <2>k. k \in Keys
    BY <1>2, KeyOfType DEF TypeInv, BusyHasJob, KeyOf, AcquireClaim, At
  <2>l. lens' = lens
    BY <1>2 DEF AcquireClaim
  <2> HIDE DEF k
  <2>1. CASE claim[k] \in {"NONE", "ABANDONED"}
    <3>1. claim' = [claim EXCEPT ![k] = "CLAIMED"]
      BY <1>2, <2>1 DEF AcquireClaim, k
    <3>2. k \notin Committed /\ Committed' = Committed \cup {k}
      BY <2>k, <2>1, <3>1 DEF Committed, TypeInv, TypeOK
    <3> QED BY <2>k, <2>l, <3>2 DEF OneShot!Next, OneShot!Commit
  <2>2. CASE claim[k] \notin {"NONE", "ABANDONED"}
    <3>1. claim' = claim
      BY <1>2, <2>2 DEF AcquireClaim, k
    <3> QED BY <2>l, <3>1 DEF Committed
  <2> QED BY <2>1, <2>2
<1>3. ASSUME NEW w \in Workers, NEW a \in Accounts, PersistReservedChild(w, a)
      PROVE  [OneShot!Next]_(OneShot!vars)
  BY <1>3 DEF PersistReservedChild, Committed
<1>4. ASSUME NEW w \in Workers, NEW a \in Accounts, PlaceOrder(w, a)
      PROVE  [OneShot!Next]_(OneShot!vars)
  <2> DEFINE k == KeyOf(w, a)
  <2>k. k \in Keys /\ wjob[w] \in Jobs
    BY <1>4, KeyOfType DEF TypeInv, BusyHasJob, KeyOf, PlaceOrder, At
  <2>1. sent[k] = <<>> /\ k \in Committed
    BY <1>4, <2>k DEF BarrierInv, NothingSentBefore, InFlightHoldsBarrier, PlaceOrder, At,
       BeforeBroker, Committed, Raised
  <2> HIDE DEF k
  <2>2. sent' = [sent EXCEPT ![k] = Append(sent[k], wjob[w])] /\ claim' = claim
    BY <1>4 DEF PlaceOrder, k
  <2>3. Committed' = Committed
    BY <2>2 DEF Committed
  <2>4. sent'[k] = <<wjob[w]>> /\ \A i \in Keys : i # k => sent'[i] = sent[i]
    BY <2>k, <2>1, <2>2 DEF TypeInv, TypeOK
  <2>5. Len(sent[k]) = 0 /\ Len(sent'[k]) = 1
    BY <2>k, <2>1, <2>4
  <2>6. lens[k] = 0 /\ \A i \in Keys : lens'[i] = IF i = k THEN 1 ELSE lens[i]
    BY <2>k, <2>4, <2>5
  <2>7. lens' = [lens EXCEPT ![k] = 1]
    BY <2>k, <2>6
  <2> QED BY <2>k, <2>1, <2>3, <2>6, <2>7 DEF OneShot!Next, OneShot!Submit
<1> QED BY StepKinds, <1>1, <1>2, <1>3, <1>4

(* Spec implements OneShotIntents: once committed an intent stays so, and  *)
(* it is submitted at most once and only when committed, for ever.         *)
THEOREM Refinement == Spec => ImplementsOneShotIntents
BY RefinesInit, RefinesStep, BarrierInvariant, PTL
   DEF Spec, OneShot!Spec, ImplementsOneShotIntents
----------------------------------------------------------------------------
(* One executor per job.  A worker past its first status write is at work  *)
(* on the job; the row says so until somebody quarantines it, and nobody   *)
(* can take it back from there while the process lives.                    *)

AtWork   == {"gate", "entry", "running", "writing", "parking"}
Begun    == {"PROCESSING", "RECOVERY_REQUIRED"} \cup Terminal

WorkedJobIsBegun ==
  \A w \in Workers : pc[w] \in AtWork =>
    /\ status[wjob[w]] \in Begun
    /\ status[wjob[w]] = "PROCESSING" => owner[wjob[w]] = w

OneAtWork ==
  \A w \in Workers, v \in Workers :
    w # v /\ pc[w] \in AtWork /\ pc[v] \in AtWork => wjob[w] # wjob[v]

(* A worker that has yet to begin owns its row only as CLAIMED.            *)
UnbegunIsClaimed ==
  \A w \in Workers : pc[w] \in {"waiting", "starting"} /\ owner[wjob[w]] = w =>
    status[wjob[w]] # "PROCESSING"

RecoveryIsAlone == phase # "up" => \A w \in Workers : pc[w] = "idle"

ExecInv == WorkedJobIsBegun /\ OneAtWork /\ UnbegunIsClaimed /\ RecoveryIsAlone

USE DEF AtWork, Begun

LEMMA ExecInit == Init => ExecInv
BY DEF Init, ExecInv, WorkedJobIsBegun, OneAtWork, UnbegunIsClaimed, RecoveryIsAlone

(* A step that leaves the rows alone and lets no worker begin.             *)
CalmStep ==
  /\ UNCHANGED <<status, owner, phase>>
  /\ \A w \in Workers :
       \/ pc'[w] = "idle"
       \/ /\ wjob'[w] = wjob[w] /\ pc[w] # "idle"
          /\ pc'[w] \in AtWork => pc[w] \in AtWork
          /\ pc'[w] \in {"waiting", "starting"} => pc[w] \in {"waiting", "starting"}

LEMMA CalmPreserves == TypeInv /\ ExecInv /\ CalmStep => ExecInv'
<1> SUFFICES ASSUME ExecInv, CalmStep PROVE ExecInv'
  OBVIOUS
<1> USE DEF ExecInv, CalmStep
<1>1. WorkedJobIsBegun' BY DEF WorkedJobIsBegun
<1>2. OneAtWork' BY DEF OneAtWork
<1>3. UnbegunIsClaimed' BY DEF UnbegunIsClaimed
<1>4. RecoveryIsAlone' BY DEF RecoveryIsAlone
<1> QED BY <1>1, <1>2, <1>3, <1>4

LEMMA IdleIsCalm ==
  ASSUME TypeInv, NEW w \in Workers, BackToIdle(w), UNCHANGED <<status, owner, phase>>
  PROVE  CalmStep
BY DEF TypeInv, TypeOK, BackToIdle, CalmStep

LEMMA DecideIsCalm ==
  ASSUME TypeInv, NEW w \in Workers, NEW v, Decide(w, v), pc[w] \in AtWork,
         UNCHANGED <<status, owner, phase>>
  PROVE  CalmStep
BY DEF TypeInv, TypeOK, Decide, CalmStep

(* The steps that touch the rows, begin a job, or start and end a process. *)
LoudStep ==
  \/ \E s \in Alerts, scopes \in RouteSets : Ingest(s, scopes)
  \/ \E w \in Workers, j \in Jobs : ClaimNextJob(w, j)
  \/ \E w \in Workers : StartProcessing(w) \/ WriteStatus(w) \/ ParkWrite(w)
  \/ \E j \in Jobs : RecoverJob(j)
  \/ ReclaimStaleJobs
  \/ \E voided \in SUBSET Deferred : ReleaseDeferred(voided)
  \/ Crash \/ RecoverClaims \/ StartPool

LEMMA CalmOrLoud ==
  ASSUME TypeInv, [Next]_vars
  PROVE  CalmStep \/ LoudStep
<1> USE DEF TypeInv, TypeOK, jobVars, workerVars
<1>3. ASSUME NEW w \in Workers, AcquireDomainLock(w) PROVE CalmStep
  <2>1. CASE lost[w] BY <1>3, <2>1, IdleIsCalm DEF AcquireDomainLock
  <2>2. CASE ~lost[w] BY <1>3, <2>2 DEF AcquireDomainLock, CalmStep
  <2> QED BY <2>1, <2>2
<1>5. ASSUME NEW w \in Workers, RejectPayload(w) \/ DeferAtGate(w) \/ DeferAtEntry(w)
      PROVE  CalmStep
  BY <1>5, DecideIsCalm DEF RejectPayload, DeferAtGate, DeferAtEntry
<1>6. ASSUME NEW w \in Workers, NEW accts \in SUBSET Accounts, ResolveContexts(w, accts)
      PROVE  CalmStep
  BY <1>6 DEF ResolveContexts, CalmStep
<1>7. ASSUME NEW w \in Workers, NEW a \in Accounts, TaskStep(w, a) PROVE CalmStep
  BY <1>7 DEF TaskStep, RefuseAtGates, DeferBeforeClaim, AcquireClaim, PersistReservedChild,
              PlaceOrder, SettleBasket, LeaveClaimHeld, CalmStep
<1>8. ASSUME NEW w \in Workers, HandleException(w) PROVE CalmStep
  BY <1>8, DecideIsCalm DEF HandleException, FanoutDone
<1>9. ASSUME NEW w \in Workers, CollectOutcomes(w) PROVE CalmStep
  BY <1>9, DecideIsCalm, IdleIsCalm DEF CollectOutcomes, FanoutDone
<1>11. ASSUME NEW w \in Workers, ParkFence(w) PROVE CalmStep
  <2>1. CASE Owns(w, wjob[w]) BY <1>11, <2>1 DEF ParkFence, CalmStep
  <2>2. CASE ~Owns(w, wjob[w]) BY <1>11, <2>2, IdleIsCalm DEF ParkFence
  <2> QED BY <2>1, <2>2
<1>13. ASSUME NEW w \in Workers, Heartbeat(w) \/ HeartbeatFails(w) PROVE CalmStep
  BY <1>13 DEF Heartbeat, HeartbeatFails, CalmStep
<1>14. ASSUME NEW j \in Jobs, LeaseRunsOut(j) PROVE CalmStep
  BY <1>14 DEF LeaseRunsOut, CalmStep
<1>16. CASE ReclaimScan
  BY <1>16 DEF ReclaimScan, CalmStep
<1>18. ASSUME NEW k \in Keys, ReconcileStaleClaim(k) PROVE CalmStep
  BY <1>18 DEF ReconcileStaleClaim, CalmStep
<1>19. ASSUME NEW z \in Zones, ClockMoves(z) PROVE CalmStep
  BY <1>19 DEF ClockMoves, CalmStep
<1>24. CASE UNCHANGED vars
  BY <1>24 DEF vars, CalmStep
<1>25. ASSUME NEW w \in Workers, StatusWriteFails(w) PROVE CalmStep
  <2>1. CASE pc[w] = "starting" \/ RaisedOut(w)
    BY <1>25, <2>1, IdleIsCalm DEF StatusWriteFails
  <2>2. CASE ~(pc[w] = "starting" \/ RaisedOut(w))
    BY <1>25, <2>2 DEF StatusWriteFails, CalmStep
  <2> QED BY <2>1, <2>2
<1>26. ASSUME NEW w \in Workers, ParkFails(w) PROVE CalmStep
  <2>1. pc[w] \in AtWork /\ UNCHANGED <<status, owner, phase>>
    BY <1>26 DEF ParkFails
  <2>2. CASE BackToIdle(w) BY <2>1, <2>2, IdleIsCalm
  <2>3. CASE Decide(w, HandlerVerdict(wjob[w])) BY <2>1, <2>3, DecideIsCalm
  <2>4. CASE pc' = [pc EXCEPT ![w] = "entry"] /\ UNCHANGED <<wjob, task>>
    BY <2>1, <2>4 DEF CalmStep
  <2> QED BY <1>26, <2>2, <2>3, <2>4 DEF ParkFails
<1> QED
  BY <1>3, <1>5, <1>6, <1>7, <1>8, <1>9, <1>11, <1>13, <1>14, <1>16, <1>18, <1>19, <1>24,
     <1>25, <1>26 DEF Next, WorkerStep, ReclaimerStep, LoudStep

(* What the reclaimer and the release service do to a row.                 *)
LEMMA ReclaimOutcome ==
  ASSUME ReclaimStaleJobs, NEW j \in Jobs
  PROVE  \/ status'[j] = status[j] /\ owner'[j] = owner[j]
         \/ status'[j] \in {"RECOVERY_REQUIRED", "DEAD_LETTER"}
         \/ status[j] = "CLAIMED" /\ status'[j] = "QUEUED"
<1>1. /\ status'[j] = ReclaimedStatus(j)
      /\ owner'[j] = owner[j] \/ j \in sweep \/ (Expired(j) /\ attempts[j] < MaxAttempts)
  BY DEF ReclaimStaleJobs
<1> QED BY <1>1 DEF ReclaimedStatus, Expired

LEMMA ReleaseOutcome ==
  ASSUME NEW voided \in SUBSET Deferred, ReleaseDeferred(voided), NEW j \in Jobs
  PROVE  \/ status'[j] = status[j]
         \/ status[j] = "DEFERRED_RED_ZONE" /\ status'[j] \in {"QUEUED", "REJECTED"}
<1>1. status'[j] = ReleasedStatus(j, voided)
  BY DEF ReleaseDeferred
<1> QED BY <1>1 DEF ReleasedStatus, Deferred

LEMMA ExecStep == TypeInv /\ ExecInv /\ [Next]_vars => ExecInv'
<1> SUFFICES ASSUME TypeInv, ExecInv, [Next]_vars PROVE ExecInv'
  OBVIOUS
<1> USE DEF TypeInv, TypeOK, BusyHasJob, ExecInv
<1> USE DEF WorkedJobIsBegun, OneAtWork, UnbegunIsClaimed, RecoveryIsAlone
<1>1. ASSUME NEW s \in Alerts, NEW scopes \in RouteSets, Ingest(s, scopes)
      PROVE  ExecInv'
  BY <1>1 DEF Ingest, CreateJobIfNotExists, workerVars
<1>2. ASSUME NEW w \in Workers, NEW j \in Jobs, ClaimNextJob(w, j)
      PROVE  ExecInv'
  <2>1. status[j] \notin Begun
    BY <1>2 DEF ClaimNextJob, Candidate
  <2>2. \A v \in Workers : pc[v] \in AtWork => wjob[v] # j
    BY <2>1
  <2>3. /\ pc' = [pc EXCEPT ![w] = "waiting"] /\ wjob' = [wjob EXCEPT ![w] = j]
        /\ status' = [status EXCEPT ![j] = "CLAIMED"] /\ owner' = [owner EXCEPT ![j] = w]
        /\ phase' = phase /\ phase = "up"
    BY <1>2 DEF ClaimNextJob
  <2> QED BY <2>2, <2>3
<1>3. ASSUME NEW w \in Workers, StartProcessing(w) PROVE ExecInv'
  <2>1. CASE Owns(w, wjob[w])
    <3>1. \A v \in Workers : pc[v] \in AtWork => wjob[v] # wjob[w]
      BY <1>3, <2>1 DEF StartProcessing, Owns
    <3>2. /\ pc' = [pc EXCEPT ![w] = "gate"] /\ UNCHANGED <<wjob, owner, phase>>
          /\ status' = [status EXCEPT ![wjob[w]] = "PROCESSING"]
          /\ wjob[w] \in Jobs /\ owner[wjob[w]] = w /\ pc[w] = "starting"
      BY <1>3, <2>1 DEF StartProcessing, Owns
    <3> QED BY <3>1, <3>2
  <2>2. CASE ~Owns(w, wjob[w])
    BY <1>3, <2>2, IdleIsCalm, CalmPreserves DEF StartProcessing
  <2> QED BY <2>1, <2>2
<1>4. ASSUME NEW w \in Workers, WriteStatus(w) PROVE ExecInv'
  <2>1. /\ pc' = [pc EXCEPT ![w] = "idle"] /\ wjob' = [wjob EXCEPT ![w] = NoJob]
        /\ \/ status' = status
           \/ status' = [status EXCEPT ![wjob[w]] = verdict[w]] /\ owner[wjob[w]] = w
        /\ UNCHANGED <<owner, phase>> /\ pc[w] = "writing" /\ wjob[w] \in Jobs
    BY <1>4 DEF WriteStatus, BackToIdle, Owns
  <2> QED BY <2>1
<1>5. ASSUME NEW w \in Workers, ParkWrite(w) PROVE ExecInv'
  <2>1. /\ pc' = [pc EXCEPT ![w] = "idle"] /\ wjob' = [wjob EXCEPT ![w] = NoJob]
        /\ status' = [status EXCEPT ![wjob[w]] = "DEFERRED_RED_ZONE"]
        /\ owner' = [owner EXCEPT ![wjob[w]] = NoWorker]
        /\ UNCHANGED phase /\ pc[w] = "parking" /\ wjob[w] \in Jobs
    BY <1>5 DEF ParkWrite, BackToIdle
  <2> QED BY <2>1
<1>6. ASSUME NEW j \in Jobs, RecoverJob(j) PROVE ExecInv'
  BY <1>6 DEF RecoverJob, workerVars
<1>7. CASE ReclaimStaleJobs
  <2>1. UNCHANGED <<pc, wjob, phase>>
    BY <1>7 DEF ReclaimStaleJobs, workerVars
  <2>2. \A j \in Jobs : \/ status'[j] = status[j] /\ owner'[j] = owner[j]
                        \/ status'[j] \in {"RECOVERY_REQUIRED", "DEAD_LETTER"}
                        \/ status[j] = "CLAIMED" /\ status'[j] = "QUEUED"
    BY <1>7, ReclaimOutcome
  <2>3. \A w \in Workers : pc[w] # "idle" => wjob[w] \in Jobs
    OBVIOUS
  <2>4. \A w \in Workers : pc[w] \in AtWork =>
          \/ status'[wjob[w]] = status[wjob[w]] /\ owner'[wjob[w]] = owner[wjob[w]]
          \/ status'[wjob[w]] \in {"RECOVERY_REQUIRED", "DEAD_LETTER"}
    BY <2>2, <2>3
  <2>5. \A w \in Workers : pc[w] # "idle" /\ status'[wjob[w]] = "PROCESSING" =>
          status[wjob[w]] = "PROCESSING" /\ owner'[wjob[w]] = owner[wjob[w]]
    BY <2>2, <2>3
  <2>6. WorkedJobIsBegun' BY <2>1, <2>4
  <2>7. OneAtWork' /\ RecoveryIsAlone' BY <2>1
  <2>8. UnbegunIsClaimed' BY <2>1, <2>5
  <2> QED BY <2>6, <2>7, <2>8
<1>8. ASSUME NEW voided \in SUBSET Deferred, ReleaseDeferred(voided) PROVE ExecInv'
  <2>1. \A j \in Jobs : \/ status'[j] = status[j]
                        \/ status[j] = "DEFERRED_RED_ZONE" /\ status'[j] \in {"QUEUED", "REJECTED"}
    BY <1>8, ReleaseOutcome
  <2>2. UNCHANGED <<owner, pc, wjob, phase>>
    BY <1>8 DEF ReleaseDeferred, workerVars
  <2>3. \A w \in Workers : pc[w] # "idle" => wjob[w] \in Jobs
    OBVIOUS
  <2>4. \A w \in Workers : pc[w] \in AtWork => status'[wjob[w]] = status[wjob[w]]
    BY <2>1, <2>3
  <2>5. \A w \in Workers : pc[w] # "idle" /\ status'[wjob[w]] = "PROCESSING" =>
          status[wjob[w]] = "PROCESSING"
    BY <2>1, <2>3
  <2> QED BY <2>2, <2>4, <2>5
<1>9. CASE Crash
  BY <1>9 DEF Crash
<1>10. CASE RecoverClaims \/ StartPool
  BY <1>10 DEF RecoverClaims, StartPool, jobVars, workerVars
<1> QED
  BY CalmOrLoud, CalmPreserves, <1>1, <1>2, <1>3, <1>4, <1>5, <1>6, <1>7, <1>8, <1>9, <1>10
  DEF LoudStep

LEMMA ExecInvariant == Spec => [](TypeInv /\ BarrierInv /\ ExecInv)
BY BarrierInvariant, TypeInit, TypeStep, ExecInit, ExecStep, PTL DEF Spec

(* No job is executed by two workers at once, and none is back in the      *)
(* queue while somebody executes it, whatever leases ran out.              *)
THEOREM OneExecutor == Spec => []OneExecutorPerJob
<1>1. TypeInv /\ ExecInv => OneExecutorPerJob
  BY DEF TypeInv, TypeOK, ExecInv, WorkedJobIsBegun, OneAtWork, OneExecutorPerJob, Executing
<1> QED BY ExecInvariant, <1>1, PTL

----------------------------------------------------------------------------
(* What a job has sent it has sent in its one execution: nothing before it *)
(* begins, by the tasks of that execution while it runs; and it does not   *)
(* begin again.                                                            *)

Tried  == {"placed", "success", "unsettled", "rejected", "error"}
Ends   == {"RECOVERY_REQUIRED", "REJECTED", "FAILED", "COMPLETED"}

HasSent(j) == \E k \in Keys : SentBy(j, k)

(* The worker has placed nothing for its job: it is in front of the fan-   *)
(* out, or about to park the job.                                          *)
Untouched(w) ==
  \/ pc[w] \in {"gate", "entry", "parking"}
  \/ pc[w] = "writing" /\ verdict[w] = "DEFERRED_RED_ZONE"

SenderIsBegun ==
  \A j \in Jobs, k \in Keys : SentBy(j, k) => Signal(j) = Signal(k) /\ status[j] \in Begun

DeferredSentNothing == \A w \in Workers : Untouched(w) => ~HasSent(wjob[w])

SentByItsTask ==
  \A w \in Workers, k \in Keys : pc[w] = "running" /\ SentBy(wjob[w], k) =>
    \E a \in Accounts : k = KeyOf(w, a) /\ task[w][a] \in Tried

VerdictIsFinal ==
  \A w \in Workers : pc[w] = "writing" => verdict[w] \in Ends \cup {"DEFERRED_RED_ZONE"}

SenderInv == SenderIsBegun /\ DeferredSentNothing /\ SentByItsTask /\ VerdictIsFinal

(* Success is claimed for what was placed, by the task that placed it.     *)
PlacedIsSent ==
  \A w \in Workers, a \in Accounts :
    pc[w] = "running" /\ task[w][a] \in {"placed", "success"} => SentBy(wjob[w], KeyOf(w, a))

VerdictIsEarned ==
  \A w \in Workers : pc[w] = "writing" /\ verdict[w] = "COMPLETED" => HasSent(wjob[w])

EarnedInv == PlacedIsSent /\ VerdictIsEarned /\ CompletedMeansSent

USE DEF Tried, Ends

LEMMA SenderInit == Init => SenderInv /\ EarnedInv
<1> SUFFICES ASSUME Init PROVE SenderInv /\ EarnedInv
  OBVIOUS
<1>1. \A j \in Jobs, k \in Keys : ~SentBy(j, k)
  BY DEF Init, SentBy
<1>2. pc = [w \in Workers |-> "idle"] /\ status = [j \in Jobs |-> "ABSENT"]
  BY DEF Init
<1>3. SenderInv
  BY <1>1, <1>2 DEF SenderInv, SenderIsBegun, DeferredSentNothing, Untouched, SentByItsTask,
                    VerdictIsFinal
<1>4. EarnedInv
  BY <1>2 DEF EarnedInv, PlacedIsSent, VerdictIsEarned, CompletedMeansSent
<1> QED BY <1>3, <1>4

(* How a step may move a worker.                                           *)
ToEnd(w) ==
  /\ pc'[w] = "writing" /\ verdict'[w] \in Ends
  /\ verdict'[w] = "COMPLETED" => \/ pc[w] = "writing" /\ verdict[w] = "COMPLETED"
                                  \/ pc[w] = "running" /\ Outcome(w, "success")

ToUntouched(w) ==
  /\ Untouched(w)'
  /\ \/ Untouched(w)
     \/ pc[w] = "starting" /\ Owns(w, wjob[w])
     \/ pc[w] = "running" /\ \A a \in Accounts : task[w][a] \notin Tried

ToRunning(w) ==
  /\ pc'[w] = "running"
  /\ \/ Untouched(w) /\ \A a \in Accounts : task'[w][a] \notin Tried
     \/ /\ pc[w] = "running"
        /\ \A a \in Accounts :
             /\ task[w][a] \in Tried => task'[w][a] \in Tried
             /\ task'[w][a] \in {"placed", "success"} =>
                  task[w][a] \in {"placed", "success"} \/ PlaceOrder(w, a)

Moves(w) ==
  \/ pc'[w] \in {"idle", "waiting", "starting"}
  \/ wjob'[w] = wjob[w] /\ (ToEnd(w) \/ ToUntouched(w) \/ ToRunning(w))

LEMMA StillMoves ==
  ASSUME TypeInv, VerdictIsFinal, NEW w \in Workers,
         pc'[w] = pc[w], wjob'[w] = wjob[w], verdict'[w] = verdict[w], task'[w] = task[w]
  PROVE  Moves(w)
BY DEF TypeInv, TypeOK, VerdictIsFinal, Moves, ToEnd, ToUntouched, ToRunning, Untouched

(* A step of one worker leaves the others as they were.                    *)
OnlyMoves(w) ==
  \A v \in Workers \ {w} :
    pc'[v] = pc[v] /\ wjob'[v] = wjob[v] /\ verdict'[v] = verdict[v] /\ task'[v] = task[v]

LEMMA IdleMoves ==
  ASSUME TypeInv, NEW w \in Workers, BackToIdle(w)
  PROVE  Moves(w) /\ OnlyMoves(w)
BY DEF TypeInv, TypeOK, BackToIdle, Moves, OnlyMoves

LEMMA DecideMoves ==
  ASSUME TypeInv, NEW w \in Workers, NEW v \in Ends, Decide(w, v),
         v = "COMPLETED" => pc[w] = "running" /\ Outcome(w, "success")
  PROVE  Moves(w) /\ OnlyMoves(w)
BY DEF TypeInv, TypeOK, Decide, Moves, ToEnd, OnlyMoves

LEMMA DeferMoves ==
  ASSUME TypeInv, NEW w \in Workers, Decide(w, "DEFERRED_RED_ZONE"),
         Untouched(w) \/ (pc[w] = "running" /\ \A a \in Accounts : task[w][a] \notin Tried)
  PROVE  Moves(w) /\ OnlyMoves(w)
BY DEF TypeInv, TypeOK, Decide, Moves, ToUntouched, OnlyMoves, Untouched

LEMMA WorkerMoves ==
  ASSUME TypeInv, VerdictIsFinal, NEW w \in Workers, WorkerStep(w)
  PROVE  Moves(w) /\ OnlyMoves(w)
<1> USE DEF TypeInv, TypeOK
<1>1. CASE AcquireDomainLock(w)
  <2>1. CASE lost[w] BY <1>1, <2>1, IdleMoves DEF AcquireDomainLock
  <2>2. CASE ~lost[w] BY <1>1, <2>2 DEF AcquireDomainLock, Moves, OnlyMoves
  <2> QED BY <2>1, <2>2
<1>2. CASE StartProcessing(w)
  <2>1. CASE Owns(w, wjob[w])
    BY <1>2, <2>1 DEF StartProcessing, Moves, ToUntouched, Untouched, OnlyMoves
  <2>2. CASE ~Owns(w, wjob[w]) BY <1>2, <2>2, IdleMoves DEF StartProcessing
  <2> QED BY <2>1, <2>2
<1>3. CASE RejectPayload(w)
  BY <1>3, DecideMoves DEF RejectPayload
<1>4. CASE DeferAtGate(w) \/ DeferAtEntry(w)
  BY <1>4, DeferMoves DEF DeferAtGate, DeferAtEntry, Untouched
<1>5. ASSUME NEW accts \in SUBSET Accounts, ResolveContexts(w, accts)
      PROVE  Moves(w) /\ OnlyMoves(w)
  BY <1>5 DEF ResolveContexts, Moves, ToRunning, Untouched, OnlyMoves
<1>6. ASSUME NEW a \in Accounts, TaskStep(w, a) PROVE Moves(w) /\ OnlyMoves(w)
  <2>1. \E t \in TaskState :
          /\ task' = [task EXCEPT ![w][a] = t] /\ UNCHANGED <<pc, wjob, verdict>>
          /\ pc[w] = "running" /\ task[w][a] \in {"gates"} \cup InFlight
          /\ task[w][a] \in Tried => t \in Tried
          /\ t \in {"placed", "success"} => task[w][a] \in Tried \/ PlaceOrder(w, a)
    <3> USE DEF At, SetTask
    <3>1. CASE \E t \in {"rejected", "error"} : RefuseAtGates(w, a, t)
      BY <3>1 DEF RefuseAtGates
    <3>2. CASE DeferBeforeClaim(w, a)
      BY <3>2 DEF DeferBeforeClaim
    <3>3. CASE AcquireClaim(w, a)
      BY <3>3 DEF AcquireClaim
    <3>4. CASE PersistReservedChild(w, a)
      BY <3>4 DEF PersistReservedChild
    <3>5. CASE PlaceOrder(w, a)
      <4>1. /\ task' = [task EXCEPT ![w][a] = "placed"] /\ UNCHANGED <<pc, wjob, verdict>>
            /\ pc[w] = "running" /\ task[w][a] = "reserved"
        BY <3>5 DEF PlaceOrder
      <4> QED BY <3>5, <4>1
    <3>6. CASE \E t \in {"success", "error", "rejected"} : SettleBasket(w, a, t)
      BY <3>6 DEF SettleBasket
    <3>7. CASE \E t \in {"unsettled", "error", "rejected"} : LeaveClaimHeld(w, a, t)
      BY <3>7 DEF LeaveClaimHeld
    <3> QED BY <1>6, <3>1, <3>2, <3>3, <3>4, <3>5, <3>6, <3>7 DEF TaskStep
  <2>2. \A b \in Accounts \ {a} : task'[w][b] = task[w][b]
    BY <2>1
  <2>3. ToRunning(w)
    BY <2>1, <2>2 DEF ToRunning
  <2> QED BY <2>1, <2>3 DEF Moves, OnlyMoves
<1>7. CASE HandleException(w)
  <2>0. pc[w] = "running" /\ RaisedOut(w)
    BY <1>7 DEF HandleException, FanoutDone
  <2>1. CASE Outcome(w, "deferred") /\ Decide(w, "DEFERRED_RED_ZONE")
    <3>1. \A a \in Accounts : task[w][a] \notin Tried
      BY <2>0, <2>1 DEF RaisedOut, Outcome, Fanout
    <3> QED BY <2>0, <2>1, <3>1, DeferMoves
  <2>2. CASE Decide(w, HandlerVerdict(wjob[w]))
    BY <2>2, DecideMoves DEF HandlerVerdict
  <2>3. CASE Decide(w, "FAILED")
    BY <2>3, DecideMoves
  <2> QED BY <1>7, <2>1, <2>2, <2>3 DEF HandleException
<1>8. CASE CollectOutcomes(w)
  <2>1. CASE lost[w] BY <1>8, <2>1, IdleMoves DEF CollectOutcomes
  <2>2. CASE ~lost[w]
    <3>1. /\ FanoutVerdict(w) \in Ends
          /\ FanoutVerdict(w) = "COMPLETED" => Outcome(w, "success")
      BY DEF FanoutVerdict
    <3> QED BY <1>8, <2>2, <3>1, DecideMoves DEF CollectOutcomes, FanoutDone
  <2> QED BY <2>1, <2>2
<1>9. CASE WriteStatus(w) \/ ParkWrite(w)
  BY <1>9, IdleMoves DEF WriteStatus, ParkWrite
<1>10. CASE ParkFence(w)
  <2>1. CASE Owns(w, wjob[w])
    BY <1>10, <2>1 DEF ParkFence, Moves, ToUntouched, Untouched, OnlyMoves
  <2>2. CASE ~Owns(w, wjob[w]) BY <1>10, <2>2, IdleMoves DEF ParkFence
  <2> QED BY <2>1, <2>2
<1> QED
  BY <1>1, <1>2, <1>3, <1>4, <1>5, <1>6, <1>7, <1>8, <1>9, <1>10 DEF WorkerStep

LEMMA EveryoneMoves ==
  ASSUME TypeInv, VerdictIsFinal, [Next]_vars
  PROVE  \A w \in Workers : Moves(w)
<1> USE DEF TypeInv, TypeOK, workerVars
<1>o. ASSUME NEW w \in Workers, Moves(w), OnlyMoves(w) PROVE \A v \in Workers : Moves(v)
  BY <1>o, StillMoves DEF OnlyMoves
<1>s. ASSUME UNCHANGED workerVars PROVE \A v \in Workers : Moves(v)
  BY <1>s, StillMoves
<1>1. CASE \E s \in Alerts, scopes \in RouteSets : Ingest(s, scopes)
  BY <1>1, <1>s DEF Ingest
<1>2. ASSUME NEW w \in Workers, NEW j \in Jobs, ClaimNextJob(w, j)
      PROVE  \A v \in Workers : Moves(v)
  BY <1>2, <1>o DEF ClaimNextJob, Moves, OnlyMoves
<1>3. CASE \E w \in Workers : WorkerStep(w)
  BY <1>3, <1>o, WorkerMoves
<1>4. CASE \E w \in Workers : Heartbeat(w) \/ HeartbeatFails(w)
  BY <1>4, StillMoves DEF Heartbeat, HeartbeatFails
<1>5. ASSUME NEW w \in Workers, StatusWriteFails(w) PROVE \A v \in Workers : Moves(v)
  <2>1. CASE pc[w] = "starting" \/ RaisedOut(w)
    BY <1>5, <2>1, <1>o, IdleMoves DEF StatusWriteFails
  <2>2. CASE ~(pc[w] = "starting" \/ RaisedOut(w))
    <3>1. /\ verdict' = [verdict EXCEPT ![w] = HandlerVerdict(wjob[w])]
          /\ task' = [task EXCEPT ![w] = NoTasks] /\ UNCHANGED <<pc, wjob>> /\ pc[w] = "writing"
      BY <1>5, <2>2 DEF StatusWriteFails
    <3>2. HandlerVerdict(wjob[w]) \in {"RECOVERY_REQUIRED", "FAILED"}
      BY DEF HandlerVerdict
    <3>3. Moves(w) /\ OnlyMoves(w)
      BY <3>1, <3>2 DEF Moves, ToEnd, OnlyMoves
    <3> QED BY <3>3, <1>o
  <2> QED BY <2>1, <2>2
<1>6. ASSUME NEW w \in Workers, ParkFails(w) PROVE \A v \in Workers : Moves(v)
  <2>1. Untouched(w) BY <1>6 DEF ParkFails, Untouched
  <2>2. CASE BackToIdle(w) BY <2>2, <1>o, IdleMoves
  <2>3. CASE Decide(w, HandlerVerdict(wjob[w]))
    BY <2>3, <1>o, DecideMoves DEF HandlerVerdict
  <2>4. CASE /\ pc' = [pc EXCEPT ![w] = "entry"] /\ verdict' = [verdict EXCEPT ![w] = "ABSENT"]
             /\ UNCHANGED <<wjob, lost, task>>
    <3>1. Moves(w) /\ OnlyMoves(w)
      BY <2>1, <2>4 DEF Moves, ToUntouched, Untouched, OnlyMoves
    <3> QED BY <3>1, <1>o
  <2> QED BY <1>6, <2>2, <2>3, <2>4 DEF ParkFails
<1>7. CASE \E j \in Jobs : LeaseRunsOut(j) \/ RecoverJob(j)
  BY <1>7, <1>s DEF LeaseRunsOut, RecoverJob
<1>8. CASE ReclaimerStep
  BY <1>8, <1>s DEF ReclaimerStep, ReclaimScan, ReclaimStaleJobs, ReconcileStaleClaim
<1>9. CASE \E z \in Zones : ClockMoves(z)
  BY <1>9, <1>s DEF ClockMoves
<1>10. CASE \E voided \in SUBSET Deferred : ReleaseDeferred(voided)
  BY <1>10, <1>s DEF ReleaseDeferred
<1>11. CASE Crash
  BY <1>11 DEF Crash, Moves
<1>12. CASE RecoverClaims \/ StartPool
  BY <1>12, <1>s DEF RecoverClaims, StartPool
<1>13. CASE UNCHANGED vars
  BY <1>13, <1>s DEF vars
<1> QED
  BY <1>1, <1>2, <1>3, <1>4, <1>5, <1>6, <1>7, <1>8, <1>9, <1>10, <1>11, <1>12, <1>13 DEF Next
(* What the ledger shows of a job that has sent, so that whoever decides   *)
(* about its row knows.                                                    *)
LEMMA SentIsSeen ==
  ASSUME BarrierInv, SenderInv, NEW j \in Jobs, HasSent(j)
  PROVE  MayHaveSent(j)
<1> PICK k \in Keys : SentBy(j, k) BY DEF HasSent
<1>1. Signal(k) = Signal(j) BY DEF SenderInv, SenderIsBegun
<1>2. sent[k] # <<>> BY DEF SentBy
<1>3. k \in orders BY <1>2 DEF BarrierInv, LedgerBehindBarrier
<1> QED BY <1>1, <1>3 DEF MayHaveSent, OrdersEmitted

(* A row that was begun stays begun, unless nothing was sent for it; and   *)
(* COMPLETED is written over a row whose job has sent.                     *)
RowKept(j) ==
  /\ status[j] \in Begun /\ HasSent(j) => status'[j] \in Begun
  /\ status'[j] = "COMPLETED" => status[j] = "COMPLETED" \/ HasSent(j)

LEMMA RowsKept ==
  ASSUME TypeInv, BarrierInv, ExecInv, SenderInv, EarnedInv, [Next]_vars
  PROVE  \A j \in Jobs : RowKept(j)
<1> SUFFICES ASSUME NEW j \in Jobs PROVE RowKept(j)
  OBVIOUS
<1> USE DEF TypeInv, TypeOK, BusyHasJob, RowKept
<1>0. CASE CalmStep
  BY <1>0 DEF CalmStep
<1>1. ASSUME NEW s \in Alerts, NEW scopes \in RouteSets, Ingest(s, scopes) PROVE RowKept(j)
  BY <1>1 DEF Ingest, CreateJobIfNotExists
<1>2. ASSUME NEW w \in Workers, NEW i \in Jobs, ClaimNextJob(w, i) PROVE RowKept(j)
  BY <1>2 DEF ClaimNextJob, Candidate
<1>3. ASSUME NEW w \in Workers, StartProcessing(w) PROVE RowKept(j)
  BY <1>3 DEF StartProcessing
<1>4. ASSUME NEW w \in Workers, WriteStatus(w) PROVE RowKept(j)
  <2>1. /\ \/ status' = status
           \/ status' = [status EXCEPT ![wjob[w]] = verdict[w]]
        /\ pc[w] = "writing" /\ wjob[w] \in Jobs /\ verdict[w] # "DEFERRED_RED_ZONE"
    BY <1>4 DEF WriteStatus
  <2>2. /\ verdict[w] \in Ends
        /\ verdict[w] = "COMPLETED" => HasSent(wjob[w])
    BY <2>1 DEF SenderInv, VerdictIsFinal, EarnedInv, VerdictIsEarned
  <2> QED BY <2>1, <2>2
<1>5. ASSUME NEW w \in Workers, ParkWrite(w) PROVE RowKept(j)
  <2>1. status' = [status EXCEPT ![wjob[w]] = "DEFERRED_RED_ZONE"] /\ pc[w] = "parking"
    BY <1>5 DEF ParkWrite
  <2>2. ~HasSent(wjob[w])
    BY <2>1 DEF SenderInv, DeferredSentNothing, Untouched
  <2> QED BY <2>1, <2>2
<1>6. ASSUME NEW i \in Jobs, RecoverJob(i) PROVE RowKept(j)
  <2>1. status' = [status EXCEPT ![i] = RecoveredStatus(i)]
    BY <1>6 DEF RecoverJob
  <2>2. /\ RecoveredStatus(i) # "COMPLETED"
        /\ HasSent(i) => RecoveredStatus(i) = "RECOVERY_REQUIRED"
    BY SentIsSeen DEF RecoveredStatus
  <2> QED BY <2>1, <2>2
<1>7. CASE ReclaimStaleJobs
  <2>1. \/ status'[j] = status[j]
        \/ status'[j] \in {"RECOVERY_REQUIRED", "DEAD_LETTER"}
        \/ status[j] = "CLAIMED" /\ status'[j] = "QUEUED"
    BY <1>7, ReclaimOutcome
  <2> QED BY <2>1
<1>8. ASSUME NEW voided \in SUBSET Deferred, ReleaseDeferred(voided) PROVE RowKept(j)
  <2>1. \/ status'[j] = status[j]
        \/ status[j] = "DEFERRED_RED_ZONE" /\ status'[j] \in {"QUEUED", "REJECTED"}
    BY <1>8, ReleaseOutcome
  <2> QED BY <2>1
<1>9. CASE Crash \/ RecoverClaims \/ StartPool
  BY <1>9 DEF Crash, RecoverClaims, StartPool, jobVars
<1> QED
  BY CalmOrLoud, <1>0, <1>1, <1>2, <1>3, <1>4, <1>5, <1>6, <1>7, <1>8, <1>9 DEF LoudStep

(* The one step that adds to the history of submissions.                   *)
LEMMA PlaceAdds ==
  ASSUME TypeInv, BarrierInv, NEW w \in Workers, NEW a \in Accounts, PlaceOrder(w, a)
  PROVE  /\ KeyOf(w, a) \in Keys /\ wjob[w] \in Jobs /\ pc[w] = "running"
         /\ \A j \in Jobs, i \in Keys :
              SentBy(j, i)' <=> SentBy(j, i) \/ (i = KeyOf(w, a) /\ j = wjob[w])
<1>0. wjob[w] \in Jobs /\ pc[w] = "running"
  BY DEF TypeInv, BusyHasJob, PlaceOrder, At
<1>k. PICK k \in Keys : k = KeyOf(w, a)
  BY <1>0, KeyOfType DEF KeyOf
<1>1. sent[k] = <<>> /\ sent' = [sent EXCEPT ![k] = Append(sent[k], wjob[w])]
  BY <1>k DEF PlaceOrder, At, BarrierInv, NothingSentBefore
<1>2. sent'[k] = <<wjob[w]>> /\ \A i \in Keys : i # k => sent'[i] = sent[i]
  BY <1>0, <1>1 DEF TypeInv, TypeOK
<1>3. \A j \in Jobs : SentBy(j, k)' <=> j = wjob[w]
  BY <1>2 DEF SentBy
<1>4. \A j \in Jobs, i \in Keys : i # k => (SentBy(j, i)' <=> SentBy(j, i))
  BY <1>2 DEF SentBy
<1>5. \A j \in Jobs : ~SentBy(j, k)
  BY <1>1 DEF SentBy
<1> QED BY <1>0, <1>k, <1>3, <1>4, <1>5

LEMMA OthersAddNothing ==
  ASSUME TypeInv, BarrierInv, [Next]_vars, ~\E w \in Workers, a \in Accounts : PlaceOrder(w, a)
  PROVE  sent' = sent
BY StepKinds DEF QuietStep, AcquireClaim, PersistReservedChild

LEMMA PlaceStep ==
  ASSUME TypeInv, BarrierInv, ExecInv, SenderInv, EarnedInv,
         NEW w \in Workers, NEW a \in Accounts, PlaceOrder(w, a)
  PROVE  (SenderInv /\ EarnedInv)'
<1> USE DEF SenderInv, EarnedInv
<1>1. /\ KeyOf(w, a) \in Keys /\ wjob[w] \in Jobs /\ pc[w] = "running"
      /\ \A j \in Jobs, i \in Keys :
           SentBy(j, i)' <=> SentBy(j, i) \/ (i = KeyOf(w, a) /\ j = wjob[w])
  BY PlaceAdds
<1>2. UNCHANGED <<status, pc, wjob, verdict>> /\ task' = [task EXCEPT ![w][a] = "placed"]
  BY DEF PlaceOrder, SetTask, jobVars
<1>3. \A v \in Workers, b \in Accounts :
        IF v = w /\ b = a THEN task'[v][b] = "placed" ELSE task'[v][b] = task[v][b]
  BY <1>2 DEF TypeInv, TypeOK
<1>4. \A v \in Workers, b \in Accounts : KeyOf(v, b)' = KeyOf(v, b)
  BY <1>2 DEF KeyOf
<1>b. \A v \in Workers : pc[v] # "idle" => wjob[v] \in Jobs
  BY DEF TypeInv, BusyHasJob
<1>5. SenderIsBegun'
  <2>1. status[wjob[w]] \in Begun BY <1>1 DEF ExecInv, WorkedJobIsBegun
  <2>2. Signal(KeyOf(w, a)) = Signal(wjob[w]) BY DEF KeyOf, Signal
  <2> QED BY <1>1, <1>2, <2>1, <2>2 DEF SenderIsBegun
<1>6. DeferredSentNothing'
  <2> SUFFICES ASSUME NEW v \in Workers, Untouched(v)' PROVE ~HasSent(wjob[v])'
    BY DEF DeferredSentNothing
  <2>1. Untouched(v) BY <1>2 DEF Untouched
  <2>2. v # w /\ pc[v] \in AtWork BY <1>1, <2>1 DEF Untouched
  <2>3. wjob[v] # wjob[w] BY <1>1, <2>2 DEF ExecInv, OneAtWork
  <2>4. wjob[v] \in Jobs /\ ~HasSent(wjob[v])
    BY <1>b, <2>1, <2>2 DEF DeferredSentNothing
  <2> QED BY <1>1, <1>2, <2>3, <2>4 DEF HasSent
<1>7. SentByItsTask'
  <2> SUFFICES ASSUME NEW v \in Workers, NEW k \in Keys, pc[v] = "running",
                      SentBy(wjob[v], k)'
               PROVE  \E b \in Accounts : k = KeyOf(v, b) /\ task'[v][b] \in Tried
    BY <1>2, <1>4 DEF SentByItsTask
  <2>1. wjob[v] \in Jobs /\ (SentBy(wjob[v], k) \/ (k = KeyOf(w, a) /\ wjob[v] = wjob[w]))
    BY <1>1, <1>2, <1>b
  <2>2. CASE SentBy(wjob[v], k)
    BY <1>3, <2>2 DEF SentByItsTask
  <2>3. CASE k = KeyOf(w, a) /\ wjob[v] = wjob[w]
    <3>1. v = w BY <1>1, <2>3 DEF ExecInv, OneAtWork
    <3> QED BY <1>3, <2>3, <3>1
  <2> QED BY <2>1, <2>2, <2>3
<1>8. VerdictIsFinal' BY <1>2 DEF VerdictIsFinal
<1>9. PlacedIsSent'
  <2> SUFFICES ASSUME NEW v \in Workers, NEW b \in Accounts, pc[v] = "running",
                      task'[v][b] \in {"placed", "success"}
               PROVE  SentBy(wjob[v], KeyOf(v, b))'
    BY <1>2 DEF PlacedIsSent
  <2>1. wjob[v] \in Jobs /\ KeyOf(v, b) \in Keys
    BY <1>b, KeyOfType DEF KeyOf
  <2>2. (v = w /\ b = a) \/ SentBy(wjob[v], KeyOf(v, b))
    BY <1>3 DEF PlacedIsSent
  <2>3. \A j \in Jobs, k \in Keys :
          SentBy(j, k) \/ (k = KeyOf(w, a) /\ j = wjob[w]) => SentBy(j, k)'
    BY <1>1
  <2>4. SentBy(wjob[v], KeyOf(v, b))' <=> \E i \in 1..Len(sent'[KeyOf(v, b)]) : sent'[KeyOf(v, b)][i] = wjob[v]
    BY <1>2, <1>4 DEF SentBy
  <2> QED BY <2>1, <2>2, <2>3, <2>4 DEF SentBy
<1>10. VerdictIsEarned'
  BY <1>1, <1>2, <1>b DEF VerdictIsEarned, HasSent
<1>11. CompletedMeansSent'
  BY <1>1, <1>2 DEF CompletedMeansSent
<1> QED BY <1>5, <1>6, <1>7, <1>8, <1>9, <1>10, <1>11

LEMMA OtherStep ==
  ASSUME TypeInv, BarrierInv, ExecInv, SenderInv, EarnedInv, [Next]_vars,
         ~\E w \in Workers, a \in Accounts : PlaceOrder(w, a)
  PROVE  (SenderInv /\ EarnedInv)'
<1> USE DEF SenderInv, EarnedInv
<1>1. \A j \in Jobs, k \in Keys : SentBy(j, k)' <=> SentBy(j, k)
  BY OthersAddNothing DEF SentBy
<1>2. \A j \in Jobs : HasSent(j)' <=> HasSent(j)
  BY <1>1 DEF HasSent
<1>m. \A w \in Workers : Moves(w) BY EveryoneMoves
<1>r. \A j \in Jobs : RowKept(j) BY RowsKept
<1>b. \A w \in Workers : /\ pc[w] # "idle" => wjob[w] \in Jobs
                         /\ pc[w] \in WorkerPc
  BY DEF TypeInv, TypeOK, BusyHasJob
<1>5. SenderIsBegun'
  BY <1>1, <1>r DEF SenderIsBegun, RowKept, HasSent
<1>6. DeferredSentNothing'
  <2> SUFFICES ASSUME NEW w \in Workers, Untouched(w)' PROVE ~HasSent(wjob[w])'
    BY DEF DeferredSentNothing
  <2>1. wjob'[w] = wjob[w] /\ ToUntouched(w)
    BY <1>m DEF Moves, ToEnd, ToRunning, Untouched
  <2>2. pc[w] # "idle" BY <2>1 DEF ToUntouched, Untouched
  <2>3. PICK j \in Jobs : j = wjob[w] BY <1>b, <2>2
  <2>4. ~HasSent(j)
    <3>1. CASE Untouched(w) BY <2>3, <3>1 DEF DeferredSentNothing
    <3>2. CASE pc[w] = "starting" /\ Owns(w, wjob[w])
      <4>1. status[j] = "CLAIMED" BY <2>3, <3>2 DEF Owns, ExecInv, UnbegunIsClaimed
      <4> QED BY <4>1 DEF SenderIsBegun, HasSent
    <3>3. CASE pc[w] = "running" /\ \A a \in Accounts : task[w][a] \notin Tried
      BY <2>3, <3>3 DEF SentByItsTask, HasSent
    <3> QED BY <2>1, <3>1, <3>2, <3>3 DEF ToUntouched
  <2>5. ~HasSent(j)' BY <1>2, <2>4
  <2>6. j = wjob'[w] BY <2>1, <2>3
  <2> QED BY <2>5, <2>6 DEF HasSent, SentBy
<1>7. SentByItsTask'
  <2> SUFFICES ASSUME NEW w \in Workers, NEW k \in Keys, pc'[w] = "running",
                      SentBy(wjob[w], k)'
               PROVE  \E b \in Accounts : k = KeyOf(w, b)' /\ task'[w][b] \in Tried
    BY DEF SentByItsTask
  <2>1. wjob'[w] = wjob[w] /\ ToRunning(w)
    BY <1>m DEF Moves, ToEnd, ToUntouched, Untouched
  <2>2. pc[w] # "idle" BY <2>1 DEF ToRunning, Untouched
  <2>3. PICK j \in Jobs : j = wjob[w] BY <1>b, <2>2
  <2>4. SentBy(j, k)' BY <2>1, <2>3 DEF SentBy
  <2>5. SentBy(j, k) BY <1>1, <2>4
  <2>6. ~Untouched(w) BY <2>3, <2>5 DEF DeferredSentNothing, HasSent
  <2>7. PICK b \in Accounts : k = KeyOf(w, b) /\ task[w][b] \in Tried
    BY <2>1, <2>3, <2>5, <2>6 DEF ToRunning, SentByItsTask
  <2>8. KeyOf(w, b)' = KeyOf(w, b) BY <2>1 DEF KeyOf
  <2> QED BY <2>1, <2>6, <2>7, <2>8 DEF ToRunning
<1>8. VerdictIsFinal'
  BY <1>m DEF VerdictIsFinal, Moves, ToEnd, ToUntouched, ToRunning, Untouched
<1>9. PlacedIsSent'
  <2> SUFFICES ASSUME NEW w \in Workers, NEW b \in Accounts, pc'[w] = "running",
                      task'[w][b] \in {"placed", "success"}
               PROVE  SentBy(wjob[w], KeyOf(w, b))'
    BY DEF PlacedIsSent
  <2>1. wjob'[w] = wjob[w] /\ ToRunning(w)
    BY <1>m DEF Moves, ToEnd, ToUntouched, Untouched
  <2>2. pc[w] = "running" /\ task[w][b] \in {"placed", "success"}
    BY <2>1 DEF ToRunning
  <2>3. PICK j \in Jobs, k \in Keys : j = wjob[w] /\ k = KeyOf(w, b)
    BY <1>b, <2>2, KeyOfType DEF KeyOf
  <2>4. SentBy(j, k) BY <2>2, <2>3 DEF PlacedIsSent
  <2>5. SentBy(j, k)' BY <1>1, <2>4
  <2>6. j = wjob'[w] /\ k = KeyOf(w, b)' BY <2>1, <2>3 DEF KeyOf
  <2> QED BY <2>5, <2>6 DEF SentBy
<1>10. VerdictIsEarned'
  <2> SUFFICES ASSUME NEW w \in Workers, pc'[w] = "writing", verdict'[w] = "COMPLETED"
               PROVE  HasSent(wjob[w])'
    BY DEF VerdictIsEarned
  <2>1. wjob'[w] = wjob[w] /\ ToEnd(w)
    BY <1>m DEF Moves, ToUntouched, ToRunning, Untouched
  <2>2. PICK j \in Jobs : j = wjob[w] BY <1>b, <2>1 DEF ToEnd
  <2>3. HasSent(j)
    <3>1. CASE pc[w] = "writing" /\ verdict[w] = "COMPLETED"
      BY <2>2, <3>1 DEF VerdictIsEarned
    <3>2. CASE pc[w] = "running" /\ Outcome(w, "success")
      BY <2>2, <3>2, KeyOfType DEF Outcome, PlacedIsSent, HasSent, KeyOf
    <3> QED BY <2>1, <3>1, <3>2 DEF ToEnd
  <2>4. HasSent(j)' BY <1>2, <2>3
  <2>5. j = wjob'[w] BY <2>1, <2>2
  <2> QED BY <2>4, <2>5 DEF HasSent, SentBy
<1>11. CompletedMeansSent'
  BY <1>2, <1>r DEF CompletedMeansSent, RowKept, HasSent
<1> QED BY <1>5, <1>6, <1>7, <1>8, <1>9, <1>10, <1>11

LEMMA SenderInvariant ==
  Spec => [](TypeInv /\ BarrierInv /\ ExecInv /\ SenderInv /\ EarnedInv)
<1>1. TypeInv /\ BarrierInv /\ ExecInv /\ SenderInv /\ EarnedInv /\ [Next]_vars
        => (SenderInv /\ EarnedInv)'
  BY PlaceStep, OtherStep
<1> QED BY ExecInvariant, SenderInit, <1>1, PTL DEF Spec

(* No job that reached the broker is ever again where a worker can claim   *)
(* it: neither lease expiry, reclaim, crash, recovery nor red-zone release *)
(* puts it there.                                                          *)
THEOREM SenderNotRequeued == Spec => []SenderNeverRequeued
<1>1. SenderInv => SenderNeverRequeued
  BY DEF SenderInv, SenderIsBegun, SenderNeverRequeued
<1> QED BY SenderInvariant, <1>1, PTL

(* A COMPLETED row is the row of a job that sent an order itself, however  *)
(* many workers, attempts and duplicate jobs the intent had.               *)
THEOREM CompletedSent == Spec => []CompletedMeansSent
<1>1. EarnedInv => CompletedMeansSent BY DEF EarnedInv
<1> QED BY SenderInvariant, <1>1, PTL
----------------------------------------------------------------------------
(* The domain lock.  When every job is scoped, a worker's tasks are on the *)
(* account it has locked, so two workers are never at one account at once. *)

Live == {"gates"} \cup InFlight

ScopedRows  == \A j \in Jobs : status[j] # "ABSENT" => Scope(j) # NoScope
ScopedLists == \A j \in pending \cup sweep : Scope(j) # NoScope
ScopedWork  == \A w \in Workers : pc[w] # "idle" => Scope(wjob[w]) # NoScope
TasksInside ==
  \A w \in Workers, a \in Accounts : task[w][a] \in Live =>
    pc[w] = "running" /\ Scope(wjob[w]) = a
LocksApart  ==
  \A w \in Workers, v \in Workers : w # v /\ pc[w] \in HoldsLock /\ pc[v] \in HoldsLock =>
    Scope(wjob[w]) # Scope(wjob[v])

DomainInv == ScopedRows /\ ScopedLists /\ ScopedWork /\ TasksInside /\ LocksApart

USE DEF Live, HoldsLock

LEMMA DomainInit == Init => DomainInv
BY DEF Init, DomainInv, ScopedRows, ScopedLists, ScopedWork, TasksInside, LocksApart

(* How a step moves a worker with respect to the lock and its account.     *)
TakesJob(w) ==
  /\ pc'[w] = "waiting" /\ task'[w] = task[w] /\ pc[w] = "idle"
  /\ wjob'[w] \in Jobs /\ status[wjob'[w]] # "ABSENT"

KeepsJob(w) ==
  /\ wjob'[w] = wjob[w] /\ pc[w] # "idle"
  /\ pc'[w] \in HoldsLock =>
       pc[w] \in HoldsLock \/ (pc[w] = "waiting" /\ DomainLockFree(w) /\ OnlyMoves(w))
  /\ \A a \in Accounts : task'[w][a] \in Live =>
       pc'[w] = "running" /\ Scope(wjob[w]) = a

DropsJob(w) == pc'[w] = "idle" /\ \A a \in Accounts : task'[w][a] \notin Live

Turns(w) == TakesJob(w) \/ KeepsJob(w) \/ DropsJob(w)

LEMMA StillTurns ==
  ASSUME TypeInv, DomainInv, NEW w \in Workers,
         pc'[w] = pc[w], wjob'[w] = wjob[w], task'[w] = task[w]
  PROVE  Turns(w)
BY DEF TypeInv, TypeOK, DomainInv, TasksInside, Turns, KeepsJob, DropsJob

LEMMA IdleTurns ==
  ASSUME TypeInv, NEW w \in Workers, BackToIdle(w)
  PROVE  Turns(w) /\ OnlyMoves(w)
BY DEF TypeInv, TypeOK, BackToIdle, Turns, DropsJob, OnlyMoves

LEMMA DecideTurns ==
  ASSUME TypeInv, DomainInv, NEW w \in Workers, NEW v, Decide(w, v), pc[w] \in AtWork,
         FanoutDone(w) \/ pc[w] # "running"
  PROVE  Turns(w) /\ OnlyMoves(w)
<1>1. \A a \in Accounts : task[w][a] \notin Live
  BY DEF FanoutDone, Fanout, DomainInv, TasksInside
<1> QED BY <1>1 DEF TypeInv, TypeOK, Decide, Turns, KeepsJob, OnlyMoves

LEMMA WorkerTurns ==
  ASSUME TypeInv, DomainInv, NEW w \in Workers, WorkerStep(w)
  PROVE  Turns(w) /\ OnlyMoves(w)
<1> USE DEF TypeInv, TypeOK
<1>n. pc[w] # "running" => \A a \in Accounts : task[w][a] \notin Live
  BY DEF DomainInv, TasksInside
<1>1. CASE AcquireDomainLock(w)
  <2>1. CASE lost[w] BY <1>1, <2>1, IdleTurns DEF AcquireDomainLock
  <2>2. CASE ~lost[w]
    <3>1. /\ pc[w] = "waiting" /\ DomainLockFree(w)
          /\ pc' = [pc EXCEPT ![w] = "starting"] /\ UNCHANGED <<wjob, verdict, task>>
      BY <1>1, <2>2 DEF AcquireDomainLock
    <3>2. OnlyMoves(w) BY <3>1 DEF OnlyMoves
    <3> QED BY <1>n, <3>1, <3>2 DEF Turns, KeepsJob
  <2> QED BY <2>1, <2>2
<1>2. CASE StartProcessing(w)
  <2>1. CASE Owns(w, wjob[w])
    BY <1>2, <2>1, <1>n DEF StartProcessing, Turns, KeepsJob, OnlyMoves
  <2>2. CASE ~Owns(w, wjob[w]) BY <1>2, <2>2, IdleTurns DEF StartProcessing
  <2> QED BY <2>1, <2>2
<1>3. CASE RejectPayload(w) \/ DeferAtGate(w) \/ DeferAtEntry(w)
  BY <1>3, DecideTurns DEF RejectPayload, DeferAtGate, DeferAtEntry
<1>5. ASSUME NEW accts \in SUBSET Accounts, ResolveContexts(w, accts)
      PROVE  Turns(w) /\ OnlyMoves(w)
  <2>1. /\ pc[w] \in {"gate", "entry"} /\ pc' = [pc EXCEPT ![w] = "running"]
        /\ Scope(wjob[w]) # NoScope => accts \subseteq {Scope(wjob[w])}
        /\ task' = [task EXCEPT ![w] = [a \in Accounts |-> IF a \in accts THEN "gates" ELSE "none"]]
        /\ UNCHANGED <<wjob, verdict>>
    BY <1>5 DEF ResolveContexts
  <2>2. Scope(wjob[w]) # NoScope BY <2>1 DEF DomainInv, ScopedWork
  <2>3. \A a \in Accounts : task'[w][a] \in Live => Scope(wjob[w]) = a
    BY <2>1, <2>2
  <2>4. OnlyMoves(w) BY <2>1 DEF OnlyMoves
  <2> QED BY <2>1, <2>3, <2>4 DEF Turns, KeepsJob
<1>6. ASSUME NEW a \in Accounts, TaskStep(w, a) PROVE Turns(w) /\ OnlyMoves(w)
  <2>1. \E t \in TaskState :
          /\ task' = [task EXCEPT ![w][a] = t] /\ UNCHANGED <<pc, wjob, verdict>>
          /\ pc[w] = "running" /\ task[w][a] \in Live
    BY <1>6 DEF TaskStep, RefuseAtGates, DeferBeforeClaim, AcquireClaim, PersistReservedChild,
                PlaceOrder, SettleBasket, LeaveClaimHeld, At, SetTask
  <2>2. Scope(wjob[w]) = a BY <2>1 DEF DomainInv, TasksInside
  <2>3. \A b \in Accounts : task'[w][b] \in Live => Scope(wjob[w]) = b
    BY <2>1, <2>2 DEF DomainInv, TasksInside
  <2> QED BY <2>1, <2>3 DEF Turns, KeepsJob, OnlyMoves
<1>7. CASE HandleException(w)
  BY <1>7, DecideTurns DEF HandleException, FanoutDone
<1>8. CASE CollectOutcomes(w)
  BY <1>8, DecideTurns, IdleTurns DEF CollectOutcomes, FanoutDone
<1>9. CASE WriteStatus(w) \/ ParkWrite(w)
  BY <1>9, IdleTurns DEF WriteStatus, ParkWrite
<1>10. CASE ParkFence(w)
  <2>1. CASE Owns(w, wjob[w])
    BY <1>10, <2>1, <1>n DEF ParkFence, Turns, KeepsJob, OnlyMoves
  <2>2. CASE ~Owns(w, wjob[w]) BY <1>10, <2>2, IdleTurns DEF ParkFence
  <2> QED BY <2>1, <2>2
<1> QED
  BY <1>1, <1>2, <1>3, <1>5, <1>6, <1>7, <1>8, <1>9, <1>10 DEF WorkerStep

LEMMA EveryoneTurns ==
  ASSUME TypeInv, DomainInv, [Next]_vars
  PROVE  \A w \in Workers : Turns(w)
<1> USE DEF TypeInv, TypeOK, workerVars
<1>o. ASSUME NEW w \in Workers, Turns(w), OnlyMoves(w) PROVE \A v \in Workers : Turns(v)
  BY <1>o, StillTurns DEF OnlyMoves
<1>s. ASSUME UNCHANGED workerVars PROVE \A v \in Workers : Turns(v)
  BY <1>s, StillTurns
<1>1. CASE \E s \in Alerts, scopes \in RouteSets : Ingest(s, scopes)
  BY <1>1, <1>s DEF Ingest
<1>2. ASSUME NEW w \in Workers, NEW j \in Jobs, ClaimNextJob(w, j)
      PROVE  \A v \in Workers : Turns(v)
  BY <1>2, <1>o DEF ClaimNextJob, Candidate, Turns, TakesJob, OnlyMoves
<1>3. CASE \E w \in Workers : WorkerStep(w)
  BY <1>3, <1>o, WorkerTurns
<1>4. CASE \E w \in Workers : Heartbeat(w) \/ HeartbeatFails(w)
  BY <1>4, StillTurns DEF Heartbeat, HeartbeatFails
<1>5. ASSUME NEW w \in Workers, StatusWriteFails(w) PROVE \A v \in Workers : Turns(v)
  <2>1. CASE pc[w] = "starting" \/ RaisedOut(w)
    BY <1>5, <2>1, <1>o, IdleTurns DEF StatusWriteFails
  <2>2. CASE ~(pc[w] = "starting" \/ RaisedOut(w))
    <3>1. /\ verdict' = [verdict EXCEPT ![w] = HandlerVerdict(wjob[w])]
          /\ task' = [task EXCEPT ![w] = NoTasks] /\ UNCHANGED <<pc, wjob>> /\ pc[w] = "writing"
      BY <1>5, <2>2 DEF StatusWriteFails
    <3>2. Turns(w) /\ OnlyMoves(w)
      BY <3>1 DEF Turns, KeepsJob, OnlyMoves
    <3> QED BY <3>2, <1>o
  <2> QED BY <2>1, <2>2
<1>6. ASSUME NEW w \in Workers, ParkFails(w) PROVE \A v \in Workers : Turns(v)
  <2>1. pc[w] \in {"parking", "writing"} BY <1>6 DEF ParkFails
  <2>2. CASE BackToIdle(w) BY <2>2, <1>o, IdleTurns
  <2>3. CASE Decide(w, HandlerVerdict(wjob[w])) BY <2>1, <2>3, <1>o, DecideTurns
  <2>4. CASE /\ pc' = [pc EXCEPT ![w] = "entry"] /\ verdict' = [verdict EXCEPT ![w] = "ABSENT"]
             /\ UNCHANGED <<wjob, lost, task>>
    <3>1. Turns(w) /\ OnlyMoves(w)
      BY <2>1, <2>4 DEF Turns, KeepsJob, OnlyMoves, DomainInv, TasksInside
    <3> QED BY <3>1, <1>o
  <2> QED BY <1>6, <2>2, <2>3, <2>4 DEF ParkFails
<1>7. CASE \E j \in Jobs : LeaseRunsOut(j) \/ RecoverJob(j)
  BY <1>7, <1>s DEF LeaseRunsOut, RecoverJob
<1>8. CASE ReclaimerStep
  BY <1>8, <1>s DEF ReclaimerStep, ReclaimScan, ReclaimStaleJobs, ReconcileStaleClaim
<1>9. CASE \E z \in Zones : ClockMoves(z)
  BY <1>9, <1>s DEF ClockMoves
<1>10. CASE \E voided \in SUBSET Deferred : ReleaseDeferred(voided)
  BY <1>10, <1>s DEF ReleaseDeferred
<1>11. CASE Crash
  BY <1>11 DEF Crash, Turns, DropsJob
<1>12. CASE RecoverClaims \/ StartPool
  BY <1>12, <1>s DEF RecoverClaims, StartPool
<1>13. CASE UNCHANGED vars
  BY <1>13, <1>s DEF vars
<1> QED
  BY <1>1, <1>2, <1>3, <1>4, <1>5, <1>6, <1>7, <1>8, <1>9, <1>10, <1>11, <1>12, <1>13 DEF Next

(* Every row that a step makes present, or takes on a work list, is one    *)
(* that is scoped already, or one that ingest inserts for an account.      *)
LEMMA RowsStayScoped ==
  ASSUME TypeInv, DomainInv, [Next]_vars, RouteSets \subseteq SUBSET Accounts
  PROVE  ScopedRows' /\ ScopedLists'
<1> USE DEF TypeInv, TypeOK, BusyHasJob, DomainInv, ScopedRows, ScopedLists
<1>w. \A w \in Workers : pc[w] # "idle" => wjob[w] \in Jobs /\ Scope(wjob[w]) # NoScope
  BY DEF ScopedWork
<1>1. ASSUME NEW s \in Alerts, NEW scopes \in RouteSets, Ingest(s, scopes)
      PROVE  ScopedRows' /\ ScopedLists'
  <2>1. NoScope \notin scopes BY ConstantsAssumption
  <2> QED BY <1>1, <2>1 DEF Ingest, CreateJobIfNotExists
<1>2. ASSUME NEW w \in Workers, NEW i \in Jobs, ClaimNextJob(w, i)
      PROVE  ScopedRows' /\ ScopedLists'
  BY <1>2 DEF ClaimNextJob, Candidate
<1>3. ASSUME NEW w \in Workers, StartProcessing(w) \/ WriteStatus(w) \/ ParkWrite(w)
      PROVE  ScopedRows' /\ ScopedLists'
  <2>1. /\ \/ status' = status
           \/ \E v \in JobStatus : status' = [status EXCEPT ![wjob[w]] = v]
        /\ pc[w] # "idle" /\ UNCHANGED <<pending, sweep>>
    BY <1>3 DEF StartProcessing, WriteStatus, ParkWrite
  <2> QED BY <1>w, <2>1
<1>4. ASSUME NEW w \in Workers,
             AcquireDomainLock(w) \/ RejectPayload(w) \/ DeferAtGate(w) \/ DeferAtEntry(w)
               \/ (\E accts \in SUBSET Accounts : ResolveContexts(w, accts))
               \/ HandleException(w) \/ CollectOutcomes(w) \/ ParkFence(w)
               \/ Heartbeat(w) \/ HeartbeatFails(w) \/ StatusWriteFails(w) \/ ParkFails(w)
      PROVE  ScopedRows' /\ ScopedLists'
  <2>1. UNCHANGED <<status, pending, sweep>>
    BY <1>4 DEF AcquireDomainLock, RejectPayload, DeferAtGate, DeferAtEntry, ResolveContexts,
                HandleException, CollectOutcomes, ParkFence, Heartbeat, HeartbeatFails,
                StatusWriteFails, ParkFails, jobVars
  <2> QED BY <2>1
<1>5. ASSUME NEW w \in Workers, NEW a \in Accounts, TaskStep(w, a)
      PROVE  ScopedRows' /\ ScopedLists'
  <2>1. UNCHANGED <<status, pending, sweep>>
    BY <1>5 DEF TaskStep, RefuseAtGates, DeferBeforeClaim, AcquireClaim, PersistReservedChild,
                PlaceOrder, SettleBasket, LeaveClaimHeld, jobVars
  <2> QED BY <2>1
<1>6. ASSUME NEW i \in Jobs, RecoverJob(i) PROVE ScopedRows' /\ ScopedLists'
  BY <1>6 DEF RecoverJob
<1>7. CASE ReclaimStaleJobs
  <2>1. \A j \in Jobs : status'[j] = status[j] \/ j \in sweep \/ status[j] # "ABSENT"
    BY <1>7 DEF ReclaimStaleJobs, ReclaimedStatus, Expired
  <2> QED BY <1>7, <2>1 DEF ReclaimStaleJobs
<1>8. ASSUME NEW voided \in SUBSET Deferred, ReleaseDeferred(voided)
      PROVE  ScopedRows' /\ ScopedLists'
  <2>1. \A j \in Jobs : status'[j] = status[j] \/ status[j] # "ABSENT"
    BY <1>8, ReleaseOutcome
  <2> QED BY <1>8, <2>1 DEF ReleaseDeferred
<1>9. CASE ReclaimScan
  BY <1>9 DEF ReclaimScan, Expired, jobVars
<1>10. CASE RecoverClaims
  <2>1. /\ UNCHANGED <<status, sweep>>
        /\ pending' = {j \in Jobs : status[j] \in ActiveLease \cup {"RECOVERY_REQUIRED"}}
    BY <1>10 DEF RecoverClaims, jobVars
  <2> QED BY <2>1
<1>11. CASE \/ Crash \/ StartPool \/ (\E j \in Jobs : LeaseRunsOut(j))
            \/ (\E k \in Keys : ReconcileStaleClaim(k)) \/ (\E z \in Zones : ClockMoves(z))
            \/ UNCHANGED vars
  <2>1. status' = status /\ sweep' \subseteq sweep /\ pending' \subseteq pending
    BY <1>11 DEF Crash, StartPool, LeaseRunsOut, ReconcileStaleClaim, ClockMoves, vars, jobVars
  <2> QED BY <2>1
<1> QED
  BY <1>1, <1>2, <1>3, <1>4, <1>5, <1>6, <1>7, <1>8, <1>9, <1>10, <1>11
  DEF Next, WorkerStep, ReclaimerStep

LEMMA DomainStep ==
  ASSUME TypeInv, DomainInv, [Next]_vars, RouteSets \subseteq SUBSET Accounts
  PROVE  DomainInv'
<1>t. \A w \in Workers : Turns(w) BY EveryoneTurns
<1>1. ScopedRows' /\ ScopedLists' BY RowsStayScoped
<1>2. ScopedWork'
  BY <1>t DEF DomainInv, ScopedWork, ScopedRows, Turns, TakesJob, KeepsJob, DropsJob
<1>3. TasksInside'
  <2> SUFFICES ASSUME NEW w \in Workers, NEW a \in Accounts, task'[w][a] \in Live
               PROVE  pc'[w] = "running" /\ Scope(wjob'[w]) = a
    BY DEF TasksInside, Scope
  <2>1. ~TakesJob(w) BY DEF DomainInv, TasksInside, TakesJob
  <2> QED BY <1>t, <2>1 DEF Turns, KeepsJob, DropsJob
<1>4. LocksApart'
  <2> SUFFICES ASSUME NEW w \in Workers, NEW v \in Workers, w # v,
                      pc'[w] \in HoldsLock, pc'[v] \in HoldsLock
               PROVE  Scope(wjob'[w]) # Scope(wjob'[v])
    BY DEF LocksApart, Scope
  <2>1. KeepsJob(w) /\ KeepsJob(v) BY <1>t DEF Turns, TakesJob, DropsJob
  <2>2. CASE pc[w] \in HoldsLock /\ pc[v] \in HoldsLock
    BY <2>1, <2>2 DEF KeepsJob, DomainInv, LocksApart
  <2>3. CASE pc[w] \notin HoldsLock
    BY <2>1, <2>3 DEF KeepsJob, OnlyMoves, DomainLockFree
  <2>4. CASE pc[v] \notin HoldsLock
    BY <2>1, <2>4 DEF KeepsJob, OnlyMoves, DomainLockFree
  <2> QED BY <2>2, <2>3, <2>4
<1> QED BY <1>1, <1>2, <1>3, <1>4 DEF DomainInv

(* When ingest scopes every job to an account, OPEN and CLOSE of a trade   *)
(* are never in flight together on one account, zombies that lost their    *)
(* lease included: a worker works inside the account whose lock it holds.  *)
THEOREM Serialized ==
  ASSUME RouteSets \subseteq SUBSET Accounts
  PROVE  Spec => []OpenCloseSerialized
<1>1. TypeInv /\ DomainInv /\ [Next]_vars => DomainInv'
  BY DomainStep
<1>2. DomainInv => OpenCloseSerialized
  BY DEF DomainInv, TasksInside, LocksApart, OpenCloseSerialized
<1> QED BY TypeInit, TypeStep, DomainInit, <1>1, <1>2, PTL DEF Spec
=============================================================================
