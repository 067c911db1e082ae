--------------------------- MODULE SignalExecution ---------------------------
(***************************************************************************)
(* The durable signal queue and everything that may execute from it: the   *)
(* webhook that enqueues signal_jobs, the worker pool with its leases,     *)
(* heartbeats and domain locks, OrderManager's fan-out to accounts, the    *)
(* execution_claims barrier in front of the broker, the reclaimer, the     *)
(* red-zone release service, process crashes and the startup recovery.     *)
(*                                                                         *)
(* One strategy is modelled.  The two tables are status/owner/lease/       *)
(* attempts (signal_jobs) and claim (execution_claims); orders is the      *)
(* ledger of order rows and sent the history of broker submissions.        *)
(***************************************************************************)
EXTENDS Integers, Sequences, FiniteSets

CONSTANTS
  Trades,          \* trade_id values of the inbound alerts
  Accounts,        \* accounts the strategy may be routed to
  Workers,         \* worker-1 .. worker-n of the pool
  NoScope,         \* account_scope NULL: an unscoped job fans out to all accounts
  NoWorker,        \* worker_id NULL
  NoJob,           \* an idle worker holds no job
  MaxAttempts,     \* signal_jobs.max_attempts (3 in the code)
  AttemptCap,      \* bound: claims of one job that the model follows
  MaxFaults,       \* bound: crashes, stalls and failed calls in one behaviour
  MaxAutoRelease,  \* settings.max_auto_release_count
  Zones,           \* the session-clock readings that occur
  Alerts,          \* the signals that arrive
  RouteSets        \* the scopes an ingest may insert jobs for: the routed accounts,
                   \* or {NoScope} when the router fails or routes nowhere

ActionNames == {"OPEN", "CLOSE"}
Signals == Trades \X ActionNames            \* signal_id: trade or trade:CLOSE
Scopes  == Accounts \cup {NoScope}
Jobs    == Signals \X Scopes                \* one row per idempotency key
Keys    == Signals \X Accounts              \* execution_dedupe_key

Trade(x)  == x[1][1]                        \* of a job or of a key
Signal(x) == x[1]
Scope(j)  == j[2]

ASSUME ConstantsAssumption ==
  /\ NoScope \notin Accounts /\ NoWorker \notin Workers /\ NoJob \notin Jobs
  /\ MaxAttempts \in Nat /\ AttemptCap \in Nat
  /\ MaxFaults \in Nat /\ MaxAutoRelease \in Nat
  /\ Zones \subseteq {"open", "projected", "red"} /\ "open" \in Zones
  /\ Alerts \subseteq Signals
  /\ RouteSets \subseteq (SUBSET Accounts) \cup {{NoScope}}

Claimable   == {"RECEIVED", "QUEUED"}
ActiveLease == {"CLAIMED", "PROCESSING"}
Terminal    == {"COMPLETED", "REJECTED", "FAILED", "DEAD_LETTER"}
JobStatus   == Claimable \cup ActiveLease \cup Terminal
                 \cup {"ABSENT", "RECOVERY_REQUIRED", "DEFERRED_RED_ZONE"}
ClaimState  == {"NONE", "CLAIMED", "EXECUTED", "ABANDONED"}

(* A worker between two jobs is idle; "waiting" is for the domain lock,    *)
(* "gate" and "entry" at and past the worker's red-zone gate, "running"    *)
(* inside the fan-out, "writing" before its final status write, "parking"  *)
(* between the fence check and the write of park_red_zone.                 *)
WorkerPc   == {"idle", "waiting", "starting", "gate", "entry", "running", "writing",
               "parking"}
Executing  == {"gate", "entry", "running"}
HoldsLock  == {"starting", "gate", "entry", "running", "writing", "parking"}

(* One coroutine per account of the fan-out.                               *)
InFlight   == {"claimed", "reserved", "placed"}
Finished   == {"success", "unsettled", "rejected", "deferred", "error"}
TaskState  == {"none", "gates"} \cup InFlight \cup Finished

VARIABLES
  status, owner, lease, attempts,   \* signal_jobs
  claim,                            \* execution_claims
  orders,                           \* dedupe keys with a row in orders
  sent,                             \* history: jobs that submitted a key to the broker
  pc, wjob, lost, verdict, task,    \* the workers' coroutines
  sweep,                            \* reclaimer: rows read, not yet written
  phase, pending,                   \* process lifecycle, recovery's work list
  zone,                             \* session clock
  faults                            \* faults so far

jobVars    == <<status, owner, lease, attempts>>
workerVars == <<pc, wjob, lost, verdict, task>>
vars == <<jobVars, claim, orders, sent, workerVars, sweep, phase, pending, zone, faults>>

NoTasks == [a \in Accounts |-> "none"]

Init ==
  /\ status = [j \in Jobs |-> "ABSENT"] /\ owner = [j \in Jobs |-> NoWorker]
  /\ lease = [j \in Jobs |-> "none"]    /\ attempts = [j \in Jobs |-> 0]
  /\ claim = [k \in Keys |-> "NONE"] /\ orders = {} /\ sent = [k \in Keys |-> <<>>]
  /\ pc = [w \in Workers |-> "idle"] /\ wjob = [w \in Workers |-> NoJob]
  /\ lost = [w \in Workers |-> FALSE] /\ verdict = [w \in Workers |-> "ABSENT"]
  /\ task = [w \in Workers |-> NoTasks]
  /\ sweep = {} /\ phase = "up" /\ pending = {} /\ zone = "open" /\ faults = 0

Fault == faults < MaxFaults /\ faults' = faults + 1

----------------------------------------------------------------------------
(* What the code reads from the two tables.                                *)

SiblingInFlight(j) ==
  \E i \in Jobs \ {j} : Trade(i) = Trade(j) /\ status[i] \in ActiveLease

ClaimInFlight(j) == \E k \in Keys : Trade(k) = Trade(j) /\ claim[k] = "CLAIMED"

(* Both are keyed on (strategy_id, signal_id): not on the account.         *)
OrdersEmitted(s) == \E k \in orders : Signal(k) = s
HasClaimed(s)    == \E k \in Keys : Signal(k) = s /\ claim[k] = "CLAIMED"

(* Plausible bug: only live claims are consulted, not the order ledger.    *)
MayHaveSent_ClaimsOnly(j) == HasClaimed(Signal(j))

MayHaveSent(j) == OrdersEmitted(Signal(j)) \/ HasClaimed(Signal(j))

Expired(j) == status[j] \in ActiveLease /\ lease[j] = "expired"

Owns(w, j) == owner[j] = w /\ status[j] \in ActiveLease

(* The session clock: inside the red zone, and inside it once the latency  *)
(* buffer is added to now.  In the last seconds before the open the first  *)
(* holds without the second: the gates then read open and nothing is       *)
(* released, one of the behaviours of "open".                              *)
InRedZone == zone = "red"
ProjectedInRedZone == zone # "open"

----------------------------------------------------------------------------
(* Webhook ingest: a separate process, running also while the trading      *)
(* process is down.  All rows of one alert are inserted in one transaction,*)
(* each ON CONFLICT (idempotency_key) DO NOTHING.                          *)
CreateJobIfNotExists(j) == IF status[j] = "ABSENT" THEN "QUEUED" ELSE status[j]

Ingest(s, scopes) ==
  /\ \E sc \in scopes : status[<<s, sc>>] = "ABSENT"
  /\ status' = [j \in Jobs |-> IF Signal(j) = s /\ Scope(j) \in scopes
                               THEN CreateJobIfNotExists(j) ELSE status[j]]
  /\ UNCHANGED <<owner, lease, attempts, claim, orders, sent, workerVars,
                 sweep, phase, pending, zone, faults>>

----------------------------------------------------------------------------
(* Worker pool.                                                            *)

(* Plausible bug: an expired PROCESSING lease is retaken like a CLAIMED one.*)
Candidate_RetakesProcessing(j) ==
  /\ status[j] \in Claimable \/ Expired(j)
  /\ ~SiblingInFlight(j)
  /\ ~ClaimInFlight(j)

Candidate(j) ==
  /\ status[j] \in Claimable \/ (status[j] = "CLAIMED" /\ lease[j] = "expired")
  /\ ~SiblingInFlight(j)
  /\ ~ClaimInFlight(j)

ClaimNextJob(w, j) ==
  /\ phase = "up" /\ pc[w] = "idle"
  /\ Candidate(j)
  /\ attempts[j] < AttemptCap
  /\ status' = [status EXCEPT ![j] = "CLAIMED"]
  /\ owner' = [owner EXCEPT ![j] = w]
  /\ lease' = [lease EXCEPT ![j] = "live"]
  /\ attempts' = [attempts EXCEPT ![j] = @ + 1]
  /\ pc' = [pc EXCEPT ![w] = "waiting"]
  /\ wjob' = [wjob EXCEPT ![w] = j]
  /\ UNCHANGED <<claim, orders, sent, lost, verdict, task, sweep, phase, pending,
                 zone, faults>>

(* The worker's finally blocks: heartbeat cancelled, domain lock released. *)
BackToIdle(w) ==
  /\ pc' = [pc EXCEPT ![w] = "idle"]
  /\ wjob' = [wjob EXCEPT ![w] = NoJob]
  /\ lost' = [lost EXCEPT ![w] = FALSE]
  /\ verdict' = [verdict EXCEPT ![w] = "ABSENT"]
  /\ task' = [task EXCEPT ![w] = NoTasks]

(* Plausible bug: the domain lock is keyed so that nothing collides.       *)
DomainLockFree_Always(w) == TRUE

DomainLockFree(w) ==
  \A v \in Workers \ {w} :
    pc[v] \in HoldsLock => Scope(wjob[v]) # Scope(wjob[w])

AcquireDomainLock(w) ==
  /\ pc[w] = "waiting" /\ DomainLockFree(w)
  /\ IF lost[w]
     THEN BackToIdle(w)
     ELSE pc' = [pc EXCEPT ![w] = "starting"] /\ UNCHANGED <<wjob, lost, verdict, task>>
  /\ UNCHANGED <<jobVars, claim, orders, sent, sweep, phase, pending, zone, faults>>

StartProcessing(w) ==
  LET j == wjob[w] IN
  /\ pc[w] = "starting"
  /\ IF Owns(w, j)
     THEN /\ status' = [status EXCEPT ![j] = "PROCESSING"]
          /\ lease' = [lease EXCEPT ![j] = "live"]
          /\ pc' = [pc EXCEPT ![w] = "gate"]
          /\ UNCHANGED <<wjob, lost, verdict, task>>
     ELSE BackToIdle(w) /\ UNCHANGED <<status, lease>>
  /\ UNCHANGED <<owner, attempts, claim, orders, sent, sweep, phase, pending, zone, faults>>

(* The background heartbeat of the job a worker holds.  Zero rows renewed  *)
(* and a failed renewal both end it with lease_lost set.                   *)
HeartbeatLease(w, j) == Owns(w, j) /\ lease' = [lease EXCEPT ![j] = "live"]

Heartbeat(w) ==
  LET j == wjob[w] IN
  /\ pc[w] # "idle" /\ ~lost[w]
  /\ \/ HeartbeatLease(w, j) /\ UNCHANGED lost
     \/ ~Owns(w, j) /\ lost' = [lost EXCEPT ![w] = TRUE] /\ UNCHANGED lease
  /\ UNCHANGED <<status, owner, attempts, claim, orders, sent, pc, wjob, verdict, task,
                 sweep, phase, pending, zone, faults>>

HeartbeatFails(w) ==
  /\ pc[w] # "idle" /\ ~lost[w] /\ Fault
  /\ lost' = [lost EXCEPT ![w] = TRUE]
  /\ UNCHANGED <<jobVars, claim, orders, sent, pc, wjob, verdict, task,
                 sweep, phase, pending, zone>>

Decide(w, v) ==
  /\ pc' = [pc EXCEPT ![w] = "writing"]
  /\ verdict' = [verdict EXCEPT ![w] = v]
  /\ UNCHANGED <<wjob, lost, task>>

RejectPayload(w) ==
  /\ pc[w] = "gate"
  /\ Decide(w, "REJECTED")
  /\ UNCHANGED <<jobVars, claim, orders, sent, sweep, phase, pending, zone, faults>>

(* The worker's red-zone gate.                                             *)
DeferAtGate(w) ==
  /\ pc[w] = "gate" /\ ProjectedInRedZone
  /\ Decide(w, "DEFERRED_RED_ZONE")
  /\ UNCHANGED <<jobVars, claim, orders, sent, sweep, phase, pending, zone, faults>>

(* The gate at the top of process_signal_execution, for a job the worker   *)
(* could not park: the job is to be parked again.                          *)
DeferAtEntry(w) ==
  /\ pc[w] = "entry" /\ ProjectedInRedZone
  /\ Decide(w, "DEFERRED_RED_ZONE")
  /\ UNCHANGED <<jobVars, claim, orders, sent, sweep, phase, pending, zone, faults>>

(* The account contexts the router resolves when the job executes.         *)
ResolveContexts(w, accts) ==
  /\ pc[w] \in {"gate", "entry"} /\ ~ProjectedInRedZone
  /\ Scope(wjob[w]) # NoScope => accts \subseteq {Scope(wjob[w])}
  /\ pc' = [pc EXCEPT ![w] = "running"]
  /\ task' = [task EXCEPT ![w] = [a \in Accounts |-> IF a \in accts THEN "gates" ELSE "none"]]
  /\ UNCHANGED <<jobVars, claim, orders, sent, wjob, lost, verdict,
                 sweep, phase, pending, zone, faults>>

----------------------------------------------------------------------------
(* OrderManager: one coroutine per routed account.                         *)

KeyOf(w, a) == <<Signal(wjob[w]), a>>

SetTask(w, a, t) == task' = [task EXCEPT ![w][a] = t]

At(w, a, states) == pc[w] = "running" /\ task[w][a] \in states

(* Sizing, RMS, margin, kill-switch, pause and critical-basket gates raise *)
(* ValueError; the resolver, the router or the database may raise anything.*)
RefuseAtGates(w, a, t) ==
  /\ At(w, a, {"gates"}) /\ t \in {"rejected", "error"}
  /\ SetTask(w, a, t)
  /\ UNCHANGED <<jobVars, claim, orders, sent, pc, wjob, lost, verdict,
                 sweep, phase, pending, zone, faults>>

DeferBeforeClaim(w, a) ==
  /\ At(w, a, {"gates"}) /\ ProjectedInRedZone
  /\ SetTask(w, a, "deferred")
  /\ UNCHANGED <<jobVars, claim, orders, sent, pc, wjob, lost, verdict,
                 sweep, phase, pending, zone, faults>>

(* Plausible bug: the conflict arm also retakes a live CLAIMED row.        *)
AcquireClaim_RetakesLive(w, a) ==
  LET k == KeyOf(w, a) IN
  /\ At(w, a, {"gates"}) /\ ~ProjectedInRedZone
  /\ IF claim[k] # "EXECUTED"
     THEN claim' = [claim EXCEPT ![k] = "CLAIMED"] /\ SetTask(w, a, "claimed")
     ELSE SetTask(w, a, "error") /\ UNCHANGED claim
  /\ UNCHANGED <<jobVars, orders, sent, pc, wjob, lost, verdict,
                 sweep, phase, pending, zone, faults>>

(* INSERT ... ON CONFLICT DO UPDATE WHERE state = ABANDONED, committed on  *)
(* its own; any other row makes acquire raise.                             *)
AcquireClaim(w, a) ==
  LET k == KeyOf(w, a) IN
  /\ At(w, a, {"gates"}) /\ ~ProjectedInRedZone
  /\ IF claim[k] \in {"NONE", "ABANDONED"}
     THEN claim' = [claim EXCEPT ![k] = "CLAIMED"] /\ SetTask(w, a, "claimed")
     ELSE SetTask(w, a, "error") /\ UNCHANGED claim
  /\ UNCHANGED <<jobVars, orders, sent, pc, wjob, lost, verdict,
                 sweep, phase, pending, zone, faults>>

(* Plausible bug: the order row is only written after the placement.       *)
PersistReservedChild_Later(w, a) ==
  /\ At(w, a, {"claimed"})
  /\ SetTask(w, a, "reserved")
  /\ UNCHANGED <<jobVars, claim, orders, sent, pc, wjob, lost, verdict,
                 sweep, phase, pending, zone, faults>>

(* BasketCoordinator persists the child order before placeOrder.           *)
PersistReservedChild(w, a) ==
  /\ At(w, a, {"claimed"})
  /\ orders' = orders \cup {KeyOf(w, a)}
  /\ SetTask(w, a, "reserved")
  /\ UNCHANGED <<jobVars, claim, sent, pc, wjob, lost, verdict,
                 sweep, phase, pending, zone, faults>>

(* Plausible bug: the order goes out although another attempt placed it    *)
(* and without the barrier of this one being looked at.                    *)
PlaceOrder_FromGates(w, a) ==
  /\ At(w, a, {"gates", "reserved"})
  /\ sent' = [sent EXCEPT ![KeyOf(w, a)] = Append(@, wjob[w])]
  /\ SetTask(w, a, "placed")
  /\ UNCHANGED <<jobVars, claim, orders, pc, wjob, lost, verdict,
                 sweep, phase, pending, zone, faults>>

PlaceOrder(w, a) ==
  LET k == KeyOf(w, a) IN
  /\ At(w, a, {"reserved"})
  /\ sent' = [sent EXCEPT ![k] = Append(@, wjob[w])]
  /\ SetTask(w, a, "placed")
  /\ UNCHANGED <<jobVars, claim, orders, pc, wjob, lost, verdict,
                 sweep, phase, pending, zone, faults>>

(* mark_executed: only a CLAIMED row is promoted.                          *)
Seal(k) == claim' = [claim EXCEPT ![k] = IF @ = "CLAIMED" THEN "EXECUTED" ELSE @]

(* OPEN or CLOSED basket: the claim is sealed (a failing seal is logged    *)
(* and swallowed); updating the runtime state afterwards may still raise.  *)
SettleBasket(w, a, t) ==
  /\ At(w, a, {"placed"}) /\ t \in {"success", "error", "rejected"}
  /\ \/ Seal(KeyOf(w, a)) /\ UNCHANGED faults
     \/ Fault /\ UNCHANGED claim
  /\ SetTask(w, a, t)
  /\ UNCHANGED <<jobVars, orders, sent, pc, wjob, lost, verdict,
                 sweep, phase, pending, zone>>

(* Any other basket state, or an exception: _resolve_failed_claim reads    *)
(* the ledger and leaves the claim as it is.                               *)
LeaveClaimHeld(w, a, t) ==
  /\ \/ At(w, a, {"placed"}) /\ t = "unsettled"
     \/ At(w, a, InFlight) /\ t \in {"error", "rejected"}
  /\ SetTask(w, a, t)
  /\ UNCHANGED <<jobVars, claim, orders, sent, pc, wjob, lost, verdict,
                 sweep, phase, pending, zone, faults>>

----------------------------------------------------------------------------
(* _execute_job's classification of the fan-out, and its last write.       *)

Fanout(w)   == {a \in Accounts : task[w][a] # "none"}
Outcome(w, t) == \E a \in Accounts : task[w][a] = t

(* A single-account ValueError is re-raised through gather; no eligible    *)
(* account raises before the fan-out.                                      *)
RaisedOut(w) ==
  \/ Fanout(w) = {}
  \/ \E a \in Accounts : Fanout(w) = {a} /\ task[w][a] \in {"rejected", "deferred"}

FanoutDone(w) == pc[w] = "running" /\ \A a \in Fanout(w) : task[w][a] \in Finished

(* What _execute_job's exception handler reads from the ledger.            *)
HandlerVerdict(j) == IF MayHaveSent(j) THEN "RECOVERY_REQUIRED" ELSE "FAILED"

HandleException(w) ==
  /\ FanoutDone(w) /\ RaisedOut(w)
  /\ \/ /\ Outcome(w, "deferred")
        /\ Decide(w, "DEFERRED_RED_ZONE") /\ UNCHANGED faults
     \/ /\ ~Outcome(w, "deferred")
        /\ Decide(w, HandlerVerdict(wjob[w]))
        /\ UNCHANGED faults
     \/ /\ ~Outcome(w, "deferred") /\ Fault       \* the two counts fail
        /\ Decide(w, "FAILED")
  /\ UNCHANGED <<jobVars, claim, orders, sent, sweep, phase, pending, zone>>

(* Plausible bug: a fan-out that every account refused counts as complete. *)
FanoutVerdict_NoReject(w) ==
  IF Outcome(w, "error") THEN "RECOVERY_REQUIRED" ELSE "COMPLETED"

FanoutVerdict(w) ==
  IF Outcome(w, "error") THEN "RECOVERY_REQUIRED"
  ELSE IF Outcome(w, "success") THEN "COMPLETED" ELSE "REJECTED"

CollectOutcomes(w) ==
  /\ FanoutDone(w) /\ ~RaisedOut(w)
  /\ IF lost[w] THEN BackToIdle(w) ELSE Decide(w, FanoutVerdict(w))
  /\ UNCHANGED <<jobVars, claim, orders, sent, sweep, phase, pending, zone, faults>>

(* update_status(fence=True): the lease is cleared by terminal statuses.   *)
WriteStatus(w) ==
  LET j == wjob[w] IN
  /\ pc[w] = "writing" /\ verdict[w] # "DEFERRED_RED_ZONE"
  /\ IF Owns(w, j)
     THEN /\ status' = [status EXCEPT ![j] = verdict[w]]
          /\ lease' = [lease EXCEPT ![j] = IF verdict[w] \in Terminal THEN "none" ELSE @]
     ELSE UNCHANGED <<status, lease>>
  /\ BackToIdle(w)
  /\ UNCHANGED <<owner, attempts, claim, orders, sent, sweep, phase, pending, zone, faults>>

(* park_red_zone reads the row, checks the fence in Python and writes the  *)
(* row by primary key: two steps, no lock between them.                    *)
ParkFence(w) ==
  /\ pc[w] = "writing" /\ verdict[w] = "DEFERRED_RED_ZONE"
  /\ IF Owns(w, wjob[w])
     THEN pc' = [pc EXCEPT ![w] = "parking"] /\ UNCHANGED <<wjob, lost, verdict, task>>
     ELSE BackToIdle(w)
  /\ UNCHANGED <<jobVars, claim, orders, sent, sweep, phase, pending, zone, faults>>

ParkWrite(w) ==
  LET j == wjob[w] IN
  /\ pc[w] = "parking"
  /\ status' = [status EXCEPT ![j] = "DEFERRED_RED_ZONE"]
  /\ owner' = [owner EXCEPT ![j] = NoWorker]
  /\ lease' = [lease EXCEPT ![j] = "none"]
  /\ BackToIdle(w)
  /\ UNCHANGED <<attempts, claim, orders, sent, sweep, phase, pending, zone, faults>>

(* A status write that raises.  The first one, the payload rejection and   *)
(* the handler's own have no handler around them: the worker loop logs the *)
(* error and takes the next job.  One after the fan-out enters the handler.*)
StatusWriteFails(w) ==
  /\ Fault
  /\ pc[w] = "starting" \/ (pc[w] = "writing" /\ verdict[w] # "DEFERRED_RED_ZONE")
  /\ IF pc[w] = "starting" \/ RaisedOut(w)
     THEN BackToIdle(w)
     ELSE /\ verdict' = [verdict EXCEPT ![w] = HandlerVerdict(wjob[w])]
          /\ task' = [task EXCEPT ![w] = NoTasks]
          /\ UNCHANGED <<pc, wjob, lost>>
  /\ UNCHANGED <<jobVars, claim, orders, sent, sweep, phase, pending, zone>>

(* A park that raises: the worker's gate goes on to execute, the gate of   *)
(* process_signal_execution gives up, the handler writes FAILED instead.   *)
ParkFails(w) ==
  /\ Fault
  /\ pc[w] = "parking" \/ (pc[w] = "writing" /\ verdict[w] = "DEFERRED_RED_ZONE")
  /\ \/ Fanout(w) = {} /\ BackToIdle(w)
     \/ /\ Fanout(w) = {}
        /\ pc' = [pc EXCEPT ![w] = "entry"] /\ verdict' = [verdict EXCEPT ![w] = "ABSENT"]
        /\ UNCHANGED <<wjob, lost, task>>
     \/ Fanout(w) # {} /\ Decide(w, HandlerVerdict(wjob[w]))
  /\ UNCHANGED <<jobVars, claim, orders, sent, sweep, phase, pending, zone>>

----------------------------------------------------------------------------
(* Reclaimer loop.                                                         *)

(* Time passes: a lease nobody renews runs out, and a stalled event loop   *)
(* or database lets one run out that a worker still means to renew.        *)
Renewed(j) == \E w \in Workers : wjob[w] = j /\ owner[j] = w /\ ~lost[w]

LeaseRunsOut(j) ==
  /\ status[j] \in ActiveLease /\ lease[j] = "live"
  /\ IF Renewed(j) THEN Fault ELSE UNCHANGED faults
  /\ lease' = [lease EXCEPT ![j] = "expired"]
  /\ UNCHANGED <<status, owner, attempts, claim, orders, sent, workerVars,
                 sweep, phase, pending, zone>>

(* The rows over max_attempts are selected without a row lock ...          *)
ReclaimScan ==
  /\ phase = "up" /\ sweep = {}
  /\ sweep' = {j \in Jobs : Expired(j) /\ attempts[j] >= MaxAttempts}
  /\ sweep' # {}
  /\ UNCHANGED <<jobVars, claim, orders, sent, workerVars, phase, pending, zone, faults>>

(* Plausible bug: the sweep forgets jobs that died while PROCESSING.       *)
ReclaimedStatus_ClaimedOnly(j) ==
  IF j \in sweep
  THEN IF MayHaveSent(j) THEN "RECOVERY_REQUIRED" ELSE "DEAD_LETTER"
  ELSE IF status[j] = "CLAIMED" /\ Expired(j) /\ attempts[j] < MaxAttempts
       THEN "QUEUED" ELSE status[j]

(* ... and written later by primary key; the two bulk updates re-evaluate  *)
(* their WHERE clause when they run.                                       *)
ReclaimedStatus(j) ==
  IF j \in sweep
  THEN IF MayHaveSent(j) THEN "RECOVERY_REQUIRED" ELSE "DEAD_LETTER"
  ELSE IF Expired(j) /\ attempts[j] < MaxAttempts
       THEN IF status[j] = "PROCESSING" THEN "RECOVERY_REQUIRED" ELSE "QUEUED"
       ELSE status[j]

ReclaimStaleJobs ==
  LET hit == sweep \cup {j \in Jobs : Expired(j) /\ attempts[j] < MaxAttempts} IN
  /\ phase = "up" /\ hit # {}
  /\ status' = [j \in Jobs |-> ReclaimedStatus(j)]
  /\ owner' = [j \in Jobs |-> IF j \in hit THEN NoWorker ELSE owner[j]]
  /\ lease' = [j \in Jobs |-> IF j \in hit THEN "none" ELSE lease[j]]
  /\ sweep' = {}
  /\ UNCHANGED <<attempts, claim, orders, sent, workerVars, phase, pending, zone, faults>>

(* reconcile_stale_claims, for a claim whose age has passed the cutoff.    *)
ReconcileStaleClaim(k) ==
  /\ phase = "up"
  /\ claim[k] = "CLAIMED" /\ OrdersEmitted(Signal(k))
  /\ Seal(k)
  /\ UNCHANGED <<jobVars, orders, sent, workerVars, sweep, phase, pending, zone, faults>>

----------------------------------------------------------------------------
(* Session clock and the red-zone release service.                         *)

ClockMoves(z) ==
  /\ z \in Zones \ {zone}
  /\ zone' = z
  /\ UNCHANGED <<jobVars, claim, orders, sent, workerVars, sweep, phase, pending, faults>>

Deferred == {j \in Jobs : status[j] = "DEFERRED_RED_ZONE"}

(* A deferred job is voided (stale, kill switch, expired contract) or      *)
(* queued again.                                                           *)
ReleasedStatus(j, voided) ==
  IF j \in voided THEN "REJECTED" ELSE IF j \in Deferred THEN "QUEUED" ELSE status[j]

(* One release cycle; the count breaker releases nothing.                  *)
ReleaseDeferred(voided) ==
  /\ phase = "up" /\ ~InRedZone
  /\ Deferred # {} /\ Cardinality(Deferred) <= MaxAutoRelease
  /\ voided \subseteq Deferred
  /\ status' = [j \in Jobs |-> ReleasedStatus(j, voided)]
  /\ UNCHANGED <<owner, lease, attempts, claim, orders, sent, workerVars,
                 sweep, phase, pending, zone, faults>>

----------------------------------------------------------------------------
(* Process crash and RecoveryManager.run_startup_recovery.                 *)

Crash ==
  /\ Fault
  /\ phase' = "reconcile" /\ pending' = {} /\ sweep' = {}
  /\ pc' = [w \in Workers |-> "idle"] /\ wjob' = [w \in Workers |-> NoJob]
  /\ lost' = [w \in Workers |-> FALSE] /\ verdict' = [w \in Workers |-> "ABSENT"]
  /\ task' = [w \in Workers |-> NoTasks]
  /\ UNCHANGED <<jobVars, claim, orders, sent, zone>>

(* The work list is the jobs some worker had begun.  Every claim with order*)
(* rows is sealed (stale_after_sec = 0), the rest stay CLAIMED; with no    *)
(* job and no basket to recover the scan returns before it looks at them.  *)
RecoverClaims ==
  /\ phase = "reconcile"
  /\ pending' = {j \in Jobs : status[j] \in ActiveLease \cup {"RECOVERY_REQUIRED"}}
  /\ \/ claim' = [k \in Keys |-> IF claim[k] = "CLAIMED" /\ OrdersEmitted(Signal(k))
                                 THEN "EXECUTED" ELSE claim[k]]
     \/ pending' = {} /\ UNCHANGED claim
  /\ phase' = "recover"
  /\ UNCHANGED <<jobVars, orders, sent, workerVars, sweep, zone, faults>>

RecoveredStatus(j) ==
  IF MayHaveSent(j) THEN "RECOVERY_REQUIRED"
  ELSE IF attempts[j] >= MaxAttempts THEN "DEAD_LETTER" ELSE "QUEUED"

RecoverJob(j) ==
  /\ phase = "recover" /\ j \in pending
  /\ status' = [status EXCEPT ![j] = RecoveredStatus(j)]
  /\ lease' = [lease EXCEPT ![j] = IF RecoveredStatus(j) = "DEAD_LETTER" THEN "none" ELSE @]
  /\ pending' = pending \ {j}
  /\ UNCHANGED <<owner, attempts, claim, orders, sent, workerVars, sweep, phase, zone, faults>>

(* The pool starts after recovery; an exception in recovery is logged and  *)
(* the pool starts with the remaining jobs as they are.                    *)
StartPool ==
  /\ phase # "up"
  /\ \/ phase = "recover" /\ pending = {} /\ UNCHANGED faults
     \/ (phase = "reconcile" \/ pending # {}) /\ Fault
  /\ phase' = "up" /\ pending' = {}
  /\ UNCHANGED <<jobVars, claim, orders, sent, workerVars, sweep, zone>>

----------------------------------------------------------------------------

TaskStep(w, a) ==
  \/ \E t \in {"rejected", "error"} : RefuseAtGates(w, a, t)
  \/ DeferBeforeClaim(w, a)
  \/ AcquireClaim(w, a)
  \/ PersistReservedChild(w, a)
  \/ PlaceOrder(w, a)
  \/ \E t \in {"success", "error", "rejected"} : SettleBasket(w, a, t)
  \/ \E t \in {"unsettled", "error", "rejected"} : LeaveClaimHeld(w, a, t)

WorkerStep(w) ==
  \/ AcquireDomainLock(w)
  \/ StartProcessing(w)
  \/ RejectPayload(w)
  \/ DeferAtGate(w)
  \/ DeferAtEntry(w)
  \/ \E accts \in SUBSET Accounts : ResolveContexts(w, accts)
  \/ \E a \in Accounts : TaskStep(w, a)
  \/ HandleException(w)
  \/ CollectOutcomes(w)
  \/ WriteStatus(w)
  \/ ParkFence(w)
  \/ ParkWrite(w)

(* The reclaimer's loop, as far as it writes jobs and claims.              *)
ReclaimerStep ==
  \/ ReclaimScan
  \/ ReclaimStaleJobs
  \/ \E k \in Keys : ReconcileStaleClaim(k)

Next ==
  \/ \E s \in Alerts, scopes \in RouteSets : Ingest(s, scopes)
  \/ \E w \in Workers, j \in Jobs : ClaimNextJob(w, j)
  \/ \E w \in Workers : WorkerStep(w) \/ Heartbeat(w) \/ HeartbeatFails(w)
                         \/ StatusWriteFails(w) \/ ParkFails(w)
  \/ \E j \in Jobs : LeaseRunsOut(j) \/ RecoverJob(j)
  \/ ReclaimerStep
  \/ \E z \in Zones : ClockMoves(z)
  \/ \E voided \in SUBSET Deferred : ReleaseDeferred(voided)
  \/ Crash \/ RecoverClaims \/ StartPool

Spec == Init /\ [][Next]_vars

(* Every coroutine is scheduled, every broker wait has a timeout, the      *)
(* reclaimer and the workers poll for ever, unrenewed leases run out and   *)
(* a crashed process is restarted.  Arrivals, faults and the clock are not *)
(* fair.                                                                   *)
Fairness ==
  /\ \A w \in Workers : WF_vars(WorkerStep(w)) /\ WF_vars(\E j \in Jobs : ClaimNextJob(w, j))
  /\ \A j \in Jobs : WF_vars(~Renewed(j) /\ LeaseRunsOut(j)) /\ WF_vars(RecoverJob(j))
  /\ WF_vars(ReclaimScan) /\ WF_vars(ReclaimStaleJobs)
  /\ \A k \in Keys : WF_vars(ReconcileStaleClaim(k))
  /\ WF_vars(RecoverClaims) /\ WF_vars(StartPool)

FairSpec == Spec /\ Fairness

----------------------------------------------------------------------------
(* Properties.                                                             *)

(* Every variable stays within its type.                                   *)
TypeOK ==
  /\ status \in [Jobs -> JobStatus] /\ owner \in [Jobs -> Workers \cup {NoWorker}]
  /\ lease \in [Jobs -> {"none", "live", "expired"}] /\ attempts \in [Jobs -> Nat]
  /\ claim \in [Keys -> ClaimState] /\ orders \subseteq Keys
  /\ sent \in [Keys -> Seq(Jobs)]
  /\ pc \in [Workers -> WorkerPc] /\ wjob \in [Workers -> Jobs \cup {NoJob}]
  /\ lost \in [Workers -> BOOLEAN] /\ verdict \in [Workers -> JobStatus]
  /\ task \in [Workers -> [Accounts -> TaskState]]
  /\ sweep \subseteq Jobs /\ pending \subseteq Jobs
  /\ phase \in {"up", "reconcile", "recover"} /\ zone \in Zones /\ faults \in Nat

SentBy(j, k) == \E i \in 1..Len(sent[k]) : sent[k][i] = j

(* An intent reaches the broker at most once, whatever crashes, lease      *)
(* losses, redeliveries, requeues and duplicate (scoped and unscoped) jobs *)
(* happen: the reason execution_claims exists.                             *)
AtMostOnceSubmission == \A k \in Keys : Len(sent[k]) <= 1

(* Whatever reached the broker has a ledger row and a raised barrier, so   *)
(* that recovery, which only sees the database, can tell it was sent.      *)
SubmissionIsRecorded ==
  \A k \in Keys : sent[k] # <<>> =>
    k \in orders /\ claim[k] \in {"CLAIMED", "EXECUTED"}

(* A job that sent an order is never put back where a worker can claim it: *)
(* not by the reclaimer, not by recovery, not by a parked-job release.     *)
SenderNeverRequeued ==
  \A j \in Jobs : (\E k \in Keys : SentBy(j, k)) =>
    status[j] \notin Claimable \cup {"CLAIMED", "DEFERRED_RED_ZONE"}

(* No job is executed by two workers at once, even when the first one has  *)
(* lost its lease and runs on; and no executing job is back in the queue.  *)
OneExecutorPerJob ==
  \A w \in Workers : pc[w] \in Executing =>
    /\ status[wjob[w]] \notin Claimable \cup {"CLAIMED"}
    /\ \A v \in Workers \ {w} : pc[v] \in Executing => wjob[v] # wjob[w]

(* COMPLETED is only ever written for a job that sent an order itself.     *)
CompletedMeansSent ==
  \A j \in Jobs : status[j] = "COMPLETED" => \E k \in Keys : SentBy(j, k)

(* OPEN and CLOSE of one trade are never in flight together on an account  *)
(* when every job is account-scoped (M18), zombies included.               *)
OpenCloseSerialized ==
  \A w \in Workers, v \in Workers, a \in Accounts :
    /\ w # v /\ task[w][a] \in InFlight /\ task[v][a] \in InFlight
    => Trade(wjob[w]) # Trade(wjob[v])

(* The queue, the pool and recovery together implement one-shot intents.   *)
Committed == {k \in Keys : claim[k] \in {"CLAIMED", "EXECUTED"}}

OneShot == INSTANCE OneShotIntents WITH
  Intents <- Keys, committed <- Committed,
  submissions <- [k \in Keys |-> Len(sent[k])]

ImplementsOneShotIntents == OneShot!Spec

(* A claim held with no order row of its signal is left CLAIMED for ever,  *)
(* and every job of the trade waits behind it for an operator.             *)
HeldBarrier(j) ==
  \E k \in Keys : Trade(k) = Trade(j) /\ claim[k] = "CLAIMED" /\ ~OrdersEmitted(Signal(k))

(* Every queued job is eventually executed, rejected, quarantined, dead-   *)
(* lettered or parked, unless its trade is stuck behind such a claim: no   *)
(* lease, domain lock, sibling or crash blocks it for ever.                *)
EveryJobResolves ==
  \A j \in Jobs : status[j] \in Claimable ~>
    \/ status[j] \in Terminal \cup {"RECOVERY_REQUIRED", "DEFERRED_RED_ZONE"}
    \/ HeldBarrier(j)

=============================================================================
