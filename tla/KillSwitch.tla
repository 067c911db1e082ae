----------------------------- MODULE KillSwitch -----------------------------
(***************************************************************************)
(* The emergency kill switch of one account: operations that arm it, the   *)
(* in-memory cache that blocks OPENs, the workers that flatten, finalize   *)
(* and resume an operation, and every other producer that may close the    *)
(* same position: pair close (an operator's or the risk-exit monitor's),   *)
(* the flatten and the alignment of one broker line, a CLOSE signal, and   *)
(* the gateway script that flattens an account over a client of its own.   *)
(*                                                                         *)
(* A trade is a position of one lot of contracts of its own.  A closing    *)
(* basket fills whole or not at all; BasketExecution has its partial fills *)
(* and its retries.                                                        *)
(***************************************************************************)
EXTENDS Integers, FiniteSets

CONSTANTS
  Trades, Manual,  \* trades of the account, and those of the manual ledger
  Ops, Idle,       \* identities of kill-switch operations; no trade, no operation
  Scopes,          \* scopes that are asked for; the manual one is in ManualTrading
  Producers,       \* which of the producers below take part
  MaxRetries,      \* max_retries of the risk-exit monitor
  MaxCloses,       \* bound: closes the producers start in one behaviour
  MaxSweeps,       \* bound: reconciler sweeps in one behaviour
  MaxCrashes       \* bound: process crashes in one behaviour

ProducerNames == {"pair", "line", "align", "signal", "gateway"}

ASSUME KillSwitchAssumption ==
  /\ IsFiniteSet(Trades) /\ Manual \subseteq Trades
  /\ Scopes \subseteq {"engine", "account"}
  /\ Producers \subseteq ProducerNames
  /\ IsFiniteSet(Ops) /\ Ops \cap ProducerNames = {} /\ Idle \notin Ops \cup Trades
  /\ MaxRetries \in Nat /\ MaxCloses \in Nat
  /\ MaxSweeps \in Nat /\ MaxCrashes \in Nat

Engine == Trades \ Manual

OpState == {"none", "ACTIVATING", "FLATTENING", "RECONCILING", "COMPLETE", "UNRESOLVED",
            "CLEARED"}            \* RETRYING and FLAT are never written
RowState == {"none", "OPEN", "PENDING", "CLOSED"}   \* PENDING: FLATTENED_PENDING_PRICE
Verdict  == {"none", "COMPLETE", "UNRESOLVED", "RECONCILING"}

(* A closer is a producer at work on a trade; an operation's worker is one *)
(* closer per position it picked.                                          *)
Closers == (Ops \cup Producers) \X Trades
Who(c)  == c[1]
Of(c)   == c[2]
CloserPc == {"none", "read", "sent", "filled", "failed"}
OpenPc   == {"none", "sent", "filled"}
WorkerPc == {"none", "start", "flatten", "finalize"}
RequestPc == {"none", "armed"}
Keys == {"ledger", "broker"}

VARIABLES
  row, ksFilled, execs,  \* ledger rows, FILLED close orders, executions since the arming
  held, table,           \* broker position of each trade, broker_positions
  orphan,                \* close orders at work that nobody waits for
  op, scope, snap,       \* kill_switch_operations and their flatten snapshots
  cache,                 \* account \in _KILL_SWITCH_ACTIVE_ACCOUNTS
  request, clearing,     \* initiate_square_off / arm_only by scope; a clear committed
  worker, todo, sweep,   \* flatten workers, what a sweep has to retry and is retrying
  verdict,               \* what a worker and the retry will write
  opening,               \* OPEN signals on their way
  at, plan, inflight,    \* closers, what each will send, flatten_inflight._HELD
  monitor, fails,        \* the pair the monitor waits for; its failures per pair
  up, crashes, closes, sweeps,
  overlap, raced,        \* history: requests overtaken by a clear, operations they made
  unhydrated,            \* history: the cache could not be read back at a restart
  late, stale, ghost, blamed  \* history: see PassGate, StartWorker, Ended, FillClose, Send

ledgerVars == <<row, ksFilled, execs>>
brokerVars == <<held, table, orphan>>
opVars     == <<op, scope, snap>>
gateVars   == <<cache, request, clearing, overlap, raced, unhydrated>>
workVars   == <<worker, todo, sweep, verdict>>
closeVars  == <<at, plan, inflight, monitor, fails>>
bootVars   == <<up, crashes, closes, sweeps>>
histVars   == <<late, stale, ghost, blamed>>
vars == <<ledgerVars, brokerVars, opVars, gateVars, workVars, opening, closeVars, bootVars,
          histVars>>

None(dom) == [x \in dom |-> "none"]
Zero(dom) == [x \in dom |-> 0]
NoPlan == [lots |-> 0, keys |-> {}]

Init ==
  /\ row \in [Trades -> {"none", "OPEN"}] /\ \A t \in Manual : row[t] = "OPEN"
  /\ ksFilled = Zero(Trades) /\ execs = Zero(Trades)
  /\ held = [t \in Trades |-> IF row[t] = "OPEN" THEN 1 ELSE 0] /\ table = held
  /\ orphan = {}
  /\ op = None(Ops) /\ scope = [i \in Ops |-> "engine"] /\ snap = [i \in Ops |-> {}]
  /\ cache = FALSE /\ request = None(Scopes) /\ clearing = FALSE
  /\ worker = None(Ops) /\ todo = {} /\ sweep = Idle /\ verdict = None(Ops \cup {Idle})
  /\ opening = None(Trades) /\ at = None(Closers) /\ inflight = {}
  /\ plan = [c \in Closers |-> NoPlan]
  /\ monitor = Idle /\ fails = Zero(Trades)
  /\ up = TRUE /\ crashes = 0 /\ closes = 0 /\ sweeps = 0
  /\ overlap = {} /\ raced = {} /\ unhydrated = FALSE
  /\ late = {} /\ stale = {} /\ ghost = {} /\ blamed = {}

Armed(i)      == op[i] \notin {"none", "CLEARED"}           \* _ARMED_STATUSES
ArmedIn(s)    == {i \in Ops : Armed(i) /\ scope[i] = s}
OpenRows      == {t \in Engine : row[t] = "OPEN"}
OpenPositions == {t \in Trades : row[t] = "OPEN"}
FreeOps       == {i \in Ops : op[i] = "none"}

----------------------------------------------------------------------------
(* Arming.  The square-off route, the risk-exit monitor's account breach   *)
(* (engine scope), the emergency webhook and the account square-off (which *)
(* only arms).  An operation of the scope that is armed already is         *)
(* returned; only the account path then touches the cache again.           *)

ReturnExisting(s) ==
  /\ up /\ ArmedIn(s) # {} /\ request[s] = "none"
  /\ s = "account" /\ ~cache /\ cache' = TRUE
  /\ UNCHANGED <<ledgerVars, brokerVars, opVars, request, clearing, overlap, raced, unhydrated,
                 workVars, closeVars, bootVars, histVars, opening>>

(* No operation of the scope is armed: one is added to the session and the *)
(* cache armed; the commit is still to come.                               *)
ArmCache(s) ==
  /\ up /\ ArmedIn(s) = {} /\ request[s] = "none"
  /\ Cardinality({r \in Scopes : request[r] # "none"}) < Cardinality(FreeOps)
  /\ request' = [request EXCEPT ![s] = "armed"] /\ cache' = TRUE
  /\ UNCHANGED <<ledgerVars, brokerVars, opVars, clearing, overlap, raced, unhydrated,
                 workVars, closeVars, bootVars, histVars, opening>>

(* RiskExitMonitor._handle_account_breach: a square-off of the engine's    *)
(* positions, asked for while the account is not armed.                    *)
AccountBreach == ~cache /\ "engine" \in Scopes /\ ArmCache("engine")

StartsWorker(s) == s = "engine"

(* _capture_flatten_snapshot.                                              *)
Captured(s) == IF s = "account" THEN OpenPositions ELSE {}

CommitOperation(s) ==
  /\ up /\ request[s] = "armed"
  /\ LET i == CHOOSE j \in FreeOps : TRUE IN
       /\ op' = [op EXCEPT ![i] = "ACTIVATING"] /\ scope' = [scope EXCEPT ![i] = s]
       /\ snap' = [snap EXCEPT ![i] = Captured(s)]
       /\ execs' = IF s = "account" THEN Zero(Trades) ELSE execs
       /\ worker' = [worker EXCEPT ![i] = IF StartsWorker(s) THEN "start" ELSE "none"]
       /\ raced' = IF clearing \/ s \in overlap THEN raced \cup {i} ELSE raced
  /\ request' = [request EXCEPT ![s] = "none"] /\ overlap' = overlap \ {s}
  /\ UNCHANGED <<row, ksFilled, brokerVars, cache, clearing, unhydrated, todo, sweep, verdict,
                 closeVars, bootVars, histVars, opening>>

(* A request whose transaction is not committed when a crash or an error   *)
(* ends it leaves no operation; an error leaves the cache armed.           *)
RequestFails(s) ==
  /\ up /\ request[s] = "armed" /\ request' = [request EXCEPT ![s] = "none"]
  /\ overlap' = overlap \ {s}
  /\ UNCHANGED <<ledgerVars, brokerVars, opVars, cache, clearing, raced, unhydrated, workVars,
                 closeVars, bootVars, histVars, opening>>

(* clear_account_kill_switch: every armed operation of the account is      *)
(* CLEARED and committed, then the account leaves the cache.               *)
(* Plausible bug: the clear is of the engine scope only.                   *)
ClearedStatus_EngineOnly(i) == IF Armed(i) /\ scope[i] = "engine" THEN "CLEARED" ELSE op[i]

ClearedStatus(i) == IF Armed(i) THEN "CLEARED" ELSE op[i]

ClearCommit ==
  /\ up /\ ~clearing /\ (\E i \in Ops : Armed(i))
  /\ op' = [i \in Ops |-> ClearedStatus(i)]
  /\ clearing' = TRUE /\ overlap' = {s \in Scopes : request[s] = "armed"}
  /\ UNCHANGED <<ledgerVars, brokerVars, scope, snap, cache, request, raced, unhydrated,
                 workVars, closeVars, bootVars, histVars, opening>>

ClearCache ==
  /\ up /\ clearing /\ clearing' = FALSE /\ cache' = FALSE
  /\ overlap' = overlap \cup {s \in Scopes : request[s] = "armed"}
  /\ UNCHANGED <<ledgerVars, brokerVars, opVars, request, raced, unhydrated, workVars,
                 closeVars, bootVars, histVars, opening>>

----------------------------------------------------------------------------
(* OPEN signals: the last reading of the cache and the basket it lets go,  *)
(* the fill, the position.  One that passes while an operation is armed,   *)
(* in the two ways ArmedIsCached leaves open, comes late.                  *)

PassGate(t) ==
  /\ up /\ opening[t] = "none" /\ t \in Engine /\ row[t] = "none" /\ held[t] = 0
  /\ ~cache
  /\ opening' = [opening EXCEPT ![t] = "sent"]
  /\ late' = IF unhydrated \/ (\E i \in raced : Armed(i)) THEN late \cup {t} ELSE late
  /\ UNCHANGED <<ledgerVars, brokerVars, opVars, gateVars, workVars, closeVars, bootVars,
                 stale, ghost, blamed>>

(* The OPEN ends filled or not.                                            *)
FillOpen(t) ==
  /\ opening[t] = "sent"
  /\ \/ held' = [held EXCEPT ![t] = @ + 1] /\ opening' = [opening EXCEPT ![t] = "filled"]
     \/ opening' = [opening EXCEPT ![t] = "none"] /\ UNCHANGED held
  /\ UNCHANGED <<ledgerVars, table, orphan, opVars, gateVars, workVars, closeVars,
                 bootVars, histVars>>

(* PositionRepository.open_trade, once per trade id.                       *)
PersistOpen(t) ==
  /\ up /\ opening[t] = "filled" /\ opening' = [opening EXCEPT ![t] = "none"]
  /\ row' = [row EXCEPT ![t] = "OPEN"]
  /\ UNCHANGED <<ksFilled, execs, brokerVars, opVars, gateVars, workVars, closeVars, bootVars,
                 histVars>>

----------------------------------------------------------------------------
(* Closers.  Each reads what it will close, then takes the in-flight keys, *)
(* then sends; nothing is read again under the keys.                       *)

InLedger(t) == IF row[t] = "OPEN" THEN 1 ELSE 0

(* fetch_in_flight_accounts: a basket at work, a job in process.           *)
InFlightAccount == \/ \E c \in Closers : at[c] = "sent"
                   \/ \E t \in Trades : opening[t] # "none"

(* What a producer must see to start.  A pair and a CLOSE signal are read  *)
(* in the ledger, a line in broker_positions, the gateway's positions at   *)
(* the gateway.                                                            *)
PairSees(t)    == t \in Engine /\ row[t] = "OPEN"
SignalSees(t)  == t \in Engine /\ row[t] = "OPEN"
LineSees(t)    == table[t] # 0
AlignDelta(t)  == InLedger(t) - table[t]
AlignSees(t)   == AlignDelta(t) # 0 /\ ~InFlightAccount
GatewaySees(t) == held[t] # 0 /\ ArmedIn("account") # {}

Sees(who, t) ==
  CASE who = "pair"    -> PairSees(t)
    [] who = "signal"  -> SignalSees(t)
    [] who = "line"    -> LineSees(t)
    [] who = "align"   -> AlignSees(t)
    [] who = "gateway" -> GatewaySees(t)
    [] OTHER           -> FALSE

(* What it will send, and the keys of flatten_inflight it will ask for: a  *)
(* CLOSE signal and the gateway script take none, the alignment of a line  *)
(* leaves out the ledger keys of the manual positions.                     *)
LotsOf(who, t) ==
  CASE who = "line"    -> - table[t]
    [] who = "align"   -> AlignDelta(t)
    [] who = "gateway" -> - held[t]
    [] OTHER           -> -1

LineKeys(t)  == {"broker"} \cup IF row[t] = "OPEN" THEN {"ledger"} ELSE {}
AlignKeys(t) == {"broker"} \cup IF row[t] = "OPEN" /\ t \in Engine THEN {"ledger"} ELSE {}

KeysOf(who, t) ==
  CASE who \in {"signal", "gateway"} -> {}
    [] who = "line"  -> LineKeys(t)
    [] who = "align" -> AlignKeys(t)
    [] OTHER         -> {"ledger"}

Plan(who, t) == [lots |-> LotsOf(who, t), keys |-> KeysOf(who, t)]

(* A line read from a snapshot the broker has moved on from is stale.      *)
StartClose(c) ==
  /\ up /\ at[c] = "none" /\ Who(c) \in Producers /\ Sees(Who(c), Of(c)) /\ closes < MaxCloses
  /\ at' = [at EXCEPT ![c] = "read"] /\ closes' = closes + 1
  /\ plan' = [plan EXCEPT ![c] = Plan(Who(c), Of(c))]
  /\ stale' = IF Who(c) \in {"line", "align"} /\ table[Of(c)] # held[Of(c)]
              THEN stale \cup {c} ELSE stale
  /\ UNCHANGED <<ledgerVars, brokerVars, opVars, gateVars, workVars, inflight, monitor, fails,
                 up, crashes, sweeps, late, ghost, blamed, opening>>

(* RiskExitMonitor: one pair at a time, never while the account is armed,  *)
(* never a pair that failed max_retries times.  Whether the P&L crosses a  *)
(* threshold is left open.  A close that is under way already is awaited.  *)
PairReady(t) == monitor = Idle /\ ~cache /\ fails[t] < MaxRetries

RiskExit(t) ==
  LET c == <<"pair", t>> IN
  /\ up /\ "pair" \in Producers /\ PairReady(t) /\ PairSees(t) /\ closes < MaxCloses
  /\ monitor' = t /\ at' = [at EXCEPT ![c] = IF @ = "none" THEN "read" ELSE @]
  /\ plan' = [plan EXCEPT ![c] = Plan("pair", t)] /\ closes' = closes + 1
  /\ UNCHANGED <<ledgerVars, brokerVars, opVars, gateVars, workVars, inflight, fails, up,
                 crashes, sweeps, histVars, opening>>

(* flatten_inflight.try_acquire_many: every key or none.                   *)
(* Plausible bug: the registry is not looked at.                           *)
TryAcquire_Blind(c) == TRUE

TryAcquire(c) == \A h \in inflight : Of(h[1]) = Of(c) => h[2] \notin plan[c].keys

MonitorHears(c, ok) ==
  IF Who(c) = "pair" /\ monitor = Of(c)
  THEN /\ monitor' = Idle
       /\ fails' = [fails EXCEPT ![Of(c)] = IF ok THEN 0 ELSE @ + 1]
  ELSE UNCHANGED <<monitor, fails>>

(* Another producer holds a key: 409, or skipped as being flattened.       *)
Refused(c) ==
  /\ up /\ at[c] = "read" /\ ~TryAcquire(c)
  /\ at' = [at EXCEPT ![c] = "none"] /\ plan' = [plan EXCEPT ![c] = NoPlan]
  /\ stale' = stale \ {c} /\ MonitorHears(c, FALSE)
  /\ UNCHANGED <<ledgerVars, brokerVars, opVars, gateVars, workVars, inflight, bootVars, late,
                 ghost, blamed, opening>>

(* A basket goes out.  The trade is to blame for what follows when a close *)
(* of it ended since this closer's reading, when an order of it is still   *)
(* at work or comes from a closer that shares no key, or when the OPEN row *)
(* stands for a position somebody has closed at the broker only.           *)
Send(c) ==
  LET t == Of(c)
      rivals == {d \in Closers : /\ Of(d) = t /\ d # c /\ at[d] \in {"sent", "filled"}
                                 /\ plan[d].keys \cap plan[c].keys = {}} IN
  /\ up /\ at[c] = "read" /\ TryAcquire(c)
  /\ at' = [at EXCEPT ![c] = "sent"] /\ inflight' = inflight \cup ({c} \X plan[c].keys)
  /\ stale' = stale \ {c}
  /\ blamed' = IF \/ c \in stale \/ t \in ghost \/ rivals # {}
                  \/ \E o \in orphan : Of(o[1]) = t
               THEN blamed \cup {t} ELSE blamed
  /\ UNCHANGED <<ledgerVars, brokerVars, opVars, gateVars, workVars, plan, monitor, fails,
                 bootVars, late, ghost, opening>>

(* Tier 2 counts the orders of KILLSWITCH-<trade> and of the CLOSE signal. *)
CountsForTier2(c) == Who(c) \in Ops \cup {"signal"}

(* A pair close, a worker and a CLOSE signal close the ledger when their    *)
(* own fills match a row that is still OPEN; the others leave it alone.    *)
ClosesLedger(c) == Who(c) \in Ops \cup {"pair", "signal"}

Trade(c, lots) ==
  LET t == Of(c) IN
  /\ held' = [held EXCEPT ![t] = @ + lots]
  /\ ksFilled' = [ksFilled EXCEPT ![t] = IF CountsForTier2(c) THEN @ + 1 ELSE @]

(* The order trades and the basket's execute returns.  The execution may   *)
(* or may not reach trade_executions.                                      *)
FillClose(c) ==
  /\ at[c] = "sent" /\ at' = [at EXCEPT ![c] = "filled"] /\ Trade(c, plan[c].lots)
  /\ \E booked \in {0, 1} : execs' = [execs EXCEPT ![Of(c)] = @ + booked]
  /\ ghost' = IF ClosesLedger(c) THEN ghost ELSE ghost \cup {Of(c)}
  /\ UNCHANGED <<row, table, orphan, opVars, gateVars, workVars, plan, inflight, monitor, fails,
                 bootVars, late, stale, blamed, opening>>

(* An order of a closer that nobody waits for any more.                    *)
Orphan(c) ==
  LET mine == {o[3] : o \in {w \in orphan : w[1] = c}}
  IN  <<c, plan[c].lots, CHOOSE n \in 0..Cardinality(mine) : n \notin mine>>

(* execute returns without a fill: refused, rejected, cancelled, or given  *)
(* up while the order still works at the broker.                           *)
FailClose(c) ==
  /\ at[c] = "sent" /\ at' = [at EXCEPT ![c] = "failed"]
  /\ orphan' \in {orphan, orphan \cup {Orphan(c)}}
  /\ UNCHANGED <<ledgerVars, held, table, opVars, gateVars, workVars, plan, inflight, monitor,
                 fails, bootVars, histVars, opening>>

(* An order nobody waits for trades or ends.                               *)
OrphanEnds(o) ==
  /\ orphan' = orphan \ {o}
  /\ \/ Trade(o[1], o[2]) /\ ghost' = ghost \cup {Of(o[1])}
     \/ UNCHANGED <<held, ksFilled, ghost>>
  /\ UNCHANGED <<row, execs, table, opVars, gateVars, workVars, closeVars, bootVars, late,
                 stale, blamed, opening>>

(* A close ends: the ledger, the keys, the monitor that waits for it.      *)
Ended(c, ok) ==
  /\ up /\ at[c] \in {"filled", "failed"} /\ at' = [at EXCEPT ![c] = "none"]
  /\ plan' = [plan EXCEPT ![c] = NoPlan]
  /\ row' = [row EXCEPT ![Of(c)] = IF ok /\ ClosesLedger(c) /\ @ = "OPEN" THEN "CLOSED" ELSE @]
  /\ inflight' = {h \in inflight : h[1] # c} /\ MonitorHears(c, at[c] = "filled")
  /\ stale' = stale \cup {d \in Closers : Of(d) = Of(c) /\ at[d] = "read"}
  /\ UNCHANGED <<ksFilled, execs, brokerVars, opVars, gateVars, workVars, bootVars, late, ghost,
                 blamed, opening>>

(* Plausible bug: the ledger is closed whatever the basket's fills.        *)
EndClose_Unfilled(c) == Ended(c, TRUE)

EndClose(c) == Ended(c, at[c] = "filled")

----------------------------------------------------------------------------
(* Flatten workers.                                                        *)

(* _execute_flatten_operation up to its fan-out: under the row lock the    *)
(* operation must still be at work; it becomes FLATTENING and the OPEN     *)
(* rows are read.  An OPEN under way at that moment is one the operation   *)
(* cannot see.                                                             *)
StartWorker(i) ==
  /\ up /\ worker[i] = "start"
  /\ IF op[i] \in {"COMPLETE", "UNRESOLVED", "CLEARED"}
     THEN worker' = [worker EXCEPT ![i] = "none"] /\ UNCHANGED <<op, verdict, at, plan, late>>
     ELSE /\ op' = [op EXCEPT ![i] = "FLATTENING"]
          /\ late' = late \cup {t \in Trades : opening[t] # "none"}
          /\ IF OpenRows = {}
             THEN /\ worker' = [worker EXCEPT ![i] = "finalize"]
                  /\ verdict' = [verdict EXCEPT ![i] = "COMPLETE"] /\ UNCHANGED <<at, plan>>
             ELSE /\ worker' = [worker EXCEPT ![i] = "flatten"]
                  /\ at' = [c \in Closers |->
                              IF Who(c) = i /\ Of(c) \in OpenRows THEN "read" ELSE at[c]]
                  /\ plan' = [c \in Closers |-> IF Who(c) = i /\ Of(c) \in OpenRows
                                                THEN Plan(i, Of(c)) ELSE plan[c]]
                  /\ UNCHANGED verdict
  /\ UNCHANGED <<ledgerVars, brokerVars, scope, snap, gateVars, todo, sweep, inflight, monitor,
                 fails, bootVars, stale, ghost, blamed, opening>>

(* Tier 2: an OPEN row whose filled close orders sum up to its size.       *)
TierTwo == {t \in OpenRows : ksFilled[t] = 1}

EngineVerdict(closed) == IF OpenRows \ closed = {} THEN "COMPLETE" ELSE "UNRESOLVED"

(* close_all_ledger_after_account_flatten: flat at the broker and priced   *)
(* by executions since the arming, or flat and not yet priced.             *)
Snapshot(i) == IF snap[i] = {} THEN OpenPositions ELSE snap[i]
FlatIn(i) == {t \in Snapshot(i) : row[t] \in {"OPEN", "PENDING"} /\ table[t] = 0}

Priced(i) == {t \in FlatIn(i) : execs[t] > 0}

Unpriced(i) == {t \in FlatIn(i) \ Priced(i) : row[t] = "OPEN"}

AccountVerdict(i) ==
  IF {t \in Snapshot(i) : row[t] # "CLOSED"} \subseteq Priced(i) THEN "COMPLETE"
  ELSE IF Unpriced(i) # {} THEN "RECONCILING" ELSE "UNRESOLVED"

CloseRows(closed, pending) ==
  row' = [t \in Trades |-> IF t \in closed THEN "CLOSED"
                           ELSE IF t \in pending THEN "PENDING" ELSE row[t]]

(* asyncio.gather has every position of the fan-out ended; then Tier 2.    *)
Reconcile(i) ==
  /\ up /\ worker[i] = "flatten" /\ (\A t \in Trades : at[<<i, t>>] = "none")
  /\ worker' = [worker EXCEPT ![i] = "finalize"]
  /\ CloseRows(TierTwo, {}) /\ verdict' = [verdict EXCEPT ![i] = EngineVerdict(TierTwo)]
  /\ UNCHANGED <<ksFilled, execs, brokerVars, opVars, gateVars, todo, sweep, closeVars, bootVars,
                 histVars, opening>>

(* _update_operation_completion: COMPLETE and CLEARED do not regress.      *)
Concluded(status, to) ==
  IF status = "CLEARED" \/ status = "COMPLETE" THEN status ELSE to

Finalize(i) ==
  /\ up /\ worker[i] = "finalize" /\ worker' = [worker EXCEPT ![i] = "none"]
  /\ op' = [op EXCEPT ![i] = Concluded(@, verdict[i])]
  /\ verdict' = [verdict EXCEPT ![i] = "none"]
  /\ UNCHANGED <<ledgerVars, brokerVars, scope, snap, gateVars, todo, sweep, closeVars, bootVars,
                 histVars, opening>>

----------------------------------------------------------------------------
(* The reconciler replaces broker_positions, and after_reconcile_sweep     *)
(* retries the operations that are UNRESOLVED or RECONCILING at that time, *)
(* one by one.  The sweep's service knows nothing of the workers of        *)
(* another service.  A request that times out replaces the snapshot by the *)
(* lines that came; one that fails leaves it.                              *)

Snapshots == {table} \cup {[t \in Trades |-> IF t \in came THEN held[t] ELSE 0] :
                             came \in SUBSET Trades}

Sweep ==
  /\ up /\ sweeps < MaxSweeps /\ sweep = Idle /\ todo = {}
  /\ sweeps' = sweeps + 1 /\ table' \in Snapshots
  /\ todo' = {i \in Ops : op[i] \in {"UNRESOLVED", "RECONCILING"}}
  /\ UNCHANGED <<ledgerVars, held, orphan, opVars, gateVars, worker, sweep, verdict, closeVars,
                 up, crashes, closes, histVars, opening>>

(* A position broker_positions calls flat and the broker no longer does.   *)
FollowBrokerPositions(i) ==
  /\ CloseRows(Priced(i), Unpriced(i))
  /\ verdict' = [verdict EXCEPT ![Idle] = AccountVerdict(i)]
  /\ execs' = [t \in Trades |-> IF t \in Priced(i) THEN execs[t] - 1 ELSE execs[t]]
  /\ blamed' = blamed \cup {t \in FlatIn(i) : held[t] # 0}

RetryUnresolved(i) ==
  /\ up /\ sweep = Idle /\ i \in todo /\ sweep' = i /\ todo' = todo \ {i}
  /\ IF scope[i] = "account"
     THEN FollowBrokerPositions(i)
     ELSE /\ CloseRows(TierTwo, {}) /\ UNCHANGED <<execs, blamed>>
          /\ verdict' = [verdict EXCEPT ![Idle] = EngineVerdict(TierTwo)]
  /\ UNCHANGED <<ksFilled, brokerVars, opVars, gateVars, worker, closeVars, bootVars, late,
                 stale, ghost, opening>>

RetryFinalizes ==
  /\ up /\ sweep # Idle /\ sweep' = Idle
  /\ op' = [op EXCEPT ![sweep] = Concluded(@, verdict[Idle])]
  /\ verdict' = [verdict EXCEPT ![Idle] = "none"]
  /\ UNCHANGED <<ledgerVars, brokerVars, scope, snap, gateVars, worker, todo, closeVars, bootVars,
                 histVars, opening>>

(* The account square-off: the script reported every close filled (or had  *)
(* nothing to close), and the ledger follows the broker_positions of the   *)
(* last sweep.                                                             *)
AccountFlattened(i) ==
  /\ up /\ "gateway" \in Producers /\ scope[i] = "account" /\ Armed(i) /\ sweep = Idle
  /\ \A t \in Trades : at[<<"gateway", t>>] = "none"
  /\ sweep' = i /\ FollowBrokerPositions(i)
  /\ UNCHANGED <<ksFilled, brokerVars, opVars, gateVars, worker, todo, closeVars, bootVars, late,
                 stale, ghost, opening>>

----------------------------------------------------------------------------
(* Crash and restart.                                                      *)

Crash ==
  /\ up /\ crashes < MaxCrashes /\ crashes' = crashes + 1 /\ up' = FALSE
  /\ orphan' = orphan \cup {Orphan(c) : c \in {d \in Closers : at[d] = "sent"}}
  /\ at' = None(Closers) /\ plan' = [c \in Closers |-> NoPlan] /\ inflight' = {}
  /\ monitor' = Idle /\ fails' = Zero(Trades)
  /\ cache' = FALSE /\ request' = None(Scopes) /\ clearing' = FALSE /\ overlap' = {}
  /\ worker' = None(Ops) /\ todo' = {} /\ sweep' = Idle /\ verdict' = None(Ops \cup {Idle})
  /\ opening' = [t \in Trades |-> IF opening[t] = "sent" THEN "sent" ELSE "none"]
  /\ stale' = {} /\ ghost' = ghost \cup {Of(c) : c \in {d \in Closers : at[d] = "filled"}}
  /\ late' = late \cup {t \in Trades : opening[t] \in {"sent", "filled"}}
  /\ UNCHANGED <<ledgerVars, held, table, opVars, raced, unhydrated, closes, sweeps, blamed>>

(* hydrate_kill_switch_cache.                                              *)
HydratedCache == \E i \in Ops : Armed(i)

(* Plausible bug: an operation that had not begun to flatten is forgotten. *)
Resumed_Begun == {i \in Ops : op[i] \in {"FLATTENING", "RECONCILING"}}

(* resume_incomplete_flattens asks for no scope but the manual one: an     *)
(* operation that was only armed gets a flatten worker too.                *)
Resumed == {i \in Ops : op[i] \in {"ACTIVATING", "FLATTENING", "RECONCILING"}}

(* hydrate_runtime_from_db, before any signal is processed: the cache, the *)
(* workers, and a retry on the broker_positions of before the crash.  A    *)
(* read that fails is logged and the process comes up with an empty cache. *)
Restart ==
  /\ ~up /\ up' = TRUE
  /\ \/ cache' = HydratedCache /\ unhydrated' = FALSE
     \/ cache' = FALSE /\ unhydrated' = TRUE
  /\ worker' = [i \in Ops |-> IF i \in Resumed THEN "start" ELSE "none"]
  /\ todo' = {i \in Ops : op[i] = "UNRESOLVED"}
  /\ UNCHANGED <<ledgerVars, brokerVars, opVars, request, clearing, overlap, raced, sweep,
                 verdict, opening, closeVars, crashes, closes, sweeps, histVars>>

----------------------------------------------------------------------------
Arming == \/ AccountBreach
          \/ \E s \in Scopes : ReturnExisting(s) \/ ArmCache(s) \/ CommitOperation(s)
                               \/ RequestFails(s)
Opens  == \E t \in Trades : PassGate(t) \/ FillOpen(t) \/ PersistOpen(t)
Closes == \/ \E c \in Closers : StartClose(c) \/ Refused(c) \/ Send(c) \/ FillClose(c)
                                \/ FailClose(c) \/ EndClose(c)
          \/ \E t \in Trades : RiskExit(t)
          \/ \E o \in orphan : OrphanEnds(o)
Work   == \E i \in Ops : StartWorker(i) \/ Reconcile(i) \/ Finalize(i)
                           \/ RetryUnresolved(i) \/ AccountFlattened(i)

Next == Arming \/ ClearCommit \/ ClearCache \/ Opens \/ Closes \/ Work \/ Sweep
        \/ RetryFinalizes \/ Crash \/ Restart

(* The event loop runs what is ready, requests end, the broker answers a   *)
(* basket or its deadline passes, and the supervisor restarts the process. *)
Fairness ==
  /\ WF_vars(Restart) /\ WF_vars(ClearCache) /\ WF_vars(RetryFinalizes)
  /\ \A i \in Ops : WF_vars(StartWorker(i) \/ Reconcile(i) \/ Finalize(i))
  /\ \A c \in Closers : WF_vars(Refused(c) \/ Send(c) \/ FillClose(c) \/ FailClose(c)
                                \/ EndClose(c))

Spec == Init /\ [][Next]_vars /\ Fairness

----------------------------------------------------------------------------
TypeOK ==
  /\ row \in [Trades -> RowState] /\ ksFilled \in [Trades -> Nat] /\ execs \in [Trades -> Nat]
  /\ held \in [Trades -> Int] /\ table \in [Trades -> Int]
  /\ orphan \subseteq Closers \X Int \X Nat
  /\ op \in [Ops -> OpState] /\ scope \in [Ops -> Scopes \cup {"engine"}] /\ snap \in [Ops -> SUBSET Trades]
  /\ cache \in BOOLEAN /\ request \in [Scopes -> RequestPc] /\ clearing \in BOOLEAN
  /\ worker \in [Ops -> WorkerPc] /\ todo \subseteq Ops /\ sweep \in Ops \cup {Idle}
  /\ verdict \in [Ops \cup {Idle} -> Verdict]
  /\ opening \in [Trades -> OpenPc] /\ at \in [Closers -> CloserPc]
  /\ plan \in [Closers -> [lots : Int, keys : SUBSET Keys]] /\ inflight \subseteq Closers \X Keys
  /\ monitor \in Trades \cup {Idle} /\ fails \in [Trades -> 0..MaxRetries]
  /\ up \in BOOLEAN /\ crashes \in 0..MaxCrashes /\ closes \in 0..MaxCloses
  /\ sweeps \in 0..MaxSweeps /\ overlap \subseteq Scopes /\ raced \subseteq Ops
  /\ unhydrated \in BOOLEAN /\ late \subseteq Trades /\ stale \subseteq Closers
  /\ ghost \subseteq Trades /\ blamed \subseteq Trades

(* An armed operation blocks OPENs: the cache the gates read says so,      *)
(* unless a clear was under way while the operation was being written (it  *)
(* then drops the account after its own update could see the operation),   *)
(* or the read at startup failed.                                          *)
ArmedIsCached ==
  \A i \in Ops : up /\ Armed(i) => cache \/ i \in raced \/ unhydrated

(* The positions on which an operation's verdict rests.                    *)
Judged(i) == IF scope[i] = "engine" THEN Engine ELSE snap[i] \cap Engine

(* An operation that ended COMPLETE left no position of the engine that it *)
(* could have seen (an account operation, none of its snapshot): what is   *)
(* held now came from an OPEN that was already past the gate when the      *)
(* worker read the rows, that lost its row in a crash or passed a gate     *)
(* that did not know of the operation, or from a close or a stale          *)
(* broker_positions that Send and FollowBrokerPositions list.              *)
CompleteIsFlat ==
  \A i \in Ops : op[i] = "COMPLETE" =>
    \A t \in Judged(i) : held[t] > 0 => t \in late \cup blamed

(* No close takes a position past zero except in the ways Send lists: the  *)
(* in-flight registry leaves exactly those open.                           *)
OverCloseIsKnown == \A t \in Trades : held[t] < 0 => t \in blamed

(* A flatten that was requested ends: the operation does not stay at work  *)
(* for ever, whatever crashes and whichever baskets fail.                  *)
FlattenConcludes ==
  \A i \in Ops :
    (scope[i] = "engine" /\ op[i] \in {"ACTIVATING", "FLATTENING"})
      ~> op[i] \in {"COMPLETE", "UNRESOLVED", "CLEARED"}

=============================================================================
