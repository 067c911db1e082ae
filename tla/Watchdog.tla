------------------------------ MODULE Watchdog ------------------------------
(* The watchdog daemon: it polls the services one after another, runs a    *)
(* state machine for each, counts recovery attempts against a budget kept  *)
(* in a file, and tells the operator over a bounded priority queue with    *)
(* deduplication.  It restarts nothing itself.  The services, the session  *)
(* clock, the host's load and the Telegram server are its environment.     *)
EXTENDS Integers, Sequences, FiniteSets, SequencesExt

CONSTANTS
  Monitored,    \* MONITORED_SERVICES, in polling order
  Budget,       \* recovery_max_attempts
  Capacity,     \* NotificationQueue.BOUNDED_MAXLEN
  MaxEvents,    \* bound: changes of the environment and faults, together
  MaxRestarts   \* bound: restarts of the daemon

AllServices == {"gateway", "backend", "webhook", "demo", "postgres", "redis"}
SessionServices == {"gateway", "webhook"}  \* _MARKET_CLOSED_SERVICES

ASSUME ConstantsAssumption ==
  /\ Monitored \in Seq(AllServices) /\ IsInjective(Monitored)
  /\ "gateway" \in ToSet(Monitored)
  /\ {Budget, Capacity} \subseteq Nat \ {0} /\ {MaxEvents, MaxRestarts} \subseteq Nat

Services == ToSet(Monitored)
None     == "none"

States == {"STARTING", "HEALTHY", "DEGRADED", "FAILED", "RECOVERING", "VERIFYING",
           "RECOVERED", "MANUAL_INTERVENTION_REQUIRED", "TRADING_BLOCKED", "MARKET_CLOSED"}

CriticalEvents == {"FAILURE", "RECOVERY_FAILED", "MANUAL_INTERVENTION_REQUIRED", "TRADING_BLOCKED"}
WarningEvents  == {"UNHEALTHY", "RECOVERY_STARTED"}
InfoEvents     == {"START", "RECOVERED", "MARKET_CLOSED"}
Events         == CriticalEvents \cup WarningEvents \cup InfoEvents

VARIABLES
  answers,    \* how deep a probe of each service gets
  open,       \* _is_trading_session
  unsafe,     \* some gate of the backend reports UNSAFE
  usage,      \* host usage: below recovery, below warning, below critical, above
  at,         \* position of the polling loop
  state,      \* snapshot.state
  failures,   \* consecutive_failures > 0
  attempts,   \* recovery_attempts within the window, in memory
  stored,     \* the same in the budget file
  damaged,    \* the budget file does not parse
  corrupted,  \* RecoveryBudgetStore._corrupted
  blocked,    \* safety_blocked
  load,       \* ResourceMonitor._states
  queue,      \* the three buckets of the notification queue
  cooling,    \* the keys of _last_sent that are younger than the cooldown
  lastEvent,  \* _last_event_per_service
  events,
  tries,      \* history: attempts made within the window, over all restarts
  forgotten,  \* history: services whose attempts a restart has lost
  news,       \* history: the last event the operator received about a service
  waits,      \* history: polls a service has been on its way to rest, see AtRest
  missed      \* history: why an alarm of the present outage may be missing

world    == <<answers, open, unsafe, usage>>
budget   == <<attempts, stored, damaged, corrupted, tries, forgotten>>
notifier == <<queue, cooling, lastEvent, news, missed>>
vars     == <<world, at, state, failures, waits, budget, blocked, load, notifier, events>>

Event == events.happened < MaxEvents /\ events' = [events EXCEPT !.happened = @ + 1]

-----------------------------------------------------------------------------
(* Health checkers.  What a service answers is a depth: 0 refuses the      *)
(* connection, each further level passes one more of the checker's probes. *)

Depth(s) == IF s \in {"backend", "webhook"} THEN 3 ELSE 2

\* TCP, then the login marker in the gateway's log.
GatewayHealth(d) == CASE d = 0 -> "FAILED" [] d = 1 -> "DEGRADED" [] d = 2 -> "HEALTHY"

\* TCP, then /health, then /health/ready or the system monitor in its place.
BackendHealth(d) == CASE d = 0 -> "FAILED" [] d \in {1, 2} -> "DEGRADED" [] d = 3 -> "HEALTHY"

\* TCP, then /health, then /health/ready.
WebhookHealth(d) == CASE d = 0 -> "FAILED" [] d \in {1, 2} -> "DEGRADED" [] d = 3 -> "HEALTHY"

\* TCP, then /health with its redis flag.
DemoHealth(d) == CASE d = 0 -> "FAILED" [] d = 1 -> "DEGRADED" [] d = 2 -> "HEALTHY"

\* TCP, then SELECT 1.
PostgresHealth(d) == CASE d = 0 -> "FAILED" [] d = 1 -> "DEGRADED" [] d = 2 -> "HEALTHY"

\* TCP, then PING.
RedisHealth(d) == CASE d = 0 -> "FAILED" [] d = 1 -> "DEGRADED" [] d = 2 -> "HEALTHY"

Health(s) ==
  CASE s = "gateway"  -> GatewayHealth(answers[s])
    [] s = "backend"  -> BackendHealth(answers[s])
    [] s = "webhook"  -> WebhookHealth(answers[s])
    [] s = "demo"     -> DemoHealth(answers[s])
    [] s = "postgres" -> PostgresHealth(answers[s])
    [] s = "redis"    -> RedisHealth(answers[s])

\* Outside the session the backend may miss its broker connection: a degraded
\* answer about readiness is taken as healthy, a port without HTTP is not.
Tolerated(s) == IF s = "backend" /\ ~open /\ answers[s] = 2 THEN "HEALTHY" ELSE Health(s)

\* The gates pass when each of them answers SAFE; a backend that does not
\* answer leaves them UNKNOWN.
GatesPass == ~unsafe /\ ("backend" \in Services => answers["backend"] >= 2)

-----------------------------------------------------------------------------
(* The state machine.                                                      *)

IsMarketClosedFor(s) == s \in SessionServices /\ ~open

\* verified: "yes", "no", or None while the outcome is open.
NextState(cur, health, verified, block, closed) ==
  CASE closed /\ health = "FAILED" -> "MARKET_CLOSED"
    [] closed /\ cur = "MARKET_CLOSED" /\ health = "HEALTHY" -> "HEALTHY"
    [] ~(closed /\ (health = "FAILED" \/ (cur = "MARKET_CLOSED" /\ health = "HEALTHY"))) ->
       IF block /\ cur \notin {"MANUAL_INTERVENTION_REQUIRED", "TRADING_BLOCKED", "MARKET_CLOSED"}
       THEN "TRADING_BLOCKED"
       ELSE CASE cur \in {"STARTING", "HEALTHY", "DEGRADED", "RECOVERED"} -> health
              [] cur = "FAILED" -> IF health = "HEALTHY" THEN "RECOVERED" ELSE health
              [] cur = "RECOVERING" -> "VERIFYING"
              [] cur = "VERIFYING" -> CASE verified = "yes" -> "RECOVERED"
                                        [] verified = "no"  -> "FAILED"
                                        [] OTHER            -> "VERIFYING"
              [] cur \in {"MANUAL_INTERVENTION_REQUIRED", "TRADING_BLOCKED"} ->
                   IF ~block /\ health = "HEALTHY" THEN "HEALTHY" ELSE cur
              [] cur = "MARKET_CLOSED" ->
                   CASE health = "HEALTHY" -> "HEALTHY"
                     [] health = "FAILED"  -> "FAILED"
                     [] OTHER              -> cur

EventFor_NoRecoveryStarted(prev, next) ==
  CASE next = "TRADING_BLOCKED" -> "TRADING_BLOCKED"
    [] next = "MARKET_CLOSED" -> "MARKET_CLOSED"
    [] next = "FAILED" /\ prev \in {"HEALTHY", "DEGRADED", "MARKET_CLOSED"} -> "FAILURE"
    [] next = "HEALTHY" /\ prev = "STARTING" -> "START"
    [] next = "RECOVERED" -> "RECOVERED"
    [] next = "MANUAL_INTERVENTION_REQUIRED" -> "MANUAL_INTERVENTION_REQUIRED"
    [] OTHER -> None

\* The pairs that have no entry tell the operator nothing.
EventFor(prev, next) ==
  CASE next = "TRADING_BLOCKED" -> "TRADING_BLOCKED"
    [] next = "MARKET_CLOSED" -> "MARKET_CLOSED"
    [] next = "FAILED" /\ prev \in {"HEALTHY", "DEGRADED", "MARKET_CLOSED"} -> "FAILURE"
    [] next = "FAILED" /\ prev = "VERIFYING" -> "RECOVERY_FAILED"
    [] next = "HEALTHY" /\ prev = "STARTING" -> "START"
    [] next = "DEGRADED" /\ prev = "HEALTHY" -> "UNHEALTHY"
    [] next = "RECOVERING" /\ prev = "FAILED" -> "RECOVERY_STARTED"
    [] next = "RECOVERED" /\ prev \in {"VERIFYING", "FAILED", "TRADING_BLOCKED"} -> "RECOVERED"
    [] next = "MANUAL_INTERVENTION_REQUIRED" /\ prev \in {"FAILED", "RECOVERING", "VERIFYING"} ->
         "MANUAL_INTERVENTION_REQUIRED"
    [] next = "HEALTHY" /\ prev \in {"MANUAL_INTERVENTION_REQUIRED", "MARKET_CLOSED", "TRADING_BLOCKED"} ->
         "RECOVERED"
    [] OTHER -> None

-----------------------------------------------------------------------------
(* The notification queue.  A message is about a service, or about a gate  *)
(* or a host resource: those travel under the gateway's name.              *)

Message(s, e, about) == [service |-> s, event |-> e, about |-> about]

Bucket(e) == CASE e \in CriticalEvents -> "critical" [] e \in WarningEvents -> "warning" [] e \in InfoEvents -> "info"
Total  == Len(queue.critical) + Len(queue.warning) + Len(queue.info)

Full == Total >= Capacity

ShouldSend(s, e) ==
  \/ <<s, e>> \notin cooling
  \/ lastEvent[s] # None /\ lastEvent[s] # e

\* The bucket whose oldest message gives way to one of bucket b in a full
\* queue, or None if the new one is dropped.
Evicts(b) ==
  CASE Len(queue.info) > 0 -> "info"
    [] Len(queue.info) = 0 /\ b = "critical" -> IF Len(queue.warning) > 0 THEN "warning" ELSE "critical"
    [] OTHER -> None

Alarms   == CriticalEvents \cup {"RECOVERY_STARTED"}
IsAlarm(m) == m.about = "service" /\ m.event \in Alarms
Queued(s)  == {m \in ToSet(queue.critical) \cup ToSet(queue.warning) \cup ToSet(queue.info) :
                 m.service = s /\ m.about = "service"}

\* What an attempt to enqueue does: whether it is admitted, the buckets after
\* it, and the reasons it adds to a service's missed alarms.
Admission(m, force) ==
  LET b == Bucket(m.event)
      victim == Evicts(b)
      freed  == IF victim \in {"info", "warning", "critical"} /\ Full
                THEN [queue EXCEPT ![victim] = Tail(@)] ELSE queue
      lostOf(x, why) == IF IsAlarm(x) THEN {<<x.service, why>>} ELSE {}
  IN CASE ~force /\ ~ShouldSend(m.service, m.event) ->
            [in |-> FALSE, queue |-> queue, lost |-> lostOf(m, "repeated")]
       [] (force \/ ShouldSend(m.service, m.event)) /\ Full /\ victim = None ->
            [in |-> FALSE, queue |-> queue, lost |-> lostOf(m, "crowded")]
       [] OTHER ->
            [in |-> TRUE, queue |-> [freed EXCEPT ![b] = Append(@, m)],
             lost |-> (IF Full THEN lostOf(Head(queue[victim]), "crowded") ELSE {})
                      \cup (IF \E x \in Queued(m.service) : ~IsAlarm(x) THEN lostOf(m, "overtaking") ELSE {})]

-----------------------------------------------------------------------------
(* The polling loop.                                                       *)

Down == {"FAILED", "RECOVERING", "VERIFYING", "MANUAL_INTERVENTION_REQUIRED", "TRADING_BLOCKED"}

Exhausted_Corruption(s) == corrupted

\* The budget check.  A file that stopped parsing while the daemon runs is
\* noticed here, and counts from the next check on.
Exhausted(s) == corrupted \/ attempts[s] >= Budget \/ (~damaged /\ stored[s] >= Budget)

\* recovery attempt: kept in memory, and in the file unless the save fails.
Recorded(s, saved) ==
  /\ attempts' = [attempts EXCEPT ![s] = @ + 1]
  /\ tries' = [tries EXCEPT ![s] = @ + 1]
  /\ IF saved THEN stored' = attempts' /\ damaged' = FALSE ELSE UNCHANGED <<stored, damaged>>

\* The state after a poll that found `health`, and whether the budget is
\* consulted and an attempt recorded on the way.
Outcome(s, health) ==
  LET cur      == state[s]
      closed   == IsMarketClosedFor(s)
      debounced == health = "DEGRADED" /\ cur = "HEALTHY" /\ ~failures[s]
      plain    == NextState(cur, IF debounced THEN "HEALTHY" ELSE health, None, FALSE, closed)
      verified == CASE health = "HEALTHY" /\ ~blocked -> "yes" [] health = "FAILED" -> "no" [] OTHER -> None
      judged   == NextState("VERIFYING", health, verified, blocked, FALSE)
  IN CASE cur = "FAILED" /\ plain = "FAILED" ->
            [next |-> IF Exhausted(s) THEN "MANUAL_INTERVENTION_REQUIRED" ELSE "RECOVERING",
             asks |-> TRUE, records |-> ~Exhausted(s)]
       [] cur = "RECOVERING" -> [next |-> "VERIFYING", asks |-> FALSE, records |-> TRUE]
       [] cur = "VERIFYING" /\ plain = "VERIFYING" /\ judged = "FAILED" ->
            [next |-> IF Exhausted(s) THEN "MANUAL_INTERVENTION_REQUIRED" ELSE "RECOVERING",
             asks |-> TRUE, records |-> FALSE]
       [] cur = "VERIFYING" /\ plain = "VERIFYING" /\ judged # "FAILED" ->
            [next |-> judged, asks |-> FALSE, records |-> FALSE]
       [] OTHER -> [next |-> plain, asks |-> FALSE, records |-> FALSE]

\* The polls after which a service that no longer changes has come to rest,
\* and where that is: a service that answers well is HEALTHY, one that is down
\* when it should run waits for an operator or for its own recovery.
MostPolls == IF Budget = 1 THEN 3 ELSE 2 * Budget
Patience  == MostPolls + 1

AtRest(s, st) ==
  CASE Health(s) = "HEALTHY"  -> st = "HEALTHY"
    [] Health(s) = "FAILED"   -> IsMarketClosedFor(s) \/ st \in {"MANUAL_INTERVENTION_REQUIRED", "TRADING_BLOCKED"}
    [] Health(s) = "DEGRADED" -> TRUE

\* Enqueues an event, or nothing when there is none, and settles the dedup
\* state: a transition to HEALTHY or RECOVERED clears the last event.
Notify(s, e, clears, up, force, about) ==
  LET m == Message(s, e, about)
      a == IF e = None THEN [in |-> FALSE, queue |-> queue, lost |-> {}] ELSE Admission(m, force)
      old == IF up THEN [missed EXCEPT ![s] = {}] ELSE missed
  IN /\ queue' = a.queue
     /\ cooling' = IF a.in THEN cooling \cup {<<s, e>>} ELSE cooling
     /\ lastEvent' = [lastEvent EXCEPT ![s] = IF clears THEN None ELSE IF a.in THEN e ELSE @]
     /\ missed' = [x \in Services |-> old[x] \cup {why \in {"repeated", "crowded", "overtaking"} : <<x, why>> \in a.lost}]
     /\ UNCHANGED news

Before(s) == at <= Len(Monitored) /\ Monitored[at] = s
Advance == at' = (at % (Len(Monitored) + 2)) + 1

\* _check_one.  A checker that raises or takes more than its 5 seconds counts
\* as FAILED.
CheckOne(s) ==
  /\ Before(s)
  /\ \E flaky \in BOOLEAN, saved \in BOOLEAN :
       LET health == IF flaky THEN "FAILED" ELSE Tolerated(s)
           out    == Outcome(s, health)
           moved  == out.next # state[s]
       IN /\ out.records \/ saved
          /\ IF flaky \/ ~saved THEN Event ELSE UNCHANGED events
          /\ failures' = [failures EXCEPT ![s] = health # "HEALTHY"]
          /\ waits' = [waits EXCEPT ![s] = IF flaky \/ AtRest(s, out.next) THEN 0 ELSE IF @ < Patience THEN @ + 1 ELSE @]
          /\ state' = [state EXCEPT ![s] = out.next]
          /\ IF out.records THEN Recorded(s, saved) ELSE UNCHANGED <<attempts, stored, damaged, tries>>
          /\ corrupted' = (corrupted \/ (out.asks /\ attempts[s] < Budget /\ damaged))
          /\ Notify(s, IF moved THEN EventFor(state[s], out.next) ELSE None,
                    moved /\ out.next \in {"HEALTHY", "RECOVERED"}, state[s] \notin Down \/ out.next \notin Down, FALSE, "service")
  /\ Advance
  /\ UNCHANGED <<world, forgotten, blocked, load>>

\* _check_safety_gates: not evaluated outside the session, so safety_blocked
\* keeps what the last session left.
CheckSafetyGates ==
  /\ at = Len(Monitored) + 1
  /\ blocked' = IF open THEN ~GatesPass ELSE blocked
  /\ Notify("gateway", CASE blocked' /\ ~blocked -> "TRADING_BLOCKED" [] ~blocked' /\ blocked -> "RECOVERED" [] OTHER -> None,
            FALSE, FALSE, TRUE, "gate")
  /\ Advance
  /\ UNCHANGED <<world, state, failures, waits, budget, load, events>>

\* The bands _get_thresholds cuts the usage into.
Levels == {"low", "mid", "warning", "critical"}

\* _evaluate_state: up at once, down only below the recovery threshold.
EvaluateState(cur) ==
  CASE usage = "critical" -> "CRITICAL"
    [] usage = "warning" /\ cur = "NORMAL" -> "WARNING"
    [] usage = "low" -> "NORMAL"
    [] OTHER -> cur

CheckResources ==
  /\ at = Len(Monitored) + 2
  /\ load' = EvaluateState(load)
  /\ Notify("gateway", CASE load' = load -> None
                         [] load' # load /\ load' = "CRITICAL" -> "FAILURE"
                         [] load' # load /\ load' = "WARNING"  -> "UNHEALTHY"
                         [] load' # load /\ load' = "NORMAL"   -> "RECOVERED",
            FALSE, FALSE, TRUE, "resource")
  /\ Advance
  /\ UNCHANGED <<world, state, failures, waits, budget, blocked, events>>

-----------------------------------------------------------------------------
(* The worker: highest bucket first; a message Telegram does not take      *)
(* after its retries is gone.                                              *)

SendMessage(m) ==
  \/ /\ news' = IF m.about = "service" THEN [news EXCEPT ![m.service] = m.event] ELSE news
     /\ UNCHANGED <<missed, events>>
  \/ /\ missed' = IF IsAlarm(m) THEN [missed EXCEPT ![m.service] = @ \cup {"unsent"}] ELSE missed
     /\ Event /\ UNCHANGED news

Worker(b) ==
  /\ queue[b] # <<>>
  /\ b = "warning" => queue.critical = <<>>
  /\ b = "info" => queue.critical = <<>> /\ queue.warning = <<>>
  /\ queue' = [queue EXCEPT ![b] = Tail(@)]
  /\ SendMessage(Head(queue[b]))
  /\ UNCHANGED <<world, at, state, failures, waits, budget, blocked, load, cooling, lastEvent>>

-----------------------------------------------------------------------------
(* The environment.  A change of what a check reads is placed where that  *)
(* check is next; until then nobody can tell.                             *)

Changes(s) ==
  /\ Event
  /\ \/ Before(s)
     \/ s = "backend" /\ at = Len(Monitored) + 1
  /\ \E d \in 0 .. Depth(s) : d # answers[s] /\ answers' = [answers EXCEPT ![s] = d]
  /\ waits' = [waits EXCEPT ![s] = 0]
  /\ UNCHANGED <<open, unsafe, usage, at, state, failures, budget, blocked, load, notifier>>

SessionBell ==
  /\ Event /\ open' = ~open
  /\ waits' = [s \in Services |-> 0]
  /\ UNCHANGED <<answers, unsafe, usage, at, state, failures, budget, blocked, load, notifier>>

GateFlips ==
  /\ at = Len(Monitored) + 1 /\ Event /\ unsafe' = ~unsafe
  /\ UNCHANGED <<answers, open, usage, at, state, failures, waits, budget, blocked, load, notifier>>

UsageMoves ==
  /\ at = Len(Monitored) + 2 /\ Event /\ usage' \in Levels \ {usage}
  /\ UNCHANGED <<answers, open, unsafe, at, state, failures, waits, budget, blocked, load, notifier>>

\* Time: a key of the dedup map reaches the cooldown.
CooldownEnds ==
  /\ Event /\ \E k \in cooling : Before(k[1]) /\ cooling' = cooling \ {k}
  /\ UNCHANGED <<world, at, state, failures, waits, budget, blocked, load, queue, lastEvent, news, missed>>

\* Time: the oldest attempt of a service leaves the window.
AttemptAges(s) ==
  /\ Event /\ Before(s) /\ tries[s] > 0
  /\ LET less(f) == [f EXCEPT ![s] = IF @ > 0 THEN @ - 1 ELSE 0]
     IN attempts' = less(attempts) /\ stored' = less(stored) /\ tries' = less(tries)
  /\ waits' = [waits EXCEPT ![s] = 0]
  /\ UNCHANGED <<world, at, state, failures, damaged, corrupted, forgotten, blocked, load, notifier>>

\* The budget file is damaged from outside.
FileDamaged ==
  /\ Event /\ ~damaged /\ damaged' = TRUE
  /\ UNCHANGED <<world, at, state, failures, waits, attempts, stored, corrupted, tries, forgotten, blocked, load, notifier>>

\* The attempts a new daemon starts from.
Hydrated_Fresh == [s \in Services |-> 0]

Hydrated == IF damaged THEN [s \in Services |-> 0] ELSE stored

\* The daemon dies and starts again: everything but the file is lost.
Restart ==
  /\ events.restarts < MaxRestarts /\ events' = [events EXCEPT !.restarts = @ + 1]
  /\ at' = 1 /\ state' = [s \in Services |-> "STARTING"] /\ failures' = [s \in Services |-> FALSE]
  /\ attempts' = Hydrated
  /\ corrupted' = damaged
  /\ forgotten' = forgotten \cup {s \in Services : stored[s] < attempts[s]}
  /\ blocked' = FALSE /\ load' = "NORMAL"
  /\ queue' = [b \in {"critical", "warning", "info"} |-> <<>>]
  /\ cooling' = {} /\ lastEvent' = [s \in Services |-> None]
  /\ missed' = [s \in Services |-> {}] /\ waits' = [s \in Services |-> 0]
  /\ UNCHANGED <<world, stored, damaged, tries, news>>

-----------------------------------------------------------------------------
Init ==
  /\ answers = [s \in Services |-> Depth(s)] /\ open = TRUE /\ unsafe = FALSE /\ usage = "low"
  /\ at = 1 /\ state = [s \in Services |-> "STARTING"] /\ failures = [s \in Services |-> FALSE]
  /\ attempts = [s \in Services |-> 0] /\ stored = [s \in Services |-> 0]
  /\ damaged = FALSE /\ corrupted = FALSE /\ blocked = FALSE /\ load = "NORMAL"
  /\ queue = [b \in {"critical", "warning", "info"} |-> <<>>]
  /\ cooling = {} /\ lastEvent = [s \in Services |-> None] /\ events = [happened |-> 0, restarts |-> 0]
  /\ tries = [s \in Services |-> 0] /\ forgotten = {}
  /\ news = [s \in Services |-> None] /\ missed = [s \in Services |-> {}] /\ waits = [s \in Services |-> 0]

Loop  == (\E s \in Services : CheckOne(s)) \/ CheckSafetyGates \/ CheckResources
Work  == \E b \in {"critical", "warning", "info"} : Worker(b)
Happens ==
  \/ \E s \in Services : Changes(s) \/ AttemptAges(s)
  \/ SessionBell \/ GateFlips \/ UsageMoves \/ CooldownEnds \/ FileDamaged \/ Restart

Next == Loop \/ Work \/ Happens

Spec == Init /\ [][Next]_vars

-----------------------------------------------------------------------------
(* Properties.                                                             *)

\* Every state component keeps its type; the queue never outgrows its bound.
TypeOK ==
  /\ \A s \in Services : answers[s] \in 0 .. Depth(s) /\ state[s] \in States
  /\ failures \in [Services -> BOOLEAN] /\ waits \in [Services -> 0 .. Patience]
  /\ {attempts, stored, tries} \subseteq [Services -> Nat]
  /\ at \in 1 .. Len(Monitored) + 2
  /\ {open, unsafe, damaged, corrupted, blocked} \subseteq BOOLEAN
  /\ usage \in Levels /\ load \in {"NORMAL", "WARNING", "CRITICAL"}
  /\ \A b \in DOMAIN queue : \A m \in ToSet(queue[b]) : m.service \in Services /\ Bucket(m.event) = b
  /\ Total <= Capacity
  /\ cooling \subseteq Services \X Events /\ lastEvent \in [Services -> Events \cup {None}]
  /\ news \in [Services -> Events \cup {None}] /\ forgotten \subseteq Services
  /\ missed \in [Services -> SUBSET {"repeated", "crowded", "overtaking", "unsent"}]

\* The attempts made on a service within the window, over all restarts of the
\* daemon, exceed the budget by at most the one that RECOVERING -> VERIFYING
\* records without asking, unless a restart forgot an attempt whose save had
\* failed (daemon.py:_is_recovery_budget_exhausted, recovery_store.py).
BudgetHolds == \A s \in Services \ forgotten : tries[s] <= Budget + 1

\* Once a service is past FAILED and nothing about it waits in the queue, the
\* last thing the operator read about it is an alarm, or one of four things
\* happened in this outage: the alarm repeated an event inside its cooldown
\* after a recovery cleared the last event, the queue was full, Telegram gave
\* up, or the alarm overtook an older, better message (notifier.py:enqueue,
\* should_send, _worker).
AlarmIsKnown ==
  \A s \in Services :
    state[s] \in Down \ {"FAILED"} /\ Queued(s) = {} /\ missed[s] = {} => news[s] \in Alarms

\* A service that keeps answering well is shown HEALTHY by the third poll, and
\* one that keeps refusing connections while it should run is handed to the
\* operator after MostPolls polls: no cycle of RECOVERING and VERIFYING goes on
\* without escalating (state_machine.py, daemon.py:_check_one).
Settles ==
  \A s \in Services :
    waits[s] <= CASE Health(s) = "HEALTHY" -> 2 [] Health(s) = "FAILED" -> MostPolls [] OTHER -> 0
=============================================================================
