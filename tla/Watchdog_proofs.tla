--------------------------- MODULE Watchdog_proofs ---------------------------
(***************************************************************************)
(* Proofs about the watchdog: the recovery budget over restarts and        *)
(* damaged files, the polls a service needs to come to rest, and what the  *)
(* operator has read about a service that is down, for every list of       *)
(* services, budget, queue capacity and number of faults.                  *)
(***************************************************************************)
EXTENDS Watchdog, TLAPS

Healths == {"FAILED", "DEGRADED", "HEALTHY"}

DaemonTyped ==
  /\ answers \in [Services -> 0 .. 3] /\ \A s \in Services : answers[s] <= Depth(s)
  /\ open \in BOOLEAN /\ damaged \in BOOLEAN /\ corrupted \in BOOLEAN /\ blocked \in BOOLEAN
  /\ state \in [Services -> States] /\ failures \in [Services -> BOOLEAN]
  /\ attempts \in [Services -> Nat] /\ stored \in [Services -> Nat] /\ tries \in [Services -> Nat]
  /\ waits \in [Services -> 0 .. Patience]

LEMMA ServiceFacts == Services \subseteq AllServices /\ "gateway" \in Services
BY ConstantsAssumption DEF Services, ToSet

LEMMA HealthKinds ==
  ASSUME DaemonTyped, NEW s \in Services
  PROVE  Health(s) \in Healths /\ Tolerated(s) \in Healths
BY ServiceFacts DEF DaemonTyped, AllServices, Health, Tolerated, Healths, Depth, GatewayHealth,
   BackendHealth, WebhookHealth, DemoHealth, PostgresHealth, RedisHealth

LEMMA OutcomeKinds ==
  ASSUME DaemonTyped, NEW s \in Services, NEW h \in Healths
  PROVE  Outcome(s, h).next \in States
BY DEF DaemonTyped, Outcome, NextState, Healths, States

LEMMA OutcomeRecords ==
  ASSUME DaemonTyped, NEW s \in Services, NEW h \in Healths, Outcome(s, h).records
  PROVE  \/ state[s] = "FAILED" /\ ~Exhausted(s) /\ Outcome(s, h).next = "RECOVERING"
         \/ state[s] = "RECOVERING" /\ Outcome(s, h).next = "VERIFYING"
BY DEF DaemonTyped, Outcome, NextState, Healths, States

LEMMA OutcomeRecovering ==
  ASSUME DaemonTyped, NEW s \in Services, NEW h \in Healths, Outcome(s, h).next = "RECOVERING"
  PROVE  /\ ~Exhausted(s) /\ state[s] \in {"FAILED", "VERIFYING"}
         /\ state[s] = "FAILED" <=> Outcome(s, h).records
BY ZenonT(60) DEF DaemonTyped, Outcome, NextState, Healths, States
(* What a poll does: the state it moves to, the attempt it may record, and *)
(* the polls it counts.                                                    *)
Polled(s, h, saved) ==
  /\ state' = [state EXCEPT ![s] = Outcome(s, h).next]
  /\ failures' \in [Services -> BOOLEAN]
  /\ \/ Outcome(s, h).records /\ Recorded(s, saved)
     \/ ~Outcome(s, h).records /\ UNCHANGED <<attempts, stored, damaged, tries>>
  /\ corrupted' \in BOOLEAN /\ (corrupted => corrupted')
  /\ \/ waits' = [waits EXCEPT ![s] = 0]
     \/ /\ h = Tolerated(s) /\ ~AtRest(s, Outcome(s, h).next)
        /\ waits' = [waits EXCEPT ![s] = IF @ < Patience THEN @ + 1 ELSE @]
  /\ UNCHANGED <<answers, open, forgotten, blocked>>

LEMMA PollEffect ==
  ASSUME DaemonTyped, NEW s \in Services, CheckOne(s)
  PROVE  \E h \in Healths, saved \in BOOLEAN : Polled(s, h, saved)
<1>1. PICK flaky \in BOOLEAN, saved \in BOOLEAN :
        LET health == IF flaky THEN "FAILED" ELSE Tolerated(s)
            out    == Outcome(s, health)
        IN /\ failures' = [failures EXCEPT ![s] = health # "HEALTHY"]
           /\ waits' = [waits EXCEPT ![s] = IF flaky \/ AtRest(s, out.next) THEN 0
                                           ELSE IF @ < Patience THEN @ + 1 ELSE @]
           /\ state' = [state EXCEPT ![s] = out.next]
           /\ IF out.records THEN Recorded(s, saved) ELSE UNCHANGED <<attempts, stored, damaged, tries>>
           /\ corrupted' = (corrupted \/ (out.asks /\ attempts[s] < Budget /\ damaged))
  BY DEF CheckOne
<1>2. PICK h \in Healths : h = IF flaky THEN "FAILED" ELSE Tolerated(s)
  BY HealthKinds DEF Healths
<1>3. /\ state' = [state EXCEPT ![s] = Outcome(s, h).next]
      /\ failures' = [failures EXCEPT ![s] = h # "HEALTHY"]
      /\ waits' = [waits EXCEPT ![s] = IF flaky \/ AtRest(s, Outcome(s, h).next) THEN 0
                                       ELSE IF @ < Patience THEN @ + 1 ELSE @]
      /\ IF Outcome(s, h).records THEN Recorded(s, saved) ELSE UNCHANGED <<attempts, stored, damaged, tries>>
      /\ corrupted' = (corrupted \/ (Outcome(s, h).asks /\ attempts[s] < Budget /\ damaged))
  BY <1>1, <1>2
<1>4. failures' \in [Services -> BOOLEAN]
  BY <1>3 DEF DaemonTyped
<1>5. corrupted' \in BOOLEAN /\ (corrupted => corrupted')
  BY <1>3, Zenon DEF DaemonTyped
<1>6. \/ waits' = [waits EXCEPT ![s] = 0]
      \/ /\ h = Tolerated(s) /\ ~AtRest(s, Outcome(s, h).next)
         /\ waits' = [waits EXCEPT ![s] = IF @ < Patience THEN @ + 1 ELSE @]
  BY <1>2, <1>3
<1>7. UNCHANGED <<answers, open, forgotten, blocked>>
  BY DEF CheckOne, world
<1>8. Polled(s, h, saved)
  BY <1>3, <1>4, <1>5, <1>6, <1>7 DEF Polled
<1> QED BY <1>8

LEMMA DaemonInit == Init => DaemonTyped
<1> SUFFICES ASSUME Init PROVE DaemonTyped
  OBVIOUS
<1>1. answers \in [Services -> 0 .. 3] /\ \A s \in Services : answers[s] <= Depth(s)
  BY DEF Init, Depth
<1>2. open \in BOOLEAN /\ damaged \in BOOLEAN /\ corrupted \in BOOLEAN /\ blocked \in BOOLEAN
  BY DEF Init
<1>3. state \in [Services -> States] /\ failures \in [Services -> BOOLEAN]
  BY DEF Init, States
<1>4. /\ attempts \in [Services -> Nat] /\ stored \in [Services -> Nat] /\ tries \in [Services -> Nat]
      /\ waits \in [Services -> 0 .. Patience]
  BY ConstantsAssumption DEF Init, Patience, MostPolls
<1> QED BY <1>1, <1>2, <1>3, <1>4 DEF DaemonTyped

LEMMA PollTyped ==
  ASSUME DaemonTyped, NEW s \in Services, NEW h \in Healths, NEW saved \in BOOLEAN, Polled(s, h, saved)
  PROVE  DaemonTyped'
<1>1. state' \in [Services -> States]
  BY OutcomeKinds DEF Polled, DaemonTyped
<1>2. waits' \in [Services -> 0 .. Patience]
  BY ConstantsAssumption, SMTT(30) DEF Polled, DaemonTyped, Patience, MostPolls
<1>3. attempts' \in [Services -> Nat] /\ stored' \in [Services -> Nat] /\ tries' \in [Services -> Nat]
  BY DEF Polled, DaemonTyped, Recorded
<1>4. damaged' \in BOOLEAN
  BY Zenon DEF Polled, DaemonTyped, Recorded
<1>5. corrupted' \in BOOLEAN /\ failures' \in [Services -> BOOLEAN] /\ UNCHANGED <<answers, open, blocked>>
  BY DEF Polled
<1> QED BY <1>1, <1>2, <1>3, <1>4, <1>5 DEF DaemonTyped
LEMMA AgesTyped ==
  ASSUME DaemonTyped, NEW s \in Services, AttemptAges(s)
  PROVE  /\ attempts' = [attempts EXCEPT ![s] = IF @ > 0 THEN @ - 1 ELSE 0]
         /\ stored' = [stored EXCEPT ![s] = IF @ > 0 THEN @ - 1 ELSE 0]
         /\ tries' = [tries EXCEPT ![s] = IF @ > 0 THEN @ - 1 ELSE 0]
         /\ waits' = [waits EXCEPT ![s] = 0] /\ DaemonTyped'
         /\ UNCHANGED <<answers, open, state, failures, damaged, corrupted, forgotten, blocked>>
<1>1. /\ attempts' = [attempts EXCEPT ![s] = IF @ > 0 THEN @ - 1 ELSE 0]
      /\ stored' = [stored EXCEPT ![s] = IF @ > 0 THEN @ - 1 ELSE 0]
      /\ tries' = [tries EXCEPT ![s] = IF @ > 0 THEN @ - 1 ELSE 0]
      /\ waits' = [waits EXCEPT ![s] = 0]
      /\ UNCHANGED <<answers, open, state, failures, damaged, corrupted, forgotten, blocked>>
  BY DEF AttemptAges, world
<1>2. attempts' \in [Services -> Nat] /\ stored' \in [Services -> Nat] /\ tries' \in [Services -> Nat]
  BY <1>1 DEF DaemonTyped
<1>3. waits' \in [Services -> 0 .. Patience]
  BY <1>1, ConstantsAssumption DEF DaemonTyped, Patience, MostPolls
<1> QED BY <1>1, <1>2, <1>3 DEF DaemonTyped

LEMMA ChangesTyped ==
  ASSUME DaemonTyped, NEW s \in Services, Changes(s)
  PROVE  /\ \E d : answers' = [answers EXCEPT ![s] = d]
         /\ waits' = [waits EXCEPT ![s] = 0] /\ DaemonTyped'
         /\ UNCHANGED <<attempts, stored, tries, open, state, failures, damaged, corrupted, forgotten, blocked>>
<1>1. /\ \E d \in 0 .. Depth(s) : answers' = [answers EXCEPT ![s] = d]
      /\ waits' = [waits EXCEPT ![s] = 0]
      /\ UNCHANGED <<attempts, stored, tries, open, state, failures, damaged, corrupted, forgotten, blocked>>
  BY DEF Changes, budget
<1>2. answers' \in [Services -> 0 .. 3] /\ \A x \in Services : answers'[x] <= Depth(x)
  BY <1>1 DEF DaemonTyped, Depth
<1>3. waits' \in [Services -> 0 .. Patience]
  BY <1>1, ConstantsAssumption DEF DaemonTyped, Patience, MostPolls
<1> QED BY <1>1, <1>2, <1>3 DEF DaemonTyped

LEMMA RestartTyped ==
  ASSUME DaemonTyped, Restart
  PROVE  /\ state' = [s \in Services |-> "STARTING"] /\ waits' = [s \in Services |-> 0]
         /\ corrupted' = damaged /\ attempts' = IF damaged THEN [s \in Services |-> 0] ELSE stored
         /\ forgotten' = forgotten \cup {s \in Services : stored[s] < attempts[s]}
         /\ UNCHANGED <<answers, open, stored, damaged, tries>> /\ DaemonTyped'
<1>1. /\ state' = [s \in Services |-> "STARTING"] /\ waits' = [s \in Services |-> 0]
      /\ corrupted' = damaged /\ attempts' = IF damaged THEN [s \in Services |-> 0] ELSE stored
      /\ forgotten' = forgotten \cup {s \in Services : stored[s] < attempts[s]}
      /\ failures' = [s \in Services |-> FALSE] /\ blocked' = FALSE
      /\ UNCHANGED <<answers, open, stored, damaged, tries>>
  BY DEF Restart, Hydrated, world
<1>2. attempts' \in [Services -> Nat] /\ state' \in [Services -> States] /\ failures' \in [Services -> BOOLEAN]
  BY <1>1 DEF DaemonTyped, States
<1>3. waits' \in [Services -> 0 .. Patience]
  BY <1>1, ConstantsAssumption DEF Patience, MostPolls
<1> QED BY <1>1, <1>2, <1>3 DEF DaemonTyped

LEMMA BellTyped ==
  ASSUME DaemonTyped, SessionBell
  PROVE  /\ waits' = [s \in Services |-> 0] /\ DaemonTyped'
         /\ UNCHANGED <<answers, attempts, stored, tries, state, failures, damaged, corrupted, forgotten, blocked>>
<1>1. /\ waits' = [s \in Services |-> 0] /\ open' = ~open
      /\ UNCHANGED <<answers, attempts, stored, tries, state, failures, damaged, corrupted, forgotten, blocked>>
  BY DEF SessionBell, budget
<1>2. waits' \in [Services -> 0 .. Patience]
  BY <1>1, ConstantsAssumption DEF Patience, MostPolls
<1>3. open' \in BOOLEAN
  BY <1>1
<1> QED BY <1>1, <1>2, <1>3 DEF DaemonTyped

(* The steps that are neither a poll nor a change of what polls go by.     *)
Aside == /\ UNCHANGED <<answers, open, attempts, stored, tries, state, failures, waits, forgotten, corrupted>>
         /\ damaged' = damaged \/ (~damaged /\ damaged' = TRUE)
         /\ blocked' \in BOOLEAN

LEMMA StepKinds ==
  ASSUME DaemonTyped, [Next]_vars
  PROVE  \/ \E s \in Services : CheckOne(s) \/ AttemptAges(s) \/ Changes(s)
         \/ Restart \/ SessionBell \/ Aside
<1>1. CASE CheckSafetyGates
  <2>1. /\ UNCHANGED <<answers, open, attempts, stored, tries, state, failures, waits, forgotten, corrupted, damaged>>
        /\ blocked' = IF open THEN ~GatesPass ELSE blocked
    BY <1>1 DEF CheckSafetyGates, world, budget
  <2>2. blocked' \in BOOLEAN
    BY <2>1 DEF DaemonTyped
  <2> QED BY <2>1, <2>2 DEF Aside
<1>2. CASE CheckResources \/ GateFlips \/ UsageMoves \/ CooldownEnds \/ FileDamaged \/ UNCHANGED vars
  BY <1>2 DEF CheckResources, GateFlips, UsageMoves, CooldownEnds, FileDamaged, vars, world, budget,
     Aside, DaemonTyped
<1>3. ASSUME NEW b \in {"critical", "warning", "info"}, Worker(b) PROVE Aside
  BY <1>3 DEF Worker, world, budget, Aside, DaemonTyped
<1> QED BY <1>1, <1>2, <1>3 DEF Next, Loop, Work, Happens

LEMMA DaemonStep ==
  ASSUME DaemonTyped, [Next]_vars
  PROVE  DaemonTyped'
<1>1. CASE Aside
  BY <1>1 DEF Aside, DaemonTyped
<1> QED BY <1>1, StepKinds, PollEffect, PollTyped, AgesTyped, ChangesTyped, RestartTyped, BellTyped

-----------------------------------------------------------------------------
(* The budget.                                                             *)

(* A file that could not be read makes the daemon recover nothing more.    *)
Silenced == corrupted /\ damaged /\ \A s \in Services : state[s] # "RECOVERING"

BudgetInv ==
  \A s \in Services \ forgotten :
    /\ tries[s] <= Budget + 1 /\ (state[s] = "RECOVERING" => tries[s] <= Budget)
    /\ tries[s] <= attempts[s] \/ Silenced

LEMMA BudgetPoll ==
  ASSUME DaemonTyped, BudgetInv, NEW s \in Services, NEW h \in Healths, NEW saved \in BOOLEAN,
         Polled(s, h, saved)
  PROVE  BudgetInv'
<1>1. Silenced => Silenced' /\ ~Outcome(s, h).records
  <2> SUFFICES ASSUME Silenced PROVE Silenced' /\ ~Outcome(s, h).records
    OBVIOUS
  <2>1. Exhausted(s) /\ state[s] # "RECOVERING"
    BY DEF Silenced, Exhausted
  <2>2. ~Outcome(s, h).records
    BY <2>1, OutcomeRecords
  <2>3. Outcome(s, h).next # "RECOVERING"
    BY <2>1, OutcomeRecovering
  <2> QED BY <2>2, <2>3 DEF Polled, Silenced, DaemonTyped
<1> SUFFICES ASSUME NEW x \in Services \ forgotten
             PROVE  /\ tries'[x] <= Budget + 1 /\ (state'[x] = "RECOVERING" => tries'[x] <= Budget)
                    /\ tries'[x] <= attempts'[x] \/ Silenced'
  BY DEF Polled, BudgetInv
<1>2. CASE x # s
  <2>1. tries'[x] = tries[x] /\ attempts'[x] = attempts[x] /\ state'[x] = state[x]
    BY <1>2 DEF Polled, Recorded, DaemonTyped
  <2> QED BY <1>1, <2>1 DEF BudgetInv
<1>3. CASE x = s
  <2>1. /\ tries[x] \in Nat /\ attempts[x] \in Nat /\ Budget \in Nat /\ state'[x] = Outcome(s, h).next
        /\ tries[x] <= Budget + 1 /\ (state[x] = "RECOVERING" => tries[x] <= Budget)
        /\ tries[x] <= attempts[x] \/ Silenced
    BY <1>3, ConstantsAssumption DEF DaemonTyped, BudgetInv, Polled
  <2>2. ~Exhausted(s) => attempts[x] < Budget /\ ~Silenced
    BY <1>3, <2>1, ConstantsAssumption DEF Exhausted, Silenced
  <2>3. CASE Outcome(s, h).records
    <3>1. tries'[x] = tries[x] + 1 /\ attempts'[x] = attempts[x] + 1
      BY <1>3, <2>3 DEF Polled, Recorded, DaemonTyped
    <3> QED BY <1>1, <2>1, <2>2, <2>3, <3>1, OutcomeRecords, <1>3
  <2>4. CASE ~Outcome(s, h).records
    <3>1. tries'[x] = tries[x] /\ attempts'[x] = attempts[x]
      BY <2>4 DEF Polled
    <3> QED BY <1>1, <2>1, <2>2, <3>1, OutcomeRecovering, <1>3
  <2> QED BY <2>3, <2>4
<1> QED BY <1>2, <1>3

LEMMA BudgetStep ==
  ASSUME DaemonTyped, BudgetInv, [Next]_vars
  PROVE  BudgetInv'
<1>1. CASE Aside
  BY <1>1 DEF Aside, BudgetInv, Silenced
<1>2. ASSUME NEW s \in Services, Changes(s) PROVE BudgetInv'
  BY <1>2, ChangesTyped DEF BudgetInv, Silenced
<1>3. CASE SessionBell
  BY <1>3, BellTyped DEF BudgetInv, Silenced
<1>4. ASSUME NEW s \in Services, AttemptAges(s) PROVE BudgetInv'
  <2>1. (Silenced => Silenced') /\ UNCHANGED <<state, forgotten>>
    BY <1>4, AgesTyped DEF Silenced
  <2>2. \A x \in Services : /\ tries'[x] <= tries[x]
                            /\ tries[x] <= attempts[x] => tries'[x] <= attempts'[x]
    BY <1>4, AgesTyped DEF DaemonTyped
  <2>3. DaemonTyped'
    BY <1>4, AgesTyped
  <2>4. \A x \in Services : tries[x] \in Nat /\ tries'[x] \in Nat /\ Budget \in Nat
    BY <2>3, ConstantsAssumption DEF DaemonTyped
  <2> QED BY <2>1, <2>2, <2>4 DEF BudgetInv
<1>5. CASE Restart
  <2> SUFFICES ASSUME NEW x \in Services \ forgotten'
               PROVE  /\ tries'[x] <= Budget + 1 /\ (state'[x] = "RECOVERING" => tries'[x] <= Budget)
                      /\ tries'[x] <= attempts'[x] \/ Silenced'
    BY DEF BudgetInv
  <2>1. x \in Services \ forgotten /\ ~(stored[x] < attempts[x])
    BY <1>5, RestartTyped
  <2>2. state'[x] = "STARTING" /\ tries'[x] = tries[x]
    BY <1>5, RestartTyped
  <2>3. CASE damaged
    BY <1>5, <2>1, <2>2, <2>3, RestartTyped DEF BudgetInv, Silenced
  <2>4. CASE ~damaged
    <3>1. tries[x] <= attempts[x] /\ attempts'[x] = stored[x]
      BY <1>5, <2>1, <2>4, RestartTyped DEF BudgetInv, Silenced
    <3> QED BY <2>1, <2>2, <3>1 DEF BudgetInv, DaemonTyped
  <2> QED BY <2>3, <2>4
<1> QED BY <1>1, <1>2, <1>3, <1>4, <1>5, StepKinds, PollEffect, BudgetPoll

(* The attempts made on a service within the window exceed the budget by   *)
(* at most the one that is recorded without asking, whatever restarts,     *)
(* damaged files and failed saves came, unless a restart forgot one.       *)
THEOREM BudgetKept == Spec => []BudgetHolds
<1>1. Init => BudgetInv
  BY ConstantsAssumption DEF Init, BudgetInv
<1>2. BudgetInv => BudgetHolds
  BY DEF BudgetInv, BudgetHolds
<1> QED BY <1>1, <1>2, DaemonInit, DaemonStep, BudgetStep, PTL DEF Spec
-----------------------------------------------------------------------------
(* Coming to rest.                                                         *)

LEMMA OutcomeHealthy ==
  ASSUME DaemonTyped, NEW s \in Services
  PROVE  /\ state[s] \in {"RECOVERED", "TRADING_BLOCKED"} => Outcome(s, "HEALTHY").next = "HEALTHY"
         /\ state[s] = "VERIFYING" => Outcome(s, "HEALTHY").next \in {"RECOVERED", "TRADING_BLOCKED"}
         /\ Outcome(s, "HEALTHY").next \in {"HEALTHY", "RECOVERED", "VERIFYING", "TRADING_BLOCKED"}
<1> USE DEF DaemonTyped, Outcome, NextState, None
<1>1. CASE state[s] = "VERIFYING"
  BY <1>1
<1>2. CASE state[s] = "RECOVERING"
  BY <1>2
<1>3. CASE state[s] = "FAILED"
  BY <1>3
<1>4. CASE state[s] \in {"STARTING", "HEALTHY", "DEGRADED", "RECOVERED"}
  BY <1>4
<1>5. CASE state[s] \in {"MANUAL_INTERVENTION_REQUIRED", "TRADING_BLOCKED", "MARKET_CLOSED"}
  BY <1>5
<1> QED BY <1>1, <1>2, <1>3, <1>4, <1>5 DEF States

LEMMA OutcomeFailed ==
  ASSUME DaemonTyped, NEW s \in Services, ~IsMarketClosedFor(s)
  PROVE  \/ Outcome(s, "FAILED").next \in {"MANUAL_INTERVENTION_REQUIRED", "TRADING_BLOCKED"}
         \/ state[s] \notin {"FAILED", "RECOVERING", "VERIFYING"} /\ Outcome(s, "FAILED").next = "FAILED"
         \/ state[s] = "FAILED" /\ Outcome(s, "FAILED").next = "RECOVERING" /\ Outcome(s, "FAILED").records
         \/ state[s] = "RECOVERING" /\ Outcome(s, "FAILED").next = "VERIFYING" /\ Outcome(s, "FAILED").records
         \/ state[s] = "VERIFYING" /\ Outcome(s, "FAILED").next = "RECOVERING" /\ ~Outcome(s, "FAILED").records
<1> USE DEF DaemonTyped, Outcome, NextState, None
<1>1. CASE state[s] = "VERIFYING"
  <2>1. CASE blocked
    BY <1>1, <2>1
  <2>2. CASE ~blocked
    BY <1>1, <2>2
  <2> QED BY <2>1, <2>2
<1>2. CASE state[s] = "RECOVERING"
  BY <1>2
<1>3. CASE state[s] = "FAILED"
  BY <1>3
<1>4. CASE state[s] \in {"STARTING", "HEALTHY", "DEGRADED", "RECOVERED"}
  BY <1>4
<1>5. CASE state[s] \in {"MANUAL_INTERVENTION_REQUIRED", "TRADING_BLOCKED", "MARKET_CLOSED"}
  BY <1>5
<1> QED BY <1>1, <1>2, <1>3, <1>4, <1>5 DEF States

(* How far a service that is up, or down, can be from rest in each state.  *)
UpSoon(s) ==
  /\ waits[s] <= 2
  /\ waits[s] >= 1 => state[s] \in {"RECOVERED", "VERIFYING", "TRADING_BLOCKED"}
  /\ waits[s] = 2 => state[s] # "VERIFYING"

DownSoon(s) ==
  waits[s] >= 1 =>
    /\ ~IsMarketClosedFor(s)
    /\ \/ state[s] = "FAILED" /\ waits[s] <= 1
       \/ /\ state[s] = "RECOVERING" /\ waits[s] <= 2 * attempts[s] + 1
          /\ waits[s] <= 2 \/ waits[s] <= 2 * Budget - 1
       \/ state[s] = "VERIFYING" /\ waits[s] <= 2 * attempts[s] /\ waits[s] <= MostPolls

RestInv ==
  \A s \in Services : CASE Health(s) = "HEALTHY" -> UpSoon(s)
                        [] Health(s) = "FAILED"  -> DownSoon(s)
                        [] OTHER                 -> waits[s] = 0

LEMMA RestPoll ==
  ASSUME DaemonTyped, RestInv, NEW s \in Services, NEW h \in Healths, NEW saved \in BOOLEAN,
         Polled(s, h, saved)
  PROVE  RestInv'
<1>1. \A x \in Services : Health(x)' = Health(x) /\ (IsMarketClosedFor(x)' <=> IsMarketClosedFor(x))
  BY DEF Polled, Health, IsMarketClosedFor
<1>2. ASSUME NEW x \in Services, x # s
      PROVE  waits'[x] = waits[x] /\ state'[x] = state[x] /\ attempts'[x] = attempts[x]
  BY <1>2 DEF Polled, Recorded, DaemonTyped
<1>3. \A x \in Services : x # s => (UpSoon(x) => UpSoon(x)') /\ (DownSoon(x) => DownSoon(x)')
  BY <1>1, <1>2 DEF UpSoon, DownSoon
<1>4. CASE waits'[s] = 0
  <2>1. UpSoon(s)' /\ DownSoon(s)'
    BY <1>4 DEF UpSoon, DownSoon
  <2> QED BY <1>1, <1>2, <1>3, <1>4, <2>1 DEF RestInv
<1>5. CASE waits'[s] # 0
  <2>1. /\ h = Tolerated(s) /\ ~AtRest(s, Outcome(s, h).next)
        /\ waits'[s] = IF waits[s] < Patience THEN waits[s] + 1 ELSE waits[s]
        /\ state'[s] = Outcome(s, h).next /\ waits[s] \in Nat
    BY <1>5 DEF Polled, DaemonTyped
  <2>2. waits'[s] \in Nat /\ waits'[s] <= waits[s] + 1 /\ waits'[s] >= 1
    BY <1>5, <2>1, ConstantsAssumption DEF Patience, MostPolls
  <2>3. CASE Health(s) = "HEALTHY"
    <3>1. h = "HEALTHY"
      BY <2>1, <2>3, ServiceFacts DEF Tolerated, Health, DaemonTyped, AllServices, Depth, BackendHealth
    <3>2. state'[s] # "HEALTHY"
      BY <2>1, <2>3 DEF AtRest
    <3>3. UpSoon(s)
      BY <2>3 DEF RestInv
    <3>4. UpSoon(s)'
      BY <2>1, <2>2, <3>1, <3>2, <3>3, OutcomeHealthy DEF UpSoon
    <3> QED BY <1>1, <1>2, <1>3, <2>3, <3>4 DEF RestInv
  <2>4. CASE Health(s) = "FAILED"
    <3>1. h = "FAILED"
      BY <2>1, <2>4, ServiceFacts DEF Tolerated, Health, DaemonTyped, AllServices, Depth, BackendHealth
    <3>2. /\ ~IsMarketClosedFor(s)
          /\ ~(IsMarketClosedFor(s)')
          /\ state'[s] \notin {"MANUAL_INTERVENTION_REQUIRED", "TRADING_BLOCKED"}
      BY <1>1, <2>1, <2>4 DEF AtRest
    <3>3. DownSoon(s)
      BY <2>4 DEF RestInv
    <3>4. attempts[s] \in Nat /\ Budget \in Nat /\ Budget >= 1 /\ attempts'[s] \in Nat
      BY ConstantsAssumption DEF DaemonTyped, Polled, Recorded
    <3>5. Outcome(s, "FAILED").records => attempts'[s] = attempts[s] + 1
      BY <3>1 DEF Polled, Recorded, DaemonTyped
    <3>6. ~Outcome(s, "FAILED").records => attempts'[s] = attempts[s]
      BY <3>1 DEF Polled
    <3>7. ASSUME state[s] \notin {"FAILED", "RECOVERING", "VERIFYING"} /\ state'[s] = "FAILED"
           PROVE  DownSoon(s)'
      BY <2>1, <2>2, <3>2, <3>3, <3>7 DEF DownSoon
    <3>8. ASSUME state[s] = "FAILED" /\ state'[s] = "RECOVERING" /\ Outcome(s, "FAILED").records
           PROVE  DownSoon(s)'
      BY <2>1, <2>2, <3>2, <3>3, <3>4, <3>5, <3>8 DEF DownSoon
    <3>9. ASSUME state[s] = "RECOVERING" /\ state'[s] = "VERIFYING" /\ Outcome(s, "FAILED").records
           PROVE  DownSoon(s)'
      BY <2>1, <2>2, <3>2, <3>3, <3>4, <3>5, <3>9 DEF DownSoon, MostPolls
    <3>10. ASSUME state[s] = "VERIFYING" /\ state'[s] = "RECOVERING" /\ ~Outcome(s, "FAILED").records
           PROVE  DownSoon(s)'
      <4>1. attempts[s] < Budget
        BY <2>1, <3>1, <3>4, <3>10, OutcomeRecovering DEF Exhausted
      <4> QED BY <2>1, <2>2, <3>2, <3>3, <3>4, <3>6, <3>10, <4>1 DEF DownSoon
    <3>11. DownSoon(s)'
      BY <2>1, <3>1, <3>2, <3>7, <3>8, <3>9, <3>10, OutcomeFailed
    <3> QED BY <1>1, <1>2, <1>3, <2>4, <3>11 DEF RestInv
  <2>5. CASE Health(s) = "DEGRADED"
    BY <2>1, <2>5 DEF AtRest
  <2> QED BY <2>3, <2>4, <2>5, HealthKinds DEF Healths
<1> QED BY <1>4, <1>5

LEMMA RestStep ==
  ASSUME DaemonTyped, RestInv, [Next]_vars
  PROVE  RestInv'
<1>1. CASE Aside
  BY <1>1 DEF Aside, RestInv, UpSoon, DownSoon, Health, IsMarketClosedFor
<1>2. ASSUME NEW s \in Services, UNCHANGED <<state, open>>, waits' = [waits EXCEPT ![s] = 0],
             \A x \in Services : x # s => answers'[x] = answers[x] /\ attempts'[x] = attempts[x]
      PROVE  RestInv'
  <2>1. waits'[s] = 0
    BY <1>2 DEF DaemonTyped
  <2>2. UpSoon(s)' /\ DownSoon(s)'
    BY <2>1 DEF UpSoon, DownSoon
  <2>3. \A x \in Services : x # s => /\ Health(x)' = Health(x) /\ waits'[x] = waits[x]
                                     /\ UpSoon(x) => UpSoon(x)'
                                     /\ DownSoon(x) => DownSoon(x)'
    BY <1>2 DEF UpSoon, DownSoon, Health, IsMarketClosedFor, DaemonTyped
  <2> QED BY <2>1, <2>2, <2>3 DEF RestInv
<1>3. ASSUME NEW s \in Services, Changes(s) PROVE RestInv'
  BY <1>2, <1>3, ChangesTyped DEF DaemonTyped
<1>4. ASSUME NEW s \in Services, AttemptAges(s) PROVE RestInv'
  BY <1>2, <1>4, AgesTyped DEF DaemonTyped
<1>5. CASE Restart \/ SessionBell
  <2>1. \A s \in Services : waits'[s] = 0
    BY <1>5, RestartTyped, BellTyped
  <2> QED BY <2>1 DEF RestInv, UpSoon, DownSoon
<1> QED BY <1>1, <1>3, <1>4, <1>5, StepKinds, PollEffect, RestPoll

(* A service that answers well is HEALTHY by the third poll, and one that  *)
(* refuses connections while it should run is handed to the operator after *)
(* at most twice the budget of polls (three for a budget of one): recovery *)
(* never goes round in circles, whatever the file and the saves do.        *)
THEOREM SettlesInTime == Spec => []Settles
<1>1. Init => RestInv
  BY DEF Init, RestInv, UpSoon, DownSoon
<1>2. DaemonTyped /\ RestInv => Settles
  <2> SUFFICES ASSUME DaemonTyped, RestInv, NEW s \in Services
               PROVE  waits[s] <= CASE Health(s) = "HEALTHY" -> 2 [] Health(s) = "FAILED" -> MostPolls
                                    [] OTHER -> 0
    BY DEF Settles
  <2>1. CASE Health(s) = "FAILED"
    <3>1. DownSoon(s) /\ waits[s] \in Nat /\ Budget \in Nat /\ Budget >= 1
      BY <2>1, ConstantsAssumption DEF RestInv, DaemonTyped
    <3>2. waits[s] <= MostPolls
      BY <3>1 DEF DownSoon, MostPolls
    <3> QED BY <2>1, <3>2
  <2>2. CASE Health(s) = "HEALTHY"
    BY <2>2 DEF RestInv, UpSoon
  <2>3. CASE Health(s) = "DEGRADED"
    BY <2>3 DEF RestInv
  <2> QED BY <2>1, <2>2, <2>3, HealthKinds DEF Healths
<1> QED BY <1>1, <1>2, DaemonInit, DaemonStep, RestStep, PTL DEF Spec
-----------------------------------------------------------------------------
(* What the operator has read.                                             *)

Buckets  == {"critical", "warning", "info"}
Subjects == {"service", "gate", "resource"}
Messages == [service : Services, event : Events, about : Subjects]
Reasons  == {"repeated", "crowded", "overtaking", "unsent"}

NotifierTyped ==
  /\ queue \in [Buckets -> Seq(Messages)] /\ missed \in [Services -> SUBSET Reasons]
  /\ news \in [Services -> Events \cup {None}]

Held(q) == ToSet(q.critical) \cup ToSet(q.warning) \cup ToSet(q.info)

(* A service that is past FAILED and of which no alarm went missing has    *)
(* nothing but alarms in the queue, and an alarm there or with the         *)
(* operator.                                                               *)
AlarmInv ==
  \A s \in Services :
    state[s] \in Down \ {"FAILED"} /\ missed[s] = {} =>
      /\ \A m \in Queued(s) : IsAlarm(m)
      /\ Queued(s) = {} => news[s] \in Alarms

LEMMA SeqFacts ==
  ASSUME NEW M, NEW q \in Seq(M), NEW m \in M
  PROVE  /\ Append(q, m) \in Seq(M) /\ ToSet(Append(q, m)) = ToSet(q) \cup {m} /\ ToSet(q) \subseteq M
         /\ Len(q) > 0 => /\ Tail(q) \in Seq(M) /\ ToSet(Tail(q)) \subseteq ToSet(q) /\ q # <<>>
                          /\ ToSet(q) \subseteq ToSet(Tail(q)) \cup {Head(q)} /\ Head(q) \in ToSet(q)
<1>1. Append(q, m) \in Seq(M) /\ ToSet(q) \subseteq M
  BY DEF ToSet
<1>2. ToSet(Append(q, m)) = ToSet(q) \cup {m}
  <2>1. /\ DOMAIN Append(q, m) = 1 .. Len(q) + 1 /\ DOMAIN q = 1 .. Len(q) /\ Len(q) \in Nat
        /\ \A i \in 1 .. Len(q) : Append(q, m)[i] = q[i]
        /\ Append(q, m)[Len(q) + 1] = m
    OBVIOUS
  <2> QED BY <2>1 DEF ToSet
<1>3. ASSUME Len(q) > 0
      PROVE  /\ Tail(q) \in Seq(M) /\ ToSet(Tail(q)) \subseteq ToSet(q) /\ q # <<>>
             /\ ToSet(q) \subseteq ToSet(Tail(q)) \cup {Head(q)} /\ Head(q) \in ToSet(q)
  <2>1. /\ Tail(q) \in Seq(M) /\ q # <<>> /\ DOMAIN q = 1 .. Len(q) /\ Len(q) \in Nat
        /\ DOMAIN Tail(q) = 1 .. Len(q) - 1 /\ Head(q) = q[1]
        /\ \A i \in 1 .. Len(q) - 1 : Tail(q)[i] = q[i + 1]
    BY <1>3
  <2>2. ToSet(Tail(q)) \subseteq ToSet(q) /\ Head(q) \in ToSet(q)
    BY <1>3, <2>1 DEF ToSet
  <2>3. ToSet(q) \subseteq ToSet(Tail(q)) \cup {Head(q)}
    <3> SUFFICES ASSUME NEW i \in 1 .. Len(q), i # 1 PROVE q[i] \in ToSet(Tail(q))
      BY <2>1 DEF ToSet
    <3>1. i - 1 \in DOMAIN Tail(q) /\ Tail(q)[i - 1] = q[i]
      BY <2>1
    <3> QED BY <3>1 DEF ToSet
  <2> QED BY <2>1, <2>2, <2>3
<1> QED BY <1>1, <1>2, <1>3

LEMMA BucketKinds == \A e \in Events : Bucket(e) \in Buckets
BY DEF Events, CriticalEvents, WarningEvents, InfoEvents, Bucket, Buckets

(* Adding to one bucket, and taking the oldest out of one.                 *)
LEMMA Added ==
  ASSUME NEW q \in [Buckets -> Seq(Messages)], NEW b \in Buckets, NEW m \in Messages
  PROVE  LET r == [q EXCEPT ![b] = Append(@, m)] IN
         r \in [Buckets -> Seq(Messages)] /\ Held(r) = Held(q) \cup {m}
<1>1. \A c \in Buckets : /\ Append(q[c], m) \in Seq(Messages)
                         /\ ToSet(Append(q[c], m)) = ToSet(q[c]) \cup {m}
  BY SeqFacts
<1> QED BY <1>1 DEF Buckets, Held

LEMMA Removed ==
  ASSUME NEW q \in [Buckets -> Seq(Messages)], NEW b \in Buckets, Len(q[b]) > 0
  PROVE  LET r == [q EXCEPT ![b] = Tail(@)] IN
         /\ r \in [Buckets -> Seq(Messages)] /\ Held(r) \subseteq Held(q)
         /\ Held(q) \subseteq Held(r) \cup {Head(q[b])}
         /\ Head(q[b]) \in Messages
<1>1. PICK x \in Messages : x = Head(q[b])
  OBVIOUS
<1>2. /\ Tail(q[b]) \in Seq(Messages) /\ ToSet(Tail(q[b])) \subseteq ToSet(q[b])
      /\ ToSet(q[b]) \subseteq ToSet(Tail(q[b])) \cup {Head(q[b])}
  BY SeqFacts, <1>1
<1> QED BY <1>1, <1>2 DEF Buckets, Held
(* A full queue has a bucket to evict from, unless the message is dropped. *)
LEMMA VictimKinds ==
  ASSUME NotifierTyped, NEW b \in Buckets
  PROVE  /\ Evicts(b) \in Buckets \cup {None}
         /\ Full /\ Evicts(b) # None => Len(queue[Evicts(b)]) > 0
<1>1. /\ Len(queue.critical) \in Nat /\ Len(queue.warning) \in Nat /\ Len(queue.info) \in Nat
      /\ Capacity \in Nat /\ Capacity >= 1
  BY ConstantsAssumption DEF NotifierTyped, Buckets
<1>2. Evicts(b) \in Buckets \cup {None}
  BY DEF Evicts, Buckets
<1>3. Full => Len(queue.critical) > 0 \/ Len(queue.warning) > 0 \/ Len(queue.info) > 0
  <2>1. PICK c \in Nat, w \in Nat, i \in Nat, n \in Nat :
          c = Len(queue.critical) /\ w = Len(queue.warning) /\ i = Len(queue.info) /\ n = Capacity
    BY <1>1
  <2>2. c + w + i >= n /\ n >= 1 => c > 0 \/ w > 0 \/ i > 0
    OBVIOUS
  <2> QED BY <1>1, <2>1, <2>2 DEF Full, Total
<1>4. Full /\ Evicts(b) # None => Len(queue[Evicts(b)]) > 0
  BY <1>1, <1>3 DEF Evicts, Buckets, None
<1> QED BY <1>2, <1>4

(* What an attempt to enqueue does to the messages that wait, and which    *)
(* alarms it counts as lost.                                               *)
Admitted(m, a) ==
  /\ a.queue \in [Buckets -> Seq(Messages)]
  /\ Held(a.queue) \subseteq Held(queue) \cup {m}
  /\ \A x \in Held(queue) : IsAlarm(x) /\ x \notin Held(a.queue) => <<x.service, "crowded">> \in a.lost
  /\ IsAlarm(m) => \/ \E why \in {"repeated", "crowded", "overtaking"} : <<m.service, why>> \in a.lost
                   \/ m \in Held(a.queue) /\ \A x \in Queued(m.service) : IsAlarm(x)

LEMMA AdmissionFacts ==
  ASSUME NotifierTyped, NEW m \in Messages, NEW force \in BOOLEAN
  PROVE  Admitted(m, Admission(m, force))
<1> DEFINE b == Bucket(m.event)
           v == Evicts(b)
           a == Admission(m, force)
           turned == ~force /\ ~ShouldSend(m.service, m.event)
<1>1. b \in Buckets /\ queue \in [Buckets -> Seq(Messages)]
  BY BucketKinds DEF Messages, NotifierTyped
<1>2. v \in Buckets \cup {None} /\ (Full /\ v # None => Len(queue[v]) > 0)
  BY <1>1, VictimKinds
<1>3. CASE turned
  <2>1. a = [in |-> FALSE, queue |-> queue,
             lost |-> IF IsAlarm(m) THEN {<<m.service, "repeated">>} ELSE {}]
    BY <1>3 DEF Admission
  <2> HIDE DEF a, b, v
  <2>2. a.queue = queue /\ (IsAlarm(m) => <<m.service, "repeated">> \in a.lost)
    BY <2>1
  <2> QED BY <1>1, <2>2 DEF Admitted, a
<1>4. CASE ~turned /\ Full /\ v = None
  <2>1. a = [in |-> FALSE, queue |-> queue,
             lost |-> IF IsAlarm(m) THEN {<<m.service, "crowded">>} ELSE {}]
    BY <1>4 DEF Admission
  <2> HIDE DEF a, b, v
  <2>2. a.queue = queue /\ (IsAlarm(m) => <<m.service, "crowded">> \in a.lost)
    BY <2>1
  <2> QED BY <1>1, <2>2 DEF Admitted, a
<1>5. CASE ~turned /\ ~(Full /\ v = None)
  <2> DEFINE freed == IF v \in {"info", "warning", "critical"} /\ Full THEN [queue EXCEPT ![v] = Tail(@)]
                      ELSE queue
             late == IF \E x \in Queued(m.service) : ~IsAlarm(x)
                     THEN IF IsAlarm(m) THEN {<<m.service, "overtaking">>} ELSE {} ELSE {}
             out == IF Full THEN IF IsAlarm(Head(queue[v])) THEN {<<Head(queue[v]).service, "crowded">>} ELSE {}
                    ELSE {}
  <2>1. a = [in |-> TRUE, queue |-> [freed EXCEPT ![b] = Append(@, m)], lost |-> out \cup late]
    BY <1>5 DEF Admission
  <2> HIDE DEF a
  <2>2. a.queue = [freed EXCEPT ![b] = Append(@, m)] /\ out \subseteq a.lost /\ late \subseteq a.lost
    BY <2>1
  <2>3. /\ freed \in [Buckets -> Seq(Messages)] /\ Held(freed) \subseteq Held(queue)
        /\ \A x \in Held(queue) : IsAlarm(x) /\ x \notin Held(freed) => <<x.service, "crowded">> \in out
    <3>1. CASE Full
      <4>1. v \in Buckets /\ Len(queue[v]) > 0
        BY <1>2, <1>5, <3>1
      <4>2. freed = [queue EXCEPT ![v] = Tail(@)]
        BY <3>1, <4>1 DEF Buckets
      <4>3. /\ freed \in [Buckets -> Seq(Messages)] /\ Held(freed) \subseteq Held(queue)
            /\ Held(queue) \subseteq Held(freed) \cup {Head(queue[v])}
        BY <1>1, <4>1, <4>2, Removed
      <4> HIDE DEF freed, v
      <4> QED BY <3>1, <4>3
    <3>2. CASE ~Full
      BY <1>1, <3>2
    <3> QED BY <3>1, <3>2
  <2> HIDE DEF freed, out
  <2>4. a.queue \in [Buckets -> Seq(Messages)] /\ Held(a.queue) = Held(freed) \cup {m}
    <3> HIDE DEF b
    <3>1. PICK f \in [Buckets -> Seq(Messages)], c \in Buckets : f = freed /\ c = b
      BY <1>1, <2>3
    <3>2. a.queue = [f EXCEPT ![c] = Append(@, m)]
      BY <2>2, <3>1
    <3>3. /\ [f EXCEPT ![c] = Append(@, m)] \in [Buckets -> Seq(Messages)]
          /\ Held([f EXCEPT ![c] = Append(@, m)]) = Held(f) \cup {m}
      BY Added
    <3> QED BY <3>1, <3>2, <3>3
  <2>5. IsAlarm(m) => \/ <<m.service, "overtaking">> \in a.lost
                      \/ \A x \in Queued(m.service) : IsAlarm(x)
    BY <2>2
  <2> HIDE DEF late
  <2>6. Admitted(m, a)
    BY <2>2, <2>3, <2>4, <2>5 DEF Admitted
  <2> QED BY <2>6 DEF a
<1> QED BY <1>3, <1>4, <1>5

(* What a notification does, as a service x of which no alarm is missing   *)
(* afterwards sees it.                                                     *)
LEMMA Notified ==
  ASSUME NotifierTyped, NEW s \in Services, NEW e \in Events \cup {None}, NEW clears \in BOOLEAN,
         NEW up \in BOOLEAN, NEW force \in BOOLEAN, NEW about \in Subjects,
         Notify(s, e, clears, up, force, about)
  PROVE  /\ NotifierTyped' /\ news' = news
         /\ \A x \in Services : missed'[x] = {} =>
              /\ x # s \/ ~up => missed[x] = {}
              /\ Queued(x)' \subseteq Queued(x)
                   \cup (IF e # None /\ about = "service" /\ x = s THEN {Message(s, e, about)} ELSE {})
              /\ \A y \in Queued(x) : IsAlarm(y) => y \in Queued(x)'
              /\ e \in Alarms /\ about = "service" /\ x = s =>
                   Queued(x)' # {} /\ \A y \in Queued(x)' : IsAlarm(y)
<1> DEFINE m == Message(s, e, about)
           a == IF e = None THEN [in |-> FALSE, queue |-> queue, lost |-> {}] ELSE Admission(m, force)
           old == IF up THEN [missed EXCEPT ![s] = {}] ELSE missed
<1>1. /\ queue' = a.queue /\ news' = news
      /\ missed' = [x \in Services |->
                      old[x] \cup {why \in {"repeated", "crowded", "overtaking"} : <<x, why>> \in a.lost}]
  BY DEF Notify
<1>2. \A x \in Services : old[x] \subseteq Reasons /\ (x # s \/ ~up => old[x] = missed[x])
  BY DEF NotifierTyped
<1>3. \A x : Queued(x) = {y \in Held(queue) : y.service = x /\ y.about = "service"}
  BY DEF Queued, Held
<1>4. \A x : Queued(x)' = {y \in Held(queue)' : y.service = x /\ y.about = "service"}
  BY DEF Queued, Held
<1>5. Alarms \subseteq Events /\ None \notin Events
  BY DEF Alarms, Events, CriticalEvents, WarningEvents, InfoEvents, None
<1> HIDE DEF old
<1>6. /\ missed' \in [Services -> SUBSET Reasons]
      /\ \A x \in Services : missed'[x] = {} =>
           /\ x # s \/ ~up => missed[x] = {}
           /\ \A why \in {"repeated", "crowded", "overtaking"} : <<x, why>> \notin a.lost
  <2> HIDE DEF a
  <2> QED BY <1>1, <1>2 DEF Reasons
<1>7. CASE e = None
  <2>1. a.queue = queue
    BY <1>7
  <2> HIDE DEF a
  <2>2. queue' = queue /\ Held(queue)' = Held(queue)
    BY <1>1, <2>1 DEF Held
  <2> QED BY <1>1, <1>3, <1>4, <1>5, <1>6, <1>7, <2>2 DEF NotifierTyped
<1>8. CASE e # None
  <2>1. m \in Messages /\ m.service = s /\ m.event = e /\ m.about = about
    BY <1>8 DEF Message, Messages
  <2>2. a = Admission(m, force)
    BY <1>8
  <2> HIDE DEF m, a
  <2>3. Admitted(m, a)
    BY <2>1, <2>2, AdmissionFacts
  <2>4. queue' \in [Buckets -> Seq(Messages)] /\ Held(queue)' = Held(a.queue)
    BY <1>1, <2>3 DEF Admitted, Held
  <2>5. NotifierTyped'
    BY <1>1, <1>6, <2>4 DEF NotifierTyped
  <2>6. ASSUME NEW x \in Services, missed'[x] = {}
        PROVE  /\ Queued(x)' \subseteq Queued(x) \cup (IF about = "service" /\ x = s THEN {m} ELSE {})
               /\ \A y \in Queued(x) : IsAlarm(y) => y \in Queued(x)'
               /\ e \in Alarms /\ about = "service" /\ x = s =>
                    Queued(x)' # {} /\ \A y \in Queued(x)' : IsAlarm(y)
    <3>1. \A why \in {"repeated", "crowded", "overtaking"} : <<x, why>> \notin a.lost
      BY <1>6, <2>6
    <3>2. Queued(x)' \subseteq Queued(x) \cup (IF about = "service" /\ x = s THEN {m} ELSE {})
      BY <1>3, <1>4, <2>1, <2>3, <2>4 DEF Admitted
    <3>3. \A y \in Queued(x) : IsAlarm(y) => y \in Queued(x)'
      BY <1>3, <1>4, <2>3, <2>4, <3>1 DEF Admitted
    <3>4. ASSUME e \in Alarms, about = "service", x = s
          PROVE  Queued(x)' # {} /\ \A y \in Queued(x)' : IsAlarm(y)
      <4>1. IsAlarm(m)
        BY <2>1, <3>4 DEF IsAlarm
      <4>2. m \in Held(a.queue) /\ \A y \in Queued(s) : IsAlarm(y)
        BY <2>1, <2>3, <3>1, <3>4, <4>1 DEF Admitted
      <4>3. m \in Queued(x)'
        BY <1>4, <2>1, <2>4, <3>4, <4>2
      <4> QED BY <3>2, <3>4, <4>1, <4>2, <4>3
    <3> QED BY <3>2, <3>3, <3>4
  <2> QED BY <1>1, <1>6, <1>8, <2>5, <2>6 DEF m
<1> QED BY <1>7, <1>8
LEMMA EventKinds ==
  ASSUME NEW p \in States, NEW n \in States
  PROVE  EventFor(p, n) \in Events \cup {None}
BY DEF EventFor, Events, CriticalEvents, WarningEvents, InfoEvents

(* A service that goes on past FAILED is announced, but between RECOVERING *)
(* and VERIFYING.                                                          *)
LEMMA Announced ==
  ASSUME DaemonTyped, NEW s \in Services, NEW h \in Healths, Outcome(s, h).next # state[s],
         Outcome(s, h).next \in Down \ {"FAILED"}
  PROVE  \/ EventFor(state[s], Outcome(s, h).next) \in Alarms
         \/ /\ state[s] \in Down \ {"FAILED"} /\ EventFor(state[s], Outcome(s, h).next) = None
<1>1. \/ Outcome(s, h).next = "RECOVERING" /\ state[s] \in {"FAILED", "VERIFYING"}
      \/ Outcome(s, h).next = "VERIFYING" /\ state[s] = "RECOVERING"
      \/ Outcome(s, h).next = "MANUAL_INTERVENTION_REQUIRED" /\ state[s] \in {"FAILED", "VERIFYING"}
      \/ Outcome(s, h).next = "TRADING_BLOCKED"
  BY ZenonT(60) DEF DaemonTyped, Outcome, NextState, Healths, States, Down
<1> QED BY <1>1 DEF EventFor, Alarms, CriticalEvents, Down

(* What holds of a service whose state stays past FAILED while nothing is  *)
(* said of it.                                                             *)
LEMMA AlarmsStay ==
  ASSUME AlarmInv, NEW x \in Services, state[x] \in Down \ {"FAILED"}, missed[x] = {}, news' = news,
         Queued(x)' \subseteq Queued(x), \A y \in Queued(x) : IsAlarm(y) => y \in Queued(x)'
  PROVE  /\ \A y \in Queued(x)' : IsAlarm(y)
         /\ Queued(x)' = {} => news'[x] \in Alarms
BY DEF AlarmInv

LEMMA AlarmPoll ==
  ASSUME DaemonTyped, NotifierTyped, AlarmInv, NEW s \in Services, CheckOne(s)
  PROVE  NotifierTyped' /\ AlarmInv'
<1>1. PICK flaky \in BOOLEAN :
        LET health == IF flaky THEN "FAILED" ELSE Tolerated(s)
            out    == Outcome(s, health)
            moved  == out.next # state[s]
        IN /\ state' = [state EXCEPT ![s] = out.next]
           /\ Notify(s, IF moved THEN EventFor(state[s], out.next) ELSE None,
                     moved /\ out.next \in {"HEALTHY", "RECOVERED"},
                     state[s] \notin Down \/ out.next \notin Down, FALSE, "service")
  BY DEF CheckOne
<1>2. PICK h \in Healths : h = IF flaky THEN "FAILED" ELSE Tolerated(s)
  BY HealthKinds DEF Healths
<1>3. PICK n \in States : n = Outcome(s, h).next
  BY OutcomeKinds
<1>4. PICK e \in Events \cup {None} : e = IF n # state[s] THEN EventFor(state[s], n) ELSE None
  BY EventKinds DEF DaemonTyped
<1>5. PICK clears \in BOOLEAN, up \in BOOLEAN :
        /\ clears = (n # state[s] /\ n \in {"HEALTHY", "RECOVERED"})
        /\ up = (state[s] \notin Down \/ n \notin Down)
  OBVIOUS
<1>6. state' = [state EXCEPT ![s] = n] /\ Notify(s, e, clears, up, FALSE, "service")
  BY <1>1, <1>2, <1>3, <1>4, <1>5
<1>7. /\ NotifierTyped' /\ news' = news
      /\ \A x \in Services : missed'[x] = {} =>
           /\ x # s \/ ~up => missed[x] = {}
           /\ Queued(x)' \subseteq Queued(x) \cup (IF e # None /\ x = s THEN {Message(s, e, "service")} ELSE {})
           /\ \A y \in Queued(x) : IsAlarm(y) => y \in Queued(x)'
           /\ e \in Alarms /\ x = s => Queued(x)' # {} /\ \A y \in Queued(x)' : IsAlarm(y)
  <2>1. PICK about \in Subjects, force \in BOOLEAN : about = "service" /\ force = FALSE
    BY DEF Subjects
  <2>2. Notify(s, e, clears, up, force, about)
    BY <1>6, <2>1
  <2>3. /\ NotifierTyped' /\ news' = news
        /\ \A x \in Services : missed'[x] = {} =>
             /\ x # s \/ ~up => missed[x] = {}
             /\ Queued(x)' \subseteq Queued(x)
                  \cup (IF e # None /\ about = "service" /\ x = s THEN {Message(s, e, about)} ELSE {})
             /\ \A y \in Queued(x) : IsAlarm(y) => y \in Queued(x)'
             /\ e \in Alarms /\ about = "service" /\ x = s =>
                  Queued(x)' # {} /\ \A y \in Queued(x)' : IsAlarm(y)
    BY <2>2, Notified
  <2> QED BY <2>1, <2>3
<1> SUFFICES ASSUME NEW x \in Services, state'[x] \in Down \ {"FAILED"}, missed'[x] = {}
             PROVE  /\ \A y \in Queued(x)' : IsAlarm(y)
                    /\ Queued(x)' = {} => news'[x] \in Alarms
  BY <1>7, Zenon DEF AlarmInv, IsAlarm
<1>8. CASE x # s
  <2>1. state'[x] = state[x] /\ missed[x] = {} /\ Queued(x)' \subseteq Queued(x)
    BY <1>6, <1>7, <1>8 DEF DaemonTyped
  <2> QED BY <1>7, <2>1, AlarmsStay
<1>9. CASE x = s
  <2>1. n \in Down \ {"FAILED"}
    BY <1>6, <1>9 DEF DaemonTyped
  <2>2. CASE e \in Alarms
    BY <1>7, <1>9, <2>2
  <2>3. CASE e \notin Alarms
    <3>1. state[s] \in Down \ {"FAILED"} /\ e = None
      BY <1>3, <1>4, <2>1, <2>3, Announced
    <3>2. ~up
      BY <1>5, <2>1, <3>1
    <3>3. missed[x] = {} /\ Queued(x)' \subseteq Queued(x)
      BY <1>7, <1>9, <3>1, <3>2
    <3> QED BY <1>7, <1>9, <3>1, <3>3, AlarmsStay
  <2> QED BY <2>2, <2>3
<1> QED BY <1>8, <1>9

(* The gates and the resources tell nothing of a service, but their        *)
(* messages may crowd out one of a service.                                *)
LEMMA AlarmOthers ==
  ASSUME NotifierTyped, AlarmInv, state' = state, NEW e \in Events \cup {None}, NEW about \in {"gate", "resource"},
         Notify("gateway", e, FALSE, FALSE, TRUE, about)
  PROVE  NotifierTyped' /\ AlarmInv'
<1>1. /\ NotifierTyped' /\ news' = news
      /\ \A x \in Services : missed'[x] = {} =>
           /\ missed[x] = {} /\ Queued(x)' \subseteq Queued(x)
           /\ \A y \in Queued(x) : IsAlarm(y) => y \in Queued(x)'
  <2>1. PICK s \in Services : s = "gateway"
    BY ServiceFacts
  <2>2. about \in Subjects /\ about # "service" /\ Notify(s, e, FALSE, FALSE, TRUE, about)
    BY <2>1 DEF Subjects
  <2>3. /\ NotifierTyped' /\ news' = news
        /\ \A x \in Services : missed'[x] = {} =>
             /\ x # s \/ ~FALSE => missed[x] = {}
             /\ Queued(x)' \subseteq Queued(x)
                  \cup (IF e # None /\ about = "service" /\ x = s THEN {Message(s, e, about)} ELSE {})
             /\ \A y \in Queued(x) : IsAlarm(y) => y \in Queued(x)'
    BY <2>2, Notified
  <2> QED BY <2>2, <2>3
<1>2. ASSUME NEW x \in Services, state'[x] \in Down \ {"FAILED"}, missed'[x] = {}
      PROVE  /\ \A y \in Queued(x)' : IsAlarm(y)
             /\ Queued(x)' = {} => news'[x] \in Alarms
  BY <1>1, <1>2, AlarmsStay
<1>3. AlarmInv'
  BY <1>2, Zenon DEF AlarmInv, IsAlarm
<1> QED BY <1>1, <1>3

LEMMA HeadHeld ==
  ASSUME NEW q \in [Buckets -> Seq(Messages)], NEW b \in Buckets, Len(q[b]) > 0
  PROVE  Head(q[b]) \in Held(q)
<1>1. PICK x \in Messages : x = Head(q[b])
  OBVIOUS
<1>2. Head(q[b]) \in ToSet(q[b])
  BY SeqFacts, <1>1
<1> QED BY <1>2 DEF Held, Buckets

LEMMA AlarmWorker ==
  ASSUME DaemonTyped, NotifierTyped, AlarmInv, NEW b \in Buckets, Worker(b)
  PROVE  NotifierTyped' /\ AlarmInv'
<1>1. /\ queue[b] # <<>> /\ queue' = [queue EXCEPT ![b] = Tail(@)] /\ state' = state
      /\ SendMessage(Head(queue[b]))
  BY DEF Worker
<1>2. Len(queue[b]) > 0 /\ queue \in [Buckets -> Seq(Messages)]
  BY <1>1 DEF NotifierTyped
<1>3. /\ queue' \in [Buckets -> Seq(Messages)] /\ Held(queue') \subseteq Held(queue)
      /\ Held(queue) \subseteq Held(queue') \cup {Head(queue[b])} /\ Head(queue[b]) \in Messages
  <2>1. PICK q \in [Buckets -> Seq(Messages)] : q = queue
    BY <1>2
  <2>2. /\ [q EXCEPT ![b] = Tail(@)] \in [Buckets -> Seq(Messages)]
        /\ Held([q EXCEPT ![b] = Tail(@)]) \subseteq Held(q)
        /\ Held(q) \subseteq Held([q EXCEPT ![b] = Tail(@)]) \cup {Head(q[b])} /\ Head(q[b]) \in Messages
    BY <1>2, <2>1, Removed
  <2> QED BY <1>1, <2>1, <2>2
<1>4. PICK m \in Messages : m = Head(queue[b])
  BY <1>3
<1>5. \/ news' = (IF m.about = "service" THEN [news EXCEPT ![m.service] = m.event] ELSE news) /\ missed' = missed
      \/ missed' = (IF IsAlarm(m) THEN [missed EXCEPT ![m.service] = @ \cup {"unsent"}] ELSE missed) /\ news' = news
  BY <1>1, <1>4 DEF SendMessage
<1>6. m.service \in Services /\ m.event \in Events
  BY DEF Messages
<1>7. missed' \in [Services -> SUBSET Reasons] /\ news' \in [Services -> Events \cup {None}]
  BY <1>5, <1>6 DEF NotifierTyped, Reasons
<1>8. \A x : /\ Queued(x) = {y \in Held(queue) : y.service = x /\ y.about = "service"}
             /\ Queued(x)' = {y \in Held(queue') : y.service = x /\ y.about = "service"}
  BY DEF Queued, Held
<1>9. ASSUME NEW x \in Services, state[x] \in Down \ {"FAILED"}, missed'[x] = {}
      PROVE  /\ \A y \in Queued(x)' : IsAlarm(y)
             /\ Queued(x)' = {} => news'[x] \in Alarms
  <2>1. missed[x] = {} /\ (IsAlarm(m) /\ m.service = x => missed' = missed)
    BY <1>5, <1>6, <1>9 DEF NotifierTyped
  <2>2. (\A y \in Queued(x) : IsAlarm(y)) /\ (Queued(x) = {} => news[x] \in Alarms)
    BY <1>9, <2>1 DEF AlarmInv
  <2>3. Queued(x)' \subseteq Queued(x) /\ Queued(x) \subseteq Queued(x)' \cup {m}
    BY <1>3, <1>4, <1>8
  <2>4. CASE m \in Queued(x)
    <3>1. IsAlarm(m) /\ m.service = x /\ m.about = "service"
      BY <1>8, <2>2, <2>4
    <3>2. missed' = missed /\ missed'[x] # missed[x] \cup {"unsent"}
      BY <1>9, <2>1, <3>1
    <3>3. m.event \in Alarms
      BY <3>1 DEF IsAlarm
    <3>4. news'[x] = m.event
      BY <1>5, <1>6, <3>1, <3>2 DEF NotifierTyped
    <3> QED BY <2>2, <2>3, <3>3, <3>4
  <2>5. CASE m \notin Queued(x)
    <3>1. Queued(x)' = Queued(x)
      BY <2>3, <2>5
    <3>2. news'[x] = news[x] \/ (m.about = "service" /\ m.service = x)
      BY <1>5, <1>6 DEF NotifierTyped
    <3>3. ~(m.about = "service" /\ m.service = x)
      <4>1. m \in Held(queue)
        <5>1. PICK q \in [Buckets -> Seq(Messages)] : q = queue
          BY <1>2
        <5> QED BY <1>2, <1>4, <5>1, HeadHeld
      <4> QED BY <1>8, <2>5, <4>1
    <3> QED BY <2>2, <3>1, <3>2, <3>3
  <2> QED BY <2>4, <2>5
<1>10. NotifierTyped'
  BY <1>3, <1>7 DEF NotifierTyped
<1>11. AlarmInv'
  BY <1>1, <1>9, Zenon DEF AlarmInv, IsAlarm
<1> QED BY <1>10, <1>11

LEMMA AlarmStep ==
  ASSUME DaemonTyped, NotifierTyped, AlarmInv, [Next]_vars
  PROVE  NotifierTyped' /\ AlarmInv'
<1>1. CASE CheckSafetyGates
  <2>1. PICK e \in Events \cup {None} : Notify("gateway", e, FALSE, FALSE, TRUE, "gate")
    <3>1. "TRADING_BLOCKED" \in Events /\ "RECOVERED" \in Events
      BY DEF Events, CriticalEvents, InfoEvents
    <3> QED BY <1>1, <3>1 DEF CheckSafetyGates
  <2>2. state' = state
    BY <1>1 DEF CheckSafetyGates
  <2> QED BY <2>1, <2>2, AlarmOthers
<1>2. CASE CheckResources
  <2>1. PICK e \in Events \cup {None} : Notify("gateway", e, FALSE, FALSE, TRUE, "resource")
    <3>1. "FAILURE" \in Events /\ "UNHEALTHY" \in Events /\ "RECOVERED" \in Events
      BY DEF Events, CriticalEvents, WarningEvents, InfoEvents
    <3>2. load' \in {"CRITICAL", "WARNING", "NORMAL"} \/ load' = load
      BY <1>2 DEF CheckResources, EvaluateState
    <3> QED BY <1>2, <3>1, <3>2 DEF CheckResources
  <2>2. state' = state
    BY <1>2 DEF CheckResources
  <2> QED BY <2>1, <2>2, AlarmOthers
<1>3. CASE UNCHANGED <<state, queue, missed, news>>
  BY <1>3 DEF NotifierTyped, AlarmInv, Queued
<1>4. CASE Restart
  <2>1. /\ state' = [s \in Services |-> "STARTING"] /\ queue' = [b \in Buckets |-> <<>>]
        /\ missed' = [s \in Services |-> {}] /\ news' = news
    BY <1>4 DEF Restart, Buckets
  <2>2. NotifierTyped'
    BY <2>1 DEF NotifierTyped
  <2>3. AlarmInv'
    BY <2>1 DEF AlarmInv, Down
  <2> QED BY <2>2, <2>3
<1>5. CASE UNCHANGED vars \/ SessionBell \/ GateFlips \/ UsageMoves \/ CooldownEnds \/ FileDamaged
           \/ \E s \in Services : Changes(s) \/ AttemptAges(s)
  BY <1>3, <1>5 DEF vars, SessionBell, GateFlips, UsageMoves, CooldownEnds, FileDamaged, Changes,
     AttemptAges, notifier
<1> QED BY <1>1, <1>2, <1>4, <1>5, AlarmPoll, AlarmWorker DEF Next, Loop, Work, Happens, Buckets

(* The operator's last news of a service past FAILED is an alarm once its  *)
(* messages are out, but for the four known ways to miss one, whatever     *)
(* the queue's capacity and whatever else competes for it.                 *)
THEOREM AlarmReaches == Spec => []AlarmIsKnown
<1>1. Init => NotifierTyped /\ AlarmInv
  <2> SUFFICES ASSUME Init PROVE NotifierTyped /\ AlarmInv
    OBVIOUS
  <2>1. NotifierTyped
    BY DEF Init, NotifierTyped, Buckets
  <2>2. AlarmInv
    BY DEF Init, AlarmInv, Down
  <2> QED BY <2>1, <2>2
<1>2. AlarmInv => AlarmIsKnown
  BY DEF AlarmInv, AlarmIsKnown
<1> QED BY <1>1, <1>2, DaemonInit, DaemonStep, AlarmStep, PTL DEF Spec
=============================================================================
