-------------------------- MODULE KillSwitch_proofs --------------------------
(***************************************************************************)
(* Proofs about the kill switch: what blocks OPENs, what may close a       *)
(* position past zero, and what a COMPLETE operation left behind, for any  *)
(* set of trades, operations and producers and every bound.                *)
(***************************************************************************)
EXTENDS KillSwitch, FiniteSetTheorems, TLAPS

----------------------------------------------------------------------------
(* The gate.                                                               *)

GateTyped ==
  /\ op \in [Ops -> OpState] /\ request \in [Scopes -> RequestPc]
  /\ worker \in [Ops -> WorkerPc] /\ verdict \in [Ops \cup {Idle} -> Verdict]
  /\ todo \subseteq Ops /\ sweep \in Ops \cup {Idle}

Requests == {s \in Scopes : request[s] # "none"}

(* Every request under way has an operation left to become.                *)
RoomForRequests == Cardinality(Requests) <= Cardinality(FreeOps)

(* Only an operation that was written is worked on or judged.              *)
FreeIsUntouched ==
  \A i \in Ops : op[i] = "none" => worker[i] = "none" /\ i \notin todo /\ sweep # i

VerdictsReached ==
  /\ \A i \in Ops : worker[i] = "finalize" => verdict[i] # "none"
  /\ sweep # Idle => verdict[Idle] # "none"

(* A request that is not overtaken by a clear has the cache armed.         *)
RequestIsCached ==
  up => \A s \in Scopes : request[s] = "armed" => cache \/ s \in overlap

(* What is armed while a clear is about to drop the cache is raced.        *)
ClearIsRaced ==
  up /\ clearing => \A i \in Ops : Armed(i) => i \in raced \/ unhydrated

GateDown == ~up => ~clearing /\ \A s \in Scopes : request[s] = "none"

GateInv == /\ GateTyped /\ RoomForRequests /\ FreeIsUntouched /\ VerdictsReached
           /\ RequestIsCached /\ ClearIsRaced /\ GateDown /\ ArmedIsCached

LEMMA GateInit == Init => GateInv
<1> SUFFICES ASSUME Init PROVE GateInv
  OBVIOUS
<1> USE KillSwitchAssumption
<1>1. GateTyped
  BY DEF Init, GateTyped, None, OpState, RequestPc, WorkerPc, Verdict
<1>2. Requests = {}
  BY DEF Init, Requests, None
<1>3. IsFiniteSet(FreeOps)
  BY FS_Subset DEF FreeOps
<1>4. RoomForRequests
  BY <1>2, <1>3, FS_EmptySet, FS_CardinalityType DEF RoomForRequests
<1>5. FreeIsUntouched /\ VerdictsReached
  BY DEF Init, FreeIsUntouched, VerdictsReached, None
<1>6. RequestIsCached /\ ClearIsRaced /\ GateDown /\ ArmedIsCached
  BY DEF Init, RequestIsCached, ClearIsRaced, GateDown, ArmedIsCached, Armed, None
<1> QED BY <1>1, <1>4, <1>5, <1>6 DEF GateInv

LEMMA FewRequests == IsFiniteSet(Requests) /\ IsFiniteSet(FreeOps)
<1>1. IsFiniteSet({} \cup {"engine"})
  BY FS_EmptySet, FS_AddElement
<1>2. IsFiniteSet(({} \cup {"engine"}) \cup {"account"})
  BY <1>1, FS_AddElement
<1>3. Requests \subseteq ({} \cup {"engine"}) \cup {"account"}
  BY KillSwitchAssumption DEF Requests
<1> QED BY <1>2, <1>3, KillSwitchAssumption, FS_Subset DEF FreeOps

LEMMA RoomAfterRequest ==
  ASSUME GateInv, NEW s \in Scopes, Requests' = Requests \ {s}, FreeOps' = FreeOps
  PROVE  RoomForRequests'
<1>1. IsFiniteSet(Requests) /\ IsFiniteSet(FreeOps)
  BY FewRequests
<1>2. PICK R : R = Requests
  OBVIOUS
<1>3. Cardinality(R \ {s}) <= Cardinality(R) /\ Cardinality(R \ {s}) \in Nat /\ Cardinality(R) \in Nat
  <2>1. R \ {s} \subseteq R /\ IsFiniteSet(R)
    BY <1>1, <1>2
  <2> QED BY <2>1, FS_Subset, FS_CardinalityType
<1>4. Cardinality(FreeOps) \in Nat
  BY <1>1, FS_CardinalityType
<1> QED BY <1>2, <1>3, <1>4 DEF RoomForRequests, GateInv

(* What the gate is made of; every other step leaves it alone.             *)
gate == <<op, request, worker, verdict, todo, sweep, up, cache, overlap, raced, unhydrated, clearing>>

LEMMA GateStutter ==
  ASSUME GateInv, UNCHANGED gate
  PROVE  GateInv'
<1> USE DEF gate
<1>1. RoomForRequests'
  <2>1. Requests' = Requests /\ FreeOps' = FreeOps
    BY DEF Requests, FreeOps
  <2> QED BY <2>1 DEF RoomForRequests, GateInv
<1>2. GateTyped' /\ FreeIsUntouched' /\ VerdictsReached' /\ GateDown'
  BY DEF GateInv, GateTyped, FreeIsUntouched, VerdictsReached, GateDown
<1>3. RequestIsCached' /\ ClearIsRaced' /\ ArmedIsCached'
  BY DEF GateInv, RequestIsCached, ClearIsRaced, ArmedIsCached, Armed
<1> QED BY <1>1, <1>2, <1>3 DEF GateInv

(* A step of a worker, a retry or a sweep: an operation that was written   *)
(* stays so, and none is armed that was not.                               *)
LEMMA GateWork ==
  ASSUME GateInv, UNCHANGED <<request, up, cache, overlap, raced, unhydrated, clearing>>,
         GateTyped', FreeIsUntouched', VerdictsReached',
         \A i \in Ops : /\ op'[i] = "none" <=> op[i] = "none"
                        /\ op[i] = "CLEARED" => op'[i] = "CLEARED"
  PROVE  GateInv'
<1>1. Requests' = Requests /\ FreeOps' = FreeOps
  BY DEF Requests, FreeOps
<1>2. RoomForRequests'
  BY <1>1 DEF RoomForRequests, GateInv
<1>3. \A i \in Ops : Armed(i)' => Armed(i)
  BY DEF Armed
<1>4. RequestIsCached' /\ ClearIsRaced' /\ ArmedIsCached' /\ GateDown'
  BY <1>3 DEF GateInv, RequestIsCached, ClearIsRaced, ArmedIsCached, GateDown
<1> QED BY <1>2, <1>4 DEF GateInv

LEMMA GateReturnExisting ==
  ASSUME GateInv, NEW s \in Scopes, ReturnExisting(s)
  PROVE  GateInv'
<1> USE DEF ReturnExisting, opVars, workVars, bootVars
<1>1. RoomForRequests'
  <2>1. Requests' = Requests /\ FreeOps' = FreeOps
    BY DEF Requests, FreeOps
  <2> QED BY <2>1 DEF RoomForRequests, GateInv
<1>2. GateTyped' /\ FreeIsUntouched' /\ VerdictsReached' /\ GateDown'
  BY DEF GateInv, GateTyped, FreeIsUntouched, VerdictsReached, GateDown
<1>3. RequestIsCached' /\ ClearIsRaced' /\ ArmedIsCached'
  BY DEF GateInv, RequestIsCached, ClearIsRaced, ArmedIsCached, Armed
<1> QED BY <1>1, <1>2, <1>3 DEF GateInv

LEMMA GateArmCache ==
  ASSUME GateInv, NEW s \in Scopes, ArmCache(s)
  PROVE  GateInv'
<1> USE DEF ArmCache, opVars, workVars, bootVars
<1>1. RoomForRequests'
  <2>1. IsFiniteSet(Requests) /\ IsFiniteSet(FreeOps)
    BY FewRequests
  <2>2. PICK R : R = Requests
    OBVIOUS
  <2>3. Requests' = R \cup {s} /\ s \notin R /\ FreeOps' = FreeOps
    BY <2>2 DEF Requests, FreeOps, GateInv, GateTyped, RequestPc
  <2>4. Cardinality(R \cup {s}) = Cardinality(R) + 1 /\ Cardinality(R) \in Nat
    BY <2>1, <2>2, <2>3, FS_AddElement, FS_CardinalityType
  <2>5. Cardinality(R) < Cardinality(FreeOps) /\ Cardinality(FreeOps) \in Nat
    BY <2>1, <2>2, FS_CardinalityType DEF Requests
  <2> QED BY <2>3, <2>4, <2>5 DEF RoomForRequests
<1>2. GateTyped' /\ FreeIsUntouched' /\ VerdictsReached' /\ GateDown'
  BY DEF GateInv, GateTyped, FreeIsUntouched, VerdictsReached, GateDown, RequestPc
<1>3. RequestIsCached' /\ ClearIsRaced' /\ ArmedIsCached'
  BY DEF GateInv, RequestIsCached, ClearIsRaced, ArmedIsCached, Armed
<1> QED BY <1>1, <1>2, <1>3 DEF GateInv

(* A request finds an operation to become.                                 *)
LEMMA SomeFreeOp ==
  ASSUME GateInv, NEW s \in Scopes, request[s] = "armed"
  PROVE  /\ (CHOOSE j \in FreeOps : TRUE) \in FreeOps
         /\ IsFiniteSet(Requests) /\ IsFiniteSet(FreeOps) /\ s \in Requests
<1>1. IsFiniteSet(Requests) /\ IsFiniteSet(FreeOps) /\ s \in Requests
  BY FewRequests DEF Requests
<1>2. Cardinality(Requests) \in Nat /\ Cardinality(Requests) # 0
  BY <1>1, FS_EmptySet, FS_CardinalityType
<1>3. Cardinality(FreeOps) \in Nat /\ Cardinality(FreeOps) # 0
  BY <1>1, <1>2, FS_CardinalityType DEF GateInv, RoomForRequests
<1>4. FreeOps # {}
  BY <1>3, FS_EmptySet
<1> QED BY <1>1, <1>4

LEMMA GateCommitOperation ==
  ASSUME GateInv, NEW s \in Scopes, CommitOperation(s)
  PROVE  GateInv'
<1> USE DEF bootVars
<1>1. request[s] = "armed" /\ up
  BY DEF CommitOperation
<1>2. PICK i : i = CHOOSE j \in FreeOps : TRUE
  OBVIOUS
<1>3. i \in Ops /\ op[i] = "none" /\ i \in FreeOps
  BY <1>1, <1>2, SomeFreeOp DEF FreeOps
<1>4. /\ op' = [op EXCEPT ![i] = "ACTIVATING"]
      /\ worker' = [worker EXCEPT ![i] = IF StartsWorker(s) THEN "start" ELSE "none"]
      /\ raced' = IF clearing \/ s \in overlap THEN raced \cup {i} ELSE raced
      /\ request' = [request EXCEPT ![s] = "none"] /\ overlap' = overlap \ {s}
      /\ UNCHANGED <<cache, clearing, unhydrated, todo, sweep, verdict, up>>
  BY <1>2 DEF CommitOperation
<1> HIDE DEF CommitOperation
<1>5. RoomForRequests'
  <2>1. IsFiniteSet(Requests) /\ IsFiniteSet(FreeOps) /\ s \in Requests
    BY <1>1, SomeFreeOp
  <2>2. PICK R, F : R = Requests /\ F = FreeOps
    OBVIOUS
  <2>3. Requests' = R \ {s} /\ FreeOps' = F \ {i}
    BY <1>3, <1>4, <2>2 DEF Requests, FreeOps, GateInv, GateTyped
  <2>4. Cardinality(R \ {s}) = Cardinality(R) - 1 /\ Cardinality(F \ {i}) = Cardinality(F) - 1
    BY <1>3, <2>1, <2>2, FS_RemoveElement
  <2>5. Cardinality(R) \in Nat /\ Cardinality(F) \in Nat /\ Cardinality(R) <= Cardinality(F)
    BY <2>1, <2>2, FS_CardinalityType DEF GateInv, RoomForRequests
  <2> QED BY <2>3, <2>4, <2>5 DEF RoomForRequests
<1>6. GateTyped' /\ FreeIsUntouched' /\ VerdictsReached' /\ GateDown'
  BY <1>1, <1>3, <1>4 DEF GateInv, GateTyped, FreeIsUntouched, VerdictsReached, GateDown, RequestPc,
     OpState, WorkerPc
<1>7. RequestIsCached' /\ ClearIsRaced' /\ ArmedIsCached'
  BY <1>1, <1>3, <1>4 DEF GateInv, GateTyped, RequestIsCached, ClearIsRaced, ArmedIsCached, Armed
<1> QED BY <1>5, <1>6, <1>7 DEF GateInv

LEMMA GateRequestFails ==
  ASSUME GateInv, NEW s \in Scopes, RequestFails(s)
  PROVE  GateInv'
<1> USE DEF RequestFails, opVars, workVars, bootVars
<1>1. RoomForRequests'
  <2>1. Requests' = Requests \ {s} /\ FreeOps' = FreeOps
    BY DEF Requests, FreeOps, GateInv, GateTyped
  <2> QED BY <2>1, RoomAfterRequest
<1>2. GateTyped' /\ FreeIsUntouched' /\ VerdictsReached' /\ GateDown'
  BY DEF GateInv, GateTyped, FreeIsUntouched, VerdictsReached, GateDown, RequestPc
<1>3. RequestIsCached' /\ ClearIsRaced' /\ ArmedIsCached'
  BY DEF GateInv, GateTyped, RequestIsCached, ClearIsRaced, ArmedIsCached, Armed
<1> QED BY <1>1, <1>2, <1>3 DEF GateInv

LEMMA GateClearCommit ==
  ASSUME GateInv, ClearCommit
  PROVE  GateInv'
<1> USE DEF ClearCommit, ClearedStatus, workVars, bootVars, Armed
<1>1. RoomForRequests'
  <2>1. Requests' = Requests /\ FreeOps' = FreeOps
    BY DEF Requests, FreeOps
  <2> QED BY <2>1 DEF RoomForRequests, GateInv
<1>2. GateTyped' /\ FreeIsUntouched' /\ VerdictsReached' /\ GateDown'
  BY DEF GateInv, GateTyped, FreeIsUntouched, VerdictsReached, GateDown, OpState
<1>3. RequestIsCached' /\ ClearIsRaced' /\ ArmedIsCached'
  BY DEF GateInv, GateTyped, RequestIsCached, ClearIsRaced, ArmedIsCached
<1> QED BY <1>1, <1>2, <1>3 DEF GateInv

LEMMA GateClearCache ==
  ASSUME GateInv, ClearCache
  PROVE  GateInv'
<1> USE DEF ClearCache, opVars, workVars, bootVars
<1>1. RoomForRequests'
  <2>1. Requests' = Requests /\ FreeOps' = FreeOps
    BY DEF Requests, FreeOps
  <2> QED BY <2>1 DEF RoomForRequests, GateInv
<1>2. GateTyped' /\ FreeIsUntouched' /\ VerdictsReached' /\ GateDown'
  BY DEF GateInv, GateTyped, FreeIsUntouched, VerdictsReached, GateDown
<1>3. RequestIsCached' /\ ClearIsRaced' /\ ArmedIsCached'
  BY DEF GateInv, RequestIsCached, ClearIsRaced, ArmedIsCached, Armed
<1> QED BY <1>1, <1>2, <1>3 DEF GateInv

LEMMA GateStartWorker ==
  ASSUME GateInv, NEW i \in Ops, StartWorker(i)
  PROVE  GateInv'
<1>1. /\ op' \in {op, [op EXCEPT ![i] = "FLATTENING"]}
      /\ worker' \in {[worker EXCEPT ![i] = w] : w \in {"none", "flatten", "finalize"}}
      /\ worker[i] = "start" /\ op[i] = "CLEARED" => op' = op
  BY DEF StartWorker
<1>2. worker'[i] = "finalize" => verdict' = [verdict EXCEPT ![i] = "COMPLETE"]
  BY DEF StartWorker, GateInv, GateTyped
<1>3. verdict' \in {verdict, [verdict EXCEPT ![i] = "COMPLETE"]}
  BY DEF StartWorker
<1>4. worker[i] = "start" /\ UNCHANGED <<request, up, cache, overlap, raced, unhydrated, clearing, todo, sweep>>
  BY DEF StartWorker, gateVars, bootVars
<1>5. op[i] # "none"
  BY <1>4 DEF GateInv, FreeIsUntouched
<1>6. GateTyped' /\ FreeIsUntouched'
  BY <1>1, <1>3, <1>4, <1>5 DEF GateInv, GateTyped, FreeIsUntouched, OpState, WorkerPc, Verdict
<1>7. VerdictsReached'
  BY <1>1, <1>2, <1>3, <1>4, KillSwitchAssumption DEF GateInv, GateTyped, VerdictsReached
<1>8. \A j \in Ops : /\ op'[j] = "none" <=> op[j] = "none"
                     /\ op[j] = "CLEARED" => op'[j] = "CLEARED"
  BY <1>1, <1>4, <1>5 DEF GateInv, GateTyped
<1> QED BY <1>4, <1>6, <1>7, <1>8, GateWork

LEMMA EngineVerdicts ==
  ASSUME NEW STATE S
  PROVE  EngineVerdict(S) \in {"COMPLETE", "UNRESOLVED"}
BY DEF EngineVerdict

LEMMA AccountVerdicts ==
  ASSUME NEW i \in Ops
  PROVE  AccountVerdict(i) \in {"COMPLETE", "RECONCILING", "UNRESOLVED"}
BY DEF AccountVerdict

LEMMA GateReconcile ==
  ASSUME GateInv, NEW i \in Ops, Reconcile(i)
  PROVE  GateInv'
<1>1. PICK v \in {"COMPLETE", "UNRESOLVED"} : verdict' = [verdict EXCEPT ![i] = v]
  BY EngineVerdicts DEF Reconcile
<1>2. /\ worker[i] = "flatten" /\ worker' = [worker EXCEPT ![i] = "finalize"]
      /\ UNCHANGED <<op, request, up, cache, overlap, raced, unhydrated, clearing, todo, sweep>>
  BY DEF Reconcile, gateVars, bootVars, opVars
<1>3. GateTyped' /\ FreeIsUntouched'
  BY <1>1, <1>2 DEF GateInv, GateTyped, FreeIsUntouched, WorkerPc, Verdict
<1>4. VerdictsReached'
  BY <1>1, <1>2, KillSwitchAssumption DEF GateInv, GateTyped, VerdictsReached
<1> QED BY <1>2, <1>3, <1>4, GateWork

LEMMA GateFinalize ==
  ASSUME GateInv, NEW i \in Ops, Finalize(i)
  PROVE  GateInv'
<1>1. PICK st \in {op[i], verdict[i]} : op' = [op EXCEPT ![i] = st] /\ (op[i] = "CLEARED" => st = "CLEARED")
  BY DEF Finalize, Concluded
<1>2. /\ worker[i] = "finalize" /\ worker' = [worker EXCEPT ![i] = "none"]
      /\ verdict' = [verdict EXCEPT ![i] = "none"]
      /\ UNCHANGED <<request, up, cache, overlap, raced, unhydrated, clearing, todo, sweep>>
  BY DEF Finalize, gateVars, bootVars
<1>3. op[i] # "none" /\ verdict[i] # "none" /\ st \in OpState /\ st # "none"
  BY <1>1, <1>2 DEF GateInv, GateTyped, FreeIsUntouched, VerdictsReached, OpState, Verdict
<1>4. GateTyped' /\ FreeIsUntouched'
  BY <1>1, <1>2, <1>3 DEF GateInv, GateTyped, FreeIsUntouched, WorkerPc, Verdict
<1>5. VerdictsReached'
  BY <1>1, <1>2, KillSwitchAssumption DEF GateInv, GateTyped, VerdictsReached
<1>6. \A j \in Ops : /\ op'[j] = "none" <=> op[j] = "none"
                     /\ op[j] = "CLEARED" => op'[j] = "CLEARED"
  BY <1>1, <1>3 DEF GateInv, GateTyped
<1> QED BY <1>2, <1>4, <1>5, <1>6, GateWork

(* A retry, after a sweep or of an account square-off, takes an operation  *)
(* that was written to a verdict.                                          *)
LEMMA GateRetry ==
  ASSUME GateInv, NEW i \in Ops, RetryUnresolved(i) \/ AccountFlattened(i)
  PROVE  GateInv'
<1>1. PICK v \in {"COMPLETE", "RECONCILING", "UNRESOLVED"} : verdict' = [verdict EXCEPT ![Idle] = v]
  BY EngineVerdicts, AccountVerdicts DEF RetryUnresolved, AccountFlattened, FollowBrokerPositions
<1>2. /\ sweep = Idle /\ sweep' = i /\ todo' \subseteq todo
      /\ UNCHANGED <<op, worker, request, up, cache, overlap, raced, unhydrated, clearing>>
  BY DEF RetryUnresolved, AccountFlattened, gateVars, bootVars, opVars
<1>3. op[i] # "none"
  BY DEF RetryUnresolved, AccountFlattened, Armed, GateInv, FreeIsUntouched
<1>4. GateTyped' /\ FreeIsUntouched'
  BY <1>1, <1>2, <1>3 DEF GateInv, GateTyped, FreeIsUntouched, Verdict
<1>5. VerdictsReached'
  BY <1>1, <1>2, KillSwitchAssumption DEF GateInv, GateTyped, VerdictsReached
<1> QED BY <1>2, <1>4, <1>5, GateWork

LEMMA GateRetryFinalizes ==
  ASSUME GateInv, RetryFinalizes
  PROVE  GateInv'
<1>1. PICK i \in Ops : i = sweep
  BY DEF RetryFinalizes, GateInv, GateTyped
<1>2. PICK st \in {op[i], verdict[Idle]} :
        op' = [op EXCEPT ![i] = st] /\ (op[i] = "CLEARED" => st = "CLEARED")
  BY <1>1 DEF RetryFinalizes, Concluded
<1>3. /\ sweep # Idle /\ sweep' = Idle /\ verdict' = [verdict EXCEPT ![Idle] = "none"]
      /\ UNCHANGED <<worker, request, up, cache, overlap, raced, unhydrated, clearing, todo>>
  BY DEF RetryFinalizes, gateVars, bootVars
<1>4. op[i] # "none" /\ verdict[Idle] # "none" /\ st \in OpState /\ st # "none"
  BY <1>1, <1>2, <1>3 DEF GateInv, GateTyped, FreeIsUntouched, VerdictsReached, OpState, Verdict
<1>5. GateTyped' /\ FreeIsUntouched'
  BY <1>2, <1>3, <1>4, KillSwitchAssumption DEF GateInv, GateTyped, FreeIsUntouched, WorkerPc, Verdict
<1>6. VerdictsReached'
  BY <1>3, KillSwitchAssumption DEF GateInv, GateTyped, VerdictsReached
<1>7. \A j \in Ops : /\ op'[j] = "none" <=> op[j] = "none"
                     /\ op[j] = "CLEARED" => op'[j] = "CLEARED"
  BY <1>2, <1>4 DEF GateInv, GateTyped
<1> QED BY <1>3, <1>5, <1>6, <1>7, GateWork

LEMMA GateSweep ==
  ASSUME GateInv, Sweep
  PROVE  GateInv'
<1>1. /\ todo' = {i \in Ops : op[i] \in {"UNRESOLVED", "RECONCILING"}}
      /\ UNCHANGED <<op, worker, verdict, sweep, request, up, cache, overlap, raced, unhydrated, clearing>>
  BY DEF Sweep, gateVars, opVars
<1>2. GateTyped' /\ FreeIsUntouched' /\ VerdictsReached'
  BY <1>1 DEF GateInv, GateTyped, FreeIsUntouched, VerdictsReached
<1> QED BY <1>1, <1>2, GateWork

LEMMA GateCrash ==
  ASSUME GateInv, Crash
  PROVE  GateInv'
<1> USE DEF Crash, opVars, None
<1>1. RoomForRequests'
  <2>1. Requests' = {} /\ FreeOps' = FreeOps
    BY DEF Requests, FreeOps
  <2> QED BY <2>1, FewRequests, FS_EmptySet, FS_CardinalityType DEF RoomForRequests
<1>2. GateTyped' /\ FreeIsUntouched' /\ VerdictsReached' /\ GateDown'
  BY KillSwitchAssumption DEF GateInv, GateTyped, FreeIsUntouched, VerdictsReached, GateDown,
     RequestPc, WorkerPc, Verdict
<1>3. RequestIsCached' /\ ClearIsRaced' /\ ArmedIsCached'
  BY DEF RequestIsCached, ClearIsRaced, ArmedIsCached
<1> QED BY <1>1, <1>2, <1>3 DEF GateInv

LEMMA GateRestart ==
  ASSUME GateInv, Restart
  PROVE  GateInv'
<1>1. /\ ~up /\ up' = TRUE
      /\ worker' = [i \in Ops |-> IF i \in Resumed THEN "start" ELSE "none"]
      /\ todo' = {i \in Ops : op[i] = "UNRESOLVED"}
      /\ UNCHANGED <<op, sweep, verdict, request, clearing, overlap, raced>>
  BY DEF Restart, opVars
<1>2. \A i \in Ops : Armed(i)' => cache' \/ unhydrated'
  <2>1. CASE cache' = HydratedCache
    BY <1>1, <2>1 DEF HydratedCache, Armed
  <2> QED BY <2>1 DEF Restart
<1>3. RoomForRequests'
  <2>1. Requests' = Requests /\ FreeOps' = FreeOps
    BY <1>1 DEF Requests, FreeOps
  <2> QED BY <2>1 DEF RoomForRequests, GateInv
<1>4. GateTyped' /\ FreeIsUntouched' /\ VerdictsReached' /\ GateDown'
  BY <1>1 DEF GateInv, GateTyped, FreeIsUntouched, VerdictsReached, GateDown, WorkerPc, Resumed
<1>5. RequestIsCached' /\ ClearIsRaced' /\ ArmedIsCached'
  BY <1>1, <1>2 DEF GateInv, GateDown, RequestIsCached, ClearIsRaced, ArmedIsCached
<1> QED BY <1>3, <1>4, <1>5 DEF GateInv

LEMMA GateStep ==
  ASSUME GateInv, [Next]_vars
  PROVE  GateInv'
<1>1. CASE Arming
  BY <1>1, GateReturnExisting, GateArmCache, GateCommitOperation, GateRequestFails
     DEF Arming, AccountBreach
<1>2. CASE Opens
  BY <1>2, GateStutter DEF Opens, PassGate, FillOpen, PersistOpen, gate, gateVars, workVars, opVars, bootVars
<1>3. CASE \E c \in Closers : StartClose(c) \/ Refused(c) \/ Send(c) \/ FillClose(c)
                                \/ FailClose(c) \/ EndClose(c)
  BY <1>3, GateStutter DEF StartClose, Refused, Send, FillClose, FailClose, EndClose, Ended,
     gate, gateVars, workVars, opVars, bootVars
<1>4. CASE (\E t \in Trades : RiskExit(t)) \/ (\E o \in orphan : OrphanEnds(o))
  BY <1>4, GateStutter DEF RiskExit, OrphanEnds, gate, gateVars, workVars, opVars, bootVars
<1>5. CASE Work
  BY <1>5, GateStartWorker, GateReconcile, GateFinalize, GateRetry DEF Work
<1>6. CASE UNCHANGED vars
  BY <1>6, GateStutter DEF vars, gate, gateVars, workVars, opVars, bootVars
<1> QED BY <1>1, <1>2, <1>3, <1>4, <1>5, <1>6, GateClearCommit, GateClearCache, GateSweep,
           GateRetryFinalizes, GateCrash, GateRestart DEF Next, Closes

(* While an operation is armed, no OPEN passes the gate but for the two    *)
(* reasons listed: a clear was under way as the operation was written, or  *)
(* the cache could not be read back at startup.                            *)
THEOREM ArmedBlocks == Spec => []ArmedIsCached
<1>1. GateInv => ArmedIsCached
  BY DEF GateInv
<1> QED BY <1>1, GateInit, GateStep, PTL DEF Spec

----------------------------------------------------------------------------
(* Closes.                                                                 *)

CloseTyped ==
  /\ row \in [Trades -> RowState] /\ held \in [Trades -> Int] /\ table \in [Trades -> Int]
  /\ at \in [Closers -> CloserPc] /\ plan \in [Closers -> [lots : Int, keys : SUBSET Keys]]
  /\ opening \in [Trades -> OpenPc]
  /\ \A o \in orphan : o[1] \in Closers /\ o[2] \in Int

LedgerTyped == /\ ksFilled \in [Trades -> Nat] /\ snap \in [Ops -> SUBSET Trades]
               /\ scope \in [Ops -> {"engine", "account"}]

(* Closers whose order is out, or whose fill the ledger does not know.     *)
Out(c) == at[c] \in {"sent", "filled"}

(* A worker that is not in its fan-out closes nothing.                     *)
WorkersFanOut ==
  \A i \in Ops : worker[i] # "flatten" => \A t \in Trades : at[<<i, t>>] = "none"

(* A close of a row is of one lot, and there is a row.                     *)
LedgerCloses ==
  /\ \A c \in Closers : ClosesLedger(c) /\ at[c] # "none" =>
       plan[c].lots = -1 /\ row[Of(c)] # "none"
  /\ \A o \in orphan : ClosesLedger(o[1]) => o[2] = -1 /\ row[Of(o[1])] # "none"

PairTakesLedger ==
  \A c \in Closers : Who(c) = "pair" /\ at[c] # "none" => plan[c].keys = {"ledger"}

KeysHeld ==
  \A c \in Closers : at[c] \in {"sent", "filled", "failed"} => {c} \X plan[c].keys \subseteq inflight

OpensHaveNoRow == \A t \in Trades : opening[t] # "none" => row[t] = "none"

(* Of a trade nobody is to blame for, at most one order is at work.        *)
OneOut ==
  \A c, d \in Closers : Of(c) = Of(d) /\ Of(c) \notin blamed /\ Out(c) /\ Out(d) => c = d

OneOrphan ==
  \A o, p \in orphan : Of(o[1]) = Of(p[1]) /\ Of(o[1]) \notin blamed => o = p

OutOrOrphan ==
  \A c \in Closers, o \in orphan : Of(c) = Of(o[1]) /\ Of(c) \notin blamed => ~Out(c)

Within(t, lots) == lots <= 0 /\ held[t] + lots >= 0

SentWithin ==
  /\ \A c \in Closers : at[c] = "sent" /\ Of(c) \notin blamed => Within(Of(c), plan[c].lots)
  /\ \A o \in orphan : Of(o[1]) \notin blamed => Within(Of(o[1]), o[2])

(* The ledger is up to date with the broker.                               *)
UpToDate(t) ==
  t \notin ghost \cup blamed /\ \A d \in Closers : Of(d) = t => at[d] # "filled"

ReadWithin ==
  \A c \in Closers : at[c] = "read" /\ c \notin stale /\ UpToDate(Of(c))
                       => Within(Of(c), plan[c].lots)

OpenRowHeld ==
  \A t \in Trades : UpToDate(t) /\ (row[t] = "OPEN" \/ opening[t] = "filled") => held[t] >= 1

OthersAreGhosts ==
  \A c \in Closers : at[c] = "filled" /\ ~ClosesLedger(c) => Of(c) \in ghost

NobodyWhenDown == ~up => \A c \in Closers : at[c] = "none"

NotOverClosed == \A t \in Trades : t \notin blamed => held[t] >= 0

CloseInv == /\ CloseTyped /\ WorkersFanOut /\ LedgerCloses /\ PairTakesLedger /\ KeysHeld
            /\ OpensHaveNoRow /\ OneOut /\ OneOrphan /\ OutOrOrphan /\ SentWithin /\ ReadWithin
            /\ OpenRowHeld /\ OthersAreGhosts /\ NobodyWhenDown /\ NotOverClosed

LEMMA CloserFacts ==
  /\ \A c \in Closers : Of(c) \in Trades /\ Who(c) \in Ops \cup Producers /\ c = <<Who(c), Of(c)>>
  /\ \A w \in Ops \cup Producers, t \in Trades :
       <<w, t>> \in Closers /\ Who(<<w, t>>) = w /\ Of(<<w, t>>) = t
BY DEF Closers, Of, Who

LEMMA ClosePassGate ==
  ASSUME GateInv, CloseInv, NEW t \in Trades, PassGate(t)
  PROVE  CloseInv'
<1>1. /\ row[t] = "none" /\ opening' = [opening EXCEPT ![t] = "sent"]
      /\ UNCHANGED <<row, held, table, at, plan, orphan, worker, inflight, blamed, ghost, stale, up>>
  BY DEF PassGate, ledgerVars, brokerVars, workVars, closeVars, bootVars
<1>2. WorkersFanOut' /\ LedgerCloses' /\ PairTakesLedger' /\ KeysHeld' /\ OneOut' /\ OneOrphan' /\
      OutOrOrphan' /\ SentWithin' /\ ReadWithin' /\ OthersAreGhosts' /\ NobodyWhenDown' /\
      NotOverClosed'
  BY <1>1 DEF CloseInv, WorkersFanOut, LedgerCloses, PairTakesLedger, KeysHeld, OneOut, Out,
     OneOrphan, OutOrOrphan, SentWithin, Within, ReadWithin, UpToDate, OthersAreGhosts,
     NobodyWhenDown, NotOverClosed
<1>3. CloseTyped'
  BY <1>1, CloserFacts DEF CloseInv, CloseTyped, RowState, CloserPc, OpenPc
<1>4. OpensHaveNoRow'
  BY <1>1, CloserFacts DEF CloseInv, OpensHaveNoRow, CloseTyped
<1>5. OpenRowHeld'
  BY <1>1, CloserFacts DEF CloseInv, OpenRowHeld, UpToDate, CloseTyped
<1> QED BY <1>2, <1>3, <1>4, <1>5 DEF CloseInv

LEMMA CloseFillOpen ==
  ASSUME GateInv, CloseInv, NEW t \in Trades, FillOpen(t)
  PROVE  CloseInv'
<1>1. /\ opening[t] = "sent"
      /\ \/ held' = [held EXCEPT ![t] = held[t] + 1] /\ opening' = [opening EXCEPT ![t] = "filled"]
         \/ held' = held /\ opening' = [opening EXCEPT ![t] = "none"]
      /\ UNCHANGED <<row, table, at, plan, orphan, worker, inflight, blamed, ghost, stale, up>>
  BY DEF FillOpen, ledgerVars, workVars, closeVars, histVars, bootVars
<1>2. WorkersFanOut' /\ LedgerCloses' /\ PairTakesLedger' /\ KeysHeld' /\ OneOut' /\ OneOrphan' /\
      OutOrOrphan' /\ OthersAreGhosts' /\ NobodyWhenDown'
  BY <1>1 DEF CloseInv, WorkersFanOut, LedgerCloses, PairTakesLedger, KeysHeld, OneOut, Out,
     OneOrphan, OutOrOrphan, OthersAreGhosts, NobodyWhenDown
<1>3. CloseTyped'
  BY <1>1, CloserFacts DEF CloseInv, CloseTyped, RowState, CloserPc, OpenPc
<1>4. OpensHaveNoRow'
  BY <1>1, CloserFacts DEF CloseInv, OpensHaveNoRow, CloseTyped
<1>5. SentWithin'
  BY <1>1, CloserFacts DEF CloseInv, SentWithin, Within, CloseTyped
<1>6. ReadWithin'
  BY <1>1, CloserFacts DEF CloseInv, ReadWithin, Within, UpToDate, CloseTyped
<1>7. OpenRowHeld'
  <2>1. SUFFICES ASSUME NEW u \in Trades, UpToDate(u)', (row[u] = "OPEN" \/ opening[u] = "filled")'
                 PROVE  held'[u] >= 1
    BY DEF OpenRowHeld
  <2>2. UpToDate(u) /\ u \notin blamed BY <1>1, <2>1 DEF UpToDate
  <2>3. held \in [Trades -> Int] /\ opening \in [Trades -> OpenPc] /\ held[u] >= 0
    BY <2>2 DEF CloseInv, CloseTyped, NotOverClosed
  <2>4. row[u] = "OPEN" \/ opening[u] = "filled" => held[u] >= 1 BY <2>2 DEF CloseInv, OpenRowHeld
  <2> QED BY <1>1, <2>1, <2>3, <2>4
<1>8. NotOverClosed'
  BY <1>1, CloserFacts DEF CloseInv, NotOverClosed, CloseTyped
<1> QED BY <1>2, <1>3, <1>4, <1>5, <1>6, <1>7, <1>8 DEF CloseInv

LEMMA ClosePersistOpen ==
  ASSUME GateInv, CloseInv, NEW t \in Trades, PersistOpen(t)
  PROVE  CloseInv'
<1>1. /\ opening[t] = "filled" /\ opening' = [opening EXCEPT ![t] = "none"]
      /\ row' = [row EXCEPT ![t] = "OPEN"]
      /\ UNCHANGED <<held, table, at, plan, orphan, worker, inflight, blamed, ghost, stale, up>>
  BY DEF PersistOpen, brokerVars, workVars, closeVars, histVars, bootVars
<1>2. WorkersFanOut' /\ PairTakesLedger' /\ KeysHeld' /\ OneOut' /\ OneOrphan' /\ OutOrOrphan' /\
      SentWithin' /\ ReadWithin' /\ OthersAreGhosts' /\ NobodyWhenDown' /\ NotOverClosed'
  BY <1>1 DEF CloseInv, WorkersFanOut, PairTakesLedger, KeysHeld, OneOut, Out, OneOrphan,
     OutOrOrphan, SentWithin, Within, ReadWithin, UpToDate, OthersAreGhosts, NobodyWhenDown,
     NotOverClosed
<1>3. CloseTyped'
  BY <1>1, CloserFacts DEF CloseInv, CloseTyped, RowState, CloserPc, OpenPc
<1>4. LedgerCloses'
  BY <1>1, CloserFacts DEF CloseInv, LedgerCloses, CloseTyped
<1>5. OpensHaveNoRow'
  BY <1>1, CloserFacts DEF CloseInv, OpensHaveNoRow, CloseTyped
<1>6. OpenRowHeld'
  BY <1>1, CloserFacts DEF CloseInv, OpenRowHeld, UpToDate, CloseTyped
<1> QED BY <1>2, <1>3, <1>4, <1>5, <1>6 DEF CloseInv

LEMMA CloseRefused ==
  ASSUME GateInv, CloseInv, NEW c \in Closers, Refused(c)
  PROVE  CloseInv'
<1>1. /\ at[c] = "read" /\ at' = [at EXCEPT ![c] = "none"] /\ plan' = [plan EXCEPT ![c] = NoPlan]
      /\ stale' = stale \ {c} /\ NoPlan \in [lots : Int, keys : SUBSET Keys]
      /\ UNCHANGED <<row, held, table, opening, orphan, worker, inflight, blamed, ghost, up>>
  BY DEF Refused, NoPlan, ledgerVars, brokerVars, workVars, bootVars
<1>2. OpensHaveNoRow' /\ OneOrphan' /\ NotOverClosed'
  BY <1>1 DEF CloseInv, OpensHaveNoRow, OneOrphan, NotOverClosed
<1>3. CloseTyped'
  BY <1>1, CloserFacts DEF CloseInv, CloseTyped, RowState, CloserPc, OpenPc
<1>4. WorkersFanOut'
  BY <1>1, CloserFacts DEF CloseInv, WorkersFanOut, CloseTyped
<1>5. LedgerCloses'
  BY <1>1, CloserFacts DEF CloseInv, LedgerCloses, CloseTyped
<1>6. PairTakesLedger'
  BY <1>1, CloserFacts DEF CloseInv, PairTakesLedger, CloseTyped
<1>7. KeysHeld'
  BY <1>1, CloserFacts DEF CloseInv, KeysHeld, CloseTyped
<1>8. OneOut'
  BY <1>1, CloserFacts DEF CloseInv, OneOut, Out, CloseTyped
<1>9. OutOrOrphan'
  BY <1>1, CloserFacts DEF CloseInv, OutOrOrphan, Out, CloseTyped
<1>10. SentWithin'
  BY <1>1, CloserFacts DEF CloseInv, SentWithin, Within, CloseTyped
<1>11. ReadWithin'
  BY <1>1, CloserFacts DEF CloseInv, ReadWithin, Within, UpToDate, CloseTyped
<1>12. OpenRowHeld'
  BY <1>1, CloserFacts DEF CloseInv, OpenRowHeld, UpToDate, CloseTyped
<1>13. OthersAreGhosts'
  BY <1>1, CloserFacts DEF CloseInv, OthersAreGhosts, CloseTyped
<1>14. NobodyWhenDown'
  BY <1>1, CloserFacts DEF CloseInv, NobodyWhenDown, CloseTyped
<1> QED BY <1>2, <1>3, <1>4, <1>5, <1>6, <1>7, <1>8, <1>9, <1>10, <1>11, <1>12, <1>13, <1>14 DEF
           CloseInv

LEMMA CloseFailClose ==
  ASSUME GateInv, CloseInv, NEW c \in Closers, FailClose(c)
  PROVE  CloseInv'
<1>1. /\ at[c] = "sent" /\ at' = [at EXCEPT ![c] = "failed"]
      /\ UNCHANGED <<row, held, table, plan, opening, worker, inflight, blamed, ghost, stale, up>>
  BY DEF FailClose, ledgerVars, workVars, histVars, bootVars
<1>2. \/ orphan' = orphan
      \/ \E o : o[1] = c /\ o[2] = plan[c].lots /\ orphan' = orphan \cup {o}
  BY DEF FailClose, Orphan
<1>3. OpensHaveNoRow' /\ NotOverClosed'
  BY <1>1 DEF CloseInv, OpensHaveNoRow, NotOverClosed
<1>4. CloseTyped'
  BY <1>1, <1>2, CloserFacts DEF CloseInv, CloseTyped, RowState, CloserPc, OpenPc
<1>5. WorkersFanOut'
  BY <1>1, CloserFacts DEF CloseInv, WorkersFanOut, CloseTyped
<1>6. LedgerCloses'
  BY <1>1, <1>2, CloserFacts DEF CloseInv, LedgerCloses, CloseTyped
<1>7. PairTakesLedger'
  BY <1>1, CloserFacts DEF CloseInv, PairTakesLedger, CloseTyped
<1>8. KeysHeld'
  BY <1>1, CloserFacts DEF CloseInv, KeysHeld, CloseTyped
<1>9. OneOut'
  BY <1>1, CloserFacts DEF CloseInv, OneOut, Out, CloseTyped
<1>10. OneOrphan'
  BY <1>1, <1>2, CloserFacts DEF CloseInv, OneOrphan, CloseTyped, OutOrOrphan, Out
<1>11. OutOrOrphan'
  BY <1>1, <1>2, CloserFacts DEF CloseInv, OutOrOrphan, Out, CloseTyped, OneOut
<1>12. SentWithin'
  BY <1>1, <1>2, CloserFacts DEF CloseInv, SentWithin, Within, CloseTyped
<1>13. ReadWithin'
  BY <1>1, CloserFacts DEF CloseInv, ReadWithin, Within, UpToDate, CloseTyped
<1>14. OpenRowHeld'
  BY <1>1, CloserFacts DEF CloseInv, OpenRowHeld, UpToDate, CloseTyped
<1>15. OthersAreGhosts'
  BY <1>1, CloserFacts DEF CloseInv, OthersAreGhosts, CloseTyped
<1>16. NobodyWhenDown'
  BY <1>1, CloserFacts DEF CloseInv, NobodyWhenDown, CloseTyped
<1> QED BY <1>3, <1>4, <1>5, <1>6, <1>7, <1>8, <1>9, <1>10, <1>11, <1>12, <1>13, <1>14, <1>15,
           <1>16 DEF CloseInv

LEMMA CloseFillClose ==
  ASSUME GateInv, CloseInv, NEW c \in Closers, FillClose(c)
  PROVE  CloseInv'
<1>1. /\ at[c] = "sent" /\ at' = [at EXCEPT ![c] = "filled"]
      /\ held' = [held EXCEPT ![Of(c)] = held[Of(c)] + plan[c].lots]
      /\ ghost' = IF ClosesLedger(c) THEN ghost ELSE ghost \cup {Of(c)}
      /\ UNCHANGED <<row, table, plan, opening, orphan, worker, inflight, blamed, stale, up>>
  BY DEF FillClose, Trade, workVars, bootVars
<1>2. OpensHaveNoRow' /\ OneOrphan'
  BY <1>1 DEF CloseInv, OpensHaveNoRow, OneOrphan
<1>3. CloseTyped'
  BY <1>1, CloserFacts DEF CloseInv, CloseTyped, RowState, CloserPc, OpenPc
<1>4. WorkersFanOut'
  BY <1>1, CloserFacts DEF CloseInv, WorkersFanOut, CloseTyped
<1>5. LedgerCloses'
  BY <1>1, CloserFacts DEF CloseInv, LedgerCloses, CloseTyped
<1>6. PairTakesLedger'
  BY <1>1, CloserFacts DEF CloseInv, PairTakesLedger, CloseTyped
<1>7. KeysHeld'
  BY <1>1, CloserFacts DEF CloseInv, KeysHeld, CloseTyped
<1>8. OneOut'
  BY <1>1, CloserFacts DEF CloseInv, OneOut, Out, CloseTyped
<1>9. OutOrOrphan'
  BY <1>1, CloserFacts DEF CloseInv, OutOrOrphan, Out, CloseTyped
<1>10. SentWithin'
  BY <1>1, CloserFacts DEF CloseInv, SentWithin, Within, CloseTyped, OneOut, OutOrOrphan, Out
<1>11. ReadWithin'
  BY <1>1, CloserFacts DEF CloseInv, ReadWithin, Within, UpToDate, CloseTyped
<1>12. OpenRowHeld'
  BY <1>1, CloserFacts DEF CloseInv, OpenRowHeld, UpToDate, CloseTyped
<1>13. OthersAreGhosts'
  BY <1>1, CloserFacts DEF CloseInv, OthersAreGhosts, CloseTyped
<1>14. NobodyWhenDown'
  BY <1>1, CloserFacts DEF CloseInv, NobodyWhenDown, CloseTyped
<1>15. NotOverClosed'
  BY <1>1, CloserFacts DEF CloseInv, NotOverClosed, CloseTyped, SentWithin, Within
<1> QED BY <1>2, <1>3, <1>4, <1>5, <1>6, <1>7, <1>8, <1>9, <1>10, <1>11, <1>12, <1>13, <1>14,
           <1>15 DEF CloseInv

LEMMA CloseOrphanEnds ==
  ASSUME GateInv, CloseInv, NEW o \in orphan, OrphanEnds(o)
  PROVE  CloseInv'
<1>1. /\ orphan' = orphan \ {o} /\ o[1] \in Closers /\ o[2] \in Int /\ Of(o[1]) \in Trades
      /\ \/ /\ held' = [held EXCEPT ![Of(o[1])] = held[Of(o[1])] + o[2]]
            /\ ghost' = ghost \cup {Of(o[1])}
         \/ held' = held /\ ghost' = ghost
      /\ UNCHANGED <<row, table, at, plan, opening, worker, inflight, blamed, stale, up>>
  BY DEF OrphanEnds, Trade, workVars, closeVars, bootVars, CloseInv, CloseTyped, Closers, Of
<1>2. WorkersFanOut' /\ PairTakesLedger' /\ KeysHeld' /\ OpensHaveNoRow' /\ OneOut' /\
      NobodyWhenDown'
  BY <1>1 DEF CloseInv, WorkersFanOut, PairTakesLedger, KeysHeld, OpensHaveNoRow, OneOut, Out,
     NobodyWhenDown
<1>3. CloseTyped'
  BY <1>1, CloserFacts DEF CloseInv, CloseTyped, RowState, CloserPc, OpenPc
<1>4. LedgerCloses'
  BY <1>1, CloserFacts DEF CloseInv, LedgerCloses, CloseTyped
<1>5. OneOrphan'
  BY <1>1, CloserFacts DEF CloseInv, OneOrphan, CloseTyped
<1>6. OutOrOrphan'
  BY <1>1, CloserFacts DEF CloseInv, OutOrOrphan, Out, CloseTyped
<1>7. SentWithin'
  BY <1>1, CloserFacts DEF CloseInv, SentWithin, Within, CloseTyped, OneOrphan, OutOrOrphan, Out
<1>8. ReadWithin'
  BY <1>1, CloserFacts DEF CloseInv, ReadWithin, Within, UpToDate, CloseTyped
<1>9. OpenRowHeld'
  BY <1>1, CloserFacts DEF CloseInv, OpenRowHeld, UpToDate, CloseTyped
<1>10. OthersAreGhosts'
  BY <1>1, CloserFacts DEF CloseInv, OthersAreGhosts, CloseTyped
<1>11. NotOverClosed'
  BY <1>1, CloserFacts DEF CloseInv, NotOverClosed, CloseTyped, SentWithin, Within
<1> QED BY <1>2, <1>3, <1>4, <1>5, <1>6, <1>7, <1>8, <1>9, <1>10, <1>11 DEF CloseInv

LEMMA CloseEndClose ==
  ASSUME GateInv, CloseInv, NEW c \in Closers, EndClose(c)
  PROVE  CloseInv'
<1>1. /\ at[c] \in {"filled", "failed"} /\ at' = [at EXCEPT ![c] = "none"]
      /\ plan' = [plan EXCEPT ![c] = NoPlan] /\ NoPlan \in [lots : Int, keys : SUBSET Keys]
      /\ row' = [row EXCEPT ![Of(c)] = IF at[c] = "filled" /\ ClosesLedger(c) /\ row[Of(c)] = "OPEN"
                                      THEN "CLOSED" ELSE row[Of(c)]]
      /\ inflight' = {h \in inflight : h[1] # c}
      /\ stale' = stale \cup {d \in Closers : Of(d) = Of(c) /\ at[d] = "read"}
      /\ UNCHANGED <<held, table, opening, orphan, worker, blamed, ghost, up>>
  BY DEF EndClose, Ended, NoPlan, brokerVars, workVars, bootVars
<1>2. OneOrphan' /\ NotOverClosed'
  BY <1>1 DEF CloseInv, OneOrphan, NotOverClosed
<1>3. CloseTyped'
  BY <1>1, CloserFacts DEF CloseInv, CloseTyped, RowState, CloserPc, OpenPc
<1>4. WorkersFanOut'
  BY <1>1, CloserFacts DEF CloseInv, WorkersFanOut, CloseTyped
<1>5. LedgerCloses'
  BY <1>1, CloserFacts DEF CloseInv, LedgerCloses, CloseTyped
<1>6. PairTakesLedger'
  BY <1>1, CloserFacts DEF CloseInv, PairTakesLedger, CloseTyped
<1>7. KeysHeld'
  BY <1>1, CloserFacts DEF CloseInv, KeysHeld, CloseTyped
<1>8. OpensHaveNoRow'
  BY <1>1, CloserFacts DEF CloseInv, OpensHaveNoRow, CloseTyped
<1>9. OneOut'
  BY <1>1, CloserFacts DEF CloseInv, OneOut, Out, CloseTyped
<1>10. OutOrOrphan'
  BY <1>1, CloserFacts DEF CloseInv, OutOrOrphan, Out, CloseTyped
<1>11. SentWithin'
  BY <1>1, CloserFacts DEF CloseInv, SentWithin, Within, CloseTyped
<1>12. ReadWithin'
  BY <1>1, CloserFacts DEF CloseInv, ReadWithin, Within, UpToDate, CloseTyped
<1>13. OpenRowHeld'
  <2> SUFFICES ASSUME NEW t \in Trades, UpToDate(t)', row'[t] = "OPEN" \/ opening[t] = "filled"
               PROVE  held[t] >= 1
    BY <1>1 DEF OpenRowHeld
  <2>1. CASE t # Of(c)
    <3>1. UpToDate(t) /\ (row[t] = "OPEN" \/ opening[t] = "filled")
      BY <1>1, <2>1 DEF CloseInv, CloseTyped, UpToDate
    <3> QED BY <3>1 DEF CloseInv, OpenRowHeld
  <2>2. CASE t = Of(c) /\ at[c] = "failed"
    <3>1. UpToDate(t) /\ (row[t] = "OPEN" \/ opening[t] = "filled")
      BY <1>1, <2>2 DEF CloseInv, CloseTyped, UpToDate
    <3> QED BY <3>1 DEF CloseInv, OpenRowHeld
  <2>3. CASE t = Of(c) /\ at[c] = "filled"
    <3>1. ClosesLedger(c)
      BY <1>1, <2>3 DEF CloseInv, OthersAreGhosts, UpToDate
    <3>2. row[t] # "none" /\ opening[t] = "none"
      BY <2>3, <3>1 DEF CloseInv, LedgerCloses, OpensHaveNoRow
    <3>3. row'[t] # "OPEN"
      BY <1>1, <2>3, <3>1 DEF CloseInv, CloseTyped
    <3> QED BY <3>2, <3>3
  <2> QED BY <1>1, <2>1, <2>2, <2>3
<1>14. OthersAreGhosts'
  BY <1>1, CloserFacts DEF CloseInv, OthersAreGhosts, CloseTyped
<1>15. NobodyWhenDown'
  BY <1>1, CloserFacts DEF CloseInv, NobodyWhenDown, CloseTyped
<1> QED BY <1>2, <1>3, <1>4, <1>5, <1>6, <1>7, <1>8, <1>9, <1>10, <1>11, <1>12, <1>13, <1>14,
           <1>15 DEF CloseInv

LEMMA CloseSend ==
  ASSUME GateInv, CloseInv, NEW c \in Closers, Send(c)
  PROVE  CloseInv'
<1>1. /\ at[c] = "read" /\ at' = [at EXCEPT ![c] = "sent"] /\ up
      /\ inflight' = inflight \cup ({c} \X plan[c].keys) /\ stale' = stale \ {c}
      /\ blamed' \in {blamed, blamed \cup {Of(c)}}
      /\ UNCHANGED <<row, held, table, plan, opening, orphan, worker, ghost, up>>
  BY DEF Send, ledgerVars, brokerVars, workVars, bootVars
<1>2.  Of(c) \notin blamed' =>
        /\ \A o \in orphan : Of(o[1]) # Of(c)
        /\ \A d \in Closers : Of(d) = Of(c) /\ d # c => ~Out(d)
        /\ Within(Of(c), plan[c].lots)
  <2> SUFFICES ASSUME Of(c) \notin blamed'
               PROVE  /\ \A o \in orphan : Of(o[1]) # Of(c)
                      /\ \A d \in Closers : Of(d) = Of(c) /\ d # c => ~Out(d)
                      /\ Within(Of(c), plan[c].lots)
    OBVIOUS
  <2>1. /\ c \notin stale /\ Of(c) \notin ghost \cup blamed /\ TryAcquire(c)
        /\ \A o \in orphan : Of(o[1]) # Of(c)
        /\ \A d \in Closers : Of(d) = Of(c) /\ d # c /\ at[d] \in {"sent", "filled"}
             => plan[d].keys \cap plan[c].keys # {}
    BY DEF Send
  <2>2. ASSUME NEW d \in Closers, Of(d) = Of(c), d # c, Out(d) PROVE FALSE
    <3>1. PICK k : k \in plan[d].keys /\ k \in plan[c].keys
      BY <2>1, <2>2 DEF Out
    <3>2. <<d, k>> \in inflight
      BY <2>2, <3>1 DEF CloseInv, KeysHeld, Out
    <3> QED BY <2>1, <2>2, <3>1, <3>2 DEF TryAcquire
  <2>3. UpToDate(Of(c))
    BY <1>1, <2>1, <2>2 DEF UpToDate, Out
  <2>4. Within(Of(c), plan[c].lots)
    BY <1>1, <2>1, <2>3 DEF CloseInv, ReadWithin
  <2> QED BY <2>1, <2>2, <2>4
<1>3. OpensHaveNoRow'
  BY <1>1 DEF CloseInv, OpensHaveNoRow
<1>4. CloseTyped'
  BY <1>1, CloserFacts DEF CloseInv, CloseTyped, RowState, CloserPc, OpenPc
<1>5. WorkersFanOut'
  BY <1>1, CloserFacts DEF CloseInv, WorkersFanOut, CloseTyped
<1>6. LedgerCloses'
  BY <1>1, CloserFacts DEF CloseInv, LedgerCloses, CloseTyped
<1>7. PairTakesLedger'
  BY <1>1, CloserFacts DEF CloseInv, PairTakesLedger, CloseTyped
<1>8. KeysHeld'
  BY <1>1, CloserFacts DEF CloseInv, KeysHeld, CloseTyped
<1>9. OneOut'
  BY <1>1, <1>2, CloserFacts DEF CloseInv, OneOut, Out, CloseTyped
<1>10. OneOrphan'
  BY <1>1, CloserFacts DEF CloseInv, OneOrphan, CloseTyped
<1>11. OutOrOrphan'
  BY <1>1, <1>2, CloserFacts DEF CloseInv, OutOrOrphan, Out, CloseTyped
<1>12. SentWithin'
  BY <1>1, <1>2, CloserFacts DEF CloseInv, SentWithin, Within, CloseTyped
<1>13. ReadWithin'
  BY <1>1, CloserFacts DEF CloseInv, ReadWithin, Within, UpToDate, CloseTyped
<1>14. OpenRowHeld'
  BY <1>1, CloserFacts DEF CloseInv, OpenRowHeld, UpToDate, CloseTyped
<1>15. OthersAreGhosts'
  BY <1>1, CloserFacts DEF CloseInv, OthersAreGhosts, CloseTyped
<1>16. NobodyWhenDown'
  BY <1>1, CloserFacts DEF CloseInv, NobodyWhenDown, CloseTyped
<1>17. NotOverClosed'
  BY <1>1, CloserFacts DEF CloseInv, NotOverClosed, CloseTyped
<1> QED BY <1>3, <1>4, <1>5, <1>6, <1>7, <1>8, <1>9, <1>10, <1>11, <1>12, <1>13, <1>14, <1>15,
           <1>16, <1>17 DEF CloseInv

LEMMA CloseStartClose ==
  ASSUME GateInv, CloseInv, NEW c \in Closers, StartClose(c)
  PROVE  CloseInv'
<1>1. /\ at[c] = "none" /\ at' = [at EXCEPT ![c] = "read"] /\ up /\ Who(c) \in Producers
      /\ plan' = [plan EXCEPT ![c] = Plan(Who(c), Of(c))] /\ stale \subseteq stale'
      /\ UNCHANGED <<row, held, table, opening, orphan, worker, inflight, blamed, ghost, up>>
  BY DEF StartClose, ledgerVars, brokerVars, workVars
<1>2. /\ plan'[c] \in [lots : Int, keys : SUBSET Keys]
      /\ ClosesLedger(c) => plan'[c].lots = -1 /\ row[Of(c)] # "none"
      /\ Who(c) = "pair" => plan'[c].keys = {"ledger"}
      /\ c \notin stale' /\ UpToDate(Of(c)) => Within(Of(c), plan'[c].lots)
  <2>1. PICK w, t : w = Who(c) /\ t = Of(c)
    OBVIOUS
  <2>2. /\ t \in Trades /\ w \in Producers /\ w \notin Ops /\ plan'[c] = Plan(w, t) /\ Sees(w, t)
        /\ w \in {"line", "align"} /\ c \notin stale' => table[t] = held[t]
    <3>1. t \in Trades /\ w \in Producers /\ w \notin Ops
      BY <1>1, <2>1, CloserFacts, KillSwitchAssumption DEF ProducerNames
    <3>2. plan'[c] = Plan(w, t) /\ Sees(w, t)
      BY <1>1, <2>1 DEF StartClose, CloseInv, CloseTyped
    <3>3. w \in {"line", "align"} /\ c \notin stale' => table[t] = held[t]
      BY <2>1 DEF StartClose
    <3> QED BY <3>1, <3>2, <3>3
  <2>3. held[t] \in Int /\ table[t] \in Int
    BY <2>2 DEF CloseInv, CloseTyped
  <2>4. UpToDate(t) => held[t] >= 0 /\ (row[t] = "OPEN" => held[t] >= 1)
    BY <2>2 DEF CloseInv, UpToDate, NotOverClosed, OpenRowHeld
  <2>5. CASE w \in {"pair", "signal"}
    <3>1. row[t] = "OPEN" /\ Plan(w, t).lots = -1
      BY <2>2, <2>5 DEF Sees, PairSees, SignalSees, Plan, LotsOf
    <3>2. KeysOf(w, t) \subseteq Keys /\ (w = "pair" => KeysOf(w, t) = {"ledger"})
      BY <2>5 DEF KeysOf, Keys
    <3>3. Plan(w, t) \in [lots : Int, keys : SUBSET Keys] /\ (w = "pair" => Plan(w, t).keys = {"ledger"})
      BY <2>5, <3>2 DEF Plan, LotsOf
    <3>4. UpToDate(t) => Within(t, -1)
      BY <2>3, <2>4, <3>1 DEF Within
    <3> QED BY <2>1, <2>2, <3>1, <3>3, <3>4
  <2>6. CASE w = "line"
    <3>1. Plan(w, t).lots = - table[t] /\ Plan(w, t) \in [lots : Int, keys : SUBSET Keys]
      BY <2>3, <2>6 DEF Plan, LotsOf, KeysOf, LineKeys, Keys
    <3>2. ~ClosesLedger(c) /\ w # "pair"
      BY <2>1, <2>2, <2>6 DEF ClosesLedger
    <3>3. table[t] = held[t] /\ held[t] >= 0 => Within(t, - table[t])
      BY <2>3 DEF Within
    <3> QED BY <2>1, <2>2, <2>4, <2>6, <3>1, <3>2, <3>3
  <2>7. CASE w = "align"
    <3>1. Plan(w, t).lots = AlignDelta(t) /\ Plan(w, t) \in [lots : Int, keys : SUBSET Keys]
      BY <2>3, <2>7 DEF Plan, LotsOf, KeysOf, AlignKeys, AlignDelta, InLedger, Keys
    <3>2. ~ClosesLedger(c) /\ w # "pair"
      BY <2>1, <2>2, <2>7 DEF ClosesLedger
    <3>3. table[t] = held[t] /\ held[t] >= 0 /\ (row[t] = "OPEN" => held[t] >= 1) => Within(t, AlignDelta(t))
      BY <2>3 DEF Within, AlignDelta, InLedger
    <3> QED BY <2>1, <2>2, <2>4, <2>7, <3>1, <3>2, <3>3
  <2>8. CASE w = "gateway"
    <3>1. Plan(w, t).lots = - held[t] /\ Plan(w, t) \in [lots : Int, keys : SUBSET Keys]
      BY <2>3, <2>8 DEF Plan, LotsOf, KeysOf, Keys
    <3>2. ~ClosesLedger(c) /\ w # "pair"
      BY <2>1, <2>2, <2>8 DEF ClosesLedger
    <3>3. held[t] >= 0 => Within(t, - held[t])
      BY <2>3 DEF Within
    <3> QED BY <2>1, <2>2, <2>4, <3>1, <3>2, <3>3
  <2> QED BY <2>2, <2>5, <2>6, <2>7, <2>8, KillSwitchAssumption DEF ProducerNames
<1>3. OpensHaveNoRow' /\ OneOrphan' /\ NotOverClosed'
  BY <1>1 DEF CloseInv, OpensHaveNoRow, OneOrphan, NotOverClosed
<1>4. CloseTyped'
  BY <1>1, <1>2, CloserFacts DEF CloseInv, CloseTyped, RowState, CloserPc, OpenPc
<1>5. WorkersFanOut'
  BY <1>1, KillSwitchAssumption, CloserFacts DEF CloseInv, WorkersFanOut, CloseTyped
<1>6. LedgerCloses'
  BY <1>1, <1>2, CloserFacts DEF CloseInv, LedgerCloses, CloseTyped
<1>7. PairTakesLedger'
  BY <1>1, <1>2, CloserFacts DEF CloseInv, PairTakesLedger, CloseTyped
<1>8. KeysHeld'
  BY <1>1, CloserFacts DEF CloseInv, KeysHeld, CloseTyped
<1>9. OneOut'
  BY <1>1, CloserFacts DEF CloseInv, OneOut, Out, CloseTyped
<1>10. OutOrOrphan'
  BY <1>1, CloserFacts DEF CloseInv, OutOrOrphan, Out, CloseTyped
<1>11. SentWithin'
  BY <1>1, CloserFacts DEF CloseInv, SentWithin, Within, CloseTyped
<1>12. ReadWithin'
  BY <1>1, <1>2, CloserFacts DEF CloseInv, ReadWithin, Within, UpToDate, CloseTyped
<1>13. OpenRowHeld'
  BY <1>1, CloserFacts DEF CloseInv, OpenRowHeld, UpToDate, CloseTyped
<1>14. OthersAreGhosts'
  BY <1>1, CloserFacts DEF CloseInv, OthersAreGhosts, CloseTyped
<1>15. NobodyWhenDown'
  BY <1>1, CloserFacts DEF CloseInv, NobodyWhenDown, CloseTyped
<1> QED BY <1>3, <1>4, <1>5, <1>6, <1>7, <1>8, <1>9, <1>10, <1>11, <1>12, <1>13, <1>14, <1>15 DEF
           CloseInv

LEMMA CloseRiskExit ==
  ASSUME GateInv, CloseInv, NEW t \in Trades, RiskExit(t), NEW c, c = <<"pair", t>>
  PROVE  CloseInv'
<1>1. /\ at' = [at EXCEPT ![c] = IF at[c] = "none" THEN "read" ELSE at[c]] /\ up
      /\ plan' = [plan EXCEPT ![c] = Plan("pair", t)]
      /\ UNCHANGED <<row, held, table, opening, orphan, worker, inflight, blamed, ghost, stale, up>>
  BY DEF RiskExit, ledgerVars, brokerVars, workVars, histVars
<1>2. /\ Plan("pair", t) = [lots |-> -1, keys |-> {"ledger"}]
      /\ Plan("pair", t) \in [lots : Int, keys : SUBSET Keys]
      /\ row[t] = "OPEN" /\ c \in Closers /\ Who(c) = "pair" /\ Of(c) = t /\ Who(c) \notin Ops
      /\ ClosesLedger(c) /\ (UpToDate(t) => Within(t, -1))
  <2>1. /\ Plan("pair", t) = [lots |-> -1, keys |-> {"ledger"}]
        /\ Plan("pair", t) \in [lots : Int, keys : SUBSET Keys]
    BY DEF Plan, LotsOf, KeysOf, Keys
  <2>2. row[t] = "OPEN" /\ "pair" \in Producers
    BY DEF RiskExit, PairSees
  <2>3. c \in Closers /\ Who(c) = "pair" /\ Of(c) = t /\ Who(c) \notin Ops /\ ClosesLedger(c)
    BY <1>1, <2>2, CloserFacts, KillSwitchAssumption DEF ClosesLedger, ProducerNames
  <2>4. UpToDate(t) => Within(t, -1)
    BY <2>2 DEF CloseInv, CloseTyped, OpenRowHeld, Within
  <2> QED BY <2>1, <2>2, <2>3, <2>4
<1>3. at[c] # "none" => plan' = plan /\ at' = at
  BY <1>1, <1>2 DEF CloseInv, CloseTyped, LedgerCloses, PairTakesLedger
<1>4. at[c] = "none" => at' = [at EXCEPT ![c] = "read"]
  BY <1>1, <1>2 DEF CloseInv, CloseTyped
<1>5. OpensHaveNoRow' /\ OneOrphan' /\ NotOverClosed'
  BY <1>1 DEF CloseInv, OpensHaveNoRow, OneOrphan, NotOverClosed
<1>6. CloseTyped'
  BY <1>1, <1>2, <1>3, <1>4, CloserFacts DEF CloseInv, CloseTyped, RowState, CloserPc, OpenPc
<1>7. WorkersFanOut'
  BY <1>1, <1>2, <1>3, <1>4, CloserFacts DEF CloseInv, WorkersFanOut, CloseTyped
<1>8. LedgerCloses'
  BY <1>1, <1>2, <1>3, <1>4, CloserFacts DEF CloseInv, LedgerCloses, CloseTyped
<1>9. PairTakesLedger'
  BY <1>1, <1>2, <1>3, <1>4, CloserFacts DEF CloseInv, PairTakesLedger, CloseTyped
<1>10. KeysHeld'
  BY <1>1, <1>2, <1>3, <1>4, CloserFacts DEF CloseInv, KeysHeld, CloseTyped
<1>11. OneOut'
  BY <1>1, <1>2, <1>3, <1>4, CloserFacts DEF CloseInv, OneOut, Out, CloseTyped
<1>12. OutOrOrphan'
  BY <1>1, <1>2, <1>3, <1>4, CloserFacts DEF CloseInv, OutOrOrphan, Out, CloseTyped
<1>13. SentWithin'
  BY <1>1, <1>2, <1>3, <1>4, CloserFacts DEF CloseInv, SentWithin, Within, CloseTyped
<1>14. ReadWithin'
  <2>1. CASE at[c] # "none"
    BY <1>1, <1>3, <2>1 DEF CloseInv, ReadWithin, Within, UpToDate
  <2>2. CASE at[c] = "none"
    <3>1. plan'[c].lots = -1 /\ \A d \in Closers : d # c => plan'[d] = plan[d] /\ at'[d] = at[d]
      BY <1>1, <1>2 DEF CloseInv, CloseTyped
    <3>2. \A x \in Trades : UpToDate(x)' => UpToDate(x)
      BY <1>1, <1>2, <1>4, <2>2 DEF CloseInv, CloseTyped, UpToDate
    <3> QED BY <1>1, <1>2, <3>1, <3>2, CloserFacts DEF CloseInv, ReadWithin, Within
  <2> QED BY <2>1, <2>2
<1>15. OpenRowHeld'
  BY <1>1, <1>2, <1>3, <1>4, CloserFacts DEF CloseInv, OpenRowHeld, UpToDate, CloseTyped
<1>16. OthersAreGhosts'
  BY <1>1, <1>2, <1>3, <1>4, CloserFacts, ZenonT(60) DEF CloseInv, OthersAreGhosts, CloseTyped
<1>17. NobodyWhenDown'
  BY <1>1, <1>2, <1>3, <1>4, CloserFacts DEF CloseInv, NobodyWhenDown, CloseTyped
<1> QED BY <1>5, <1>6, <1>7, <1>8, <1>9, <1>10, <1>11, <1>12, <1>13, <1>14, <1>15, <1>16, <1>17
           DEF CloseInv

(* The closers a worker starts with: one per OPEN row, or none at all.     *)
FannedOut(i, S) ==
  /\ S \subseteq OpenRows /\ (worker'[i] # "flatten" => S = {})
  /\ at' = [c \in Closers |-> IF Who(c) = i /\ Of(c) \in S THEN "read" ELSE at[c]]
  /\ plan' = [c \in Closers |-> IF Who(c) = i /\ Of(c) \in S THEN Plan(i, Of(c)) ELSE plan[c]]

LEMMA CloseStartWorker ==
  ASSUME GateInv, CloseInv, NEW i \in Ops, StartWorker(i)
  PROVE  CloseInv'
<1>1. /\ worker[i] = "start" /\ \A j \in Ops : j # i => worker'[j] = worker[j]
      /\ up
      /\ UNCHANGED <<row, held, table, opening, orphan, inflight, blamed, ghost, stale, up>>
  BY DEF StartWorker, ledgerVars, brokerVars, gateVars, bootVars, GateInv, GateTyped
<1>2. PICK S : FannedOut(i, S)
  <2>1. CASE at' = at /\ plan' = plan
    <3>1. FannedOut(i, {})
      BY <2>1 DEF CloseInv, CloseTyped, FannedOut
    <3> QED BY <3>1
  <2>2. CASE ~(at' = at /\ plan' = plan)
    <3>1. /\ worker' = [worker EXCEPT ![i] = "flatten"]
          /\ at' = [c \in Closers |-> IF Who(c) = i /\ Of(c) \in OpenRows THEN "read" ELSE at[c]]
          /\ plan' = [c \in Closers |-> IF Who(c) = i /\ Of(c) \in OpenRows THEN Plan(i, Of(c))
                                        ELSE plan[c]]
      BY <2>2 DEF StartWorker
    <3>2. worker'[i] = "flatten"
      BY <3>1 DEF GateInv, GateTyped
    <3>3. FannedOut(i, OpenRows)
      BY <3>1, <3>2 DEF FannedOut
    <3> QED BY <3>3
  <2> QED BY <2>1, <2>2
<1>3. /\ \A t \in S : row[t] = "OPEN"
      /\ \A c \in Closers : Who(c) = i => /\ at[c] = "none" /\ ClosesLedger(c) /\ Who(c) # "pair"
                                         /\ Plan(i, Of(c)).lots = -1
                                         /\ Plan(i, Of(c)) \in [lots : Int, keys : SUBSET Keys]
  <2>1. \A t : Plan(i, t).lots = -1 /\ Plan(i, t) \in [lots : Int, keys : SUBSET Keys]
    BY KillSwitchAssumption DEF Plan, LotsOf, KeysOf, Keys, ProducerNames
  <2>2. \A c \in Closers : Who(c) = i => at[c] = "none"
    BY <1>1, CloserFacts DEF CloseInv, WorkersFanOut
  <2>3. i # "pair" /\ \A c \in Closers : Who(c) = i => ClosesLedger(c)
    BY KillSwitchAssumption DEF ClosesLedger, ProducerNames
  <2> QED BY <1>2, <2>1, <2>2, <2>3 DEF FannedOut, OpenRows
<1>4. \A x \in Trades : UpToDate(x)' => UpToDate(x)
  BY <1>1, <1>2, <1>3 DEF FannedOut, CloseInv, CloseTyped, UpToDate
<1>5. OpensHaveNoRow' /\ OneOrphan' /\ NotOverClosed'
  BY <1>1 DEF CloseInv, OpensHaveNoRow, OneOrphan, NotOverClosed
<1>6. CloseTyped'
  BY <1>1, <1>2, <1>3, CloserFacts DEF FannedOut, CloseInv, CloseTyped, RowState, CloserPc, OpenPc
<1>7. WorkersFanOut'
  BY <1>1, <1>2, <1>3, CloserFacts DEF FannedOut, CloseInv, WorkersFanOut, CloseTyped
<1>8. LedgerCloses'
  BY <1>1, <1>2, <1>3, CloserFacts DEF FannedOut, CloseInv, LedgerCloses, CloseTyped
<1>9. PairTakesLedger'
  BY <1>1, <1>2, <1>3, CloserFacts DEF FannedOut, CloseInv, PairTakesLedger, CloseTyped
<1>10. KeysHeld'
  BY <1>1, <1>2, <1>3, CloserFacts DEF FannedOut, CloseInv, KeysHeld, CloseTyped
<1>11. OneOut'
  BY <1>1, <1>2, <1>3, CloserFacts DEF FannedOut, CloseInv, OneOut, Out, CloseTyped
<1>12. OutOrOrphan'
  BY <1>1, <1>2, <1>3, CloserFacts DEF FannedOut, CloseInv, OutOrOrphan, Out, CloseTyped
<1>13. SentWithin'
  BY <1>1, <1>2, <1>3, CloserFacts DEF FannedOut, CloseInv, SentWithin, Within, CloseTyped
<1>14. ReadWithin'
  <2> SUFFICES ASSUME NEW c \in Closers, at'[c] = "read", c \notin stale, UpToDate(Of(c))
               PROVE  Within(Of(c), plan'[c].lots)
    BY <1>1, <1>4, CloserFacts DEF ReadWithin, Within
  <2>1. CASE Who(c) = i /\ Of(c) \in S
    <3>1. held[Of(c)] \in Int /\ held[Of(c)] >= 1 /\ plan'[c].lots = -1
      BY <1>2, <1>3, <2>1, CloserFacts DEF FannedOut, CloseInv, CloseTyped, OpenRowHeld
    <3> QED BY <3>1 DEF Within
  <2>2. CASE ~(Who(c) = i /\ Of(c) \in S)
    BY <1>2, <2>2 DEF FannedOut, CloseInv, ReadWithin
  <2> QED BY <2>1, <2>2
<1>15. OpenRowHeld'
  BY <1>1, <1>4, CloserFacts DEF CloseInv, OpenRowHeld, UpToDate, CloseTyped
<1>16. OthersAreGhosts'
  BY <1>1, <1>2, <1>3, CloserFacts DEF FannedOut, CloseInv, OthersAreGhosts, CloseTyped
<1>17. NobodyWhenDown'
  BY <1>1, <1>2, <1>3, CloserFacts DEF FannedOut, CloseInv, NobodyWhenDown, CloseTyped
<1> QED BY <1>5, <1>6, <1>7, <1>8, <1>9, <1>10, <1>11, <1>12, <1>13, <1>14, <1>15, <1>16, <1>17
           DEF CloseInv

(* Rows that are closed or found flat, and trades that get the blame.      *)
LEMMA CloseRowsClosed ==
  ASSUME CloseInv, row' \in [Trades -> RowState], blamed \subseteq blamed',
         \A t \in Trades : row'[t] = row[t] \/ (row[t] # "none" /\ row'[t] \in {"CLOSED", "PENDING"}),
         WorkersFanOut',
         UNCHANGED <<held, table, at, plan, opening, orphan, inflight, ghost, stale, up>>
  PROVE  CloseInv'
<1>1. /\ CloseTyped' /\ PairTakesLedger' /\ KeysHeld' /\ OthersAreGhosts' /\ NobodyWhenDown'
      /\ NotOverClosed'
  BY DEF CloseInv, CloseTyped, PairTakesLedger, KeysHeld, OthersAreGhosts, NobodyWhenDown, NotOverClosed
<1>2. LedgerCloses' /\ OpensHaveNoRow'
  BY CloserFacts DEF CloseInv, CloseTyped, LedgerCloses, OpensHaveNoRow
<1>3. OneOut' /\ OneOrphan' /\ OutOrOrphan' /\ SentWithin'
  BY DEF CloseInv, OneOut, OneOrphan, OutOrOrphan, SentWithin, Within, Out
<1>4. ReadWithin' /\ OpenRowHeld'
  BY DEF CloseInv, ReadWithin, OpenRowHeld, Within, UpToDate
<1> QED BY <1>1, <1>2, <1>3, <1>4 DEF CloseInv

LEMMA RowsOf ==
  ASSUME CloseInv, NEW STATE closed, NEW STATE pending, CloseRows(closed, pending),
         \A t \in closed \cup pending : t \in Trades /\ row[t] # "none"
  PROVE  /\ row' \in [Trades -> RowState]
         /\ \A t \in Trades : row'[t] = row[t] \/ (row[t] # "none" /\ row'[t] \in {"CLOSED", "PENDING"})
BY DEF CloseRows, CloseInv, CloseTyped, RowState

LEMMA CloseReconcile ==
  ASSUME GateInv, CloseInv, NEW i \in Ops, Reconcile(i)
  PROVE  CloseInv'
<1>1. /\ UNCHANGED <<held, table, at, plan, opening, orphan, inflight, ghost, stale, up, blamed>>
      /\ CloseRows(TierTwo, {})
  BY DEF Reconcile, brokerVars, closeVars, histVars, bootVars
<1>2. WorkersFanOut'
  BY <1>1 DEF Reconcile, CloseInv, WorkersFanOut, GateInv, GateTyped
<1>3. \A t \in TierTwo \cup {} : t \in Trades /\ row[t] # "none"
  BY DEF TierTwo, OpenRows, Engine
<1> QED BY <1>1, <1>2, <1>3, RowsOf, CloseRowsClosed

LEMMA CloseRetry ==
  ASSUME GateInv, CloseInv, LedgerTyped, NEW i \in Ops, RetryUnresolved(i) \/ AccountFlattened(i)
  PROVE  CloseInv'
<1>1. /\ UNCHANGED <<held, table, at, plan, opening, orphan, inflight, ghost, stale, up, worker>>
      /\ blamed \subseteq blamed'
      /\ CloseRows(TierTwo, {}) \/ CloseRows(Priced(i), Unpriced(i))
  BY DEF RetryUnresolved, AccountFlattened, FollowBrokerPositions, brokerVars, closeVars, bootVars
<1>2. WorkersFanOut'
  BY <1>1 DEF CloseInv, WorkersFanOut
<1>3. \A t \in TierTwo \cup {} : t \in Trades /\ row[t] # "none"
  BY DEF TierTwo, OpenRows, Engine
<1>4. \A t \in Priced(i) \cup Unpriced(i) : t \in Trades /\ row[t] # "none"
  BY DEF Priced, Unpriced, FlatIn, Snapshot, OpenPositions, LedgerTyped
<1> QED BY <1>1, <1>2, <1>3, <1>4, RowsOf, CloseRowsClosed

LEMMA CloseCommitOperation ==
  ASSUME GateInv, CloseInv, NEW s \in Scopes, CommitOperation(s)
  PROVE  CloseInv'
<1>1. request[s] = "armed"
  BY DEF CommitOperation
<1>2. PICK i \in Ops : op[i] = "none" /\ i = CHOOSE j \in FreeOps : TRUE
  BY <1>1, SomeFreeOp DEF FreeOps
<1>3. /\ \A j \in Ops : j # i => worker'[j] = worker[j]
      /\ UNCHANGED <<row, held, table, at, plan, opening, orphan, inflight, ghost, stale, up, blamed>>
  BY <1>2 DEF CommitOperation, brokerVars, closeVars, histVars, bootVars, GateInv, GateTyped
<1>4. WorkersFanOut'
  BY <1>2, <1>3 DEF GateInv, FreeIsUntouched, CloseInv, WorkersFanOut
<1> QED BY <1>3, <1>4, CloseRowsClosed DEF CloseInv, CloseTyped

LEMMA CloseFinalize ==
  ASSUME GateInv, CloseInv, NEW i \in Ops, Finalize(i)
  PROVE  CloseInv'
<1>1. /\ worker[i] = "finalize" /\ worker' = [worker EXCEPT ![i] = "none"]
      /\ UNCHANGED <<row, held, table, at, plan, opening, orphan, inflight, ghost, stale, up, blamed>>
  BY DEF Finalize, ledgerVars, brokerVars, closeVars, histVars, bootVars
<1>2. WorkersFanOut'
  BY <1>1 DEF CloseInv, WorkersFanOut, GateInv, GateTyped
<1> QED BY <1>1, <1>2, CloseRowsClosed DEF CloseInv, CloseTyped

LEMMA CloseSweep ==
  ASSUME GateInv, CloseInv, Sweep
  PROVE  CloseInv'
<1>1. UNCHANGED <<row, held, at, plan, opening, orphan, inflight, ghost, stale, up, blamed, worker>>
  BY DEF Sweep, ledgerVars, closeVars, histVars
<1>2. table' \in [Trades -> Int]
  BY DEF Sweep, Snapshots, CloseInv, CloseTyped
<1>3. CloseTyped'
  BY <1>1, <1>2 DEF CloseInv, CloseTyped
<1>4. /\ WorkersFanOut' /\ LedgerCloses' /\ PairTakesLedger' /\ KeysHeld' /\ OpensHaveNoRow'
      /\ OthersAreGhosts' /\ NobodyWhenDown' /\ NotOverClosed'
  BY <1>1 DEF CloseInv, WorkersFanOut, LedgerCloses, PairTakesLedger, KeysHeld, OpensHaveNoRow,
     OthersAreGhosts, NobodyWhenDown, NotOverClosed
<1>5. OneOut' /\ OneOrphan' /\ OutOrOrphan' /\ SentWithin' /\ ReadWithin' /\ OpenRowHeld'
  BY <1>1 DEF CloseInv, OneOut, OneOrphan, OutOrOrphan, SentWithin, ReadWithin, OpenRowHeld, Within,
     UpToDate, Out
<1> QED BY <1>3, <1>4, <1>5 DEF CloseInv

LEMMA CloseCrash ==
  ASSUME GateInv, CloseInv, Crash
  PROVE  CloseInv'
<1>1. /\ at' = [c \in Closers |-> "none"] /\ plan' = [c \in Closers |-> NoPlan]
      /\ NoPlan \in [lots : Int, keys : SUBSET Keys] /\ up' = FALSE
      /\ opening' = [t \in Trades |-> IF opening[t] = "sent" THEN "sent" ELSE "none"]
      /\ ghost' = ghost \cup {Of(c) : c \in {d \in Closers : at[d] = "filled"}}
      /\ UNCHANGED <<row, held, table, blamed>>
  BY DEF Crash, None, NoPlan, ledgerVars
<1>2. \A o \in orphan' : \/ o \in orphan
                         \/ \E c \in Closers : at[c] = "sent" /\ o = Orphan(c)
  BY DEF Crash
<1>3. \A c \in Closers : Orphan(c)[1] = c /\ Orphan(c)[2] = plan[c].lots
  BY DEF Orphan
<1>4. /\ WorkersFanOut' /\ PairTakesLedger' /\ KeysHeld' /\ OpensHaveNoRow' /\ OneOut' /\ OutOrOrphan'
      /\ ReadWithin' /\ OthersAreGhosts' /\ NobodyWhenDown' /\ NotOverClosed'
  BY <1>1, CloserFacts DEF CloseInv, CloseTyped, WorkersFanOut, PairTakesLedger, KeysHeld,
     OpensHaveNoRow, OneOut, OutOrOrphan, ReadWithin, OthersAreGhosts, NobodyWhenDown, NotOverClosed, Out
<1>5. CloseTyped'
  BY <1>1, <1>2, <1>3 DEF CloseInv, CloseTyped, CloserPc, OpenPc
<1>6. LedgerCloses' /\ SentWithin'
  BY <1>1, <1>2, <1>3 DEF CloseInv, CloseTyped, LedgerCloses, SentWithin, Within
<1>7. OneOrphan'
  BY <1>1, <1>2, <1>3 DEF CloseInv, CloseTyped, OneOrphan, OneOut, OutOrOrphan, Out
<1>8. OpenRowHeld'
  BY <1>1, CloserFacts DEF CloseInv, CloseTyped, OpenRowHeld, UpToDate
<1> QED BY <1>4, <1>5, <1>6, <1>7, <1>8 DEF CloseInv

LEMMA CloseRestart ==
  ASSUME GateInv, CloseInv, Restart
  PROVE  CloseInv'
<1>1. /\ ~up /\ up' = TRUE
      /\ UNCHANGED <<row, held, table, at, plan, opening, orphan, inflight, ghost, stale, blamed>>
  BY DEF Restart, ledgerVars, brokerVars, closeVars, histVars
<1>2. WorkersFanOut' /\ NobodyWhenDown'
  BY <1>1, CloserFacts DEF CloseInv, WorkersFanOut, NobodyWhenDown
<1>3. /\ CloseTyped' /\ LedgerCloses' /\ PairTakesLedger' /\ KeysHeld' /\ OpensHaveNoRow'
      /\ OthersAreGhosts' /\ NotOverClosed'
  BY <1>1 DEF CloseInv, CloseTyped, LedgerCloses, PairTakesLedger, KeysHeld, OpensHaveNoRow,
     OthersAreGhosts, NotOverClosed
<1>4. OneOut' /\ OneOrphan' /\ OutOrOrphan' /\ SentWithin' /\ ReadWithin' /\ OpenRowHeld'
  BY <1>1 DEF CloseInv, OneOut, OneOrphan, OutOrOrphan, SentWithin, ReadWithin, OpenRowHeld, Within,
     UpToDate, Out
<1> QED BY <1>2, <1>3, <1>4 DEF CloseInv

LEMMA CloseInit == Init => CloseInv
<1> SUFFICES ASSUME Init PROVE CloseInv
  OBVIOUS
<1>1. /\ row \in [Trades -> {"none", "OPEN"}] /\ held = [t \in Trades |-> IF row[t] = "OPEN" THEN 1 ELSE 0]
      /\ table = held /\ orphan = {} /\ at = [c \in Closers |-> "none"]
      /\ plan = [c \in Closers |-> NoPlan] /\ opening = [t \in Trades |-> "none"]
      /\ NoPlan \in [lots : Int, keys : SUBSET Keys]
  BY DEF Init, None, NoPlan
<1>2. CloseTyped /\ NotOverClosed /\ OpenRowHeld /\ OpensHaveNoRow
  BY <1>1 DEF CloseTyped, RowState, CloserPc, OpenPc, NotOverClosed, OpenRowHeld, OpensHaveNoRow
<1>3. /\ WorkersFanOut /\ LedgerCloses /\ PairTakesLedger /\ KeysHeld /\ OneOut /\ OneOrphan
      /\ OutOrOrphan /\ SentWithin /\ ReadWithin /\ OthersAreGhosts /\ NobodyWhenDown
  BY <1>1, CloserFacts DEF WorkersFanOut, LedgerCloses, PairTakesLedger, KeysHeld, OneOut, OneOrphan,
     OutOrOrphan, SentWithin, ReadWithin, OthersAreGhosts, NobodyWhenDown, Out
<1> QED BY <1>2, <1>3 DEF CloseInv

LEMMA LedgerTypedInv == Init => LedgerTyped
BY DEF Init, LedgerTyped, Zero

LEMMA LedgerTypedStep ==
  ASSUME GateInv, CloseInv, LedgerTyped, [Next]_vars
  PROVE  LedgerTyped'
<1>1. ASSUME NEW s \in Scopes, CommitOperation(s) PROVE LedgerTyped'
  <2>1. \E i : /\ snap' = [snap EXCEPT ![i] = Captured(s)] /\ ksFilled' = ksFilled
               /\ scope' = [scope EXCEPT ![i] = s]
    BY <1>1 DEF CommitOperation
  <2>2. Captured(s) \subseteq Trades /\ s \in {"engine", "account"}
    BY KillSwitchAssumption DEF Captured, OpenPositions
  <2> QED BY <2>1, <2>2 DEF LedgerTyped
<1>2. ASSUME NEW c \in Closers, NEW lots, Trade(c, lots), UNCHANGED <<snap, scope>> PROVE LedgerTyped'
  BY <1>2, CloserFacts DEF Trade, LedgerTyped
<1>3. CASE UNCHANGED <<ksFilled, snap, scope>>
  BY <1>3 DEF LedgerTyped
<1>4. CASE Arming
  BY <1>1, <1>3, <1>4 DEF Arming, AccountBreach, ReturnExisting, ArmCache, RequestFails, ledgerVars, opVars
<1>5. CASE Opens
  BY <1>3, <1>5 DEF Opens, PassGate, FillOpen, PersistOpen, ledgerVars, opVars
<1>6. CASE \E c \in Closers : StartClose(c) \/ Refused(c) \/ Send(c) \/ FailClose(c) \/ EndClose(c)
  BY <1>3, <1>6 DEF StartClose, Refused, Send, FailClose, EndClose, Ended, ledgerVars, opVars
<1>7. CASE \E c \in Closers : FillClose(c)
  BY <1>2, <1>7 DEF FillClose, opVars
<1>8. CASE \E o \in orphan : OrphanEnds(o)
  BY <1>2, <1>3, <1>8 DEF OrphanEnds, opVars, CloseInv, CloseTyped
<1>9. CASE \E t \in Trades : RiskExit(t)
  BY <1>3, <1>9 DEF RiskExit, ledgerVars, opVars
<1>10. CASE Work
  BY <1>3, <1>10 DEF Work, StartWorker, Reconcile, Finalize, RetryUnresolved, AccountFlattened,
     ledgerVars, opVars
<1>11. CASE ClearCommit \/ ClearCache \/ Sweep \/ RetryFinalizes \/ Crash \/ Restart
  BY <1>3, <1>11 DEF ClearCommit, ClearCache, Sweep, RetryFinalizes, Crash, Restart, ledgerVars, opVars
<1>12. CASE UNCHANGED vars
  BY <1>3, <1>12 DEF vars, ledgerVars, opVars
<1> QED BY <1>4, <1>5, <1>6, <1>7, <1>8, <1>9, <1>10, <1>11, <1>12 DEF Next, Closes

LEMMA CloseStep ==
  ASSUME GateInv, CloseInv, LedgerTyped, [Next]_vars
  PROVE  CloseInv'
<1>1. CASE UNCHANGED <<row, held, table, at, plan, opening, orphan, worker, inflight, blamed, ghost,
                       stale, up>>
  <2>1. WorkersFanOut' /\ row' \in [Trades -> RowState]
    BY <1>1 DEF CloseInv, CloseTyped, WorkersFanOut
  <2> QED BY <1>1, <2>1, CloseRowsClosed
<1>2. CASE Arming
  BY <1>1, <1>2, CloseCommitOperation DEF Arming, AccountBreach, ReturnExisting, ArmCache,
     RequestFails, ledgerVars, brokerVars, workVars, closeVars, histVars, bootVars
<1>3. CASE ClearCommit \/ ClearCache \/ RetryFinalizes \/ UNCHANGED vars
  BY <1>1, <1>3 DEF ClearCommit, ClearCache, RetryFinalizes, vars, ledgerVars, brokerVars, workVars,
     closeVars, histVars, bootVars
<1>4. CASE Opens
  BY <1>4, ClosePassGate, CloseFillOpen, ClosePersistOpen DEF Opens
<1>5. CASE Closes
  BY <1>5, CloseStartClose, CloseRefused, CloseSend, CloseFillClose, CloseFailClose, CloseEndClose,
     CloseRiskExit, CloseOrphanEnds DEF Closes
<1>6. CASE Work
  BY <1>6, CloseStartWorker, CloseReconcile, CloseFinalize, CloseRetry DEF Work
<1> QED BY <1>2, <1>3, <1>4, <1>5, <1>6, CloseSweep, CloseCrash, CloseRestart DEF Next

(* No close takes a position past zero but in the ways Send lists: a row   *)
(* that another close ended since it was read, an order that is still at   *)
(* work or shares no key, a position closed at the broker only.            *)
THEOREM OverCloseKnown == Spec => []OverCloseIsKnown
<1>1. CloseInv => OverCloseIsKnown
  BY DEF CloseInv, NotOverClosed, CloseTyped, OverCloseIsKnown
<1> QED BY <1>1, GateInit, GateStep, CloseInit, CloseStep, LedgerTypedInv, LedgerTypedStep, PTL DEF Spec

----------------------------------------------------------------------------
(* COMPLETE.                                                               *)

Accounted(t) == t \in late \cup blamed

OneLot ==
  \A t \in Trades : ~Accounted(t) =>
    /\ held[t] <= 1
    /\ row[t] = "none" /\ opening[t] # "filled" => held[t] <= 0
    /\ row[t] \in {"CLOSED", "PENDING"} => held[t] <= 0
    /\ ksFilled[t] > 0 => held[t] <= 0 /\ row[t] # "none"
    /\ \A c \in Closers : Of(c) = t /\ at[c] = "filled" /\ ClosesLedger(c) => held[t] <= 0

SnapshotHasRows == \A i \in Ops : \A t \in snap[i] : row[t] # "none"

Began ==
  \A i \in Ops : /\ worker[i] \in {"flatten", "finalize"} => op[i] # "ACTIVATING"
                 /\ i \in todo \/ sweep = i => op[i] # "ACTIVATING" \/ scope[i] = "account"

(* The operations that OPENs no longer pass unseen.                        *)
Watching(i) == /\ Armed(i)
               /\ \/ worker[i] \in {"flatten", "finalize"}
                  \/ scope[i] = "engine" /\ op[i] # "ACTIVATING"

OpensAreLate ==
  \A i \in Ops : Watching(i) => \A t \in Trades : opening[t] # "none" => t \in late

FlatOf(S) == \A t \in S : held[t] > 0 => Accounted(t)

VerdictIsTrue ==
  /\ \A i \in Ops : worker[i] = "finalize" /\ verdict[i] = "COMPLETE" /\ op[i] # "CLEARED"
       => FlatOf(Engine)
  /\ \A i \in Ops : sweep = i /\ verdict[Idle] = "COMPLETE" /\ op[i] # "CLEARED"
       => FlatOf(Judged(i))

CompleteInv == /\ OneLot /\ SnapshotHasRows /\ Began /\ OpensAreLate
               /\ VerdictIsTrue /\ CompleteIsFlat

LEMMA CompleteInit == Init => CompleteInv
<1> SUFFICES ASSUME Init PROVE CompleteInv
  OBVIOUS
<1> USE DEF Init
<1>1. \A t \in Trades : /\ held[t] = IF row[t] = "OPEN" THEN 1 ELSE 0
                        /\ row[t] \in {"none", "OPEN"} /\ ksFilled[t] = 0
  BY DEF Zero
<1>2. \A c \in Closers : at[c] = "none"
  BY DEF None
<1>3. OneLot
  BY <1>1, <1>2 DEF OneLot
<1>4. \A i \in Ops : op[i] = "none" /\ worker[i] = "none" /\ snap[i] = {}
  BY DEF None
<1>5. SnapshotHasRows /\ Began
  BY <1>4, KillSwitchAssumption DEF SnapshotHasRows, Began
<1>6. OpensAreLate /\ CompleteIsFlat
  BY <1>4 DEF OpensAreLate, CompleteIsFlat, Watching, Armed
<1>7. VerdictIsTrue
  BY <1>4, KillSwitchAssumption DEF VerdictIsTrue
<1> QED BY <1>3, <1>5, <1>6, <1>7 DEF CompleteInv

(* A step that moves no operation and raises no position but one that is   *)
(* accounted for, or one that no operation judges.                         *)
Grows == late \subseteq late' /\ blamed \subseteq blamed'

Falls(t) == held'[t] <= held[t] \/ Accounted(t)'

LEMMA VerdictsKept ==
  ASSUME CloseTyped, CloseTyped', VerdictIsTrue, CompleteIsFlat, LedgerTyped, Grows,
         UNCHANGED <<op, scope, snap, worker, sweep, verdict>>,
         \A t \in Trades : Falls(t)
  PROVE  VerdictIsTrue' /\ CompleteIsFlat'
<1>1. \A t \in Trades : (held[t] > 0 => Accounted(t)) => (held'[t] > 0 => Accounted(t)')
  BY DEF Falls, Grows, Accounted, CloseTyped
<1>2. \A i \in Ops : Judged(i)' = Judged(i) /\ Judged(i) \subseteq Trades /\ Engine \subseteq Trades
  BY DEF Judged, Engine
<1>3. FlatOf(Engine) => FlatOf(Engine)'
  BY <1>1, <1>2 DEF FlatOf, Engine
<1>4. \A i \in Ops : FlatOf(Judged(i)) => FlatOf(Judged(i))'
  BY <1>1, <1>2 DEF FlatOf
<1>5. VerdictIsTrue'
  BY <1>3, <1>4 DEF VerdictIsTrue
<1>6. CompleteIsFlat'
  BY <1>1, <1>2 DEF CompleteIsFlat, Accounted
<1> QED BY <1>5, <1>6

LEMMA OpensKept ==
  ASSUME OpensAreLate, late \subseteq late',
         \A i \in Ops : Watching(i)' => Watching(i),
         \A t \in Trades : opening'[t] # "none" => opening[t] # "none" \/ t \in late'
  PROVE  OpensAreLate'
BY DEF OpensAreLate

LEMMA BeganKept ==
  ASSUME Began, SnapshotHasRows, UNCHANGED <<op, scope, snap, worker, todo, sweep>>,
         LedgerTyped, \A t \in Trades : row'[t] = "none" => row[t] = "none"
  PROVE  Began' /\ SnapshotHasRows' /\ \A i \in Ops : Watching(i)' = Watching(i)
BY DEF Began, SnapshotHasRows, LedgerTyped, Watching, Armed

(* What an action that leaves the operations alone has to show.            *)
LEMMA CompleteQuiet ==
  ASSUME CloseTyped, CloseTyped', LedgerTyped, CompleteInv, OneLot', Grows,
         UNCHANGED <<op, scope, snap, worker, todo, sweep, verdict>>,
         \A t \in Trades : Falls(t),
         \A t \in Trades : row'[t] = "none" => row[t] = "none",
         \A t \in Trades : opening'[t] # "none" => opening[t] # "none" \/ t \in late'
  PROVE  CompleteInv'
<1>1. Began' /\ SnapshotHasRows' /\ \A i \in Ops : Watching(i)' = Watching(i)
  BY BeganKept DEF CompleteInv
<1>2. OpensAreLate'
  BY <1>1, OpensKept DEF CompleteInv, Grows
<1>3. VerdictIsTrue' /\ CompleteIsFlat'
  BY VerdictsKept DEF CompleteInv
<1> QED BY <1>1, <1>2, <1>3 DEF CompleteInv

LEMMA CompletePassGate ==
  ASSUME GateInv, CloseInv, CloseInv', LedgerTyped, CompleteInv, NEW t \in Trades, PassGate(t)
  PROVE  CompleteInv'
<1>1. /\ up /\ ~cache /\ opening' = [opening EXCEPT ![t] = "sent"] /\ opening[t] = "none"
      /\ late' = IF unhydrated \/ (\E i \in raced : Armed(i)) THEN late \cup {t} ELSE late
      /\ UNCHANGED <<row, ksFilled, held, at, plan, blamed, op, scope, snap, worker, todo, sweep, verdict>>
  BY DEF PassGate, ledgerVars, brokerVars, opVars, workVars, closeVars
<1>2. Grows /\ \A x \in Trades : Falls(x)
  BY <1>1 DEF Grows, Falls, CloseInv, CloseTyped
<1>3. OneLot'
  BY <1>1 DEF CompleteInv, OneLot, Accounted, CloseInv, CloseTyped
<1>4. Began' /\ SnapshotHasRows' /\ \A i \in Ops : Watching(i)' = Watching(i)
  BY <1>1, BeganKept DEF CompleteInv
<1>5. OpensAreLate'
  <2> SUFFICES ASSUME NEW i \in Ops, Watching(i), NEW x \in Trades, opening'[x] # "none"
               PROVE  x \in late'
    BY <1>4 DEF OpensAreLate
  <2>1. unhydrated \/ i \in raced
    BY <1>1 DEF Watching, GateInv, ArmedIsCached
  <2>2. t \in late'
    BY <1>1, <2>1 DEF Watching
  <2>3. CASE x # t
    BY <1>1, <2>3 DEF CompleteInv, OpensAreLate, CloseInv, CloseTyped
  <2> QED BY <2>2, <2>3
<1>6. VerdictIsTrue' /\ CompleteIsFlat'
  BY <1>1, <1>2, VerdictsKept DEF CompleteInv, CloseInv
<1> QED BY <1>3, <1>4, <1>5, <1>6 DEF CompleteInv

(* The one action that raises a position: no operation judges the trade    *)
(* but one that watches it.                                                *)
LEMMA CompleteFillOpen ==
  ASSUME GateInv, CloseInv, CloseInv', LedgerTyped, CompleteInv, NEW t \in Trades, FillOpen(t)
  PROVE  CompleteInv'
<1>1. /\ opening[t] = "sent"
      /\ \/ held' = [held EXCEPT ![t] = held[t] + 1] /\ opening' = [opening EXCEPT ![t] = "filled"]
         \/ held' = held /\ opening' = [opening EXCEPT ![t] = "none"]
      /\ UNCHANGED <<row, ksFilled, at, plan, late, blamed, op, scope, snap, worker, todo, sweep, verdict>>
  BY DEF FillOpen, ledgerVars, opVars, workVars, closeVars, histVars
<1>2. row[t] = "none"
  BY <1>1 DEF CloseInv, OpensHaveNoRow
<1>3. OneLot'
  <2> SUFFICES ASSUME NEW x \in Trades, ~Accounted(x)
               PROVE  (/\ held[x] <= 1
                       /\ row[x] = "none" /\ opening[x] # "filled" => held[x] <= 0
                       /\ row[x] \in {"CLOSED", "PENDING"} => held[x] <= 0
                       /\ ksFilled[x] > 0 => held[x] <= 0 /\ row[x] # "none"
                       /\ \A c \in Closers : Of(c) = x /\ at[c] = "filled" /\ ClosesLedger(c) => held[x] <= 0)'
    BY <1>1 DEF OneLot, Accounted
  <2>1. CASE x # t
    BY <1>1, <2>1 DEF CompleteInv, OneLot, CloseInv, CloseTyped
  <2>2. CASE x = t
    <3>1. held[t] \in Int /\ held[t] <= 0 /\ ~(ksFilled[t] > 0)
      BY <1>1, <1>2, <2>2 DEF CompleteInv, OneLot, CloseInv, CloseTyped
    <3>2. \A c \in Closers : Of(c) = t /\ at[c] = "filled" => ~ClosesLedger(c)
      BY <1>2 DEF CloseInv, LedgerCloses
    <3>3. held'[t] <= 1 /\ (opening'[t] # "filled" => held'[t] <= 0)
      BY <1>1, <3>1 DEF CloseInv, CloseTyped
    <3> QED BY <1>1, <1>2, <2>2, <3>1, <3>2, <3>3
  <2> QED BY <2>1, <2>2
<1>4. Began' /\ SnapshotHasRows' /\ \A i \in Ops : Watching(i)' = Watching(i)
  BY <1>1, BeganKept DEF CompleteInv
<1>5. \A x \in Trades : opening'[x] # "none" => opening[x] # "none"
  BY <1>1 DEF CloseInv, CloseTyped
<1>6. OpensAreLate'
  BY <1>1, <1>4, <1>5, OpensKept DEF CompleteInv
<1>7. \A i \in Ops : t \notin snap[i]
  BY <1>2 DEF CompleteInv, SnapshotHasRows
<1>8. CASE t \in late
  <2>1. Grows /\ \A x \in Trades : Falls(x)
    BY <1>1, <1>8 DEF Grows, Falls, Accounted, CloseInv, CloseTyped
  <2> QED BY <1>1, <1>3, <1>4, <1>6, <2>1, VerdictsKept DEF CompleteInv, CloseInv
<1>9. CASE t \notin late
  <2>1. \A i \in Ops : ~Watching(i)
    BY <1>1, <1>9 DEF CompleteInv, OpensAreLate
  <2>2. \A i \in Ops : /\ op[i] = "COMPLETE" => scope[i] # "engine"
                       /\ worker[i] = "finalize" => op[i] = "CLEARED"
                       /\ sweep = i /\ op[i] # "CLEARED" => scope[i] # "engine"
    BY <2>1 DEF Watching, Armed, CompleteInv, Began, GateInv, FreeIsUntouched
  <2>3. \A i \in Ops : scope[i] # "engine" => Judged(i)' = Judged(i) /\ t \notin Judged(i)
    BY <1>1, <1>7 DEF Judged
  <2>4. \A x \in Trades : x # t => held'[x] = held[x] /\ (Accounted(x)' <=> Accounted(x))
    BY <1>1 DEF Accounted, CloseInv, CloseTyped
  <2>5. \A i \in Ops : Judged(i) \subseteq Trades
    BY DEF Judged, Engine
  <2>6. CompleteIsFlat'
    BY <1>1, <2>2, <2>3, <2>4, <2>5 DEF CompleteInv, CompleteIsFlat, Accounted
  <2>7. VerdictIsTrue'
    <3>1. \A i \in Ops : worker'[i] = "finalize" => op'[i] = "CLEARED"
      BY <1>1, <2>2
    <3>2. \A i \in Ops : scope[i] # "engine" /\ FlatOf(Judged(i)) => FlatOf(Judged(i))'
      BY <2>3, <2>4, <2>5 DEF FlatOf
    <3> QED BY <1>1, <2>2, <3>1, <3>2 DEF CompleteInv, VerdictIsTrue
  <2> QED BY <1>3, <1>4, <1>6, <2>6, <2>7 DEF CompleteInv
<1> QED BY <1>8, <1>9

LEMMA CompletePersistOpen ==
  ASSUME CloseInv, CloseInv', LedgerTyped, CompleteInv, NEW t \in Trades, PersistOpen(t)
  PROVE  CompleteInv'
<1>1. /\ opening[t] = "filled" /\ opening' = [opening EXCEPT ![t] = "none"]
      /\ row' = [row EXCEPT ![t] = "OPEN"]
      /\ UNCHANGED <<held, ksFilled, at, plan, late, blamed, op, scope, snap, worker, todo, sweep, verdict>>
  BY DEF PersistOpen, brokerVars, opVars, workVars, closeVars, histVars
<1>2. Grows /\ \A x \in Trades : Falls(x)
  BY <1>1 DEF Grows, Falls, CloseInv, CloseTyped
<1>3. OneLot'
  BY <1>1 DEF CompleteInv, OneLot, Accounted, CloseInv, CloseTyped
<1>4. /\ \A x \in Trades : row'[x] = "none" => row[x] = "none"
      /\ \A x \in Trades : opening'[x] # "none" => opening[x] # "none"
  BY <1>1 DEF CloseInv, CloseTyped
<1> QED BY <1>1, <1>2, <1>3, <1>4, CompleteQuiet DEF CloseInv

(* A close that trades nothing.                                            *)
LEMMA CompleteUntraded ==
  ASSUME CloseInv, CloseInv', LedgerTyped, CompleteInv, Grows,
         UNCHANGED <<held, ksFilled, opening, op, scope, snap, worker, todo, sweep, verdict>>,
         \A c \in Closers : at'[c] = "filled" => at[c] = "filled",
         \A t \in Trades : \/ row'[t] = row[t]
                           \/ /\ row[t] = "OPEN" /\ row'[t] = "CLOSED"
                              /\ \E c \in Closers : Of(c) = t /\ at[c] = "filled" /\ ClosesLedger(c)
  PROVE  CompleteInv'
<1>1. \A x \in Trades : Falls(x)
  BY DEF Falls, CloseInv, CloseTyped
<1>2. OneLot'
  BY DEF CompleteInv, OneLot, Accounted, Grows, CloseInv, CloseTyped, LedgerTyped
<1> QED BY <1>1, <1>2, CompleteQuiet DEF CloseInv

LEMMA CompleteClosers ==
  ASSUME CloseInv, CloseInv', LedgerTyped, CompleteInv, NEW c \in Closers,
         StartClose(c) \/ Refused(c) \/ Send(c) \/ FailClose(c) \/ EndClose(c)
  PROVE  CompleteInv'
<1>1. /\ UNCHANGED <<held, ksFilled, opening, op, scope, snap, worker, todo, sweep, verdict>>
      /\ late' = late /\ blamed \subseteq blamed'
  BY DEF StartClose, Refused, Send, FailClose, EndClose, Ended, ledgerVars, brokerVars, opVars,
         workVars, histVars
<1>2. \E s \in {"none", "read", "sent", "failed"} : at' = [at EXCEPT ![c] = s]
  BY DEF StartClose, Refused, Send, FailClose, EndClose, Ended
<1>3. \A d \in Closers : at'[d] = "filled" => at[d] = "filled"
  BY <1>2 DEF CloseInv, CloseTyped
<1>4. CASE row' = row
  BY <1>1, <1>3, <1>4, CompleteUntraded DEF Grows
<1>5. CASE EndClose(c)
  <2>1. row' = [row EXCEPT ![Of(c)] = IF at[c] = "filled" /\ ClosesLedger(c) /\ @ = "OPEN" THEN "CLOSED" ELSE @]
    BY <1>5 DEF EndClose, Ended
  <2>2. \A t \in Trades : \/ row'[t] = row[t]
                          \/ /\ row[t] = "OPEN" /\ row'[t] = "CLOSED" /\ Of(c) = t
                             /\ at[c] = "filled" /\ ClosesLedger(c)
    BY <2>1 DEF CloseInv, CloseTyped
  <2> QED BY <1>1, <1>3, <2>2, CompleteUntraded DEF Grows
<1> QED BY <1>4, <1>5 DEF StartClose, Refused, Send, FailClose, ledgerVars

LEMMA CompleteRiskExit ==
  ASSUME CloseInv, CloseInv', LedgerTyped, CompleteInv, NEW t \in Trades, RiskExit(t)
  PROVE  CompleteInv'
<1>1. /\ UNCHANGED <<row, held, ksFilled, opening, op, scope, snap, worker, todo, sweep, verdict, late, blamed>>
      /\ at' = [at EXCEPT ![<<"pair", t>>] = IF @ = "none" THEN "read" ELSE @]
  BY DEF RiskExit, ledgerVars, brokerVars, opVars, workVars, histVars
<1>2. \A d \in Closers : at'[d] = "filled" => at[d] = "filled"
  BY <1>1 DEF CloseInv, CloseTyped
<1> QED BY <1>1, <1>2, CompleteUntraded DEF Grows

(* A close that trades: of a ledger close one lot, of another no more than *)
(* is held, unless the trade is to blame.                                  *)
LEMMA CompleteTraded ==
  ASSUME CloseInv, CloseInv', LedgerTyped, LedgerTyped', CompleteInv, Grows,
         NEW c \in Closers, NEW lots \in Int, Trade(c, lots),
         Of(c) \notin blamed => lots <= 0,
         ClosesLedger(c) => lots = -1 /\ row[Of(c)] # "none",
         UNCHANGED <<row, opening, op, scope, snap, worker, todo, sweep, verdict>>,
         \A d \in Closers : at'[d] = "filled" => at[d] = "filled" \/ d = c
  PROVE  CompleteInv'
<1>1. /\ held' = [held EXCEPT ![Of(c)] = held[Of(c)] + lots] /\ Of(c) \in Trades
      /\ ksFilled' = [ksFilled EXCEPT ![Of(c)] = IF CountsForTier2(c) THEN @ + 1 ELSE @]
      /\ CountsForTier2(c) => ClosesLedger(c)
  BY CloserFacts DEF Trade, CountsForTier2, ClosesLedger
<1>2. \A x \in Trades : Falls(x)
  BY <1>1 DEF Falls, CloseInv, CloseTyped, Accounted, Grows
<1>3. OneLot'
  <2> SUFFICES ASSUME NEW x \in Trades, ~Accounted(x)'
               PROVE  (/\ held[x] <= 1
                       /\ row[x] = "none" /\ opening[x] # "filled" => held[x] <= 0
                       /\ row[x] \in {"CLOSED", "PENDING"} => held[x] <= 0
                       /\ ksFilled[x] > 0 => held[x] <= 0 /\ row[x] # "none"
                       /\ \A d \in Closers : Of(d) = x /\ at[d] = "filled" /\ ClosesLedger(d) => held[x] <= 0)'
    BY DEF OneLot
  <2>1. ~Accounted(x)
    BY DEF Accounted, Grows
  <2>2. CASE x # Of(c)
    BY <1>1, <2>1, <2>2 DEF CompleteInv, OneLot, CloseInv, CloseTyped, LedgerTyped
  <2>3. CASE x = Of(c)
    <3>1. held[x] \in Int /\ held[x] <= 1 /\ lots <= 0 /\ held'[x] = held[x] + lots
      BY <1>1, <2>1, <2>3 DEF CompleteInv, OneLot, CloseInv, CloseTyped, Accounted
    <3>2. ClosesLedger(c) => held'[x] <= 0
      BY <3>1
    <3>3. held'[x] <= held[x] /\ held'[x] <= 1
      BY <3>1
    <3>4. ksFilled'[x] > 0 => ksFilled[x] > 0 \/ ClosesLedger(c)
      BY <1>1, <2>3 DEF LedgerTyped
    <3>5. held'[x] \in Int /\ (held[x] <= 0 => held'[x] <= 0)
      BY <3>1
    <3> QED BY <2>1, <2>3, <3>2, <3>3, <3>4, <3>5 DEF CompleteInv, OneLot, ClosesLedger
  <2> QED BY <2>2, <2>3
<1> QED BY <1>2, <1>3, CompleteQuiet DEF CloseInv

LEMMA CompleteFillClose ==
  ASSUME CloseInv, CloseInv', LedgerTyped, LedgerTyped', CompleteInv, NEW c \in Closers, FillClose(c)
  PROVE  CompleteInv'
<1>1. /\ at[c] = "sent" /\ at' = [at EXCEPT ![c] = "filled"] /\ Trade(c, plan[c].lots)
      /\ UNCHANGED <<row, opening, op, scope, snap, worker, todo, sweep, verdict, late, blamed>>
  BY DEF FillClose, opVars, workVars
<1>2. /\ plan[c].lots \in Int /\ (Of(c) \notin blamed => plan[c].lots <= 0)
      /\ ClosesLedger(c) => plan[c].lots = -1 /\ row[Of(c)] # "none"
  BY <1>1 DEF CloseInv, CloseTyped, SentWithin, Within, LedgerCloses
<1>3. PICK lots \in Int : lots = plan[c].lots
  BY <1>2
<1>4. \A d \in Closers : at'[d] = "filled" => at[d] = "filled" \/ d = c
  BY <1>1 DEF CloseInv, CloseTyped
<1> QED BY <1>1, <1>2, <1>3, <1>4, CompleteTraded DEF Grows

LEMMA CompleteOrphanEnds ==
  ASSUME CloseInv, CloseInv', LedgerTyped, LedgerTyped', CompleteInv, NEW o \in orphan, OrphanEnds(o)
  PROVE  CompleteInv'
<1>1. /\ Trade(o[1], o[2]) \/ UNCHANGED <<held, ksFilled>>
      /\ UNCHANGED <<at, row, opening, op, scope, snap, worker, todo, sweep, verdict, late, blamed>>
  BY DEF OrphanEnds, opVars, workVars, closeVars
<1>2. CASE UNCHANGED <<held, ksFilled>>
  BY <1>1, <1>2, CompleteUntraded DEF Grows
<1>3. CASE Trade(o[1], o[2])
  <2>1. PICK c \in Closers, lots \in Int : c = o[1] /\ lots = o[2]
    BY DEF CloseInv, CloseTyped
  <2>2. /\ Of(c) \notin blamed => lots <= 0
        /\ ClosesLedger(c) => lots = -1 /\ row[Of(c)] # "none"
    BY <2>1 DEF CloseInv, SentWithin, Within, LedgerCloses
  <2>3. Trade(c, lots)
    BY <1>3, <2>1
  <2> QED BY <1>1, <2>2, <2>3, CompleteTraded DEF Grows
<1> QED BY <1>1, <1>2, <1>3
(* Rows closed for a reason: the trade is not held, or gets the blame.     *)
LEMMA CompleteRowsClosed ==
  ASSUME CloseInv, CloseInv', LedgerTyped, OneLot, SnapshotHasRows, Grows,
         UNCHANGED <<held, ksFilled, opening, at, snap>>,
         \A t \in Trades : \/ row'[t] = row[t]
                           \/ /\ row[t] # "none" /\ row'[t] \in {"CLOSED", "PENDING"}
                              /\ held[t] <= 0 \/ Accounted(t)'
  PROVE  OneLot' /\ SnapshotHasRows'
<1>1. OneLot'
  BY DEF OneLot, Accounted, Grows, CloseInv, CloseTyped, LedgerTyped
<1>2. SnapshotHasRows'
  BY DEF SnapshotHasRows, LedgerTyped
<1> QED BY <1>1, <1>2

LEMMA TierTwoFlat ==
  ASSUME CloseInv, OneLot, CloseRows(TierTwo, {})
  PROVE  \A t \in Trades : \/ row'[t] = row[t]
                           \/ /\ row[t] # "none" /\ row'[t] \in {"CLOSED", "PENDING"}
                              /\ held[t] <= 0 \/ Accounted(t)
<1>1. \A t \in TierTwo : row[t] = "OPEN" /\ ksFilled[t] = 1
  BY DEF TierTwo, OpenRows
<1>2. \A t \in Trades : row'[t] = IF t \in TierTwo THEN "CLOSED" ELSE row[t]
  BY DEF CloseRows
<1> QED BY <1>1, <1>2 DEF OneLot

(* The engine's verdict COMPLETE is right once OPENs are watched.          *)
LEMMA EngineVerdictTrue ==
  ASSUME CloseInv, OneLot, EngineVerdict(TierTwo) = "COMPLETE",
         \A t \in Trades : opening[t] # "none" => t \in late
  PROVE  FlatOf(Engine)
<1> SUFFICES ASSUME NEW t \in Engine, held[t] > 0, ~Accounted(t) PROVE FALSE
  BY DEF FlatOf
<1>1. t \in Trades /\ held[t] \in Int /\ row[t] \in RowState
  BY DEF Engine, CloseInv, CloseTyped
<1>2. OpenRows \ TierTwo = {}
  BY DEF EngineVerdict
<1>3. CASE row[t] = "OPEN"
  <2>1. ksFilled[t] = 1
    BY <1>2, <1>3 DEF OpenRows, TierTwo
  <2> QED BY <1>1, <2>1 DEF OneLot
<1>4. CASE row[t] = "none"
  <2>1. opening[t] # "filled"
    BY <1>1 DEF Accounted
  <2> QED BY <1>1, <1>4, <2>1 DEF OneLot
<1> QED BY <1>1, <1>3, <1>4 DEF OneLot, RowState

LEMMA CompleteStartWorker ==
  ASSUME GateInv, CloseInv, CloseInv', LedgerTyped, CompleteInv, NEW i \in Ops, StartWorker(i)
  PROVE  CompleteInv'
<1>1. /\ worker[i] = "start"
      /\ UNCHANGED <<row, ksFilled, held, opening, snap, scope, blamed, todo, sweep>>
  BY DEF StartWorker, ledgerVars, brokerVars
<1>2. \A c \in Closers : at'[c] = "filled" => at[c] = "filled"
  BY DEF StartWorker, CloseInv, CloseTyped
<1>3. CASE op[i] \in {"COMPLETE", "UNRESOLVED", "CLEARED"}
  <2>1. worker' = [worker EXCEPT ![i] = "none"] /\ UNCHANGED <<op, verdict, at, late>>
    BY <1>3 DEF StartWorker
  <2>2. \A j \in Ops : worker'[j] \in {"flatten", "finalize"} => worker'[j] = worker[j]
    BY <2>1 DEF GateInv, GateTyped
  <2>3. OneLot' /\ SnapshotHasRows' /\ CompleteIsFlat'
    BY <1>1, <2>1 DEF CompleteInv, OneLot, Accounted, SnapshotHasRows, CompleteIsFlat, Judged
  <2>4. Began' /\ OpensAreLate'
    BY <1>1, <2>1, <2>2 DEF CompleteInv, Began, OpensAreLate, Watching, Armed
  <2>5. VerdictIsTrue'
    BY <1>1, <2>1, <2>2 DEF CompleteInv, VerdictIsTrue, FlatOf, Judged, Accounted
  <2> QED BY <2>3, <2>4, <2>5 DEF CompleteInv
<1>4. CASE op[i] \notin {"COMPLETE", "UNRESOLVED", "CLEARED"}
  <2>1. /\ op' = [op EXCEPT ![i] = "FLATTENING"]
        /\ late' = late \cup {t \in Trades : opening[t] # "none"}
        /\ worker' = [worker EXCEPT ![i] = "finalize"] \/ worker' = [worker EXCEPT ![i] = "flatten"]
    BY <1>4 DEF StartWorker
  <2>2. /\ worker'[i] = "finalize" => OpenRows = {} /\ verdict' = [verdict EXCEPT ![i] = "COMPLETE"]
        /\ worker'[i] # "finalize" => verdict' = verdict
    BY <1>4 DEF StartWorker, GateInv, GateTyped
  <2>3. Grows
    BY <1>1, <2>1 DEF Grows
  <2>4. OneLot'
    BY <1>1, <1>2, <2>3 DEF CompleteInv, OneLot, Accounted, Grows, CloseInv, CloseTyped
  <2>5. SnapshotHasRows' /\ Began'
    BY <1>1, <2>1 DEF CompleteInv, SnapshotHasRows, Began, GateInv, GateTyped
  <2>6. OpensAreLate'
    BY <1>1, <2>1 DEF OpensAreLate
  <2>7. op[i] # "COMPLETE" /\ \A j \in Ops : j # i => op'[j] = op[j] /\ worker'[j] = worker[j] /\ verdict'[j] = verdict[j]
    BY <1>4, <2>1, <2>2 DEF GateInv, GateTyped
  <2>8. op'[i] = "FLATTENING" /\ verdict'[Idle] = verdict[Idle] /\ op[i] # "CLEARED"
    BY <1>4, <2>1, <2>2, KillSwitchAssumption DEF GateInv, GateTyped
  <2>9. CompleteIsFlat'
    BY <1>1, <2>3, <2>7, <2>8 DEF CompleteInv, CompleteIsFlat, Judged, Grows
  <2>10. worker'[i] = "finalize" => FlatOf(Engine)'
    <3> SUFFICES ASSUME OpenRows = {}, NEW t \in Engine, held[t] > 0 PROVE t \in late' \cup blamed
      BY <1>1, <2>2 DEF FlatOf, Accounted
    <3>1. t \in Trades /\ held[t] \in Int /\ row[t] \in RowState /\ row[t] # "OPEN"
      BY DEF Engine, OpenRows, CloseInv, CloseTyped
    <3> QED BY <2>1, <3>1 DEF CompleteInv, OneLot, Accounted, RowState
  <2>11. \A j \in Ops : /\ FlatOf(Judged(j)) => FlatOf(Judged(j))'
                        /\ FlatOf(Engine) => FlatOf(Engine)'
    BY <1>1, <2>3 DEF FlatOf, Judged, Accounted, Grows
  <2>12. VerdictIsTrue'
    <3>1. ASSUME NEW j \in Ops, worker'[j] = "finalize", verdict'[j] = "COMPLETE", op'[j] # "CLEARED"
          PROVE  FlatOf(Engine)'
      BY <2>7, <2>10, <2>11, <3>1 DEF CompleteInv, VerdictIsTrue
    <3>2. ASSUME NEW j \in Ops, sweep = j, verdict'[Idle] = "COMPLETE", op'[j] # "CLEARED"
          PROVE  FlatOf(Judged(j))'
      BY <2>7, <2>8, <2>11, <3>2 DEF CompleteInv, VerdictIsTrue
    <3> QED BY <1>1, <3>1, <3>2 DEF VerdictIsTrue
  <2> QED BY <2>4, <2>5, <2>6, <2>9, <2>12 DEF CompleteInv
<1> QED BY <1>3, <1>4

LEMMA CompleteReconcile ==
  ASSUME GateInv, CloseInv, CloseInv', LedgerTyped, CompleteInv, NEW i \in Ops, Reconcile(i)
  PROVE  CompleteInv'
<1>1. /\ worker[i] = "flatten" /\ worker' = [worker EXCEPT ![i] = "finalize"]
      /\ verdict' = [verdict EXCEPT ![i] = EngineVerdict(TierTwo)] /\ CloseRows(TierTwo, {})
      /\ UNCHANGED <<ksFilled, held, opening, at, op, snap, scope, late, blamed, todo, sweep>>
  BY DEF Reconcile, brokerVars, opVars, closeVars, histVars
<1>2. OneLot' /\ SnapshotHasRows'
  BY <1>1, TierTwoFlat, CompleteRowsClosed DEF CompleteInv, Grows, Accounted
<1>3. \A j \in Ops : Watching(j)' => Watching(j)
  BY <1>1 DEF Watching, Armed, GateInv, GateTyped
<1>4. Began' /\ OpensAreLate' /\ CompleteIsFlat'
  BY <1>1, <1>3 DEF CompleteInv, Began, OpensAreLate, CompleteIsFlat, Judged, GateInv, GateTyped
<1>5. \A j \in Ops : Judged(j)' = Judged(j) /\ (FlatOf(Judged(j)) => FlatOf(Judged(j))')
  BY <1>1 DEF FlatOf, Judged, Accounted
<1>6. FlatOf(Engine) => FlatOf(Engine)'
  BY <1>1 DEF FlatOf, Accounted
<1>7. /\ verdict'[Idle] = verdict[Idle] /\ verdict'[i] = EngineVerdict(TierTwo)
      /\ \A j \in Ops : j # i => verdict'[j] = verdict[j] /\ worker'[j] = worker[j]
  BY <1>1, KillSwitchAssumption DEF GateInv, GateTyped
<1>8. ASSUME NEW j \in Ops, worker'[j] = "finalize", verdict'[j] = "COMPLETE", op'[j] # "CLEARED"
      PROVE  FlatOf(Engine)'
  <2>1. CASE j # i
    BY <1>1, <1>6, <1>7, <1>8, <2>1 DEF CompleteInv, VerdictIsTrue
  <2>2. CASE j = i
    <3>1. Watching(i)
      BY <1>1, <1>8, <2>2 DEF Watching, Armed, GateInv, FreeIsUntouched
    <3> QED BY <1>6, <1>7, <1>8, <2>2, <3>1, EngineVerdictTrue DEF CompleteInv, OpensAreLate
  <2> QED BY <2>1, <2>2
<1>9. VerdictIsTrue'
  BY <1>1, <1>5, <1>7, <1>8 DEF CompleteInv, VerdictIsTrue
<1> QED BY <1>2, <1>4, <1>9 DEF CompleteInv

LEMMA CompleteFinalize ==
  ASSUME GateInv, CloseInv, CloseInv', LedgerTyped, CompleteInv, NEW i \in Ops, Finalize(i)
  PROVE  CompleteInv'
<1>1. /\ worker[i] = "finalize" /\ worker' = [worker EXCEPT ![i] = "none"]
      /\ op' = [op EXCEPT ![i] = Concluded(op[i], verdict[i])]
      /\ verdict' = [verdict EXCEPT ![i] = "none"]
      /\ UNCHANGED <<row, ksFilled, held, opening, at, snap, scope, late, blamed, todo, sweep>>
  BY DEF Finalize, ledgerVars, brokerVars, closeVars, histVars
<1>2. /\ op'[i] \in {op[i], verdict[i]} /\ (op[i] = "CLEARED" => op'[i] = "CLEARED")
      /\ op'[i] = "COMPLETE" => op[i] = "COMPLETE" \/ (verdict[i] = "COMPLETE" /\ op[i] # "CLEARED")
      /\ \A j \in Ops : j # i => op'[j] = op[j] /\ worker'[j] = worker[j] /\ verdict'[j] = verdict[j]
      /\ verdict'[Idle] = verdict[Idle] /\ worker'[i] = "none" /\ verdict[i] \in Verdict
      /\ op[i] \notin {"none", "ACTIVATING"}
  BY <1>1, KillSwitchAssumption DEF Concluded, GateInv, GateTyped, FreeIsUntouched, CompleteInv, Began
<1>3. OneLot' /\ SnapshotHasRows'
  BY <1>1 DEF CompleteInv, OneLot, Accounted, SnapshotHasRows
<1>4. \A j \in Ops : Watching(j)' => Watching(j)
  BY <1>1, <1>2 DEF Watching, Armed
<1>5. Began' /\ OpensAreLate'
  BY <1>1, <1>2, <1>4 DEF CompleteInv, Began, OpensAreLate, Verdict
<1>6. \A j \in Ops : /\ Judged(j)' = Judged(j) /\ Judged(j) \subseteq Engine
                     /\ FlatOf(Judged(j)) => FlatOf(Judged(j))'
                     /\ FlatOf(Engine) => FlatOf(Judged(j))
                     /\ FlatOf(Engine) => FlatOf(Engine)'
  BY <1>1 DEF FlatOf, Judged, Accounted
<1>7. VerdictIsTrue'
  BY <1>1, <1>2, <1>6 DEF CompleteInv, VerdictIsTrue
<1>8. ASSUME NEW j \in Ops, op'[j] = "COMPLETE" PROVE FlatOf(Judged(j))
  <2>1. CASE op[j] = "COMPLETE"
    BY <2>1 DEF CompleteInv, CompleteIsFlat, FlatOf, Accounted
  <2>2. CASE op[j] # "COMPLETE"
    BY <1>1, <1>2, <1>6, <1>8, <2>2 DEF CompleteInv, VerdictIsTrue
  <2> QED BY <2>1, <2>2
<1>9. CompleteIsFlat'
  BY <1>1, <1>6, <1>8 DEF CompleteIsFlat, FlatOf, Accounted
<1> QED BY <1>3, <1>5, <1>7, <1>9 DEF CompleteInv
(* The account's verdict COMPLETE is right of the rows of the snapshot.    *)
LEMMA AccountVerdictTrue ==
  ASSUME CloseInv, LedgerTyped, OneLot, Grows, held' = held, NEW i \in Ops, AccountVerdict(i) = "COMPLETE",
         blamed' = blamed \cup {t \in FlatIn(i) : held[t] # 0}
  PROVE  \A t \in snap[i] : held[t] > 0 => Accounted(t)'
<1> SUFFICES ASSUME NEW t \in snap[i], held[t] > 0, ~Accounted(t)' PROVE FALSE
  OBVIOUS
<1>1. t \in Trades /\ held[t] \in Int /\ snap[i] # {} /\ ~Accounted(t)
  BY DEF LedgerTyped, CloseInv, CloseTyped, Accounted, Grows
<1>2. row[t] # "CLOSED" => t \in Priced(i)
  BY <1>1 DEF AccountVerdict, Snapshot
<1>3. t \notin Priced(i)
  BY <1>1 DEF Priced, Accounted
<1> QED BY <1>1, <1>2, <1>3 DEF OneLot

LEMMA CompleteRetry ==
  ASSUME GateInv, CloseInv, CloseInv', LedgerTyped, CompleteInv, NEW i \in Ops,
         RetryUnresolved(i) \/ AccountFlattened(i)
  PROVE  CompleteInv'
<1>1. /\ sweep = Idle /\ sweep' = i /\ todo' \subseteq todo
      /\ UNCHANGED <<ksFilled, held, opening, at, op, snap, scope, late, worker>>
      /\ blamed \subseteq blamed' /\ (i \in todo \/ scope[i] = "account")
  BY DEF RetryUnresolved, AccountFlattened, FollowBrokerPositions, brokerVars, opVars, closeVars
<1>2. \/ FollowBrokerPositions(i) /\ scope[i] = "account"
      \/ /\ CloseRows(TierTwo, {}) /\ verdict' = [verdict EXCEPT ![Idle] = EngineVerdict(TierTwo)]
         /\ blamed' = blamed /\ scope[i] # "account" /\ i \in todo
  BY DEF RetryUnresolved, AccountFlattened
<1>3. Grows
  BY <1>1 DEF Grows
<1>4. OneLot' /\ SnapshotHasRows'
  <2>1. CASE CloseRows(TierTwo, {}) /\ blamed' = blamed
    BY <1>1, <1>3, <2>1, TierTwoFlat, CompleteRowsClosed DEF CompleteInv, Accounted
  <2>2. CASE FollowBrokerPositions(i)
    <3>1. \A t \in Priced(i) \cup Unpriced(i) : t \in FlatIn(i) /\ t \in Trades /\ row[t] # "none"
      BY DEF Priced, Unpriced, FlatIn, Snapshot, OpenPositions, LedgerTyped
    <3>2. \A t \in Trades : \/ row'[t] = row[t]
                            \/ t \in Priced(i) \cup Unpriced(i) /\ row'[t] \in {"CLOSED", "PENDING"}
      BY <2>2 DEF FollowBrokerPositions, CloseRows
    <3>3. \A t \in FlatIn(i) : held[t] = 0 \/ Accounted(t)'
      BY <2>2 DEF FollowBrokerPositions, Accounted
    <3>4. \A t \in Trades : \/ row'[t] = row[t]
                            \/ /\ row[t] # "none" /\ row'[t] \in {"CLOSED", "PENDING"}
                               /\ held[t] <= 0 \/ Accounted(t)'
      BY <3>1, <3>2, <3>3
    <3> QED BY <1>1, <1>3, <3>4, CompleteRowsClosed DEF CompleteInv
  <2> QED BY <1>2, <2>1, <2>2
<1>5. \A j \in Ops : Watching(j)' <=> Watching(j)
  BY <1>1 DEF Watching, Armed
<1>6. Began' /\ OpensAreLate'
  BY <1>1, <1>5, KillSwitchAssumption DEF CompleteInv, Began, OpensAreLate
<1>7. \A j \in Ops : Judged(j)' = Judged(j) /\ (FlatOf(Judged(j)) => FlatOf(Judged(j))')
  BY <1>1 DEF FlatOf, Judged, Accounted
<1>8. FlatOf(Engine) => FlatOf(Engine)'
  BY <1>1 DEF FlatOf, Accounted
<1>9. CompleteIsFlat'
  BY <1>1, <1>7 DEF CompleteInv, CompleteIsFlat
<1>10. \A j \in Ops : verdict'[j] = verdict[j]
  BY <1>2, KillSwitchAssumption DEF FollowBrokerPositions, GateInv, GateTyped
<1>11. ASSUME verdict'[Idle] = "COMPLETE", op[i] # "CLEARED" PROVE FlatOf(Judged(i))'
  <2>1. CASE FollowBrokerPositions(i) /\ scope[i] = "account"
    <3>1. AccountVerdict(i) = "COMPLETE"
      BY <1>11, <2>1 DEF FollowBrokerPositions, GateInv, GateTyped
    <3>2. \A t \in snap[i] : held[t] > 0 => Accounted(t)'
      BY <1>1, <1>3, <2>1, <3>1, AccountVerdictTrue DEF CompleteInv, FollowBrokerPositions
    <3> QED BY <1>1, <2>1, <3>2 DEF FlatOf, Judged
  <2>2. CASE /\ CloseRows(TierTwo, {}) /\ verdict' = [verdict EXCEPT ![Idle] = EngineVerdict(TierTwo)]
             /\ blamed' = blamed /\ scope[i] # "account" /\ i \in todo
    <3>1. EngineVerdict(TierTwo) = "COMPLETE"
      BY <1>11, <2>2 DEF GateInv, GateTyped
    <3>2. op[i] # "ACTIVATING" /\ Armed(i)
      BY <1>11, <2>2 DEF CompleteInv, Began, Armed, GateInv, FreeIsUntouched
    <3>3. CASE scope[i] = "engine"
      <4>1. FlatOf(Engine)
        BY <3>1, <3>2, <3>3, EngineVerdictTrue DEF Watching, CompleteInv, OpensAreLate
      <4> QED BY <1>7, <3>3, <4>1 DEF Judged
    <3> QED BY <2>2, <3>3 DEF LedgerTyped
  <2> QED BY <1>2, <2>1, <2>2
<1>12. VerdictIsTrue'
  BY <1>1, <1>8, <1>10, <1>11 DEF CompleteInv, VerdictIsTrue
<1> QED BY <1>4, <1>6, <1>9, <1>12 DEF CompleteInv

LEMMA CompleteRetryFinalizes ==
  ASSUME GateInv, CloseInv, CloseInv', LedgerTyped, CompleteInv, RetryFinalizes
  PROVE  CompleteInv'
<1>1. PICK i \in Ops : i = sweep
  BY DEF RetryFinalizes, GateInv, GateTyped
<1>2. /\ sweep' = Idle /\ op' = [op EXCEPT ![i] = Concluded(op[i], verdict[Idle])]
      /\ verdict' = [verdict EXCEPT ![Idle] = "none"]
      /\ UNCHANGED <<row, ksFilled, held, opening, at, snap, scope, late, blamed, todo, worker>>
  BY <1>1 DEF RetryFinalizes, ledgerVars, brokerVars, closeVars, histVars
<1>3. /\ op'[i] \in {op[i], verdict[Idle]} /\ (op[i] = "CLEARED" => op'[i] = "CLEARED")
      /\ op'[i] = "COMPLETE" => op[i] = "COMPLETE" \/ (verdict[Idle] = "COMPLETE" /\ op[i] # "CLEARED")
      /\ \A j \in Ops : j # i => op'[j] = op[j]
      /\ \A j \in Ops : verdict'[j] = verdict[j]
      /\ verdict[Idle] \in Verdict /\ verdict[Idle] # "none" /\ op[i] # "none"
      /\ op[i] # "ACTIVATING" \/ scope[i] = "account"
  BY <1>1, <1>2, KillSwitchAssumption
     DEF Concluded, GateInv, GateTyped, FreeIsUntouched, VerdictsReached, CompleteInv, Began
<1>4. OneLot' /\ SnapshotHasRows'
  BY <1>2 DEF CompleteInv, OneLot, Accounted, SnapshotHasRows
<1>5. \A j \in Ops : Watching(j)' => Watching(j)
  BY <1>2, <1>3 DEF Watching, Armed
<1>6. Began' /\ OpensAreLate'
  BY <1>2, <1>3, <1>5, KillSwitchAssumption DEF CompleteInv, Began, OpensAreLate, Verdict
<1>7. \A j \in Ops : /\ Judged(j)' = Judged(j)
                     /\ FlatOf(Engine) => FlatOf(Engine)'
  BY <1>2 DEF FlatOf, Judged, Accounted
<1>8. VerdictIsTrue'
  BY <1>2, <1>3, <1>7, KillSwitchAssumption DEF CompleteInv, VerdictIsTrue
<1>9. ASSUME NEW j \in Ops, op'[j] = "COMPLETE" PROVE FlatOf(Judged(j))
  <2>1. CASE op[j] = "COMPLETE"
    BY <2>1 DEF CompleteInv, CompleteIsFlat, FlatOf, Accounted
  <2>2. CASE op[j] # "COMPLETE"
    BY <1>1, <1>3, <1>9, <2>2 DEF CompleteInv, VerdictIsTrue
  <2> QED BY <2>1, <2>2
<1>10. CompleteIsFlat'
  BY <1>2, <1>7, <1>9 DEF CompleteIsFlat, FlatOf, Accounted
<1> QED BY <1>4, <1>6, <1>8, <1>10 DEF CompleteInv

LEMMA CompleteCommitOperation ==
  ASSUME GateInv, CloseInv, CloseInv', LedgerTyped, CompleteInv, NEW s \in Scopes, CommitOperation(s)
  PROVE  CompleteInv'
<1>1. PICK i \in Ops : op[i] = "none" /\ i = CHOOSE j \in FreeOps : TRUE
  BY SomeFreeOp DEF FreeOps, CommitOperation
<1>2. /\ op' = [op EXCEPT ![i] = "ACTIVATING"] /\ scope' = [scope EXCEPT ![i] = s]
      /\ snap' = [snap EXCEPT ![i] = Captured(s)]
      /\ worker' = [worker EXCEPT ![i] = IF StartsWorker(s) THEN "start" ELSE "none"]
      /\ UNCHANGED <<row, ksFilled, held, opening, at, late, blamed, todo, sweep, verdict>>
  BY <1>1 DEF CommitOperation, brokerVars, closeVars, histVars
<1>3. /\ op'[i] = "ACTIVATING" /\ worker'[i] \notin {"flatten", "finalize"} /\ snap'[i] = Captured(s)
      /\ \A j \in Ops : j # i => /\ op'[j] = op[j] /\ worker'[j] = worker[j] /\ snap'[j] = snap[j]
                                 /\ scope'[j] = scope[j]
      /\ i \notin todo /\ sweep # i
  BY <1>1, <1>2 DEF GateInv, GateTyped, FreeIsUntouched, LedgerTyped
<1>4. OneLot'
  BY <1>2 DEF CompleteInv, OneLot, Accounted
<1>5. \A t \in Captured(s) : row[t] # "none"
  BY DEF Captured, OpenPositions
<1>6. SnapshotHasRows'
  BY <1>2, <1>3, <1>5 DEF CompleteInv, SnapshotHasRows
<1>7. \A j \in Ops : Watching(j)' => j # i /\ Watching(j)
  BY <1>3 DEF Watching, Armed
<1>8. Began' /\ OpensAreLate'
  BY <1>2, <1>3, <1>7 DEF CompleteInv, Began, OpensAreLate
<1>9. \A j \in Ops : j # i => Judged(j)' = Judged(j) /\ (FlatOf(Judged(j)) => FlatOf(Judged(j))')
  BY <1>2, <1>3 DEF FlatOf, Judged, Accounted
<1>10. FlatOf(Engine) => FlatOf(Engine)'
  BY <1>2 DEF FlatOf, Accounted
<1>11. CompleteIsFlat'
  BY <1>2, <1>3, <1>9 DEF CompleteInv, CompleteIsFlat
<1>12. VerdictIsTrue'
  BY <1>2, <1>3, <1>9, <1>10 DEF CompleteInv, VerdictIsTrue
<1> QED BY <1>4, <1>6, <1>8, <1>11, <1>12 DEF CompleteInv

(* A clear, a sweep, a crash, a restart: what is judged stays judged or    *)
(* is cleared, workers go or start anew.                                   *)
LEMMA CompleteReset ==
  ASSUME GateInv, CloseInv, CloseInv', LedgerTyped, CompleteInv, ClearCommit \/ Sweep \/ Crash \/ Restart
  PROVE  CompleteInv'
<1>1. /\ UNCHANGED <<row, ksFilled, held, snap, scope, blamed>> /\ late \subseteq late'
      /\ op' = op \/ op' = [i \in Ops |-> ClearedStatus(i)]
  BY DEF ClearCommit, Sweep, Crash, Restart, ledgerVars, brokerVars, opVars, histVars
<1>2. \A i \in Ops : op'[i] = op[i] \/ op'[i] = "CLEARED"
  BY <1>1 DEF ClearedStatus, GateInv, GateTyped
<1>3. \A i \in Ops : worker'[i] = worker[i] \/ worker'[i] \in {"none", "start"}
  BY DEF ClearCommit, Sweep, Crash, Restart, workVars, None
<1>4. \A t \in Trades : /\ opening'[t] # "none" => opening[t] # "none"
                        /\ opening'[t] = opening[t] \/ (opening'[t] # "filled" /\ t \in late')
  BY DEF ClearCommit, Sweep, Crash, Restart, CloseInv, CloseTyped, OpenPc
<1>5. \A c \in Closers : at'[c] = "filled" => at[c] = "filled"
  BY DEF ClearCommit, Sweep, Crash, Restart, closeVars, None
<1>6. \A i \in Ops : i \in todo' => i \in todo \/ op[i] \in {"UNRESOLVED", "RECONCILING"}
  BY DEF ClearCommit, Sweep, Crash, Restart, workVars
<1>7. sweep' = Idle \/ (sweep' = sweep /\ verdict'[Idle] = verdict[Idle])
  BY DEF ClearCommit, Sweep, Crash, Restart, workVars
<1>8. \A i \in Ops : worker'[i] = "finalize" => worker[i] = "finalize" /\ verdict'[i] = verdict[i]
  BY DEF ClearCommit, Sweep, Crash, Restart, workVars, None
<1>9. OneLot'
  BY <1>1, <1>4, <1>5 DEF CompleteInv, OneLot, Accounted, CloseInv, CloseTyped
<1>10. SnapshotHasRows'
  BY <1>1 DEF CompleteInv, SnapshotHasRows
<1>11. Began'
  BY <1>1, <1>2, <1>3, <1>6, <1>7, KillSwitchAssumption DEF CompleteInv, Began
<1>12. \A i \in Ops : Watching(i)' => Watching(i)
  BY <1>1, <1>2, <1>3 DEF Watching, Armed
<1>13. OpensAreLate'
  BY <1>1, <1>4, <1>12, OpensKept DEF CompleteInv
<1>14. \A j \in Ops : /\ Judged(j)' = Judged(j) /\ (FlatOf(Judged(j)) => FlatOf(Judged(j))')
                      /\ FlatOf(Engine) => FlatOf(Engine)'
  BY <1>1 DEF FlatOf, Judged, Accounted
<1>15. CompleteIsFlat'
  BY <1>1, <1>2, <1>14 DEF CompleteInv, CompleteIsFlat
<1>16. VerdictIsTrue'
  BY <1>2, <1>7, <1>8, <1>14, KillSwitchAssumption DEF CompleteInv, VerdictIsTrue
<1> QED BY <1>9, <1>10, <1>11, <1>13, <1>15, <1>16 DEF CompleteInv

LEMMA CompleteStep ==
  ASSUME GateInv, CloseInv, CloseInv', LedgerTyped, LedgerTyped', CompleteInv, [Next]_vars
  PROVE  CompleteInv'
<1>1. CASE UNCHANGED <<row, ksFilled, held, opening, at, snap, scope, late, blamed, todo, worker, op,
                       sweep, verdict>>
  BY <1>1, CompleteUntraded DEF Grows
<1>2. CASE Arming
  BY <1>1, <1>2, CompleteCommitOperation DEF Arming, AccountBreach, ReturnExisting, ArmCache,
     RequestFails, ledgerVars, brokerVars, opVars, workVars, closeVars, histVars
<1>3. CASE ClearCache \/ UNCHANGED vars
  BY <1>1, <1>3 DEF ClearCache, vars, ledgerVars, brokerVars, opVars, workVars, closeVars, histVars
<1>4. CASE Opens
  BY <1>4, CompletePassGate, CompleteFillOpen, CompletePersistOpen DEF Opens
<1>5. CASE Closes
  BY <1>5, CompleteClosers, CompleteFillClose, CompleteRiskExit, CompleteOrphanEnds DEF Closes
<1>6. CASE Work
  BY <1>6, CompleteStartWorker, CompleteReconcile, CompleteFinalize, CompleteRetry DEF Work
<1> QED BY <1>2, <1>3, <1>4, <1>5, <1>6, CompleteReset, CompleteRetryFinalizes DEF Next

(* An operation that ended COMPLETE left no engine position it could have  *)
(* seen: what is held came from an OPEN that was past the gate or lost its *)
(* row, or from a close or a snapshot that is to blame.                    *)
THEOREM CompleteFlat == Spec => []CompleteIsFlat
<1>1. CompleteInv => CompleteIsFlat
  BY DEF CompleteInv
<1> QED BY <1>1, GateInit, GateStep, CloseInit, CloseStep, LedgerTypedInv, LedgerTypedStep,
           CompleteInit, CompleteStep, PTL DEF Spec
=============================================================================
