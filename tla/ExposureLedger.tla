--------------------------- MODULE ExposureLedger ---------------------------
(* The running tallies the risk checks read (symbol exposures, open        *)
(* positions, model value, margin commitments), the exposure locks an      *)
(* execution holds from before its checks until its tallies are rebuilt,   *)
(* and everybody who rewrites the tallies from the positions table: the    *)
(* execution itself, the closes that run outside the locks, and the        *)
(* reconcile sweep.  A rewrite reads the rows, gives way, and writes.      *)
EXTENDS Integers, Sequences, FiniteSets, FiniteSetsExt, SequencesExt

CONSTANTS
  Trades,         \* pair trades
  Account,        \* the account of a trade
  Strategy,       \* the strategy of a trade
  Legs,           \* the symbols of its legs, in the signal's order
  Size,           \* the notional of each of its legs
  Executions,     \* the executions that may run: <<trade, "OPEN" or "CLOSE">>
  SymbolLimit,    \* per_symbol_limits by account
  PositionLimit,  \* max_open_positions
  ValueLimit,     \* model_value_limit
  Funds,          \* available funds of an account at the start
  MinFree,        \* min_free_buffer
  MaxEvents       \* bound: sweeps, closes outside the locks, account-summary
                  \* callbacks, restarts and executions that end badly, together

Accounts   == {Account[t] : t \in Trades}

ASSUME ConstantsAssumption ==
  /\ IsFiniteSet(Trades) /\ Executions \subseteq Trades \X {"OPEN", "CLOSE"}
  /\ \A t \in Trades : Legs[t] \in Seq(Nat) /\ IsInjective(Legs[t]) /\ Size[t] \in Nat \ {0}
  /\ \A t \in Trades : SymbolLimit[Account[t]] \in Nat
  /\ Funds \in [Accounts -> Nat]
  /\ {PositionLimit, ValueLimit, MinFree, MaxEvents} \subseteq Nat

LegsOf(t)  == 1 .. Len(Legs[t])
KeysOf(t, legs) == {<<Account[t], Legs[t][i]>> : i \in legs}  \* exposure_key
SymbolKeys == UNION {KeysOf(t, LegsOf(t)) : t \in Trades}
ModelKey(t) == <<Account[t], Strategy[t]>>
ModelKeys  == {ModelKey(t) : t \in Trades}

VARIABLES
  rows,         \* positions: risk_state of the trade, "none" before its row
  held,         \* legs of the trade held at the broker
  free,         \* free funds at the broker, by account
  exposures,    \* symbol_exposures
  used,         \* model_value_used
  counts,       \* open_positions
  seen,         \* the available funds in margin_snapshots
  commitments,  \* margin_commitments, oldest first
  pc,           \* where each execution is
  taken,        \* how many of its locks it holds
  read,         \* the open rows its rewrite has read
  sweep,        \* the reconcile sweep: [pc, read, got]
  outside,      \* a close outside the locks: [pc, read]
  events,
  slips         \* history: what went wrong for an account, by name

tables  == <<rows, held, free>>
tallies == <<exposures, used, counts>>
margin  == <<seen, commitments>>
runs    == <<pc, taken, read>>
vars    == <<tables, tallies, margin, runs, sweep, outside, events, slips>>

Value(t)          == Size[t] * Len(Legs[t])
Required(t, legs) == Size[t] * Cardinality(legs)
OpenRows          == {t \in Trades : rows[t] = "OPEN"}

(* Plausible bug: only the first leg of a row is counted.                  *)
ExposuresOf_LegA == [S \in SUBSET Trades |-> [k \in SymbolKeys |->
  MapThenSumSet(LAMBDA t : Size[t], {t \in S : k \in KeysOf(t, {1})})]]

(* What a set of open rows adds up to.                                     *)
ExposuresOf == [S \in SUBSET Trades |-> [k \in SymbolKeys |->
  MapThenSumSet(LAMBDA t : Size[t], {t \in S : k \in KeysOf(t, LegsOf(t))})]]

UsedOf      == [S \in SUBSET Trades |-> [k \in ModelKeys |->
  MapThenSumSet(Value, {t \in S : ModelKey(t) = k})]]
CountsOf    == [S \in SUBSET Trades |-> [k \in ModelKeys |->
  Cardinality({t \in S : ModelKey(t) = k})]]

Init ==
  /\ rows = [t \in Trades |-> "none"] /\ held = [t \in Trades |-> {}] /\ free = Funds
  /\ exposures = ExposuresOf[{}] /\ used = UsedOf[{}] /\ counts = CountsOf[{}]
  /\ seen = Funds /\ commitments = [a \in Accounts |-> <<>>]
  /\ pc = [e \in Executions |-> "idle"] /\ taken = [e \in Executions |-> 0]
  /\ read = [e \in Executions |-> {}]
  /\ sweep = [pc |-> "idle", read |-> {}, got |-> {}] /\ outside = [pc |-> "idle", read |-> {}]
  /\ events = 0
  /\ slips = [a \in Accounts |-> {}]

----------------------------------------------------------------------------
(* The exposure locks.                                                     *)

Acct(e)    == Account[e[1]]
Opens(e)   == e[2] = "OPEN"
Goto(e, where) == pc' = [pc EXCEPT ![e] = where]
Slip(A, why)   == slips' = [a \in Accounts |-> IF a \in A THEN slips[a] \cup {why} ELSE slips[a]]

MarginLock(t)  == <<"margin", Account[t]>>
ModelLock(k)   == <<"model_value", k[1], k[2]>>
SymbolLock(t, i) == <<"symbol", Account[t], Legs[t][i]>>

(* Plausible bug: the guard serializes by model, as the domain lock does.  *)
LockOrder_ByModel == [t \in Trades |-> <<ModelLock(ModelKey(t))>>]

(* The n-th leg in the order of the symbols: n - 1 symbols come before it. *)
Before(t, i) == {j \in LegsOf(t) : Legs[t][j] < Legs[t][i]}
Sorted(t)    == [n \in LegsOf(t) |-> CHOOSE i \in LegsOf(t) : Cardinality(Before(t, i)) = n - 1]

(* Sorted by repr: the two tagged keys come before the (account, symbol)   *)
(* pairs.                                                                  *)
LockOrder == [t \in Trades |->
  <<MarginLock(t), ModelLock(ModelKey(t))>> \o [n \in LegsOf(t) |-> SymbolLock(t, Sorted(t)[n])]]

HeldBy(e)  == {LockOrder[e[1]][i] : i \in 1 .. taken[e]}
IsFree(l)  == l \notin sweep.got /\ \A e \in Executions : l \notin HeldBy(e)

(* build_intent: a CLOSE needs an open row, an OPEN a trade_id without one.*)
Begin(e) ==
  /\ pc[e] = "idle" /\ rows[e[1]] = IF Opens(e) THEN "none" ELSE "OPEN"
  /\ Goto(e, "locking")
  /\ UNCHANGED <<tables, tallies, margin, taken, read, sweep, outside, events, slips>>

(* The locks are taken one by one, and only a lock that is held makes the  *)
(* task give way.                                                          *)
Reached(e) == LET locks == LockOrder[e[1]] IN
  CHOOSE n \in taken[e] .. Len(locks) :
    /\ \A i \in taken[e] + 1 .. n : IsFree(locks[i])
    /\ n < Len(locks) => ~IsFree(locks[n + 1])

(* Plausible bug: the locks are released only when the body returns.       *)
Release_NotOnError(e) ==
  Goto(e, "done") /\ taken' = [taken EXCEPT ![e] = IF pc[e] = "write" THEN 0 ELSE @]

(* Leaving _exposure_guard, normally or with an exception.                 *)
Release(e) == Goto(e, "done") /\ taken' = [taken EXCEPT ![e] = 0]

Event == events < MaxEvents /\ events' = events + 1

----------------------------------------------------------------------------
(* Gate A and the checks of the RMS engine.                                *)

Pending(a)   == FoldSeq(+, 0, commitments[a])
Effective(a) == seen[a] - Pending(a)

MarginCheck(t)    == Required(t, LegsOf(t)) < Effective(Account[t]) - MinFree
PositionLimitCheck(t) == counts[ModelKey(t)] < PositionLimit

MoneyPerStockCheck(t) ==
  \A i \in LegsOf(t) : exposures[<<Account[t], Legs[t][i]>>] + Size[t] <= SymbolLimit[Account[t]]

ModelMarketValueCheck(t) == used[ModelKey(t)] + Value(t) <= ValueLimit

(* Reductions bypass the checks.                                           *)
Passes(e) ==
  Opens(e) => /\ MarginCheck(e[1]) /\ PositionLimitCheck(e[1])
              /\ MoneyPerStockCheck(e[1]) /\ ModelMarketValueCheck(e[1])

(* _exposure_guard and, with the last lock, _evaluate_and_submit up to its *)
(* first await.                                                            *)
EnterGuard(e) ==
  /\ pc[e] = "locking" /\ Reached(e) > taken[e]
  /\ IF Reached(e) = Len(LockOrder[e[1]]) /\ ~Passes(e)
     THEN Release(e)
     ELSE /\ taken' = [taken EXCEPT ![e] = Reached(e)]
          /\ Goto(e, IF Reached(e) = Len(LockOrder[e[1]]) THEN "submit" ELSE "locking")
  /\ UNCHANGED <<tables, tallies, margin, read, sweep, outside, events, slips>>

(* The other checks and gates (duplicate, strategy, contract month, what-if*)
(* probe, stale snapshot, critical, kill switch, pause, red zone, claim).  *)
Refuse(e) ==
  /\ pc[e] = "submit" /\ Release(e)
  /\ UNCHANGED <<tables, tallies, margin, read, sweep, outside, events, slips>>

----------------------------------------------------------------------------
(* The basket, its booking and its row.                                    *)

(* Legs S of the trade trade at the broker.                                *)
Trade(e, S) ==
  /\ held' = [held EXCEPT ![e[1]] = IF Opens(e) THEN @ \cup S ELSE @ \ S]
  /\ free' = [free EXCEPT ![Acct(e)] = IF Opens(e) THEN @ - Required(e[1], S) ELSE @ + Required(e[1], S)]

(* execute returns OPEN or CLOSED.                                         *)
BasketSettles(e) ==
  /\ pc[e] = "submit" /\ Trade(e, LegsOf(e[1])) /\ Goto(e, "settled")
  /\ UNCHANGED <<rows, tallies, margin, taken, read, sweep, outside, events, slips>>

(* execute returns COMPENSATED: nothing is left of an OPEN; compensation of*)
(* a CLOSE has opened its legs again.                                      *)
BasketCompensates(e) ==
  /\ pc[e] = "submit" /\ Goto(e, "rebuild")
  /\ UNCHANGED <<tables, tallies, margin, taken, read, sweep, outside, events, slips>>

(* execute returns any other state, with legs S filled.                    *)
BasketUnsettled(e, S) ==
  /\ pc[e] = "submit" /\ Event /\ Trade(e, S) /\ Goto(e, "unsettled") /\ read' = [read EXCEPT ![e] = S]
  /\ UNCHANGED <<rows, tallies, margin, taken, sweep, outside, slips>>

(* execute raises: the claim is resolved and nothing is booked.            *)
BasketRaises(e, S) ==
  /\ pc[e] = "submit" /\ Event /\ Trade(e, S) /\ Release(e)
  /\ Slip(IF Opens(e) /\ S # {} THEN {Acct(e)} ELSE {}, "untracked")
  /\ UNCHANGED <<rows, tallies, margin, read, sweep, outside>>

Floored(n) == IF n < 0 THEN 0 ELSE n

Moved(e, n, by) == IF Opens(e) THEN n + by ELSE Floored(n - by)

(* Plausible bug: a settled OPEN commits nothing.                          *)
Committed_ClosesOnly(e, legs) == IF Opens(e) THEN 0 ELSE -Required(e[1], legs)

Committed(e, legs) == IF Opens(e) THEN Required(e[1], legs) ELSE -Required(e[1], legs)

CommitMargin(e, legs) ==
  commitments' = IF legs = {} THEN commitments
                 ELSE [commitments EXCEPT ![Acct(e)] = Append(@, Committed(e, legs))]

BookExposure(e, legs) ==
  exposures' = [k \in SymbolKeys |->
    IF k \in KeysOf(e[1], legs) THEN Moved(e, exposures[k], Size[e[1]]) ELSE exposures[k]]

(* _update_runtime_state, up to the first await.                           *)
BookSettled(e) ==
  /\ pc[e] = "settled" /\ Goto(e, "persist")
  /\ BookExposure(e, LegsOf(e[1])) /\ CommitMargin(e, LegsOf(e[1]))
  /\ counts' = [counts EXCEPT ![ModelKey(e[1])] = Moved(e, @, 1)]
  /\ used' = [used EXCEPT ![ModelKey(e[1])] = Moved(e, @, Value(e[1]))]
  /\ UNCHANGED <<tables, seen, taken, read, sweep, outside, events, slips>>

(* _record_unsettled_exposure: the row is left as it was.                  *)
BookUnsettled(e) ==
  /\ pc[e] = "unsettled" /\ Goto(e, "rebuild") /\ read' = [read EXCEPT ![e] = {}]
  /\ BookExposure(e, read[e]) /\ CommitMargin(e, read[e])
  /\ used' = [used EXCEPT ![ModelKey(e[1])] = Moved(e, @, Required(e[1], read[e]))]
  /\ Slip(IF Opens(e) /\ read[e] # {} THEN {Acct(e)} ELSE {}, "untracked")
  /\ UNCHANGED <<tables, counts, seen, taken, sweep, outside, events>>

Persisted(e) == rows' = [rows EXCEPT ![e[1]] = IF Opens(e) THEN "OPEN" ELSE "CLOSED"]

(* after_submit: persist_open or persist_close commits.                    *)
Persist(e) ==
  /\ pc[e] = "persist" /\ Persisted(e) /\ Goto(e, "rebuild") /\ taken' = taken
  /\ UNCHANGED <<held, free, tallies, margin, read, sweep, outside, events, slips>>

(* after_submit raises, and the guard is left without a rebuild.           *)
PersistFails(e) ==
  /\ pc[e] = "persist" /\ Event /\ Release(e)
  /\ Slip(IF Opens(e) THEN {Acct(e)} ELSE {}, "untracked")
  /\ UNCHANGED <<tables, tallies, margin, read, sweep, outside>>

----------------------------------------------------------------------------
(* The rewrites.                                                           *)

Missing(S) == {Account[t] : t \in OpenRows \ S}

Rewrite(S) ==
  /\ exposures' = ExposuresOf[S] /\ used' = UsedOf[S] /\ counts' = CountsOf[S]
  /\ Slip(Missing(S), "stale")

RebuildRead(e) ==
  /\ pc[e] = "rebuild" /\ Goto(e, "write") /\ read' = [read EXCEPT ![e] = OpenRows]
  /\ UNCHANGED <<tables, tallies, margin, taken, sweep, outside, events, slips>>

RebuildWrite(e) ==
  /\ pc[e] = "write" /\ Rewrite(read[e]) /\ Release(e) /\ read' = [read EXCEPT ![e] = {}]
  /\ UNCHANGED <<tables, margin, sweep, outside, events>>

(* A pair close or a kill-switch flatten: the basket, the row and then a   *)
(* rewrite, none of it under the exposure locks.  Two closes of one trade  *)
(* are KillSwitch's subject and left out here.                             *)
CloseOutside(t) ==
  /\ outside.pc = "idle" /\ Event
  /\ rows[t] = "OPEN" /\ held[t] = LegsOf(t)
  /\ <<t, "CLOSE">> \in Executions => pc[<<t, "CLOSE">>] \in {"idle", "done"}
  /\ rows' = [rows EXCEPT ![t] = "CLOSED"] /\ held' = [held EXCEPT ![t] = {}]
  /\ free' = [free EXCEPT ![Account[t]] = @ + Value(t)]
  /\ outside' = [outside EXCEPT !.pc = "rebuild"]
  /\ UNCHANGED <<tallies, margin, runs, sweep, slips>>

OutsideRead ==
  /\ outside.pc = "rebuild" /\ outside' = [pc |-> "write", read |-> OpenRows]
  /\ UNCHANGED <<tables, tallies, margin, runs, sweep, events, slips>>

OutsideWrite ==
  /\ outside.pc = "write" /\ Rewrite(outside.read) /\ outside' = [pc |-> "idle", read |-> {}]
  /\ UNCHANGED <<tables, margin, runs, sweep, events>>

(* _reseed_model_value_used: the rows are read before the locks are taken. *)
SweepRead ==
  /\ sweep.pc = "idle" /\ Event
  /\ sweep' = [pc |-> "locking", read |-> OpenRows, got |-> {}]
  /\ UNCHANGED <<tables, tallies, margin, runs, outside, slips>>

SweepLocks == {ModelLock(k) : k \in {ModelKey(t) : t \in sweep.read} \cup {k \in ModelKeys : used[k] > 0}}

SweepLock(l) ==
  /\ sweep.pc = "locking" /\ l \in SweepLocks \ sweep.got /\ IsFree(l)
  /\ sweep' = [sweep EXCEPT !.got = @ \cup {l}]
  /\ UNCHANGED <<tables, tallies, margin, runs, outside, events, slips>>

SweepWrite ==
  /\ sweep.pc = "locking" /\ SweepLocks \subseteq sweep.got
  /\ used' = UsedOf[sweep.read] /\ Slip(Missing(sweep.read), "stale")
  /\ sweep' = [pc |-> "idle", read |-> {}, got |-> {}]
  /\ UNCHANGED <<tables, exposures, counts, margin, runs, outside, events>>

----------------------------------------------------------------------------
(* The account summary, on the socket thread.                              *)

(* The commitments older than as_of - GRACE are a prefix: how long it is   *)
(* depends on the moment.                                                  *)
Kept(a, n) == SubSeq(commitments[a], n + 1, Len(commitments[a]))

ClosesUnbooked(a) == \E e \in Executions : Acct(e) = a /\ ~Opens(e) /\ pc[e] \in {"settled", "unsettled"}

(* A summary, or the tag the gates read: the funds are the broker's.       *)
FundsTag(a, n) ==
  /\ Event
  /\ seen' = [seen EXCEPT ![a] = free[a]]
  /\ commitments' = [commitments EXCEPT ![a] = Kept(a, n)]
  /\ Slip(IF ClosesUnbooked(a) \/ \E i \in 1 .. Len(Kept(a, n)) : Kept(a, n)[i] < 0 THEN {a} ELSE {}, "credited")
  /\ UNCHANGED <<tables, tallies, runs, sweep, outside>>

(* Any other tag: it moves as_of and leaves the funds as they were.        *)
OtherTag(a, n) ==
  /\ Event /\ n > 0
  /\ commitments' = [commitments EXCEPT ![a] = Kept(a, n)]
  /\ Slip({a}, "dropped")
  /\ UNCHANGED <<tables, tallies, seen, runs, sweep, outside>>

----------------------------------------------------------------------------
(* The process restarts: hydrate_runtime_from_db, and the first summary.   *)

Unrecorded == {Acct(e) : e \in {e \in Executions : Opens(e) /\ pc[e] \in {"settled", "unsettled", "persist"}}}

Restart ==
  /\ Event
  /\ exposures' = ExposuresOf[OpenRows] /\ used' = UsedOf[OpenRows] /\ counts' = CountsOf[OpenRows]
  /\ seen' = free /\ commitments' = [a \in Accounts |-> <<>>]
  /\ pc' = [e \in Executions |-> IF pc[e] = "idle" THEN "idle" ELSE "done"]
  /\ taken' = [e \in Executions |-> 0] /\ read' = [e \in Executions |-> {}]
  /\ sweep' = [pc |-> "idle", read |-> {}, got |-> {}] /\ outside' = [pc |-> "idle", read |-> {}]
  /\ Slip(Unrecorded, "untracked")
  /\ UNCHANGED <<tables>>

----------------------------------------------------------------------------
Basket(e) ==
  \/ BasketSettles(e)
  \/ BasketCompensates(e)
  \/ \E S \in SUBSET LegsOf(e[1]) : BasketUnsettled(e, S) \/ BasketRaises(e, S)

Work(e) ==
  \/ EnterGuard(e)
  \/ Refuse(e)
  \/ Basket(e)
  \/ BookSettled(e)
  \/ BookUnsettled(e)
  \/ Persist(e)
  \/ PersistFails(e)
  \/ RebuildRead(e)
  \/ RebuildWrite(e)

Sweeping == (\E k \in ModelKeys : SweepLock(ModelLock(k))) \/ SweepWrite
Closing  == OutsideRead \/ OutsideWrite

Next ==
  \/ \E e \in Executions : Begin(e) \/ Work(e)
  \/ \E t \in Trades : CloseOutside(t)
  \/ Closing
  \/ SweepRead
  \/ Sweeping
  \/ \E a \in Accounts : \E n \in 0 .. Len(commitments[a]) : FundsTag(a, n) \/ OtherTag(a, n)
  \/ Restart

Spec == Init /\ [][Next]_vars

----------------------------------------------------------------------------
(* Properties.                                                             *)

(* Every variable stays within its type.                                   *)
TypeOK ==
  /\ rows \in [Trades -> {"none", "OPEN", "CLOSED"}] /\ \A t \in Trades : held[t] \subseteq LegsOf(t)
  /\ free \in [Accounts -> Int] /\ seen \in [Accounts -> Int]
  /\ exposures \in [SymbolKeys -> Nat] /\ used \in [ModelKeys -> Nat] /\ counts \in [ModelKeys -> Nat]
  /\ \A a \in Accounts : commitments[a] \in Seq(Int)
  /\ pc \in [Executions -> {"idle", "locking", "submit", "settled", "unsettled", "persist", "rebuild", "write", "done"}]
  /\ \A e \in Executions : taken[e] \in 0 .. Len(LockOrder[e[1]])
  /\ sweep.pc \in {"idle", "locking"} /\ outside.pc \in {"idle", "rebuild", "write"}

Quiet(a)  == \A e \in Executions : Acct(e) = a => pc[e] \in {"idle", "locking", "done"}
HeldIn(k) == MapThenSumSet(LAMBDA t : Size[t], {t \in Trades : k \in KeysOf(t, held[t])})

(* Whenever no execution of an account is between its checks and its       *)
(* rewrite, the exposure the checks will read is at least what the broker  *)
(* holds, unless a position was left without a row or a rewrite went by    *)
(* rows read too early.                                                    *)
TalliesCoverHoldings ==
  \A k \in SymbolKeys : Quiet(k[1]) /\ slips[k[1]] \cap {"stale", "untracked"} = {} => HeldIn(k) <= exposures[k]

(* The money limit of a symbol spans strategies: however executions        *)
(* overlap, the broker never holds more than the limit, with the same two  *)
(* exceptions.                                                             *)
LimitHolds ==
  \A k \in SymbolKeys : slips[k[1]] \cap {"stale", "untracked"} = {} => HeldIn(k) <= SymbolLimit[k[1]]

(* The free margin the gates compute between two executions is never more  *)
(* than the account has, unless a tag without funds dropped commitments,   *)
(* the release of a CLOSE was counted twice, or a basket was not booked.   *)
MarginIsNotOverstated ==
  \A a \in Accounts : Quiet(a) /\ slips[a] \cap {"dropped", "credited", "untracked"} = {} => Effective(a) <= free[a]

Waits(e) == pc[e] = "locking" /\ Reached(e) = taken[e]

(* An execution or a sweep that waits for an exposure lock waits for       *)
(* somebody who can run: no order of arrivals, and no way of leaving the   *)
(* guard, leaves everyone waiting.                                         *)
SomebodyCanRun ==
  (\E e \in Executions : Waits(e)) \/ sweep.pc = "locking" =>
    \/ \E e \in Executions : pc[e] \notin {"idle", "done"} /\ ~Waits(e)
    \/ sweep.pc = "locking" /\ (SweepLocks \subseteq sweep.got \/ \E l \in SweepLocks \ sweep.got : IsFree(l))

============================================================================
