----------------------- MODULE ExposureLedger_proofs -----------------------
(* Proofs about ExposureLedger: the tallies, the limit of a symbol, the    *)
(* free margin and that nobody is stuck, for any finite set of trades.     *)
(* Every execution of an account takes the account's margin lock first, so *)
(* that one of them at a time is between its checks and its rewrite; all   *)
(* else is about those who take other locks or none: the closes outside,   *)
(* the sweep, the account summary and the restart.                         *)
EXTENDS ExposureLedger, SumTheorems

----------------------------------------------------------------------------
(* The inductive invariant.                                                *)

Inside    == {"submit", "settled", "unsettled", "persist", "rebuild", "write"}
Unwritten == {"settled", "unsettled", "persist"}
ModelLocks == {ModelLock(k) : k \in ModelKeys}

(* Every variable stays within its type.                                   *)
Typed ==
  /\ rows \in [Trades -> {"none", "OPEN", "CLOSED"}]
  /\ held \in [Trades -> SUBSET Nat] /\ \A t \in Trades : held[t] \subseteq LegsOf(t)
  /\ free \in [Accounts -> Int] /\ seen \in [Accounts -> Int]
  /\ exposures \in [SymbolKeys -> Nat] /\ used \in [ModelKeys -> Nat] /\ counts \in [ModelKeys -> Nat]
  /\ commitments \in [Accounts -> Seq(Int)]
  /\ pc \in [Executions -> {"idle", "locking", "done"} \cup Inside]
  /\ taken \in [Executions -> Nat] /\ \A e \in Executions : taken[e] <= Len(LockOrder[e[1]])
  /\ read \in [Executions -> (SUBSET Nat) \cup (SUBSET Trades)]
  /\ \A e \in Executions : /\ pc[e] = "unsettled" => read[e] \subseteq LegsOf(e[1])
                           /\ pc[e] = "write" => read[e] \subseteq Trades
  /\ sweep \in [pc : {"idle", "locking"}, read : SUBSET Trades, got : SUBSET ModelLocks]
  /\ sweep.pc = "idle" => sweep.got = {}
  /\ outside \in [pc : {"idle", "rebuild", "write"}, read : SUBSET Trades]
  /\ slips \in [Accounts -> SUBSET {"stale", "untracked", "credited", "dropped"}]

(* Between its checks and its rewrite an execution holds locks, before and *)
(* after it holds none, and of the executions of an account at most one    *)
(* has got its first lock, which is the account's margin lock.             *)
LockInv ==
  /\ \A e \in Executions : /\ pc[e] \in Inside => taken[e] > 0
                           /\ pc[e] \in {"idle", "done"} => taken[e] = 0
                           /\ pc[e] = "locking" => taken[e] < Len(LockOrder[e[1]])
  /\ \A e, f \in Executions : e # f /\ Acct(e) = Acct(f) => taken[e] = 0 \/ taken[f] = 0

Opening(t) == IF <<t, "OPEN">> \in Executions THEN pc[<<t, "OPEN">>] ELSE "idle"
ClosingOf(t) == IF <<t, "CLOSE">> \in Executions THEN pc[<<t, "CLOSE">>] ELSE "idle"

(* The row of a trade, its legs at the broker and its two executions.      *)
TradeInv(t) ==
  /\ Opening(t) \in {"idle", "locking", "submit"} => rows[t] = "none" /\ held[t] = {}
  /\ Opening(t) \in Unwritten => rows[t] = "none"
  /\ Opening(t) \in {"settled", "persist"} => held[t] = LegsOf(t)
  /\ Opening(t) = "unsettled" => held[t] = read[<<t, "OPEN">>]
  /\ rows[t] = "none" => ClosingOf(t) = "idle"
  /\ rows[t] = "none" /\ Opening(t) \notin Unwritten /\ "untracked" \notin slips[Account[t]] => held[t] = {}
  /\ ClosingOf(t) \in {"locking", "submit"} \cup Unwritten => rows[t] = "OPEN"
  /\ ClosingOf(t) \in {"settled", "persist"} => held[t] = {}
  /\ ClosingOf(t) = "unsettled" => held[t] \cap read[<<t, "CLOSE">>] = {}
  /\ rows[t] = "CLOSED" => held[t] = {}
  /\ rows[t] = "OPEN" /\ ClosingOf(t) \in {"idle", "locking", "submit"} => held[t] = LegsOf(t)

RowsInv == \A t \in Trades : TradeInv(t)

(* The legs of a trade that the tallies still have to count: the ones held *)
(* and the ones a CLOSE has sold and not booked.                           *)
Owed(t) == held[t] \cup (CASE ClosingOf(t) = "settled" -> LegsOf(t)
                           [] ClosingOf(t) = "unsettled" -> read[<<t, "CLOSE">>]
                           [] OTHER -> {})

Weights(legs, k) == [t \in Trades |-> IF k \in KeysOf(t, legs[t]) THEN Size[t] ELSE 0]
Weight(legs, k)  == SumFunctionOnSet(Weights(legs, k), Trades)
OwedLegs == [t \in Trades |-> Owed(t)]

(* No OPEN of the account has traded and not rewritten the tallies yet.    *)
Written(a) == \A e \in Executions : Acct(e) = a /\ Opens(e) => pc[e] \notin Unwritten \cup {"rebuild", "write"}

Tracked(a) == slips[a] \cap {"stale", "untracked"} = {}

Covers(k) == Written(k[1]) /\ Tracked(k[1]) => Weight(OwedLegs, k) <= exposures[k]
CoverInv == \A k \in SymbolKeys : Covers(k)

(* The broker holds no more than the limit, and the OPEN that has passed   *)
(* the checks fits in what is left.                                        *)
Fits(k) ==
  Tracked(k[1]) =>
    /\ Weight(held, k) <= SymbolLimit[k[1]]
    /\ \A e \in Executions : Opens(e) /\ pc[e] = "submit" /\ k \in KeysOf(e[1], LegsOf(e[1])) =>
         Weight(held, k) + Size[e[1]] <= SymbolLimit[k[1]]
RoomInv == \A k \in SymbolKeys : Fits(k)

Unbooked(e) == pc[e] \in {"settled", "unsettled"}
Filled(e)   == IF pc[e] = "settled" THEN LegsOf(e[1]) ELSE read[e]

(* What the gates compute is at most what the account has, but for the     *)
(* execution that has traded and not booked.                               *)
Accounted(a) == slips[a] \cap {"dropped", "credited", "untracked"} = {}

Funded(a) ==
  Accounted(a) =>
    /\ \A e \in Executions : Acct(e) = a /\ Unbooked(e) => Effective(a) <= free[a] + Committed(e, Filled(e))
    /\ (\A e \in Executions : Acct(e) = a => ~Unbooked(e)) => Effective(a) <= free[a]
FundsInv == \A a \in Accounts : Funded(a)

Inv == Typed /\ LockInv /\ RowsInv /\ CoverInv /\ RoomInv /\ FundsInv

----------------------------------------------------------------------------
(* Trades, legs and locks.                                                 *)

LEMMA TradeFacts ==
  ASSUME NEW t \in Trades
  PROVE  /\ Account[t] \in Accounts /\ ModelKey(t) \in ModelKeys
         /\ Len(Legs[t]) \in Nat /\ LegsOf(t) \subseteq Nat /\ IsFiniteSet(LegsOf(t))
         /\ Size[t] \in Nat /\ Value(t) \in Nat /\ SymbolLimit[Account[t]] \in Nat
         /\ \A i, j \in LegsOf(t) : Legs[t][i] \in Nat /\ (Legs[t][i] = Legs[t][j] => i = j)
         /\ \A legs \in SUBSET LegsOf(t) : /\ Required(t, legs) \in Nat
                                           /\ KeysOf(t, legs) \subseteq SymbolKeys
<1>1. Legs[t] \in Seq(Nat) /\ Size[t] \in Nat /\ SymbolLimit[Account[t]] \in Nat
  BY ConstantsAssumption
<1>2. Len(Legs[t]) \in Nat BY <1>1
<1>3. LegsOf(t) \subseteq Nat /\ IsFiniteSet(LegsOf(t)) BY <1>2, FS_Interval DEF LegsOf
<1>4. \A i \in LegsOf(t) : Legs[t][i] \in Nat BY <1>1 DEF LegsOf
<1>5. \A i, j \in LegsOf(t) : Legs[t][i] = Legs[t][j] => i = j
  BY <1>1, ConstantsAssumption DEF LegsOf, IsInjective
<1>6. Value(t) \in Nat
  <2>1. \A m, n \in Nat : m * n \in Nat OBVIOUS
  <2> QED BY <1>1, <1>2, <2>1 DEF Value
<1>7. ASSUME NEW legs \in SUBSET LegsOf(t)
      PROVE  Required(t, legs) \in Nat /\ KeysOf(t, legs) \subseteq SymbolKeys
  <2>1. Cardinality(legs) \in Nat BY <1>3, FS_Subset, FS_CardinalityType
  <2>2. \A m, n \in Nat : m * n \in Nat OBVIOUS
  <2> QED BY <1>1, <2>1, <2>2 DEF Required, KeysOf, SymbolKeys
<1> QED BY <1>1, <1>2, <1>3, <1>4, <1>5, <1>6, <1>7 DEF Accounts, ModelKeys

LEMMA KeyFacts ==
  ASSUME NEW k \in SymbolKeys
  PROVE  /\ k[1] \in Accounts /\ SymbolLimit[k[1]] \in Nat
         /\ \A t \in Trades : \A legs \in SUBSET LegsOf(t) : k \in KeysOf(t, legs) => Account[t] = k[1]
<1>1. PICK t \in Trades : k \in KeysOf(t, LegsOf(t)) BY DEF SymbolKeys
<1>2. k[1] = Account[t] BY <1>1 DEF KeysOf
<1> QED BY <1>2, TradeFacts DEF KeysOf

LEMMA ExecutionFacts ==
  ASSUME NEW e \in Executions
  PROVE  /\ e[1] \in Trades /\ e[2] \in {"OPEN", "CLOSE"} /\ e = <<e[1], e[2]>> /\ Acct(e) \in Accounts
         /\ Acct(e) = Account[e[1]]
         /\ Opens(e) => e = <<e[1], "OPEN">> /\ Opening(e[1]) = pc[e]
         /\ ~Opens(e) => e = <<e[1], "CLOSE">> /\ ClosingOf(e[1]) = pc[e]
<1>1. e \in Trades \X {"OPEN", "CLOSE"} BY ConstantsAssumption
<1>2. e[1] \in Trades /\ e[2] \in {"OPEN", "CLOSE"} /\ e = <<e[1], e[2]>> BY <1>1
<1> QED BY <1>2 DEF Acct, Opens, Accounts, Opening, ClosingOf

(* The legs have as many ranks as there are legs, so that every place in   *)
(* the order is somebody's.                                                *)
LEMMA SortedFacts ==
  ASSUME NEW t \in Trades
  PROVE  /\ \A n \in LegsOf(t) : Sorted(t)[n] \in LegsOf(t)
         /\ \A m, n \in LegsOf(t) : Sorted(t)[m] = Sorted(t)[n] => m = n
<1> DEFINE N == Len(Legs[t])
<1> DEFINE rank == [i \in LegsOf(t) |-> Cardinality(Before(t, i)) + 1]
<1>1. N \in Nat /\ LegsOf(t) = 1 .. N BY TradeFacts DEF LegsOf
<1>2. \A i \in LegsOf(t) : IsFiniteSet(Before(t, i)) BY TradeFacts, FS_Subset DEF Before
<1>3. ASSUME NEW i \in LegsOf(t), NEW j \in LegsOf(t), Legs[t][i] < Legs[t][j]
      PROVE  Cardinality(Before(t, i)) < Cardinality(Before(t, j))
  <2>1. Before(t, i) \subseteq Before(t, j) /\ i \in Before(t, j) /\ i \notin Before(t, i)
    <3>1. \A n \in LegsOf(t) : Legs[t][n] \in Nat BY TradeFacts
    <3>2. i \in Before(t, j) /\ i \notin Before(t, i) BY <1>3, <3>1 DEF Before
    <3>3. \A n \in LegsOf(t) : Legs[t][n] < Legs[t][i] => Legs[t][n] < Legs[t][j] BY <1>3, <3>1
    <3> QED BY <3>2, <3>3 DEF Before
  <2>2. Cardinality(Before(t, i)) \in Nat /\ Cardinality(Before(t, j)) \in Nat BY <1>2, FS_CardinalityType
  <2>3. Cardinality(Before(t, i)) <= Cardinality(Before(t, j)) BY <1>2, <2>1, FS_Subset
  <2>4. Cardinality(Before(t, i)) # Cardinality(Before(t, j)) BY <1>2, <2>1, FS_Subset
  <2> QED BY <2>2, <2>3, <2>4
<1>4. rank \in [LegsOf(t) -> 1 .. N]
  <2>1. ASSUME NEW i \in LegsOf(t) PROVE Cardinality(Before(t, i)) + 1 \in 1 .. N
    <3>1. Before(t, i) \subseteq LegsOf(t) /\ i \notin Before(t, i) BY TradeFacts DEF Before
    <3>2. IsFiniteSet(LegsOf(t)) /\ Cardinality(LegsOf(t)) = N
      <4>1. 1 \in Int /\ N \in Int BY <1>1
      <4> QED BY <1>1, <4>1, FS_Interval
    <3>3. Cardinality(Before(t, i)) <= N BY <3>1, <3>2, FS_Subset
    <3>4. Cardinality(Before(t, i)) # N BY <3>1, <3>2, FS_Subset
    <3>5. Cardinality(Before(t, i)) \in Nat BY <1>2, FS_CardinalityType
    <3> QED BY <1>1, <3>3, <3>4, <3>5
  <2> QED BY <2>1
<1>5. \A i, j \in LegsOf(t) : rank[i] = rank[j] => i = j
  <2> TAKE i, j \in LegsOf(t)
  <2> HAVE rank[i] = rank[j]
  <2>1. Cardinality(Before(t, i)) = Cardinality(Before(t, j)) BY <1>2, FS_CardinalityType
  <2>2. Legs[t][i] \in Nat /\ Legs[t][j] \in Nat BY TradeFacts
  <2>3. ~(Legs[t][i] < Legs[t][j]) /\ ~(Legs[t][j] < Legs[t][i])
    <3>1. Cardinality(Before(t, i)) \in Nat BY <1>2, FS_CardinalityType
    <3> QED BY <1>3, <2>1, <3>1
  <2>4. Legs[t][i] = Legs[t][j] BY <2>2, <2>3
  <2> QED BY <2>4, TradeFacts
<1>6. \A n \in LegsOf(t) : \E i \in LegsOf(t) : rank[i] = n
  <2>1. PICK f, S : f = rank /\ S = LegsOf(t) OBVIOUS
  <2>2. f \in Injection(S, S) BY <2>1, <1>1, <1>4, <1>5 DEF Injection, IsInjective
  <2>3. f \in Surjection(S, S) BY <2>2, <2>1, TradeFacts, FS_Injection
  <2> QED BY <2>1, <2>3 DEF Surjection
<1>7. \A n \in LegsOf(t) : \E i \in LegsOf(t) : Cardinality(Before(t, i)) = n - 1
  <2> TAKE n \in LegsOf(t)
  <2>1. PICK i \in LegsOf(t) : rank[i] = n BY <1>6
  <2>2. Cardinality(Before(t, i)) \in Nat BY <1>2, FS_CardinalityType
  <2>3. Cardinality(Before(t, i)) = n - 1 BY <2>1, <2>2
  <2> QED BY <2>3
<1>8. \A n \in LegsOf(t) : Sorted(t)[n] \in LegsOf(t) /\ Cardinality(Before(t, Sorted(t)[n])) = n - 1
  BY <1>7 DEF Sorted
<1>9. ASSUME NEW m \in LegsOf(t), NEW n \in LegsOf(t), Sorted(t)[m] = Sorted(t)[n] PROVE m = n
  <2>1. m - 1 = n - 1 BY <1>8, <1>9
  <2>2. m \in Nat /\ n \in Nat BY TradeFacts
  <2> QED BY <2>1, <2>2
<1> QED BY <1>8, <1>9

LEMMA LockFacts ==
  ASSUME NEW t \in Trades
  PROVE  /\ Len(LockOrder[t]) = 2 + Len(Legs[t])
         /\ LockOrder[t][1] = MarginLock(t) /\ LockOrder[t][2] = ModelLock(ModelKey(t))
         /\ \A n \in LegsOf(t) : LockOrder[t][2 + n] = SymbolLock(t, Sorted(t)[n])
<1> DEFINE f == [n \in LegsOf(t) |-> SymbolLock(t, Sorted(t)[n])]
<1> DEFINE A == {SymbolLock(t, Sorted(t)[n]) : n \in LegsOf(t)} \cup {MarginLock(t), ModelLock(ModelKey(t))}
<1>1. Len(Legs[t]) \in Nat BY TradeFacts
<1>2. f \in Seq(A) /\ Len(f) = Len(Legs[t])
  <2> HIDE DEF A
  <2>1. \A n \in LegsOf(t) : f[n] \in A BY DEF A
  <2>2. f \in [1 .. Len(Legs[t]) -> A] BY <2>1 DEF LegsOf
  <2> HIDE DEF f
  <2> QED BY <1>1, <2>2
<1>3. <<MarginLock(t), ModelLock(ModelKey(t))>> \in Seq(A) OBVIOUS
<1>4. LockOrder[t] = <<MarginLock(t), ModelLock(ModelKey(t))>> \o f BY DEF LockOrder
<1>5. \A n \in LegsOf(t) : f[n] = SymbolLock(t, Sorted(t)[n]) OBVIOUS
<1>6. PICK g, M, L : g = f /\ M = MarginLock(t) /\ L = ModelLock(ModelKey(t)) OBVIOUS
<1>7. PICK B : B = A OBVIOUS
<1> HIDE DEF f, A
<1>8. g \in Seq(B) /\ <<M, L>> \in Seq(B) /\ LockOrder[t] = <<M, L>> \o g BY <1>2, <1>3, <1>4, <1>6, <1>7
<1>9. Len(LockOrder[t]) = 2 + Len(g) /\ LockOrder[t][1] = M /\ LockOrder[t][2] = L BY <1>8
<1>10. \A n \in 1 .. Len(g) : LockOrder[t][2 + n] = g[n] BY <1>8
<1> QED BY <1>2, <1>5, <1>6, <1>9, <1>10 DEF LegsOf

(* The locks are taken up to the first that is not free.                   *)
LEMMA ReachedFacts ==
  ASSUME Typed, NEW e \in Executions
  PROVE  /\ Reached(e) \in taken[e] .. Len(LockOrder[e[1]])
         /\ \A i \in taken[e] + 1 .. Reached(e) : IsFree(LockOrder[e[1]][i])
         /\ Reached(e) < Len(LockOrder[e[1]]) => ~IsFree(LockOrder[e[1]][Reached(e) + 1])
<1>1. PICK locks : locks = LockOrder[e[1]] OBVIOUS
<1>2. PICK m : m = taken[e] OBVIOUS
<1>3. PICK N : N = Len(locks) OBVIOUS
<1>4. m \in Nat /\ N \in Nat /\ m <= N
  <2>1. e[1] \in Trades BY ExecutionFacts
  <2>2. Len(LockOrder[e[1]]) \in Nat BY <2>1, LockFacts, TradeFacts
  <2> QED BY <1>1, <1>2, <1>3, <2>2 DEF Typed
<1> DEFINE Good(n) == /\ \A i \in m + 1 .. n : IsFree(locks[i])
                      /\ n < N => ~IsFree(locks[n + 1])
<1>5. \E n \in m .. N : Good(n)
  <2> DEFINE B == {i \in m + 1 .. N : ~IsFree(locks[i])}
  <2>1. CASE B = {}
    <3>1. N \in m .. N /\ Good(N) BY <1>4, <2>1
    <3> QED BY <3>1
  <2>2. CASE B # {}
    <3>1. PICK b \in B : \A i \in B : b <= i
      <4>1. B \subseteq Nat BY <1>4
      <4> HIDE DEF B
      <4> QED BY <2>2, <4>1, LeastNatural
    <3>2. b \in m + 1 .. N /\ ~IsFree(locks[b]) OBVIOUS
    <3>3. \A i \in m + 1 .. b - 1 : IsFree(locks[i])
      <4> TAKE i \in m + 1 .. b - 1
      <4>1. i \in m + 1 .. N /\ ~(b <= i) BY <1>4, <3>2
      <4> QED BY <4>1, <3>1
    <3>4. b - 1 \in m .. N /\ (b - 1) + 1 = b BY <1>4, <3>2
    <3>5. Good(b - 1) BY <3>2, <3>3, <3>4
    <3> QED BY <3>4, <3>5
  <2> QED BY <2>1, <2>2
<1>6. Reached(e) = CHOOSE n \in m .. N : Good(n) BY <1>1, <1>2, <1>3 DEF Reached
<1>7. PICK r : r = Reached(e) OBVIOUS
<1>8. r \in m .. N /\ Good(r) BY <1>5, <1>6, <1>7
<1> QED BY <1>1, <1>2, <1>3, <1>7, <1>8

(* One execution moves: the phases of the other one of its trade, and of   *)
(* the other trades, stay.                                                 *)
LEMMA Moves ==
  ASSUME Typed, NEW e \in Executions, NEW w, Goto(e, w)
  PROVE  /\ pc'[e] = w /\ \A f \in Executions : f # e => pc'[f] = pc[f]
         /\ \A t \in Trades : Opening(t)' = IF Opens(e) /\ t = e[1] THEN w ELSE Opening(t)
         /\ \A t \in Trades : ClosingOf(t)' = IF ~Opens(e) /\ t = e[1] THEN w ELSE ClosingOf(t)
<1>1. pc'[e] = w /\ \A f \in Executions : f # e => pc'[f] = pc[f] BY DEF Goto, Typed
<1>2. e[2] \in {"OPEN", "CLOSE"} /\ e = <<e[1], e[2]>> BY ExecutionFacts
<1>3. ASSUME NEW t \in Trades PROVE Opening(t)' = IF Opens(e) /\ t = e[1] THEN w ELSE Opening(t)
  <2>1. <<t, "OPEN">> = e <=> Opens(e) /\ t = e[1] BY <1>2 DEF Opens
  <2> QED BY <1>1, <2>1 DEF Opening
<1>4. ASSUME NEW t \in Trades PROVE ClosingOf(t)' = IF ~Opens(e) /\ t = e[1] THEN w ELSE ClosingOf(t)
  <2>1. <<t, "CLOSE">> = e <=> ~Opens(e) /\ t = e[1] BY <1>2 DEF Opens
  <2> QED BY <1>1, <2>1 DEF ClosingOf
<1> QED BY <1>1, <1>3, <1>4

(* Nobody moves.                                                           *)
LEMMA Stays ==
  ASSUME pc' = pc
  PROVE  \A t \in Trades : Opening(t)' = Opening(t) /\ ClosingOf(t)' = ClosingOf(t)
BY DEF Opening, ClosingOf

(* Slips are only added.                                                   *)
LEMMA SlipFacts ==
  ASSUME Typed, NEW A, NEW why, Slip(A, why)
  PROVE  /\ \A a \in Accounts : slips[a] \subseteq slips'[a] /\ (a \in A => why \in slips'[a])
         /\ why \in {"stale", "untracked", "credited", "dropped"} =>
              slips' \in [Accounts -> SUBSET {"stale", "untracked", "credited", "dropped"}]
BY DEF Slip, Typed

----------------------------------------------------------------------------
(* What trades weigh on a symbol.                                          *)

LEMMA WeightType ==
  ASSUME NEW legs, NEW k
  PROVE  /\ Weight(legs, k) \in Nat
         /\ \A t \in Trades : Weights(legs, k)[t] \in Nat
                              /\ Weights(legs, k)[t] = IF k \in KeysOf(t, legs[t]) THEN Size[t] ELSE 0
<1>1. PICK w : w = Weights(legs, k) OBVIOUS
<1>2. \A t \in Trades : w[t] \in Nat /\ w[t] = IF k \in KeysOf(t, legs[t]) THEN Size[t] ELSE 0
  BY <1>1, TradeFacts DEF Weights
<1>3. SumFunctionOnSet(w, Trades) \in Nat BY <1>2, ConstantsAssumption, SumNat
<1> QED BY <1>1, <1>2, <1>3 DEF Weight

(* More legs weigh more.                                                   *)
LEMMA WeightGrows ==
  ASSUME NEW f, NEW g, NEW k, \A t \in Trades : k \in KeysOf(t, f[t]) => k \in KeysOf(t, g[t])
  PROVE  Weight(f, k) <= Weight(g, k)
<1>1. PICK v, w : v = Weights(f, k) /\ w = Weights(g, k) OBVIOUS
<1>2. \A t \in Trades : v[t] \in Int /\ w[t] \in Int /\ v[t] <= w[t]
  <2> TAKE t \in Trades
  <2>1. v[t] = IF k \in KeysOf(t, f[t]) THEN Size[t] ELSE 0 BY <1>1, WeightType
  <2>2. w[t] = IF k \in KeysOf(t, g[t]) THEN Size[t] ELSE 0 BY <1>1, WeightType
  <2>3. Size[t] \in Nat BY TradeFacts
  <2> QED BY <2>1, <2>2, <2>3
<1>3. SumFunctionOnSet(v, Trades) <= SumFunctionOnSet(w, Trades) BY <1>2, ConstantsAssumption, SumMonotone
<1> QED BY <1>1, <1>3 DEF Weight

(* The legs of one trade change.                                           *)
LEMMA WeightChanges ==
  ASSUME NEW f, NEW g, NEW k, NEW s \in Trades, \A t \in Trades : t # s => f[t] = g[t]
  PROVE  Weight(g, k) = Weight(f, k) + (Weights(g, k)[s] - Weights(f, k)[s])
<1>1. PICK v, w : v = Weights(f, k) /\ w = Weights(g, k) OBVIOUS
<1>2. \A t \in Trades : v[t] \in Int /\ w[t] \in Int /\ (t # s => v[t] = w[t])
  BY <1>1, WeightType
<1>3. SumFunctionOnSet(w, Trades) = SumFunctionOnSet(v, Trades) + (w[s] - v[s])
  BY <1>2, ConstantsAssumption, SumChange
<1> QED BY <1>1, <1>3 DEF Weight

(* The key comes to a trade.                                               *)
LEMMA WeightAdds ==
  ASSUME NEW f, NEW g, NEW k, NEW s \in Trades, \A t \in Trades : t # s => f[t] = g[t],
         k \notin KeysOf(s, f[s]), k \in KeysOf(s, g[s])
  PROVE  Weight(g, k) = Weight(f, k) + Size[s]
<1>1. Weight(g, k) = Weight(f, k) + (Weights(g, k)[s] - Weights(f, k)[s]) BY WeightChanges
<1>2. Weights(f, k)[s] = 0 /\ Weights(g, k)[s] = Size[s] /\ Weight(f, k) \in Nat BY WeightType
<1>3. Size[s] \in Nat BY TradeFacts
<1> QED BY <1>1, <1>2, <1>3

(* The sum over the trades that have the key is their weight.              *)
LEMMA WeightIsSum ==
  ASSUME NEW legs, NEW k, NEW S \in SUBSET Trades,
         \A t \in Trades : t \in S <=> k \in KeysOf(t, legs[t])
  PROVE  MapThenSumSet(LAMBDA t : Size[t], S) = Weight(legs, k)
<1>1. PICK w : w = Weights(legs, k) OBVIOUS
<1>2. MapThenSumSet(LAMBDA t : Size[t], S) = SumFunctionOnSet(Size, S)
  BY DEF MapThenSumSet, SumFunctionOnSet, FoldFunctionOnSet, MapThenFoldSet
<1>3. \A t \in Trades : Size[t] \in Int /\ w[t] = IF t \in S THEN Size[t] ELSE 0
  BY <1>1, WeightType, TradeFacts
<1>4. SumFunctionOnSet(Size, S) = SumFunctionOnSet(w, Trades)
  BY <1>3, ConstantsAssumption, SumPart
<1> QED BY <1>1, <1>2, <1>4 DEF Weight

(* What the broker holds in a symbol.                                      *)
LEMMA HeldIsWeight ==
  ASSUME NEW k
  PROVE  HeldIn(k) = Weight(held, k)
<1>1. PICK legs, S : legs = held /\ S = {t \in Trades : k \in KeysOf(t, held[t])} OBVIOUS
<1>2. MapThenSumSet(LAMBDA t : Size[t], S) = Weight(legs, k) BY <1>1, WeightIsSum
<1> QED BY <1>1, <1>2 DEF HeldIn

(* What a rewrite puts in the tally: every leg of the rows it has read.    *)
LEMMA ExposuresFacts ==
  ASSUME NEW S \in SUBSET Trades
  PROVE  /\ ExposuresOf[S] \in [SymbolKeys -> Nat]
         /\ \A k \in SymbolKeys :
              ExposuresOf[S][k] = Weight([t \in Trades |-> IF t \in S THEN LegsOf(t) ELSE {}], k)
<1> DEFINE legs == [t \in Trades |-> IF t \in S THEN LegsOf(t) ELSE {}]
<1>1. ExposuresOf[S] = [k \in SymbolKeys |->
        MapThenSumSet(LAMBDA t : Size[t], {t \in S : k \in KeysOf(t, LegsOf(t))})]
  BY DEF ExposuresOf
<1>2. ASSUME NEW k \in SymbolKeys
      PROVE  MapThenSumSet(LAMBDA t : Size[t], {t \in S : k \in KeysOf(t, LegsOf(t))}) = Weight(legs, k)
  <2>1. PICK T : T = {t \in S : k \in KeysOf(t, LegsOf(t))} OBVIOUS
  <2>2. PICK f : f = legs OBVIOUS
  <2>3. T \in SUBSET Trades /\ \A t \in Trades : t \in T <=> k \in KeysOf(t, f[t])
    <3>1. \A t : k \notin KeysOf(t, {}) BY DEF KeysOf
    <3> QED BY <2>1, <2>2, <3>1
  <2>4. MapThenSumSet(LAMBDA t : Size[t], T) = Weight(f, k) BY <2>3, WeightIsSum
  <2> QED BY <2>1, <2>2, <2>4
<1> HIDE DEF legs
<1>3. \A k \in SymbolKeys : ExposuresOf[S][k] = Weight(legs, k) BY <1>1, <1>2
<1>4. \A k \in SymbolKeys : Weight(legs, k) \in Nat
  <2>1. PICK f : f = legs OBVIOUS
  <2> QED BY <2>1, WeightType
<1>5. ExposuresOf[S] \in [SymbolKeys -> Nat]
  <2>1. PICK x : x = ExposuresOf[S] OBVIOUS
  <2>2. x = [k \in SymbolKeys |-> x[k]] BY <1>1, <2>1
  <2>3. \A k \in SymbolKeys : x[k] \in Nat BY <1>3, <1>4, <2>1
  <2> QED BY <2>1, <2>2, <2>3
<1> QED BY <1>3, <1>5 DEF legs

LEMMA UsedFacts ==
  ASSUME NEW S \in SUBSET Trades
  PROVE  UsedOf[S] \in [ModelKeys -> Nat] /\ CountsOf[S] \in [ModelKeys -> Nat]
<1>1. ASSUME NEW T \in SUBSET Trades PROVE MapThenSumSet(Value, T) \in Nat
  <2>1. PICK v : v = [t \in Trades |-> Value(t)] OBVIOUS
  <2>2. MapThenSumSet(Value, T) = SumFunctionOnSet(v, T)
    BY <2>1 DEF MapThenSumSet, SumFunctionOnSet, FoldFunctionOnSet, MapThenFoldSet
  <2>3. IsFiniteSet(T) /\ \A t \in T : v[t] \in Nat BY <2>1, TradeFacts, ConstantsAssumption, FS_Subset
  <2> QED BY <2>2, <2>3, SumNat
<1>2. UsedOf[S] \in [ModelKeys -> Nat] BY <1>1 DEF UsedOf
<1>3. ASSUME NEW k \in ModelKeys PROVE Cardinality({t \in S : ModelKey(t) = k}) \in Nat
  BY ConstantsAssumption, FS_Subset, FS_CardinalityType
<1>4. CountsOf[S] \in [ModelKeys -> Nat] BY <1>3 DEF CountsOf
<1> QED BY <1>2, <1>4

----------------------------------------------------------------------------
(* Types and locks.                                                        *)

(* A bound for each piece that an action may change.                       *)
LEMMA PiecesTyped ==
  ASSUME Typed, NEW e \in Executions
  PROVE  /\ \A w \in {"idle", "locking", "done"} \cup Inside : Goto(e, w) => pc' \in [Executions -> {"idle", "locking", "done"} \cup Inside]
         /\ \A S \in SUBSET LegsOf(e[1]) : Trade(e, S) =>
              /\ held' \in [Trades -> SUBSET Nat] /\ \A t \in Trades : held'[t] \subseteq LegsOf(t)
              /\ free' \in [Accounts -> Int]
         /\ \A legs \in SUBSET LegsOf(e[1]) :
              /\ BookExposure(e, legs) => exposures' \in [SymbolKeys -> Nat]
              /\ CommitMargin(e, legs) => commitments' \in [Accounts -> Seq(Int)]
         /\ \A k \in ModelKeys, n \in Nat :
              /\ used' = [used EXCEPT ![k] = Moved(e, @, n)] => used' \in [ModelKeys -> Nat]
              /\ counts' = [counts EXCEPT ![k] = Moved(e, @, n)] => counts' \in [ModelKeys -> Nat]
         /\ \A n \in 0 .. Len(LockOrder[e[1]]) : taken' = [taken EXCEPT ![e] = n] =>
              taken' \in [Executions -> Nat] /\ \A f \in Executions : taken'[f] <= Len(LockOrder[f[1]])
         /\ 0 \in 0 .. Len(LockOrder[e[1]])
         /\ Persisted(e) => rows' \in [Trades -> {"none", "OPEN", "CLOSED"}]
<1>0. e[1] \in Trades /\ Acct(e) \in Accounts BY ExecutionFacts
<1>1. \A w \in {"idle", "locking", "done"} \cup Inside : Goto(e, w) => pc' \in [Executions -> {"idle", "locking", "done"} \cup Inside]
  BY DEF Goto, Typed
<1>2. ASSUME NEW S \in SUBSET LegsOf(e[1]), Trade(e, S)
      PROVE  /\ held' \in [Trades -> SUBSET Nat] /\ \A t \in Trades : held'[t] \subseteq LegsOf(t)
             /\ free' \in [Accounts -> Int]
  <2>1. Required(e[1], S) \in Nat /\ LegsOf(e[1]) \subseteq Nat BY <1>0, TradeFacts
  <2>2. free' \in [Accounts -> Int]
    <3>1. free[Acct(e)] - Required(e[1], S) \in Int /\ free[Acct(e)] + Required(e[1], S) \in Int
      BY <1>0, <2>1 DEF Typed
    <3> QED BY <1>0, <1>2, <3>1 DEF Trade, Typed
  <2> QED BY <1>0, <1>2, <2>1, <2>2 DEF Trade, Typed
<1>3. \A m, n \in Nat : Moved(e, m, n) \in Nat BY DEF Moved, Floored
<1>4. ASSUME NEW legs \in SUBSET LegsOf(e[1]), BookExposure(e, legs) PROVE exposures' \in [SymbolKeys -> Nat]
  <2>1. Size[e[1]] \in Nat BY <1>0, TradeFacts
  <2> QED BY <1>3, <1>4, <2>1 DEF BookExposure, Typed
<1>5. ASSUME NEW legs \in SUBSET LegsOf(e[1]), CommitMargin(e, legs) PROVE commitments' \in [Accounts -> Seq(Int)]
  <2>1. PICK c : c = Committed(e, legs) OBVIOUS
  <2>2. c \in Int BY <1>0, <2>1, TradeFacts DEF Committed
  <2>3. Append(commitments[Acct(e)], c) \in Seq(Int) BY <1>0, <2>2 DEF Typed
  <2> QED BY <1>0, <1>5, <2>1, <2>3 DEF CommitMargin, Typed
<1>6. ASSUME NEW k \in ModelKeys, NEW n \in Nat
      PROVE  /\ used' = [used EXCEPT ![k] = Moved(e, @, n)] => used' \in [ModelKeys -> Nat]
             /\ counts' = [counts EXCEPT ![k] = Moved(e, @, n)] => counts' \in [ModelKeys -> Nat]
  <2>1. Moved(e, used[k], n) \in Nat /\ Moved(e, counts[k], n) \in Nat BY <1>3 DEF Typed
  <2>2. PICK m1, m2 : m1 = Moved(e, used[k], n) /\ m2 = Moved(e, counts[k], n) OBVIOUS
  <2>3. used \in [ModelKeys -> Nat] /\ counts \in [ModelKeys -> Nat] BY DEF Typed
  <2>4. used' = [used EXCEPT ![k] = m1] => used' \in [ModelKeys -> Nat] BY <2>1, <2>2, <2>3
  <2>5. counts' = [counts EXCEPT ![k] = m2] => counts' \in [ModelKeys -> Nat] BY <2>1, <2>2, <2>3
  <2> QED BY <2>2, <2>4, <2>5
<1>8. Len(LockOrder[e[1]]) \in Nat BY <1>0, LockFacts, TradeFacts
<1>9. ASSUME NEW n \in 0 .. Len(LockOrder[e[1]]), taken' = [taken EXCEPT ![e] = n]
      PROVE  taken' \in [Executions -> Nat] /\ \A f \in Executions : taken'[f] <= Len(LockOrder[f[1]])
  BY <1>8, <1>9 DEF Typed
<1>7. Persisted(e) => rows' \in [Trades -> {"none", "OPEN", "CLOSED"}] BY DEF Persisted, Typed
<1> QED BY <1>1, <1>2, <1>4, <1>5, <1>6, <1>7, <1>8, <1>9

LEMMA TypedStep ==
  ASSUME Typed, [Next]_vars
  PROVE  Typed'
<1> USE DEF tables, tallies, margin, runs
<1>a. CASE UNCHANGED vars BY <1>a DEF vars, Typed
<1>b. ASSUME NEW e \in Executions, Begin(e) \/ Work(e) PROVE Typed'
  <2>0. e[1] \in Trades /\ Acct(e) \in Accounts /\ ModelKey(e[1]) \in ModelKeys /\ Len(LockOrder[e[1]]) \in Nat
        /\ LegsOf(e[1]) \subseteq Nat
    BY ExecutionFacts, TradeFacts, LockFacts
  <2>1. CASE Begin(e)
    <3>1. Goto(e, "locking") BY <2>1 DEF Begin
    <3>2. pc'[e] = "locking" /\ \A f \in Executions : f # e => pc'[f] = pc[f] BY <3>1, Moves
    <3>3. pc' \in [Executions -> {"idle", "locking", "done"} \cup Inside] BY <3>1, PiecesTyped
    <3> QED BY <2>1, <3>2, <3>3 DEF Begin, Typed
  <2>2. CASE EnterGuard(e)
    <3>1. Reached(e) \in 0 .. Len(LockOrder[e[1]])
      <4>1. PICK m, n : m = taken[e] /\ n = Len(LockOrder[e[1]]) OBVIOUS
      <4>2. m \in Nat /\ n \in Nat BY <2>0, <4>1 DEF Typed
      <4>3. Reached(e) \in m .. n BY <4>1, ReachedFacts
      <4>4. Reached(e) \in 0 .. n BY <4>2, <4>3
      <4> QED BY <4>1, <4>4
    <3>2. pc' \in [Executions -> {"idle", "locking", "done"} \cup Inside]
      BY <2>2, PiecesTyped DEF EnterGuard, Release, Inside
    <3>3. taken' \in [Executions -> Nat] /\ \A f \in Executions : taken'[f] <= Len(LockOrder[f[1]])
      BY <2>2, <3>1, PiecesTyped DEF EnterGuard, Release
    <3>4. pc'[e] \in {"done", "submit", "locking"} /\ \A f \in Executions : f # e => pc'[f] = pc[f]
      BY <2>2 DEF EnterGuard, Release, Goto, Typed
    <3> QED BY <2>2, <3>2, <3>3, <3>4 DEF EnterGuard, Typed
  <2>3. CASE Refuse(e)
    <3>1. Goto(e, "done") /\ taken' = [taken EXCEPT ![e] = 0] BY <2>3 DEF Refuse, Release
    <3>2. pc' \in [Executions -> {"idle", "locking", "done"} \cup Inside] BY <3>1, PiecesTyped DEF Inside
    <3>3. pc'[e] = "done" /\ \A f \in Executions : f # e => pc'[f] = pc[f] BY <3>1, Moves
    <3>4. taken' \in [Executions -> Nat] /\ \A f \in Executions : taken'[f] <= Len(LockOrder[f[1]])
      BY <3>1, PiecesTyped
    <3> QED BY <2>3, <3>2, <3>3, <3>4 DEF Refuse, Typed
  <2>4. CASE Basket(e)
    <3>1. CASE BasketSettles(e) BY <2>0, <3>1, PiecesTyped DEF BasketSettles, Typed, Goto, Inside
    <3>2. CASE BasketCompensates(e) BY <2>0, <3>2, PiecesTyped DEF BasketCompensates, Typed, Goto, Inside
    <3>3. ASSUME NEW S \in SUBSET LegsOf(e[1]), BasketUnsettled(e, S) PROVE Typed'
      <4>1. Goto(e, "unsettled") /\ Trade(e, S) /\ read' = [read EXCEPT ![e] = S] BY <3>3 DEF BasketUnsettled
      <4>2. pc' \in [Executions -> {"idle", "locking", "done"} \cup Inside] BY <4>1, PiecesTyped DEF Inside
      <4>3. pc'[e] = "unsettled" /\ \A f \in Executions : f # e => pc'[f] = pc[f] BY <4>1, Moves
      <4>4. S \in SUBSET Nat BY <2>0
      <4>5. read' \in [Executions -> (SUBSET Nat) \cup (SUBSET Trades)]
            /\ \A f \in Executions : read'[f] = IF f = e THEN S ELSE read[f]
        BY <4>1, <4>4 DEF Typed
      <4>6. held' \in [Trades -> SUBSET Nat] /\ (\A t \in Trades : held'[t] \subseteq LegsOf(t)) /\ free' \in [Accounts -> Int]
        BY <4>1, PiecesTyped
      <4> QED BY <3>3, <4>2, <4>3, <4>5, <4>6 DEF BasketUnsettled, Typed
    <3>4. ASSUME NEW S \in SUBSET LegsOf(e[1]), BasketRaises(e, S) PROVE Typed'
      <4>1. Goto(e, "done") /\ Trade(e, S) /\ taken' = [taken EXCEPT ![e] = 0] BY <3>4 DEF BasketRaises, Release
      <4>2. pc' \in [Executions -> {"idle", "locking", "done"} \cup Inside] BY <4>1, PiecesTyped DEF Inside
      <4>3. pc'[e] = "done" /\ \A f \in Executions : f # e => pc'[f] = pc[f] BY <4>1, Moves
      <4>4. slips' \in [Accounts -> SUBSET {"stale", "untracked", "credited", "dropped"}]
        BY <3>4, SlipFacts DEF BasketRaises
      <4>5. taken' \in [Executions -> Nat] /\ \A f \in Executions : taken'[f] <= Len(LockOrder[f[1]])
        BY <4>1, PiecesTyped
      <4>6. /\ held' \in [Trades -> SUBSET Nat] /\ \A t \in Trades : held'[t] \subseteq LegsOf(t)
            /\ free' \in [Accounts -> Int]
        BY <4>1, PiecesTyped
      <4> QED BY <3>4, <4>2, <4>3, <4>4, <4>5, <4>6 DEF BasketRaises, Typed
    <3> QED BY <2>4, <3>1, <3>2, <3>3, <3>4 DEF Basket
  <2>5. CASE BookSettled(e)
    <3>1. Goto(e, "persist") BY <2>5 DEF BookSettled
    <3>2. pc' \in [Executions -> {"idle", "locking", "done"} \cup Inside] BY <3>1, PiecesTyped DEF Inside
    <3>3. pc'[e] = "persist" /\ \A f \in Executions : f # e => pc'[f] = pc[f] BY <3>1, Moves
    <3>4. exposures' \in [SymbolKeys -> Nat] /\ commitments' \in [Accounts -> Seq(Int)]
      BY <2>5, PiecesTyped DEF BookSettled
    <3>5. used' \in [ModelKeys -> Nat] /\ counts' \in [ModelKeys -> Nat]
      <4>1. Value(e[1]) \in Nat /\ 1 \in Nat BY <2>0, TradeFacts
      <4> QED BY <2>0, <2>5, <4>1, PiecesTyped DEF BookSettled
    <3> QED BY <2>5, <3>2, <3>3, <3>4, <3>5 DEF BookSettled, Typed
  <2>6. CASE BookUnsettled(e)
    <3>1. Goto(e, "rebuild") /\ read' = [read EXCEPT ![e] = {}] BY <2>6 DEF BookUnsettled
    <3>2. pc' \in [Executions -> {"idle", "locking", "done"} \cup Inside] BY <3>1, PiecesTyped DEF Inside
    <3>3. pc'[e] = "rebuild" /\ \A f \in Executions : f # e => pc'[f] = pc[f] BY <3>1, Moves
    <3>4. PICK S \in SUBSET LegsOf(e[1]) : S = read[e] BY <2>6 DEF BookUnsettled, Typed
    <3>5. exposures' \in [SymbolKeys -> Nat] /\ commitments' \in [Accounts -> Seq(Int)]
      BY <2>6, <3>4, PiecesTyped DEF BookUnsettled
    <3>6. used' \in [ModelKeys -> Nat]
      <4>1. Required(e[1], S) \in Nat BY <2>0, TradeFacts
      <4> QED BY <2>0, <2>6, <3>4, <4>1, PiecesTyped DEF BookUnsettled
    <3>7. slips' \in [Accounts -> SUBSET {"stale", "untracked", "credited", "dropped"}]
      BY <2>6, SlipFacts DEF BookUnsettled
    <3> QED BY <2>6, <3>1, <3>2, <3>3, <3>5, <3>6, <3>7 DEF BookUnsettled, Typed
  <2>7. CASE Persist(e) BY <2>0, <2>7, PiecesTyped DEF Persist, Typed, Goto, Inside
  <2>8. CASE PersistFails(e)
    <3>1. Goto(e, "done") /\ taken' = [taken EXCEPT ![e] = 0] BY <2>8 DEF PersistFails, Release
    <3>2. pc' \in [Executions -> {"idle", "locking", "done"} \cup Inside] BY <3>1, PiecesTyped DEF Inside
    <3>3. pc'[e] = "done" /\ \A f \in Executions : f # e => pc'[f] = pc[f] BY <3>1, Moves
    <3>4. slips' \in [Accounts -> SUBSET {"stale", "untracked", "credited", "dropped"}]
      BY <2>8, SlipFacts DEF PersistFails
    <3>5. taken' \in [Executions -> Nat] /\ \A f \in Executions : taken'[f] <= Len(LockOrder[f[1]])
      BY <3>1, PiecesTyped
    <3> QED BY <2>8, <3>2, <3>3, <3>4, <3>5 DEF PersistFails, Typed
  <2>9. CASE RebuildRead(e)
    <3>1. OpenRows \subseteq Trades BY DEF OpenRows
    <3> QED BY <2>9, <3>1, PiecesTyped DEF RebuildRead, Typed, Goto, Inside
  <2>10. CASE RebuildWrite(e)
    <3>1. Goto(e, "done") /\ taken' = [taken EXCEPT ![e] = 0] /\ read' = [read EXCEPT ![e] = {}]
      BY <2>10 DEF RebuildWrite, Release
    <3>2. pc' \in [Executions -> {"idle", "locking", "done"} \cup Inside] BY <3>1, PiecesTyped DEF Inside
    <3>3. pc'[e] = "done" /\ \A f \in Executions : f # e => pc'[f] = pc[f] BY <3>1, Moves
    <3>4. slips' \in [Accounts -> SUBSET {"stale", "untracked", "credited", "dropped"}]
      BY <2>10, SlipFacts DEF RebuildWrite, Rewrite
    <3>5. PICK S \in SUBSET Trades : S = read[e] BY <2>10 DEF RebuildWrite, Typed
    <3>6. exposures' \in [SymbolKeys -> Nat] /\ used' \in [ModelKeys -> Nat] /\ counts' \in [ModelKeys -> Nat]
      BY <2>10, <3>5, ExposuresFacts, UsedFacts DEF RebuildWrite, Rewrite
    <3>7. taken' \in [Executions -> Nat] /\ \A f \in Executions : taken'[f] <= Len(LockOrder[f[1]])
      BY <3>1, PiecesTyped
    <3> QED BY <2>10, <3>1, <3>2, <3>3, <3>4, <3>6, <3>7 DEF RebuildWrite, Typed
  <2> QED BY <1>b, <2>1, <2>2, <2>3, <2>4, <2>5, <2>6, <2>7, <2>8, <2>9, <2>10 DEF Work
<1>c. ASSUME NEW t \in Trades, CloseOutside(t) PROVE Typed'
  <2>1. Account[t] \in Accounts /\ Value(t) \in Nat BY TradeFacts
  <2>2. free[Account[t]] + Value(t) \in Int BY <2>1 DEF Typed
  <2>3. free' \in [Accounts -> Int] BY <1>c, <2>1, <2>2 DEF CloseOutside, Typed
  <2> QED BY <1>c, <2>3 DEF CloseOutside, Typed
<1>d. CASE Closing
  <2>1. CASE OutsideRead BY <2>1 DEF OutsideRead, OpenRows, Typed
  <2>2. CASE OutsideWrite
    <3>1. PICK S \in SUBSET Trades : S = outside.read BY DEF Typed
    <3>2. exposures' \in [SymbolKeys -> Nat] /\ used' \in [ModelKeys -> Nat] /\ counts' \in [ModelKeys -> Nat]
      BY <2>2, <3>1, ExposuresFacts, UsedFacts DEF OutsideWrite, Rewrite
    <3>3. slips' \in [Accounts -> SUBSET {"stale", "untracked", "credited", "dropped"}]
      BY <2>2, SlipFacts DEF OutsideWrite, Rewrite
    <3> QED BY <2>2, <3>2, <3>3 DEF OutsideWrite, Typed
  <2> QED BY <1>d, <2>1, <2>2 DEF Closing
<1>e. CASE SweepRead BY <1>e DEF SweepRead, OpenRows, Typed
<1>f. CASE Sweeping
  <2>1. ASSUME NEW k \in ModelKeys, SweepLock(ModelLock(k)) PROVE Typed'
    BY <2>1 DEF SweepLock, Typed, ModelLocks
  <2>2. CASE SweepWrite
    <3>1. PICK S \in SUBSET Trades : S = sweep.read BY DEF Typed
    <3>2. used' \in [ModelKeys -> Nat] BY <2>2, <3>1, UsedFacts DEF SweepWrite
    <3>3. slips' \in [Accounts -> SUBSET {"stale", "untracked", "credited", "dropped"}]
      BY <2>2, SlipFacts DEF SweepWrite
    <3> QED BY <2>2, <3>2, <3>3 DEF SweepWrite, Typed
  <2> QED BY <1>f, <2>1, <2>2 DEF Sweeping
<1>g. ASSUME NEW a \in Accounts, NEW n \in 0 .. Len(commitments[a]), FundsTag(a, n) \/ OtherTag(a, n) PROVE Typed'
  <2>1. Kept(a, n) \in Seq(Int) BY DEF Kept, Typed
  <2>2. commitments' \in [Accounts -> Seq(Int)] BY <1>g, <2>1 DEF FundsTag, OtherTag, Typed
  <2>3. slips' \in [Accounts -> SUBSET {"stale", "untracked", "credited", "dropped"}]
    BY <1>g, SlipFacts DEF FundsTag, OtherTag
  <2>4. seen' \in [Accounts -> Int] BY <1>g DEF FundsTag, OtherTag, Typed
  <2> QED BY <1>g, <2>2, <2>3, <2>4 DEF FundsTag, OtherTag, Typed
<1>h. CASE Restart
  <2>1. PICK S \in SUBSET Trades : S = OpenRows BY DEF OpenRows
  <2>2. exposures' \in [SymbolKeys -> Nat] /\ used' \in [ModelKeys -> Nat] /\ counts' \in [ModelKeys -> Nat]
    BY <1>h, <2>1, ExposuresFacts, UsedFacts DEF Restart
  <2>3. slips' \in [Accounts -> SUBSET {"stale", "untracked", "credited", "dropped"}]
    BY <1>h, SlipFacts DEF Restart
  <2>4. commitments' \in [Accounts -> Seq(Int)] BY <1>h DEF Restart
  <2>5. /\ pc' \in [Executions -> {"idle", "locking", "done"} \cup Inside]
        /\ \A f \in Executions : pc'[f] \in {"idle", "done"}
    BY <1>h DEF Restart
  <2>6. taken' \in [Executions -> Nat] /\ \A f \in Executions : taken'[f] <= Len(LockOrder[f[1]])
    <3>1. \A f \in Executions : Len(LockOrder[f[1]]) \in Nat BY ExecutionFacts, TradeFacts, LockFacts
    <3> QED BY <1>h, <3>1 DEF Restart
  <2> QED BY <1>h, <2>2, <2>3, <2>4, <2>5, <2>6 DEF Restart, Typed
<1> QED BY <1>a, <1>b, <1>c, <1>d, <1>e, <1>f, <1>g, <1>h DEF Next

(* The guard is left: the execution has no lock.                           *)
LEMMA LockReleased ==
  ASSUME Typed, LockInv, NEW e \in Executions, Release(e)
  PROVE  LockInv'
<1>1. pc'[e] = "done" /\ taken'[e] = 0 /\ \A f \in Executions : f # e => pc'[f] = pc[f] /\ taken'[f] = taken[f]
  BY DEF Release, Goto, Typed
<1> QED BY <1>1 DEF LockInv, Inside

(* It is entered, or one goes on behind it with the same locks.            *)
LEMMA LockKept ==
  ASSUME Typed, LockInv, NEW e \in Executions, NEW w, Goto(e, w), taken' = taken,
         \/ pc[e] = "idle" /\ w = "locking"
         \/ pc[e] \in Inside /\ w \in Inside
  PROVE  LockInv'
<1>1. pc'[e] = w /\ \A f \in Executions : f # e => pc'[f] = pc[f] BY Moves
<1>2. CASE pc[e] = "idle" /\ w = "locking"
  <2>1. 0 < Len(LockOrder[e[1]])
    <3>1. e[1] \in Trades BY ExecutionFacts
    <3>2. Len(Legs[e[1]]) \in Nat /\ Len(LockOrder[e[1]]) = 2 + Len(Legs[e[1]]) BY <3>1, TradeFacts, LockFacts
    <3> QED BY <3>2
  <2>2. taken[e] = 0 BY <1>2 DEF LockInv
  <2> QED BY <1>1, <1>2, <2>1, <2>2 DEF LockInv, Inside
<1>3. CASE pc[e] \in Inside /\ w \in Inside BY <1>1, <1>3 DEF LockInv, Inside
<1> QED BY <1>2, <1>3

(* The margin lock of an account is the first of all its executions.       *)
LEMMA MarginLockFirst ==
  ASSUME Typed, LockInv, NEW e \in Executions, Reached(e) > taken[e], NEW f \in Executions, f # e, Acct(f) = Acct(e)
  PROVE  taken[f] = 0
<1>1. CASE taken[e] # 0 BY <1>1 DEF LockInv
<1>2. CASE taken[e] = 0
  <2>1. PICK n : n = Len(LockOrder[e[1]]) OBVIOUS
  <2>2. e[1] \in Trades /\ f[1] \in Trades /\ Account[e[1]] = Account[f[1]] BY ExecutionFacts
  <2>3. n \in Nat BY <2>1, <2>2, LockFacts, TradeFacts
  <2>4. PICK r : r = Reached(e) OBVIOUS
  <2>5. r \in 0 .. n /\ \A i \in 0 + 1 .. r : IsFree(LockOrder[e[1]][i])
    BY <1>2, <2>1, <2>4, ReachedFacts
  <2>6. 1 \in 0 + 1 .. r BY <1>2, <2>3, <2>4, <2>5
  <2>7. IsFree(MarginLock(e[1])) BY <2>2, <2>5, <2>6, LockFacts
  <2>8. MarginLock(e[1]) \notin HeldBy(f) BY <2>7 DEF IsFree
  <2>9. LockOrder[f[1]][1] = MarginLock(e[1]) BY <2>2, LockFacts DEF MarginLock
  <2>10. 1 \notin 1 .. taken[f] BY <2>8, <2>9 DEF HeldBy
  <2>11. taken[f] \in Nat BY DEF Typed
  <2> QED BY <2>10, <2>11
<1> QED BY <1>1, <1>2

LEMMA LockStep ==
  ASSUME Typed, LockInv, [Next]_vars
  PROVE  LockInv'
<1> USE DEF tables, tallies, margin, runs
<1>a. CASE UNCHANGED <<pc, taken>> BY <1>a DEF LockInv
<1>b. ASSUME NEW e \in Executions, Begin(e) \/ Work(e) PROVE LockInv'
  <2>1. CASE Begin(e) BY <2>1, LockKept DEF Begin
  <2>2. CASE EnterGuard(e)
    <3>1. CASE Release(e) BY <3>1, LockReleased
    <3>2. CASE ~Release(e)
      <4>1. PICK n, r : n = Len(LockOrder[e[1]]) /\ r = Reached(e) OBVIOUS
      <4>2. /\ taken' = [taken EXCEPT ![e] = r]
            /\ Goto(e, IF r = n THEN "submit" ELSE "locking")
            /\ r > taken[e]
        BY <2>2, <3>2, <4>1 DEF EnterGuard
      <4>3. n \in Nat /\ taken[e] \in Nat
        <5>1. e[1] \in Trades BY ExecutionFacts
        <5> QED BY <4>1, <5>1, LockFacts, TradeFacts DEF Typed
      <4>4. r \in taken[e] .. n BY <4>1, ReachedFacts
      <4>5. r > 0 /\ (r # n => r < n) /\ r \in Nat BY <4>2, <4>3, <4>4
      <4>6. taken'[e] = r /\ \A f \in Executions : f # e => taken'[f] = taken[f] BY <4>2 DEF Typed
      <4>7. \A f \in Executions : f # e /\ Acct(f) = Acct(e) => taken[f] = 0
        BY <4>1, <4>2, MarginLockFirst
      <4>8. pc'[e] = (IF r = n THEN "submit" ELSE "locking") /\ \A f \in Executions : f # e => pc'[f] = pc[f]
        BY <4>2, Moves
      <4>9. \A f \in Executions : /\ pc'[f] \in Inside => taken'[f] > 0
                                  /\ pc'[f] \in {"idle", "done"} => taken'[f] = 0
                                  /\ pc'[f] = "locking" => taken'[f] < Len(LockOrder[f[1]])
        BY <4>1, <4>5, <4>6, <4>8 DEF LockInv, Inside
      <4>10. \A f, g \in Executions : f # g /\ Acct(f) = Acct(g) => taken'[f] = 0 \/ taken'[g] = 0
        BY <4>6, <4>7 DEF LockInv
      <4> QED BY <4>9, <4>10 DEF LockInv
    <3> QED BY <3>1, <3>2
  <2>3. CASE Refuse(e) BY <2>3, LockReleased DEF Refuse
  <2>4. CASE Basket(e)
    <3>1. CASE BasketSettles(e) BY <3>1, LockKept DEF BasketSettles, Inside
    <3>2. CASE BasketCompensates(e) BY <3>2, LockKept DEF BasketCompensates, Inside
    <3>3. ASSUME NEW S \in SUBSET LegsOf(e[1]), BasketUnsettled(e, S) PROVE LockInv'
      BY <3>3, LockKept DEF BasketUnsettled, Inside
    <3>4. ASSUME NEW S \in SUBSET LegsOf(e[1]), BasketRaises(e, S) PROVE LockInv'
      BY <3>4, LockReleased DEF BasketRaises
    <3> QED BY <2>4, <3>1, <3>2, <3>3, <3>4 DEF Basket
  <2>5. CASE BookSettled(e) BY <2>5, LockKept DEF BookSettled, Inside
  <2>6. CASE BookUnsettled(e) BY <2>6, LockKept DEF BookUnsettled, Inside
  <2>7. CASE Persist(e) BY <2>7, LockKept DEF Persist, Inside
  <2>8. CASE PersistFails(e) BY <2>8, LockReleased DEF PersistFails
  <2>9. CASE RebuildRead(e) BY <2>9, LockKept DEF RebuildRead, Inside
  <2>10. CASE RebuildWrite(e) BY <2>10, LockReleased DEF RebuildWrite
  <2> QED BY <1>b, <2>1, <2>2, <2>3, <2>4, <2>5, <2>6, <2>7, <2>8, <2>9, <2>10 DEF Work
<1>c. CASE Restart
  <2>1. \A f \in Executions : pc'[f] \in {"idle", "done"} /\ taken'[f] = 0 BY <1>c DEF Restart
  <2> QED BY <2>1 DEF LockInv, Inside
<1>d. ASSUME NEW t \in Trades, CloseOutside(t) PROVE UNCHANGED <<pc, taken>> BY <1>d DEF CloseOutside
<1>e. ASSUME NEW k \in ModelKeys, SweepLock(ModelLock(k)) PROVE UNCHANGED <<pc, taken>> BY <1>e DEF SweepLock
<1>f. ASSUME NEW a \in Accounts, NEW n \in 0 .. Len(commitments[a]), FundsTag(a, n) \/ OtherTag(a, n)
      PROVE  UNCHANGED <<pc, taken>>
  BY <1>f DEF FundsTag, OtherTag
<1>g. ASSUME OutsideRead \/ OutsideWrite \/ SweepRead \/ SweepWrite PROVE UNCHANGED <<pc, taken>>
  BY <1>g DEF OutsideRead, OutsideWrite, SweepRead, SweepWrite
<1>h. ASSUME UNCHANGED vars PROVE UNCHANGED <<pc, taken>> BY <1>h DEF vars
<1> QED BY <1>a, <1>b, <1>c, <1>d, <1>e, <1>f, <1>g, <1>h DEF Next, Closing, Sweeping

(* Who waits for a lock waits for somebody who can run: the holder of a    *)
(* margin lock waits for no other execution of its account, and the sweep  *)
(* holds model locks alone, which are the second ones.                     *)
LEMMA NobodyStuck ==
  ASSUME Typed, LockInv
  PROVE  SomebodyCanRun
<1>1. SUFFICES ASSUME (\E e \in Executions : Waits(e)) \/ sweep.pc = "locking",
                      \A e \in Executions : pc[e] \notin {"idle", "done"} => Waits(e),
                      sweep.pc = "locking" => /\ ~(SweepLocks \subseteq sweep.got)
                                              /\ \A l \in SweepLocks \ sweep.got : ~IsFree(l)
               PROVE  FALSE
  BY DEF SomebodyCanRun
(* Who has locks waits for another.                                        *)
<1>2. ASSUME NEW e \in Executions, taken[e] > 0
      PROVE  taken[e] \in 1 .. 1 + Len(Legs[e[1]]) /\ ~IsFree(LockOrder[e[1]][taken[e] + 1])
  <2>1. pc[e] \notin {"idle", "done"} BY <1>2 DEF LockInv
  <2>2. pc[e] = "locking" /\ Reached(e) = taken[e] BY <1>1, <2>1 DEF Waits
  <2>3. e[1] \in Trades BY ExecutionFacts
  <2>4. taken[e] < Len(LockOrder[e[1]]) BY <2>2 DEF LockInv
  <2>5. ~IsFree(LockOrder[e[1]][taken[e] + 1]) BY <2>2, <2>4, ReachedFacts
  <2>6. taken[e] \in Nat /\ Len(Legs[e[1]]) \in Nat /\ Len(LockOrder[e[1]]) = 2 + Len(Legs[e[1]])
    BY <2>3, LockFacts, TradeFacts DEF Typed
  <2> QED BY <1>2, <2>4, <2>5, <2>6
(* The lock that e waits for is not held by an execution.                  *)
<1>3. ASSUME NEW e \in Executions, taken[e] > 0, NEW f \in Executions
      PROVE  LockOrder[e[1]][taken[e] + 1] \notin HeldBy(f)
  <2>1. SUFFICES ASSUME NEW i \in 1 .. taken[f], LockOrder[e[1]][taken[e] + 1] = LockOrder[f[1]][i] PROVE FALSE
    BY DEF HeldBy
  <2>2. e[1] \in Trades /\ f[1] \in Trades /\ Acct(e) = Account[e[1]] /\ Acct(f) = Account[f[1]] BY ExecutionFacts
  <2>3. taken[e] \in Nat /\ taken[f] \in Nat BY DEF Typed
  <2>4. taken[f] > 0 BY <2>1, <2>3
  <2>5. PICK m, n : m = taken[e] + 1 /\ n = taken[f] OBVIOUS
  <2>6. m \in 2 .. 2 + Len(Legs[e[1]]) /\ i \in 1 .. n /\ n \in 1 .. 1 + Len(Legs[f[1]])
    <3>1. taken[e] \in 1 .. 1 + Len(Legs[e[1]]) BY <1>2, <1>3
    <3>2. taken[f] \in 1 .. 1 + Len(Legs[f[1]]) BY <1>2, <2>4
    <3>3. Len(Legs[e[1]]) \in Nat BY <2>2, TradeFacts
    <3> QED BY <2>1, <2>5, <3>1, <3>2, <3>3
  <2>7. Account[e[1]] = Account[f[1]]
    <3>1. LockOrder[e[1]][m][2] = Account[e[1]]
      <4>1. CASE m = 2 BY <2>2, <4>1, LockFacts DEF ModelLock, ModelKey
      <4>2. CASE m # 2
        <5>1. Len(Legs[e[1]]) \in Nat BY <2>2, TradeFacts
        <5>2. m - 2 \in LegsOf(e[1]) /\ m = 2 + (m - 2) BY <2>6, <4>2, <5>1 DEF LegsOf
        <5>3. LockOrder[e[1]][m] = SymbolLock(e[1], Sorted(e[1])[m - 2]) BY <2>2, <5>2, LockFacts
        <5> QED BY <5>3 DEF SymbolLock
      <4> QED BY <4>1, <4>2
    <3>2. LockOrder[f[1]][i][2] = Account[f[1]]
      <4>1. CASE i = 1 BY <2>2, <4>1, LockFacts DEF MarginLock
      <4>2. CASE i = 2 BY <2>2, <4>2, LockFacts DEF ModelLock, ModelKey
      <4>3. CASE i \notin {1, 2}
        <5>1. Len(Legs[f[1]]) \in Nat BY <2>2, TradeFacts
        <5>2. i - 2 \in LegsOf(f[1]) /\ i = 2 + (i - 2) BY <2>6, <4>3, <5>1 DEF LegsOf
        <5>3. LockOrder[f[1]][i] = SymbolLock(f[1], Sorted(f[1])[i - 2]) BY <2>2, <5>2, LockFacts
        <5> QED BY <5>3 DEF SymbolLock
      <4> QED BY <4>1, <4>2, <4>3
    <3> QED BY <2>1, <2>5, <3>1, <3>2
  <2>8. f = e BY <1>3, <2>2, <2>3, <2>4, <2>7 DEF LockInv
  <2>9. i < m BY <2>3, <2>5, <2>6, <2>8
  <2>10. LockOrder[e[1]][m] # LockOrder[e[1]][i]
    <3>1. Len(Legs[e[1]]) \in Nat BY <2>2, TradeFacts
    <3>2. CASE i = 1
      <4>1. LockOrder[e[1]][i][1] = "margin" BY <2>2, <3>2, LockFacts DEF MarginLock
      <4>2. CASE m = 2 BY <2>2, <4>1, <4>2, LockFacts DEF ModelLock
      <4>3. CASE m # 2
        <5>1. m - 2 \in LegsOf(e[1]) /\ m = 2 + (m - 2) BY <2>6, <3>1, <4>3 DEF LegsOf
        <5>2. LockOrder[e[1]][m] = SymbolLock(e[1], Sorted(e[1])[m - 2]) BY <2>2, <5>1, LockFacts
        <5> QED BY <4>1, <5>2 DEF SymbolLock
      <4> QED BY <4>2, <4>3
    <3>3. CASE i # 1
      <4>1. m - 2 \in LegsOf(e[1]) /\ m = 2 + (m - 2) BY <2>6, <2>9, <3>1, <3>3 DEF LegsOf
      <4>2. LockOrder[e[1]][m] = SymbolLock(e[1], Sorted(e[1])[m - 2]) BY <2>2, <4>1, LockFacts
      <4>3. CASE i = 2 BY <2>2, <4>2, <4>3, LockFacts DEF ModelLock, SymbolLock
      <4>4. CASE i # 2
        <5>1. i - 2 \in LegsOf(e[1]) /\ i = 2 + (i - 2) /\ i - 2 # m - 2
          BY <2>6, <2>9, <3>1, <3>3, <4>1, <4>4 DEF LegsOf
        <5>2. LockOrder[e[1]][i] = SymbolLock(e[1], Sorted(e[1])[i - 2]) BY <2>2, <5>1, LockFacts
        <5>3. PICK x, y : x = Sorted(e[1])[m - 2] /\ y = Sorted(e[1])[i - 2] OBVIOUS
        <5>4. x \in LegsOf(e[1]) /\ y \in LegsOf(e[1]) /\ x # y BY <2>2, <4>1, <5>1, <5>3, SortedFacts
        <5>5. Legs[e[1]][x] # Legs[e[1]][y] BY <2>2, <5>4, TradeFacts
        <5> QED BY <4>2, <5>2, <5>3, <5>5 DEF SymbolLock
      <4> QED BY <4>3, <4>4
    <3> QED BY <3>2, <3>3
  <2> QED BY <2>1, <2>5, <2>8, <2>10
(* So the sweep holds it, and it is the model lock.                        *)
<1>4. ASSUME NEW e \in Executions, taken[e] > 0 PROVE taken[e] = 1 /\ sweep.pc = "locking"
  <2>1. LockOrder[e[1]][taken[e] + 1] \in sweep.got BY <1>2, <1>3, <1>4 DEF IsFree
  <2>2. PICK k \in ModelKeys : LockOrder[e[1]][taken[e] + 1] = ModelLock(k) BY <2>1 DEF Typed, ModelLocks
  <2>3. e[1] \in Trades BY ExecutionFacts
  <2>4. PICK n : n = taken[e] OBVIOUS
  <2>5. n \in 1 .. 1 + Len(Legs[e[1]]) /\ Len(Legs[e[1]]) \in Nat BY <1>2, <1>4, <2>3, <2>4, TradeFacts
  <2>6. n = 1
    <3>1. SUFFICES ASSUME n # 1 PROVE FALSE OBVIOUS
    <3>2. n - 1 \in LegsOf(e[1]) /\ n + 1 = 2 + (n - 1) BY <2>5, <3>1 DEF LegsOf
    <3>3. LockOrder[e[1]][n + 1] = SymbolLock(e[1], Sorted(e[1])[n - 1]) BY <2>3, <3>2, LockFacts
    <3> QED BY <2>2, <2>4, <3>3 DEF SymbolLock, ModelLock
  <2>7. sweep.pc = "locking" BY <1>1, <2>1 DEF Typed
  <2> QED BY <2>4, <2>6, <2>7
(* Whoever waits, the sweep does.                                          *)
<1>5. sweep.pc = "locking"
  <2>1. SUFFICES ASSUME NEW e \in Executions, Waits(e) PROVE sweep.pc = "locking" BY <1>1
  <2>2. taken[e] \in Nat /\ e[1] \in Trades BY ExecutionFacts DEF Typed
  <2>3. CASE taken[e] > 0 BY <1>4, <2>3
  <2>4. CASE taken[e] = 0
    <3>1. Reached(e) = 0 /\ 0 < Len(LockOrder[e[1]]) BY <2>1, <2>4 DEF Waits, LockInv
    <3>2. ~IsFree(LockOrder[e[1]][0 + 1]) BY <3>1, ReachedFacts
    <3>3. ~IsFree(MarginLock(e[1])) BY <2>2, <3>2, LockFacts
    <3>4. MarginLock(e[1]) \notin sweep.got BY DEF Typed, ModelLocks, ModelLock, MarginLock
    <3>5. PICK f \in Executions : MarginLock(e[1]) \in HeldBy(f) BY <3>3, <3>4 DEF IsFree
    <3>6. taken[f] > 0 BY <3>5 DEF HeldBy, Typed
    <3> QED BY <1>4, <3>6
  <2> QED BY <2>2, <2>3, <2>4
(* What it waits for would be the second lock of one that has only one.    *)
<1>6. PICK l \in SweepLocks : l \notin sweep.got BY <1>1, <1>5
<1>7. ~IsFree(l) BY <1>1, <1>5, <1>6
<1>8. PICK f \in Executions : l \in HeldBy(f) BY <1>6, <1>7 DEF IsFree
<1>9. PICK i \in 1 .. taken[f] : l = LockOrder[f[1]][i] BY <1>8 DEF HeldBy
<1>10. taken[f] > 0 BY <1>9 DEF Typed
<1>11. taken[f] = 1 BY <1>4, <1>10
<1>12. i = 1 BY <1>9, <1>11
<1>13. l = MarginLock(f[1]) BY <1>9, <1>12, ExecutionFacts, LockFacts
<1>14. PICK k : l = ModelLock(k) BY <1>6 DEF SweepLocks
<1> QED BY <1>13, <1>14 DEF MarginLock, ModelLock

----------------------------------------------------------------------------
(* Rows and holdings.                                                      *)

(* A trade that the step does not touch.                                   *)
LEMMA TradeKept ==
  ASSUME NEW t \in Trades, TradeInv(t), rows'[t] = rows[t], held'[t] = held[t],
         Opening(t)' = Opening(t), ClosingOf(t)' = ClosingOf(t), slips[Account[t]] \subseteq slips'[Account[t]],
         Opening(t) = "unsettled" => read'[<<t, "OPEN">>] = read[<<t, "OPEN">>],
         ClosingOf(t) = "unsettled" => read'[<<t, "CLOSE">>] = read[<<t, "CLOSE">>]
  PROVE  TradeInv(t)'
BY DEF TradeInv, Unwritten

(* An execution steps: only its trade has to be looked at.                 *)
LEMMA OthersKept ==
  ASSUME Typed, RowsInv, NEW e \in Executions, NEW w, Goto(e, w), TradeInv(e[1])',
         \A t \in Trades : t # e[1] => rows'[t] = rows[t] /\ held'[t] = held[t],
         \A f \in Executions : f # e => read'[f] = read[f],
         \A a \in Accounts : slips[a] \subseteq slips'[a]
  PROVE  RowsInv'
<1>1. SUFFICES ASSUME NEW t \in Trades, t # e[1] PROVE TradeInv(t)' BY DEF RowsInv
<1>2. Opening(t)' = Opening(t) /\ ClosingOf(t)' = ClosingOf(t) BY <1>1, Moves
<1>3. /\ Opening(t) = "unsettled" => read'[<<t, "OPEN">>] = read[<<t, "OPEN">>]
      /\ ClosingOf(t) = "unsettled" => read'[<<t, "CLOSE">>] = read[<<t, "CLOSE">>]
  <2>1. <<t, "OPEN">> # e /\ <<t, "CLOSE">> # e BY <1>1
  <2> QED BY <2>1 DEF Opening, ClosingOf
<1>4. Account[t] \in Accounts BY TradeFacts
<1>5. TradeInv(t) /\ slips[Account[t]] \subseteq slips'[Account[t]] /\ rows'[t] = rows[t] /\ held'[t] = held[t]
  BY <1>1, <1>4 DEF RowsInv
<1> QED BY <1>2, <1>3, <1>5, TradeKept

LEMMA RowsStep ==
  ASSUME Typed, RowsInv, [Next]_vars
  PROVE  RowsInv'
<1> USE DEF tables, tallies, margin, runs
<1>b. ASSUME NEW e \in Executions, Begin(e) \/ Work(e) PROVE RowsInv'
  <2> DEFINE t == e[1]
  <2>0. /\ t \in Trades /\ Account[t] \in Accounts /\ TradeInv(t) /\ Acct(e) = Account[t]
        /\ held[t] \subseteq LegsOf(t) /\ rows[t] \in {"none", "OPEN", "CLOSED"}
    BY ExecutionFacts, TradeFacts DEF RowsInv, Typed
  <2>e. /\ Opens(e) => e = <<t, "OPEN">> /\ Opening(t) = pc[e] /\ e # <<t, "CLOSE">>
        /\ ~Opens(e) => e = <<t, "CLOSE">> /\ ClosingOf(t) = pc[e] /\ e # <<t, "OPEN">>
    BY ExecutionFacts
  <2> HIDE DEF t
  <2>r. ASSUME NEW w, Goto(e, w)
        PROVE  /\ Opens(e) => Opening(t)' = w /\ ClosingOf(t)' = ClosingOf(t)
               /\ ~Opens(e) => Opening(t)' = Opening(t) /\ ClosingOf(t)' = w
    BY <2>r, <2>0, Moves DEF t
  <2>s. UNCHANGED slips => \A a \in Accounts : slips[a] \subseteq slips'[a] OBVIOUS
  <2>1. CASE Begin(e)
    <3>1. Goto(e, "locking") /\ UNCHANGED <<rows, held, read, slips>> /\ pc[e] = "idle"
          /\ rows[t] = IF Opens(e) THEN "none" ELSE "OPEN"
      BY <2>1 DEF Begin, t
    <3>2. TradeInv(t)' BY <2>0, <2>e, <2>r, <3>1 DEF TradeInv, Unwritten
    <3> QED BY <2>s, <3>1, <3>2, OthersKept DEF t
  <2>2. CASE EnterGuard(e)
    <3>1. PICK w \in {"done", "submit", "locking"} : Goto(e, w)
      BY <2>2 DEF EnterGuard, Release
    <3>2. UNCHANGED <<rows, held, read, slips>> /\ pc[e] = "locking" BY <2>2 DEF EnterGuard
    <3>3. TradeInv(t)' BY <2>0, <2>e, <2>r, <3>1, <3>2 DEF TradeInv, Unwritten
    <3> QED BY <2>s, <3>1, <3>2, <3>3, OthersKept DEF t
  <2>3. CASE Refuse(e)
    <3>1. Goto(e, "done") /\ UNCHANGED <<rows, held, read, slips>> /\ pc[e] = "submit"
      BY <2>3 DEF Refuse, Release
    <3>2. TradeInv(t)' BY <2>0, <2>e, <2>r, <3>1 DEF TradeInv, Unwritten
    <3> QED BY <2>s, <3>1, <3>2, OthersKept DEF t
  <2>4. CASE Basket(e)
    <3>t. ASSUME NEW S \in SUBSET LegsOf(t), Trade(e, S)
          PROVE  /\ held'[t] = IF Opens(e) THEN held[t] \cup S ELSE held[t] \ S
                 /\ \A s \in Trades : s # t => held'[s] = held[s]
      BY <2>0, <3>t DEF Trade, Typed, t
    <3>1. CASE BasketSettles(e)
      <4>1. Goto(e, "settled") /\ UNCHANGED <<rows, read, slips>> /\ pc[e] = "submit" /\ Trade(e, LegsOf(t))
        BY <3>1 DEF BasketSettles, t
      <4>2. /\ held'[t] = IF Opens(e) THEN LegsOf(t) ELSE {}
            /\ \A s \in Trades : s # t => held'[s] = held[s]
        BY <2>0, <3>t, <4>1
      <4>3. TradeInv(t)' BY <2>0, <2>e, <2>r, <4>1, <4>2 DEF TradeInv, Unwritten
      <4> QED BY <2>s, <4>1, <4>2, <4>3, OthersKept DEF t
    <3>2. CASE BasketCompensates(e)
      <4>1. Goto(e, "rebuild") /\ UNCHANGED <<rows, held, read, slips>> /\ pc[e] = "submit"
        BY <3>2 DEF BasketCompensates
      <4>2. TradeInv(t)' BY <2>0, <2>e, <2>r, <4>1 DEF TradeInv, Unwritten
      <4> QED BY <2>s, <4>1, <4>2, OthersKept DEF t
    <3>3. ASSUME NEW S \in SUBSET LegsOf(t), BasketUnsettled(e, S) PROVE RowsInv'
      <4>1. Goto(e, "unsettled") /\ UNCHANGED <<rows, slips>> /\ pc[e] = "submit" /\ Trade(e, S)
        BY <3>3 DEF BasketUnsettled
      <4>2. read'[e] = S /\ \A f \in Executions : f # e => read'[f] = read[f]
        BY <3>3 DEF BasketUnsettled, Typed
      <4>3. /\ held'[t] = IF Opens(e) THEN held[t] \cup S ELSE held[t] \ S
            /\ \A s \in Trades : s # t => held'[s] = held[s]
        BY <3>t, <4>1
      <4>4. CASE Opens(e)
        <5>1. held'[t] = read'[<<t, "OPEN">>] BY <2>0, <2>e, <4>1, <4>2, <4>3, <4>4 DEF TradeInv
        <5>2. TradeInv(t)' BY <2>0, <2>e, <2>r, <4>1, <4>4, <5>1 DEF TradeInv, Unwritten
        <5> QED BY <2>s, <4>1, <4>2, <4>3, <5>2, OthersKept DEF t
      <4>5. CASE ~Opens(e)
        <5>1. held'[t] \cap read'[<<t, "CLOSE">>] = {} BY <2>e, <4>2, <4>3, <4>5
        <5>2. TradeInv(t)' BY <2>0, <2>e, <2>r, <4>1, <4>5, <5>1 DEF TradeInv, Unwritten
        <5> QED BY <2>s, <4>1, <4>2, <4>3, <5>2, OthersKept DEF t
      <4> QED BY <4>4, <4>5
    <3>4. ASSUME NEW S \in SUBSET LegsOf(t), BasketRaises(e, S) PROVE RowsInv'
      <4>1. Goto(e, "done") /\ UNCHANGED <<rows, read>> /\ pc[e] = "submit" /\ Trade(e, S)
        BY <3>4 DEF BasketRaises, Release
      <4>2. /\ \A a \in Accounts : slips[a] \subseteq slips'[a]
            /\ Opens(e) /\ S # {} => "untracked" \in slips'[Account[t]]
        <5>1. PICK A : A = (IF Opens(e) /\ S # {} THEN {Acct(e)} ELSE {}) OBVIOUS
        <5>2. Slip(A, "untracked") BY <3>4, <5>1 DEF BasketRaises
        <5>3. \A a \in Accounts : slips[a] \subseteq slips'[a] /\ (a \in A => "untracked" \in slips'[a])
          BY <5>2, SlipFacts
        <5> QED BY <2>0, <5>1, <5>3
      <4>3. /\ held'[t] = IF Opens(e) THEN held[t] \cup S ELSE held[t] \ S
            /\ \A s \in Trades : s # t => held'[s] = held[s]
        BY <3>t, <4>1
      <4>4. TradeInv(t)'
        <5>1. CASE Opens(e)
          <6>1. "untracked" \in slips'[Account[t]] \/ held'[t] = {} BY <2>0, <2>e, <4>1, <4>2, <4>3, <5>1 DEF TradeInv
          <6> QED BY <2>0, <2>e, <2>r, <4>1, <5>1, <6>1 DEF TradeInv, Unwritten
        <5>2. CASE ~Opens(e) BY <2>0, <2>e, <2>r, <4>1, <4>3, <5>2 DEF TradeInv, Unwritten
        <5> QED BY <5>1, <5>2
      <4> QED BY <4>1, <4>2, <4>3, <4>4, OthersKept DEF t
    <3> QED BY <2>4, <3>1, <3>2, <3>3, <3>4 DEF Basket, t
  <2>5. CASE BookSettled(e)
    <3>1. Goto(e, "persist") /\ UNCHANGED <<rows, held, read, slips>> /\ pc[e] = "settled"
      BY <2>5 DEF BookSettled
    <3>2. TradeInv(t)' BY <2>0, <2>e, <2>r, <3>1 DEF TradeInv, Unwritten
    <3> QED BY <2>s, <3>1, <3>2, OthersKept DEF t
  <2>6. CASE BookUnsettled(e)
    <3>1. Goto(e, "rebuild") /\ UNCHANGED <<rows, held>> /\ pc[e] = "unsettled" /\ read' = [read EXCEPT ![e] = {}]
      BY <2>6 DEF BookUnsettled
    <3>2. \A f \in Executions : f # e => read'[f] = read[f] BY <3>1
    <3>3. /\ \A a \in Accounts : slips[a] \subseteq slips'[a]
          /\ Opens(e) /\ read[e] # {} => "untracked" \in slips'[Account[t]]
      <4>1. PICK A : A = (IF Opens(e) /\ read[e] # {} THEN {Acct(e)} ELSE {}) OBVIOUS
      <4>2. Slip(A, "untracked") BY <2>6, <4>1 DEF BookUnsettled
      <4>3. \A a \in Accounts : slips[a] \subseteq slips'[a] /\ (a \in A => "untracked" \in slips'[a])
        BY <4>2, SlipFacts
      <4> QED BY <2>0, <4>1, <4>3
    <3>4. TradeInv(t)'
      <4>1. CASE Opens(e)
        <5>1. "untracked" \in slips'[Account[t]] \/ held'[t] = {} BY <2>0, <2>e, <3>1, <3>3, <4>1 DEF TradeInv
        <5> QED BY <2>0, <2>e, <2>r, <3>1, <4>1, <5>1 DEF TradeInv, Unwritten
      <4>2. CASE ~Opens(e) BY <2>0, <2>e, <2>r, <3>1, <4>2 DEF TradeInv, Unwritten
      <4> QED BY <4>1, <4>2
    <3> QED BY <3>1, <3>2, <3>3, <3>4, OthersKept DEF t
  <2>7. CASE Persist(e)
    <3>1. Goto(e, "rebuild") /\ UNCHANGED <<held, read, slips>> /\ pc[e] = "persist"
      BY <2>7 DEF Persist
    <3>2. /\ rows'[t] = IF Opens(e) THEN "OPEN" ELSE "CLOSED"
          /\ \A s \in Trades : s # t => rows'[s] = rows[s]
      BY <2>0, <2>7 DEF Persist, Persisted, Typed, t
    <3>3. TradeInv(t)'
      <4>1. CASE Opens(e) BY <2>0, <2>e, <2>r, <3>1, <3>2, <4>1 DEF TradeInv, Unwritten
      <4>2. CASE ~Opens(e) BY <2>0, <2>e, <2>r, <3>1, <3>2, <4>2 DEF TradeInv, Unwritten
      <4> QED BY <4>1, <4>2
    <3> QED BY <2>s, <3>1, <3>2, <3>3, OthersKept DEF t
  <2>8. CASE PersistFails(e)
    <3>1. Goto(e, "done") /\ UNCHANGED <<rows, held, read>> /\ pc[e] = "persist"
      BY <2>8 DEF PersistFails, Release
    <3>2. /\ \A a \in Accounts : slips[a] \subseteq slips'[a]
          /\ Opens(e) => "untracked" \in slips'[Account[t]]
      <4>1. PICK A : A = (IF Opens(e) THEN {Acct(e)} ELSE {}) OBVIOUS
      <4>2. Slip(A, "untracked") BY <2>8, <4>1 DEF PersistFails
      <4>3. \A a \in Accounts : slips[a] \subseteq slips'[a] /\ (a \in A => "untracked" \in slips'[a])
        BY <4>2, SlipFacts
      <4> QED BY <2>0, <4>1, <4>3
    <3>3. TradeInv(t)'
      <4>1. CASE Opens(e) BY <2>0, <2>e, <2>r, <3>1, <3>2, <4>1 DEF TradeInv, Unwritten
      <4>2. CASE ~Opens(e) BY <2>0, <2>e, <2>r, <3>1, <4>2 DEF TradeInv, Unwritten
      <4> QED BY <4>1, <4>2
    <3> QED BY <3>1, <3>2, <3>3, OthersKept DEF t
  <2>9. CASE RebuildRead(e)
    <3>1. Goto(e, "write") /\ UNCHANGED <<rows, held, slips>> /\ pc[e] = "rebuild" /\ read' = [read EXCEPT ![e] = OpenRows]
      BY <2>9 DEF RebuildRead
    <3>2. \A f \in Executions : f # e => read'[f] = read[f] BY <3>1
    <3>3. TradeInv(t)'
      <4>1. CASE Opens(e)
        <5>1. ClosingOf(t) = "unsettled" => read'[<<t, "CLOSE">>] = read[<<t, "CLOSE">>]
          BY <2>e, <3>2, <4>1 DEF ClosingOf
        <5> QED BY <2>0, <2>e, <2>r, <3>1, <4>1, <5>1 DEF TradeInv, Unwritten
      <4>2. CASE ~Opens(e)
        <5>1. Opening(t) = "unsettled" => read'[<<t, "OPEN">>] = read[<<t, "OPEN">>]
          BY <2>e, <3>2, <4>2 DEF Opening
        <5> QED BY <2>0, <2>e, <2>r, <3>1, <4>2, <5>1 DEF TradeInv, Unwritten
      <4> QED BY <4>1, <4>2
    <3> QED BY <2>s, <3>1, <3>2, <3>3, OthersKept DEF t
  <2>10. CASE RebuildWrite(e)
    <3>1. Goto(e, "done") /\ UNCHANGED <<rows, held>> /\ pc[e] = "write" /\ read' = [read EXCEPT ![e] = {}]
      BY <2>10 DEF RebuildWrite, Release
    <3>2. \A f \in Executions : f # e => read'[f] = read[f] BY <3>1
    <3>3. \A a \in Accounts : slips[a] \subseteq slips'[a] BY <2>10, SlipFacts DEF RebuildWrite, Rewrite
    <3>4. TradeInv(t)'
      <4>1. CASE Opens(e)
        <5>1. ClosingOf(t) = "unsettled" => read'[<<t, "CLOSE">>] = read[<<t, "CLOSE">>]
          BY <2>e, <3>2, <4>1 DEF ClosingOf
        <5> QED BY <2>0, <2>e, <2>r, <3>1, <3>3, <4>1, <5>1 DEF TradeInv, Unwritten
      <4>2. CASE ~Opens(e)
        <5>1. Opening(t) = "unsettled" => read'[<<t, "OPEN">>] = read[<<t, "OPEN">>]
          BY <2>e, <3>2, <4>2 DEF Opening
        <5> QED BY <2>0, <2>e, <2>r, <3>1, <3>3, <4>2, <5>1 DEF TradeInv, Unwritten
      <4> QED BY <4>1, <4>2
    <3> QED BY <3>1, <3>2, <3>3, <3>4, OthersKept DEF t
  <2> QED BY <1>b, <2>1, <2>2, <2>3, <2>4, <2>5, <2>6, <2>7, <2>8, <2>9, <2>10 DEF Work
<1>c. ASSUME NEW s \in Trades, CloseOutside(s) PROVE RowsInv'
  <2>1. /\ UNCHANGED <<pc, read, slips>> /\ ClosingOf(s) \in {"idle", "done"} /\ rows[s] = "OPEN" /\ TradeInv(s)
        /\ rows'[s] = "CLOSED" /\ held'[s] = {}
        /\ \A t \in Trades : t # s => rows'[t] = rows[t] /\ held'[t] = held[t]
    BY <1>c DEF CloseOutside, ClosingOf, RowsInv, Typed
  <2>2. \A t \in Trades : Opening(t)' = Opening(t) /\ ClosingOf(t)' = ClosingOf(t) BY <2>1, Stays
  <2>3. TradeInv(s)' BY <2>1, <2>2 DEF TradeInv, Unwritten
  <2>4. \A t \in Trades : t # s => TradeInv(t)' BY <2>1, <2>2, TradeKept DEF RowsInv
  <2> QED BY <2>3, <2>4 DEF RowsInv
<1>d. ASSUME UNCHANGED <<rows, held, pc, read>>, \A a \in Accounts : slips[a] \subseteq slips'[a]
      PROVE  RowsInv'
  <2>1. \A t \in Trades : Opening(t)' = Opening(t) /\ ClosingOf(t)' = ClosingOf(t) BY <1>d, Stays
  <2>2. \A t \in Trades : slips[Account[t]] \subseteq slips'[Account[t]] BY <1>d, TradeFacts
  <2> QED BY <1>d, <2>1, <2>2, TradeKept DEF RowsInv
<1>e. CASE Closing BY <1>d, <1>e, SlipFacts DEF Closing, OutsideRead, OutsideWrite, Rewrite
<1>f. CASE SweepRead \/ Sweeping
  <2>1. UNCHANGED <<rows, held, pc, read>> BY <1>f DEF SweepRead, Sweeping, SweepLock, SweepWrite
  <2>2. \A a \in Accounts : slips[a] \subseteq slips'[a]
    BY <1>f, SlipFacts DEF SweepRead, Sweeping, SweepLock, SweepWrite
  <2> QED BY <1>d, <2>1, <2>2
<1>g. ASSUME NEW a \in Accounts, NEW n \in 0 .. Len(commitments[a]), FundsTag(a, n) \/ OtherTag(a, n) PROVE RowsInv'
  <2>1. UNCHANGED <<rows, held, pc, read>> BY <1>g DEF FundsTag, OtherTag
  <2>2. \A b \in Accounts : slips[b] \subseteq slips'[b] BY <1>g, SlipFacts DEF FundsTag, OtherTag
  <2> QED BY <1>d, <2>1, <2>2
<1>h. CASE Restart
  <2>1. UNCHANGED <<rows, held>> BY <1>h DEF Restart
  <2>2. \A a \in Accounts : slips[a] \subseteq slips'[a] /\ (a \in Unrecorded => "untracked" \in slips'[a])
    <3>1. PICK A : A = Unrecorded OBVIOUS
    <3> QED BY <1>h, <3>1, SlipFacts DEF Restart
  <2>3. ASSUME NEW t \in Trades PROVE TradeInv(t)'
    <3>1. TradeInv(t) /\ Account[t] \in Accounts BY TradeFacts DEF RowsInv
    <3>2. Opening(t)' = (IF Opening(t) = "idle" THEN "idle" ELSE "done") BY <1>h DEF Restart, Opening
    <3>3. ClosingOf(t)' = (IF ClosingOf(t) = "idle" THEN "idle" ELSE "done") BY <1>h DEF Restart, ClosingOf
    <3>4. Opening(t) \in Unwritten => "untracked" \in slips'[Account[t]]
      <4>1. SUFFICES ASSUME Opening(t) \in Unwritten PROVE Account[t] \in Unrecorded BY <2>2, <3>1
      <4>2. <<t, "OPEN">> \in Executions /\ pc[<<t, "OPEN">>] \in Unwritten BY <4>1 DEF Opening, Unwritten
      <4> QED BY <4>2 DEF Unrecorded, Acct, Opens, Unwritten
    <3> QED BY <2>1, <2>2, <3>1, <3>2, <3>3, <3>4 DEF TradeInv, Unwritten
  <2> QED BY <2>3 DEF RowsInv
<1>i. CASE UNCHANGED vars BY <1>d, <1>i DEF vars
<1> QED BY <1>b, <1>c, <1>e, <1>f, <1>g, <1>h, <1>i DEF Next

----------------------------------------------------------------------------
(* The tallies.                                                            *)

LEMMA KeysGrow ==
  ASSUME NEW t, NEW A, NEW B, A \subseteq B
  PROVE  KeysOf(t, A) \subseteq KeysOf(t, B)
BY DEF KeysOf

LEMMA KeyOwner ==
  ASSUME NEW t, NEW A, NEW k \in KeysOf(t, A)
  PROVE  k[1] = Account[t]
BY DEF KeysOf

(* The tally of a key stays and what it has to cover does not grow.        *)
LEMMA CoverKept ==
  ASSUME Typed, NEW k \in SymbolKeys, Covers(k), exposures'[k] = exposures[k],
         Written(k[1])' /\ Tracked(k[1])' => /\ Written(k[1]) /\ Tracked(k[1])
                                             /\ \A t \in Trades : Account[t] = k[1] => Owed(t)' \subseteq Owed(t)
  PROVE  Covers(k)'
<1>1. SUFFICES ASSUME Written(k[1])', Tracked(k[1])' PROVE Weight(OwedLegs', k) <= exposures'[k]
  BY DEF Covers, Weight, Weights
<1>2. PICK f, g : f = OwedLegs' /\ g = OwedLegs OBVIOUS
<1>3. \A t \in Trades : f[t] = Owed(t)' /\ g[t] = Owed(t) BY <1>2 DEF OwedLegs
<1>4. ASSUME NEW t \in Trades, k \in KeysOf(t, f[t]) PROVE k \in KeysOf(t, g[t])
  <2>1. Account[t] = k[1] BY <1>4, KeyOwner
  <2>2. f[t] \subseteq g[t] BY <1>1, <1>3, <2>1
  <2> QED BY <1>4, <2>2, KeysGrow
<1>5. Weight(f, k) <= Weight(g, k) BY <1>4, WeightGrows
<1>6. Weight(g, k) <= exposures[k] BY <1>1, <1>2 DEF Covers
<1>7. Weight(f, k) \in Nat /\ Weight(g, k) \in Nat BY WeightType
<1>8. exposures'[k] = exposures[k] /\ exposures[k] \in Nat BY DEF Typed
<1>9. Weight(f, k) <= exposures'[k] BY <1>5, <1>6, <1>7, <1>8
<1> QED BY <1>2, <1>9

(* The tallies are rewritten from the rows S, and no open row of the       *)
(* account is missing from S.                                              *)
LEMMA CoverRewritten ==
  ASSUME Typed', RowsInv', NEW S \in SUBSET Trades, exposures' = ExposuresOf[S], NEW k \in SymbolKeys,
         \A t \in Trades : Account[t] = k[1] /\ rows'[t] = "OPEN" /\ t \notin S => "stale" \in slips'[k[1]]
  PROVE  Covers(k)'
<1>1. SUFFICES ASSUME Written(k[1])', Tracked(k[1])' PROVE Weight(OwedLegs', k) <= exposures'[k]
  BY DEF Covers, Weight, Weights
<1> DEFINE all == [t \in Trades |-> IF t \in S THEN LegsOf(t) ELSE {}]
<1>2. PICK f, g : f = OwedLegs' /\ g = all OBVIOUS
<1>3. \A t \in Trades : f[t] = Owed(t)' /\ g[t] = IF t \in S THEN LegsOf(t) ELSE {} BY <1>2 DEF OwedLegs
<1>4. ASSUME NEW t \in Trades, k \in KeysOf(t, f[t]) PROVE k \in KeysOf(t, g[t])
  <2>1. Account[t] = k[1] BY <1>4, KeyOwner
  <2>2. f[t] # {} BY <1>4 DEF KeysOf
  <2>3. Owed(t)' # {} BY <1>3, <2>2
  <2>4. "stale" \notin slips'[k[1]] /\ "untracked" \notin slips'[Account[t]] BY <1>1, <2>1 DEF Tracked
  <2>5. Opening(t)' \notin Unwritten
    <3>1. SUFFICES ASSUME <<t, "OPEN">> \in Executions PROVE pc'[<<t, "OPEN">>] \notin Unwritten
      BY DEF Opening, Unwritten
    <3>2. Acct(<<t, "OPEN">>) = k[1] /\ Opens(<<t, "OPEN">>) BY <2>1 DEF Acct, Opens
    <3> QED BY <1>1, <3>1, <3>2 DEF Written
  <2>6. TradeInv(t)' /\ rows'[t] \in {"none", "OPEN", "CLOSED"} /\ held'[t] \subseteq LegsOf(t)
    BY DEF RowsInv, Typed
  <2>7. rows'[t] = "OPEN"
    <3>1. CASE ClosingOf(t)' \in {"settled", "unsettled"} BY <2>6, <3>1 DEF TradeInv, Unwritten
    <3>2. CASE ClosingOf(t)' \notin {"settled", "unsettled"}
      <4>1. held'[t] # {} BY <2>3, <3>2 DEF Owed
      <4> QED BY <2>4, <2>5, <2>6, <4>1 DEF TradeInv
    <3> QED BY <3>1, <3>2
  <2>8. t \in S BY <2>1, <2>4, <2>7
  <2>9. Owed(t)' \subseteq LegsOf(t)
    <3>1. ClosingOf(t)' = "unsettled" => read'[<<t, "CLOSE">>] \subseteq LegsOf(t)
      <4>1. SUFFICES ASSUME ClosingOf(t)' = "unsettled" PROVE read'[<<t, "CLOSE">>] \subseteq LegsOf(t) OBVIOUS
      <4>2. PICK e : e = <<t, "CLOSE">> OBVIOUS
      <4>3. e \in Executions /\ pc'[e] = "unsettled" /\ e[1] = t BY <4>1, <4>2 DEF ClosingOf
      <4>4. read'[e] \subseteq LegsOf(e[1]) BY <4>3 DEF Typed
      <4> QED BY <4>2, <4>3, <4>4
    <3> QED BY <2>6, <3>1 DEF Owed
  <2>10. f[t] \subseteq g[t] BY <1>3, <2>8, <2>9
  <2> QED BY <1>4, <2>10, KeysGrow
<1>5. Weight(f, k) <= Weight(g, k) BY <1>4, WeightGrows
<1>6. exposures'[k] = Weight(g, k) BY <1>2, ExposuresFacts
<1> QED BY <1>2, <1>5, <1>6

(* A CLOSE books what it has sold.                                         *)
LEMMA CoverBooked ==
  ASSUME Typed, NEW e \in Executions, ~Opens(e), NEW legs \in SUBSET LegsOf(e[1]), BookExposure(e, legs),
         NEW k \in SymbolKeys, Covers(k), Written(k[1])' => Written(k[1]), Tracked(k[1])' => Tracked(k[1]),
         \A t \in Trades : t # e[1] => Owed(t)' = Owed(t),
         Owed(e[1]) = held[e[1]] \cup legs, Owed(e[1])' = held[e[1]], held[e[1]] \cap legs = {}
  PROVE  Covers(k)'
<1>1. SUFFICES ASSUME Written(k[1])', Tracked(k[1])' PROVE Weight(OwedLegs', k) <= exposures'[k]
  BY DEF Covers, Weight, Weights
<1>2. PICK f, g : f = OwedLegs /\ g = OwedLegs' OBVIOUS
<1>3. PICK t : t = e[1] OBVIOUS
<1>4. t \in Trades /\ Size[t] \in Nat /\ held[t] \subseteq LegsOf(t) BY <1>3, ExecutionFacts, TradeFacts DEF Typed
<1>5. /\ \A s \in Trades : s # t => f[s] = g[s]
      /\ f[t] = held[t] \cup legs /\ g[t] = held[t]
  BY <1>2, <1>3, <1>4 DEF OwedLegs
<1>6. Weight(f, k) <= exposures[k] /\ exposures[k] \in Nat BY <1>1, <1>2 DEF Covers, Typed
<1>7. Weight(f, k) \in Nat /\ Weight(g, k) \in Nat BY WeightType
<1>8. CASE k \notin KeysOf(t, legs)
  <2>1. exposures'[k] = exposures[k] BY <1>3, <1>8 DEF BookExposure
  <2>2. \A s \in Trades : k \in KeysOf(s, g[s]) => k \in KeysOf(s, f[s])
    <3>1. held[t] \subseteq held[t] \cup legs OBVIOUS
    <3> QED BY <1>4, <1>5, <3>1, KeysGrow
  <2>3. Weight(g, k) <= Weight(f, k) BY <2>2, WeightGrows
  <2>4. Weight(g, k) <= exposures'[k] BY <1>6, <1>7, <2>1, <2>3
  <2> QED BY <1>2, <2>4
<1>9. CASE k \in KeysOf(t, legs)
  <2>1. exposures'[k] = Floored(exposures[k] - Size[t]) BY <1>3, <1>9 DEF BookExposure, Moved
  <2>3. k \in KeysOf(t, f[t])
    <3>1. legs \subseteq held[t] \cup legs OBVIOUS
    <3> QED BY <1>5, <1>9, <3>1, KeysGrow
  <2>4. k \notin KeysOf(t, g[t])
    <3>1. SUFFICES ASSUME k \in KeysOf(t, held[t]) PROVE FALSE BY <1>5
    <3>2. PICK i \in legs : k = <<Account[t], Legs[t][i]>> BY <1>9 DEF KeysOf
    <3>3. PICK j \in held[t] : k = <<Account[t], Legs[t][j]>> BY <3>1 DEF KeysOf
    <3>4. i \in LegsOf(t) /\ j \in LegsOf(t) /\ Legs[t][i] = Legs[t][j] BY <1>3, <1>4, <3>2, <3>3
    <3>5. i = j BY <1>4, <3>4, TradeFacts
    <3> QED BY <1>3, <3>2, <3>3, <3>5
  <2>6. Weight(f, k) = Weight(g, k) + Size[t]
    <3>1. \A s \in Trades : s # t => g[s] = f[s] BY <1>5
    <3> QED BY <1>4, <2>3, <2>4, <3>1, WeightAdds
  <2>7. Weight(g, k) <= exposures'[k] BY <1>4, <1>6, <1>7, <2>1, <2>6 DEF Floored
  <2> QED BY <1>2, <2>7
<1> QED BY <1>8, <1>9

(* What a step of e leaves of the conditions of the other accounts.        *)
LEMMA OthersCovered ==
  ASSUME Typed, NEW e \in Executions, NEW w, Goto(e, w),
         \A t \in Trades : t # e[1] => held'[t] = held[t],
         \A f \in Executions : f # e => read'[f] = read[f],
         \A a \in Accounts : slips[a] \subseteq slips'[a]
  PROVE  /\ \A t \in Trades : t # e[1] => Owed(t)' = Owed(t)
         /\ \A a \in Accounts : Tracked(a)' => Tracked(a)
         /\ \A a \in Accounts : Written(a)' =>
              \/ Written(a)
              \/ a = Acct(e) /\ Opens(e) /\ pc[e] \in Unwritten \cup {"rebuild", "write"}
                             /\ w \notin Unwritten \cup {"rebuild", "write"}
         /\ Opens(e) /\ w \in Unwritten \cup {"rebuild", "write"} => ~Written(Acct(e))'
<1>0. e[1] \in Trades /\ e = <<e[1], e[2]>> BY ExecutionFacts
<1>1. pc'[e] = w /\ \A f \in Executions : f # e => pc'[f] = pc[f] BY Moves
<1>2. ASSUME NEW t \in Trades, t # e[1] PROVE Owed(t)' = Owed(t)
  <2>1. ClosingOf(t)' = ClosingOf(t) BY <1>2, Moves
  <2>2. <<t, "CLOSE">> # e BY <1>0, <1>2
  <2>3. ClosingOf(t) = "unsettled" => read'[<<t, "CLOSE">>] = read[<<t, "CLOSE">>] BY <2>2 DEF ClosingOf
  <2> QED BY <1>2, <2>1, <2>3 DEF Owed
<1>3. \A a \in Accounts : Tracked(a)' => Tracked(a) BY DEF Tracked
<1>4. \A a \in Accounts : Written(a)' =>
              \/ Written(a)
              \/ a = Acct(e) /\ Opens(e) /\ pc[e] \in Unwritten \cup {"rebuild", "write"}
                             /\ w \notin Unwritten \cup {"rebuild", "write"}
  BY <1>1 DEF Written
<1>5. Opens(e) /\ w \in Unwritten \cup {"rebuild", "write"} => ~Written(Acct(e))' BY <1>1 DEF Written
<1> QED BY <1>2, <1>3, <1>4, <1>5

(* A step of e that leaves the tallies and lets nothing grow that e's      *)
(* account has to cover.                                                   *)
LEMMA CoverMoved ==
  ASSUME Typed, CoverInv, NEW e \in Executions, NEW w, Goto(e, w), exposures' = exposures,
         \A t \in Trades : t # e[1] => held'[t] = held[t],
         \A f \in Executions : f # e => read'[f] = read[f],
         \A a \in Accounts : slips[a] \subseteq slips'[a],
         Written(Acct(e))' /\ Tracked(Acct(e))' =>
           /\ ~(Opens(e) /\ pc[e] \in Unwritten \cup {"rebuild", "write"})
           /\ Owed(e[1])' \subseteq Owed(e[1])
  PROVE  CoverInv'
<1>1. SUFFICES ASSUME NEW k \in SymbolKeys PROVE Covers(k)' BY DEF CoverInv
<1>2. k[1] \in Accounts /\ Covers(k) BY KeyFacts DEF CoverInv
<1>3. e[1] \in Trades /\ Acct(e) = Account[e[1]] BY ExecutionFacts
<1>4. ASSUME Written(k[1])', Tracked(k[1])'
      PROVE  /\ Written(k[1]) /\ Tracked(k[1])
             /\ \A t \in Trades : Account[t] = k[1] => Owed(t)' \subseteq Owed(t)
  <2>1. /\ \A t \in Trades : t # e[1] => Owed(t)' = Owed(t)
        /\ \A a \in Accounts : Tracked(a)' => Tracked(a)
        /\ \A a \in Accounts : Written(a)' =>
              \/ Written(a)
              \/ a = Acct(e) /\ Opens(e) /\ pc[e] \in Unwritten \cup {"rebuild", "write"}
                             /\ w \notin Unwritten \cup {"rebuild", "write"}
    BY OthersCovered
  <2> QED BY <1>2, <1>3, <1>4, <2>1
<1> QED BY <1>2, <1>4, CoverKept

LEMMA CoverStep ==
  ASSUME Typed, Typed', RowsInv, RowsInv', CoverInv, [Next]_vars
  PROVE  CoverInv'
<1> USE DEF tables, tallies, margin, runs
<1>b. ASSUME NEW e \in Executions, Begin(e) \/ Work(e) PROVE CoverInv'
  <2> DEFINE t == e[1]
  <2>0. /\ t \in Trades /\ Account[t] \in Accounts /\ TradeInv(t) /\ Acct(e) = Account[t]
        /\ held[t] \subseteq LegsOf(t) /\ rows[t] \in {"none", "OPEN", "CLOSED"}
    BY ExecutionFacts, TradeFacts DEF RowsInv, Typed
  <2>e. /\ Opens(e) => e = <<t, "OPEN">> /\ Opening(t) = pc[e] /\ e # <<t, "CLOSE">>
        /\ ~Opens(e) => e = <<t, "CLOSE">> /\ ClosingOf(t) = pc[e] /\ e # <<t, "OPEN">>
    BY ExecutionFacts
  <2> HIDE DEF t
  <2>r. ASSUME NEW w, Goto(e, w)
        PROVE  /\ Opens(e) => Opening(t)' = w /\ ClosingOf(t)' = ClosingOf(t)
               /\ ~Opens(e) => Opening(t)' = Opening(t) /\ ClosingOf(t)' = w
    BY <2>r, <2>0, Moves DEF t
  <2>s. UNCHANGED slips => \A a \in Accounts : slips[a] \subseteq slips'[a] OBVIOUS
  (* Steps behind which nothing has to be covered, or as much as before.   *)
  <2>q. ASSUME NEW w, Goto(e, w), UNCHANGED <<exposures, held, read>>, \A a \in Accounts : slips[a] \subseteq slips'[a],
               w \notin {"settled", "unsettled"}, pc[e] \notin {"settled", "unsettled"},
               Opens(e) => \/ w \in Unwritten \cup {"rebuild", "write"}
                           \/ pc[e] \notin Unwritten \cup {"rebuild", "write"}
                           \/ "untracked" \in slips'[Acct(e)]
        PROVE  CoverInv'
    <3>1. Owed(t)' = Owed(t) BY <2>e, <2>q, <2>r DEF Owed
    <3>2. Opens(e) /\ w \in Unwritten \cup {"rebuild", "write"} => ~Written(Acct(e))' BY <2>q, OthersCovered
    <3>3. Written(Acct(e))' /\ Tracked(Acct(e))' =>
           /\ ~(Opens(e) /\ pc[e] \in Unwritten \cup {"rebuild", "write"})
           /\ Owed(e[1])' \subseteq Owed(e[1])
      BY <2>q, <3>1, <3>2 DEF Tracked, t
    <3> QED BY <2>q, <3>3, CoverMoved
  <2>1. CASE Begin(e)
    <3>1. Goto(e, "locking") /\ UNCHANGED <<exposures, held, read, slips>> /\ pc[e] = "idle" BY <2>1 DEF Begin
    <3> QED BY <2>q, <2>s, <3>1 DEF Unwritten
  <2>2. CASE EnterGuard(e)
    <3>1. PICK w \in {"done", "submit", "locking"} : Goto(e, w) BY <2>2 DEF EnterGuard, Release
    <3>2. UNCHANGED <<exposures, held, read, slips>> /\ pc[e] = "locking" BY <2>2 DEF EnterGuard
    <3> QED BY <2>q, <2>s, <3>1, <3>2 DEF Unwritten
  <2>3. CASE Refuse(e)
    <3>1. Goto(e, "done") /\ UNCHANGED <<exposures, held, read, slips>> /\ pc[e] = "submit" BY <2>3 DEF Refuse, Release
    <3> QED BY <2>q, <2>s, <3>1 DEF Unwritten
  <2>4. CASE Basket(e)
    <3>t. ASSUME NEW S \in SUBSET LegsOf(t), Trade(e, S)
          PROVE  /\ held'[t] = IF Opens(e) THEN held[t] \cup S ELSE held[t] \ S
                 /\ \A s \in Trades : s # t => held'[s] = held[s]
      BY <2>0, <3>t DEF Trade, Typed, t
    <3>1. CASE BasketSettles(e)
      <4>1. Goto(e, "settled") /\ UNCHANGED <<exposures, read, slips>> /\ pc[e] = "submit" /\ Trade(e, LegsOf(t))
        BY <3>1 DEF BasketSettles, t
      <4>2. /\ held'[t] = IF Opens(e) THEN held[t] \cup LegsOf(t) ELSE held[t] \ LegsOf(t)
            /\ \A s \in Trades : s # t => held'[s] = held[s]
        BY <3>t, <4>1
      <4>3. Opens(e) => ~Written(Acct(e))' BY <2>s, <4>1, <4>2, OthersCovered DEF Unwritten, t
      <4>4. ~Opens(e) => Owed(t)' \subseteq Owed(t)
        <5>1. SUFFICES ASSUME ~Opens(e) PROVE Owed(t)' \subseteq Owed(t) OBVIOUS
        <5>2. held[t] = LegsOf(t) BY <2>0, <2>e, <4>1, <5>1 DEF TradeInv, Unwritten
        <5> QED BY <2>e, <2>r, <4>1, <4>2, <5>1, <5>2 DEF Owed
      <4>5. Written(Acct(e))' /\ Tracked(Acct(e))' =>
             /\ ~(Opens(e) /\ pc[e] \in Unwritten \cup {"rebuild", "write"})
             /\ Owed(e[1])' \subseteq Owed(e[1])
        BY <4>1, <4>3, <4>4 DEF t
      <4> QED BY <2>s, <4>1, <4>2, <4>5, CoverMoved DEF t
    <3>2. CASE BasketCompensates(e)
      <4>1. Goto(e, "rebuild") /\ UNCHANGED <<exposures, held, read, slips>> /\ pc[e] = "submit"
        BY <3>2 DEF BasketCompensates
      <4> QED BY <2>q, <2>s, <4>1 DEF Unwritten
    <3>3. ASSUME NEW S \in SUBSET LegsOf(t), BasketUnsettled(e, S) PROVE CoverInv'
      <4>1. Goto(e, "unsettled") /\ UNCHANGED <<exposures, slips>> /\ pc[e] = "submit" /\ Trade(e, S)
        BY <3>3 DEF BasketUnsettled
      <4>2. read'[e] = S /\ \A f \in Executions : f # e => read'[f] = read[f]
        BY <3>3 DEF BasketUnsettled, Typed
      <4>3. /\ held'[t] = IF Opens(e) THEN held[t] \cup S ELSE held[t] \ S
            /\ \A s \in Trades : s # t => held'[s] = held[s]
        BY <3>t, <4>1
      <4>4. Opens(e) => ~Written(Acct(e))' BY <2>s, <4>1, <4>2, <4>3, OthersCovered DEF Unwritten, t
      <4>5. ~Opens(e) => Owed(t)' \subseteq Owed(t)
        <5>1. SUFFICES ASSUME ~Opens(e) PROVE Owed(t)' \subseteq Owed(t) OBVIOUS
        <5>2. held[t] = LegsOf(t) BY <2>0, <2>e, <4>1, <5>1 DEF TradeInv, Unwritten
        <5>3. read'[<<t, "CLOSE">>] = S /\ ClosingOf(t)' = "unsettled" BY <2>e, <2>r, <4>1, <4>2, <5>1
        <5>4. Owed(t)' = (held[t] \ S) \cup S BY <4>3, <5>1, <5>3 DEF Owed
        <5>5. held[t] \subseteq Owed(t) BY DEF Owed
        <5> QED BY <3>3, <5>2, <5>4, <5>5
      <4>6. Written(Acct(e))' /\ Tracked(Acct(e))' =>
             /\ ~(Opens(e) /\ pc[e] \in Unwritten \cup {"rebuild", "write"})
             /\ Owed(e[1])' \subseteq Owed(e[1])
        BY <4>1, <4>4, <4>5 DEF t
      <4> QED BY <2>s, <4>1, <4>2, <4>3, <4>6, CoverMoved DEF t
    <3>4. ASSUME NEW S \in SUBSET LegsOf(t), BasketRaises(e, S) PROVE CoverInv'
      <4>1. Goto(e, "done") /\ UNCHANGED <<exposures, read>> /\ pc[e] = "submit" /\ Trade(e, S)
        BY <3>4 DEF BasketRaises, Release
      <4>2. /\ \A a \in Accounts : slips[a] \subseteq slips'[a]
            /\ Opens(e) /\ S # {} => "untracked" \in slips'[Account[t]]
        <5>1. PICK A : A = (IF Opens(e) /\ S # {} THEN {Acct(e)} ELSE {}) OBVIOUS
        <5>2. Slip(A, "untracked") BY <3>4, <5>1 DEF BasketRaises
        <5>3. \A a \in Accounts : slips[a] \subseteq slips'[a] /\ (a \in A => "untracked" \in slips'[a])
          BY <5>2, SlipFacts
        <5> QED BY <2>0, <5>1, <5>3
      <4>3. /\ held'[t] = IF Opens(e) THEN held[t] \cup S ELSE held[t] \ S
            /\ \A s \in Trades : s # t => held'[s] = held[s]
        BY <3>t, <4>1
      <4>4. Tracked(Acct(e))' => held'[t] \subseteq held[t] BY <2>0, <4>2, <4>3 DEF Tracked
      <4>5. held'[t] \subseteq held[t] => Owed(t)' \subseteq Owed(t) BY <2>e, <2>r, <4>1 DEF Owed
      <4>6. Written(Acct(e))' /\ Tracked(Acct(e))' =>
             /\ ~(Opens(e) /\ pc[e] \in Unwritten \cup {"rebuild", "write"})
             /\ Owed(e[1])' \subseteq Owed(e[1])
        BY <4>1, <4>4, <4>5 DEF t, Unwritten
      <4> QED BY <4>1, <4>2, <4>3, <4>6, CoverMoved DEF t
    <3> QED BY <2>4, <3>1, <3>2, <3>3, <3>4 DEF Basket, t
  <2>5. CASE BookSettled(e)
    <3>1. Goto(e, "persist") /\ UNCHANGED <<held, read, slips>> /\ pc[e] = "settled" /\ BookExposure(e, LegsOf(t))
      BY <2>5 DEF BookSettled, t
    <3>2. ASSUME NEW k \in SymbolKeys PROVE Covers(k)'
      <4>1. k[1] \in Accounts /\ Covers(k) BY KeyFacts DEF CoverInv
      <4>2. /\ \A s \in Trades : s # t => Owed(s)' = Owed(s)
            /\ Tracked(k[1])' => Tracked(k[1])
            /\ Written(k[1])' => Written(k[1])
            /\ Opens(e) => ~Written(Acct(e))'
        BY <2>s, <3>1, <4>1, OthersCovered DEF t, Unwritten
      <4>3. CASE Opens(e)
        <5>1. k[1] # Acct(e) => exposures'[k] = exposures[k]
          BY <2>0, <3>1, KeyOwner DEF BookExposure, t
        <5>2. \A s \in Trades : Account[s] = k[1] /\ Written(k[1])' => Owed(s)' \subseteq Owed(s)
          BY <2>0, <4>2, <4>3
        <5>3. CASE k[1] = Acct(e) BY <4>2, <4>3, <5>3 DEF Covers
        <5>4. CASE k[1] # Acct(e) BY <4>1, <4>2, <5>1, <5>2, <5>4, CoverKept
        <5> QED BY <5>3, <5>4
      <4>4. CASE ~Opens(e)
        <5>1. held[t] = {} BY <2>0, <2>e, <3>1, <4>4 DEF TradeInv
        <5>2. Owed(t) = held[t] \cup LegsOf(t) /\ Owed(t)' = held[t]
          BY <2>e, <2>r, <3>1, <4>4 DEF Owed
        <5>3. /\ \A s \in Trades : s # e[1] => Owed(s)' = Owed(s)
              /\ Owed(e[1]) = held[e[1]] \cup LegsOf(e[1]) /\ Owed(e[1])' = held[e[1]]
              /\ held[e[1]] \cap LegsOf(e[1]) = {}
              /\ BookExposure(e, LegsOf(e[1]))
          BY <3>1, <4>2, <5>1, <5>2 DEF t
        <5>4. PICK L \in SUBSET LegsOf(e[1]) : L = LegsOf(e[1]) OBVIOUS
        <5> QED BY <4>1, <4>2, <4>4, <5>3, <5>4, CoverBooked
      <4> QED BY <4>3, <4>4
    <3> QED BY <3>2 DEF CoverInv
  <2>6. CASE BookUnsettled(e)
    <3>1. Goto(e, "rebuild") /\ UNCHANGED <<held>> /\ pc[e] = "unsettled" /\ BookExposure(e, read[e])
          /\ read' = [read EXCEPT ![e] = {}]
      BY <2>6 DEF BookUnsettled
    <3>2. \A a \in Accounts : slips[a] \subseteq slips'[a] BY <2>6, SlipFacts DEF BookUnsettled
    <3>3. PICK L \in SUBSET LegsOf(e[1]) : L = read[e] BY <3>1 DEF Typed
    <3>4. ASSUME NEW k \in SymbolKeys PROVE Covers(k)'
      <4>1. k[1] \in Accounts /\ Covers(k) BY KeyFacts DEF CoverInv
      <4>2. /\ \A s \in Trades : s # t => Owed(s)' = Owed(s)
            /\ Tracked(k[1])' => Tracked(k[1])
            /\ Written(k[1])' => Written(k[1])
            /\ Opens(e) => ~Written(Acct(e))'
        <5>1. \A f \in Executions : f # e => read'[f] = read[f] BY <3>1
        <5> QED BY <3>1, <3>2, <4>1, <5>1, OthersCovered DEF t, Unwritten
      <4>3. CASE Opens(e)
        <5>1. k[1] # Acct(e) => exposures'[k] = exposures[k]
          BY <2>0, <3>1, KeyOwner DEF BookExposure, t
        <5>2. \A s \in Trades : Account[s] = k[1] /\ Written(k[1])' => Owed(s)' \subseteq Owed(s)
          BY <2>0, <4>2, <4>3
        <5>3. CASE k[1] = Acct(e) BY <4>2, <4>3, <5>3 DEF Covers
        <5>4. CASE k[1] # Acct(e) BY <4>1, <4>2, <5>1, <5>2, <5>4, CoverKept
        <5> QED BY <5>3, <5>4
      <4>4. CASE ~Opens(e)
        <5>1. held[t] \cap L = {} BY <2>0, <2>e, <3>1, <3>3, <4>4 DEF TradeInv
        <5>2. Owed(t) = held[t] \cup L /\ Owed(t)' = held[t]
          BY <2>e, <2>r, <3>1, <3>3, <4>4 DEF Owed
        <5>3. /\ \A s \in Trades : s # e[1] => Owed(s)' = Owed(s)
              /\ Owed(e[1]) = held[e[1]] \cup L /\ Owed(e[1])' = held[e[1]]
              /\ held[e[1]] \cap L = {}
              /\ BookExposure(e, L)
          BY <3>1, <3>3, <4>2, <5>1, <5>2 DEF t
        <5> QED BY <4>1, <4>2, <4>4, <5>3, CoverBooked
      <4> QED BY <4>3, <4>4
    <3> QED BY <3>4 DEF CoverInv
  <2>7. CASE Persist(e)
    <3>1. Goto(e, "rebuild") /\ UNCHANGED <<exposures, held, read, slips>> /\ pc[e] = "persist" BY <2>7 DEF Persist
    <3> QED BY <2>q, <2>s, <3>1 DEF Unwritten
  <2>8. CASE PersistFails(e)
    <3>1. Goto(e, "done") /\ UNCHANGED <<exposures, held, read>> /\ pc[e] = "persist" BY <2>8 DEF PersistFails, Release
    <3>2. /\ \A a \in Accounts : slips[a] \subseteq slips'[a]
          /\ Opens(e) => "untracked" \in slips'[Acct(e)]
      <4>1. PICK A : A = (IF Opens(e) THEN {Acct(e)} ELSE {}) OBVIOUS
      <4>2. Slip(A, "untracked") BY <2>8, <4>1 DEF PersistFails
      <4>3. \A a \in Accounts : slips[a] \subseteq slips'[a] /\ (a \in A => "untracked" \in slips'[a])
        BY <4>2, SlipFacts
      <4> QED BY <2>0, <4>1, <4>3
    <3> QED BY <2>q, <3>1, <3>2 DEF Unwritten
  <2>9. CASE RebuildRead(e)
    <3>1. Goto(e, "write") /\ UNCHANGED <<exposures, held, slips>> /\ pc[e] = "rebuild" /\ read' = [read EXCEPT ![e] = OpenRows]
      BY <2>9 DEF RebuildRead
    <3>2. \A f \in Executions : f # e => read'[f] = read[f] BY <3>1
    <3>3. Owed(t)' = Owed(t)
      <4>1. ClosingOf(t) = "unsettled" => read'[<<t, "CLOSE">>] = read[<<t, "CLOSE">>] BY <2>e, <3>1, <3>2 DEF ClosingOf
      <4> QED BY <2>e, <2>r, <3>1, <4>1 DEF Owed
    <3>4. Opens(e) => ~Written(Acct(e))' BY <2>s, <3>1, <3>2, OthersCovered
    <3>5. Written(Acct(e))' /\ Tracked(Acct(e))' =>
           /\ ~(Opens(e) /\ pc[e] \in Unwritten \cup {"rebuild", "write"})
           /\ Owed(e[1])' \subseteq Owed(e[1])
      BY <3>3, <3>4 DEF t
    <3> QED BY <2>s, <3>1, <3>2, <3>5, CoverMoved
  <2>10. CASE RebuildWrite(e)
    <3>1. PICK S \in SUBSET Trades : S = read[e] BY <2>10 DEF RebuildWrite, Typed
    <3>2. exposures' = ExposuresOf[S] /\ Slip(Missing(S), "stale") /\ UNCHANGED rows
      BY <2>10, <3>1 DEF RebuildWrite, Rewrite
    <3>3. ASSUME NEW k \in SymbolKeys, NEW s \in Trades, Account[s] = k[1], rows'[s] = "OPEN", s \notin S
          PROVE  "stale" \in slips'[k[1]]
      <4>1. PICK A : A = Missing(S) OBVIOUS
      <4>2. k[1] \in A BY <3>2, <3>3, <4>1 DEF Missing, OpenRows
      <4>3. k[1] \in Accounts BY KeyFacts
      <4> QED BY <3>2, <4>1, <4>2, <4>3, SlipFacts
    <3> QED BY <3>2, <3>3, CoverRewritten DEF CoverInv
  <2> QED BY <1>b, <2>1, <2>2, <2>3, <2>4, <2>5, <2>6, <2>7, <2>8, <2>9, <2>10 DEF Work
(* Nobody moves and the tallies stay.                                      *)
<1>k. ASSUME UNCHANGED <<exposures, pc, read>>, \A t \in Trades : held'[t] \subseteq held[t],
             \A a \in Accounts : slips[a] \subseteq slips'[a]
      PROVE  CoverInv'
  <2>1. SUFFICES ASSUME NEW k \in SymbolKeys PROVE Covers(k)' BY DEF CoverInv
  <2>2. k[1] \in Accounts /\ Covers(k) BY KeyFacts DEF CoverInv
  <2>3. Written(k[1])' /\ Tracked(k[1])' => Written(k[1]) /\ Tracked(k[1]) BY <1>k, <2>2 DEF Written, Tracked
  <2>4. \A t \in Trades : Owed(t)' \subseteq Owed(t)
    <3>1. \A t \in Trades : ClosingOf(t)' = ClosingOf(t) BY <1>k, Stays
    <3> QED BY <1>k, <3>1 DEF Owed
  <2> QED BY <1>k, <2>2, <2>3, <2>4, CoverKept
<1>c. ASSUME NEW s \in Trades, CloseOutside(s) PROVE CoverInv'
  <2>1. UNCHANGED <<exposures, pc, read, slips>> /\ held' = [held EXCEPT ![s] = {}] BY <1>c DEF CloseOutside
  <2>2. \A t \in Trades : held'[t] \subseteq held[t] BY <2>1 DEF Typed
  <2> QED BY <1>k, <2>1, <2>2
<1>d. CASE OutsideRead BY <1>d, <1>k DEF OutsideRead
<1>e. CASE OutsideWrite
  <2>1. PICK S \in SUBSET Trades : S = outside.read BY DEF Typed
  <2>2. exposures' = ExposuresOf[S] /\ Slip(Missing(S), "stale") /\ UNCHANGED rows
    BY <1>e, <2>1 DEF OutsideWrite, Rewrite
  <2>3. ASSUME NEW k \in SymbolKeys, NEW s \in Trades, Account[s] = k[1], rows'[s] = "OPEN", s \notin S
        PROVE  "stale" \in slips'[k[1]]
    <3>1. PICK A : A = Missing(S) OBVIOUS
    <3>2. k[1] \in A BY <2>2, <2>3, <3>1 DEF Missing, OpenRows
    <3>3. k[1] \in Accounts BY KeyFacts
    <3> QED BY <2>2, <3>1, <3>2, <3>3, SlipFacts
  <2> QED BY <2>2, <2>3, CoverRewritten DEF CoverInv
<1>f. CASE SweepRead \/ Sweeping
  <2>1. UNCHANGED <<exposures, held, pc, read>> BY <1>f DEF SweepRead, Sweeping, SweepLock, SweepWrite
  <2>2. \A a \in Accounts : slips[a] \subseteq slips'[a]
    BY <1>f, SlipFacts DEF SweepRead, Sweeping, SweepLock, SweepWrite
  <2> QED BY <1>k, <2>1, <2>2
<1>g. ASSUME NEW a \in Accounts, NEW n \in 0 .. Len(commitments[a]), FundsTag(a, n) \/ OtherTag(a, n) PROVE CoverInv'
  <2>1. UNCHANGED <<exposures, held, pc, read>> BY <1>g DEF FundsTag, OtherTag
  <2>2. \A b \in Accounts : slips[b] \subseteq slips'[b] BY <1>g, SlipFacts DEF FundsTag, OtherTag
  <2> QED BY <1>k, <2>1, <2>2
<1>h. CASE Restart
  <2>1. PICK S \in SUBSET Trades : S = OpenRows BY DEF OpenRows
  <2>2. exposures' = ExposuresOf[S] /\ UNCHANGED rows BY <1>h, <2>1 DEF Restart
  <2>3. \A s \in Trades : rows'[s] = "OPEN" => s \in S BY <2>1, <2>2 DEF OpenRows
  <2> QED BY <2>2, <2>3, CoverRewritten DEF CoverInv
<1>i. CASE UNCHANGED vars BY <1>k, <1>i DEF vars
<1> QED BY <1>b, <1>c, <1>d, <1>e, <1>f, <1>g, <1>h, <1>i DEF Next, Closing

----------------------------------------------------------------------------
(* The limit of a symbol.                                                  *)

LEMMA LimitInt ==
  ASSUME NEW k \in SymbolKeys
  PROVE  SymbolLimit[k[1]] \in Nat /\ k[1] \in Accounts
BY KeyFacts

(* The broker holds no more, and nobody else passes the checks.            *)
LEMMA RoomKept ==
  ASSUME NEW k \in SymbolKeys, Fits(k), Tracked(k[1])' => Tracked(k[1]),
         \A t \in Trades : k \in KeysOf(t, held'[t]) => k \in KeysOf(t, held[t]),
         \A e \in Executions : Opens(e) /\ Acct(e) = k[1] /\ pc'[e] = "submit" => pc[e] = "submit"
  PROVE  Fits(k)'
<1>1. PICK f, g : f = held' /\ g = held OBVIOUS
<1>2. Weight(f, k) <= Weight(g, k)
  <2>1. \A t \in Trades : k \in KeysOf(t, f[t]) => k \in KeysOf(t, g[t]) BY <1>1
  <2> QED BY <2>1, WeightGrows
<1>3. Weight(f, k) \in Nat /\ Weight(g, k) \in Nat BY WeightType
<1>4. SUFFICES ASSUME Tracked(k[1])'
               PROVE  /\ Weight(f, k) <= SymbolLimit[k[1]]
                      /\ \A e \in Executions : Opens(e) /\ pc'[e] = "submit" /\ k \in KeysOf(e[1], LegsOf(e[1])) =>
                           Weight(f, k) + Size[e[1]] <= SymbolLimit[k[1]]
  BY <1>1 DEF Fits, Weight, Weights
<1>5. /\ Weight(g, k) <= SymbolLimit[k[1]]
      /\ \A e \in Executions : Opens(e) /\ pc[e] = "submit" /\ k \in KeysOf(e[1], LegsOf(e[1])) =>
           Weight(g, k) + Size[e[1]] <= SymbolLimit[k[1]]
  BY <1>1, <1>4 DEF Fits
<1>6. SymbolLimit[k[1]] \in Nat BY LimitInt
<1>7. Weight(f, k) <= SymbolLimit[k[1]] BY <1>2, <1>3, <1>5, <1>6
<1>8. ASSUME NEW e \in Executions, Opens(e), pc'[e] = "submit", k \in KeysOf(e[1], LegsOf(e[1]))
      PROVE  Weight(f, k) + Size[e[1]] <= SymbolLimit[k[1]]
  <2>1. e[1] \in Trades /\ Acct(e) = Account[e[1]] /\ Size[e[1]] \in Nat BY ExecutionFacts, TradeFacts
  <2>2. Acct(e) = k[1] BY <1>8, <2>1, KeyOwner
  <2>3. Weight(g, k) + Size[e[1]] <= SymbolLimit[k[1]] BY <1>5, <1>8, <2>2
  <2> QED BY <1>2, <1>3, <1>6, <2>1, <2>3
<1> QED BY <1>7, <1>8

(* Of an account, one execution at a time is inside.                       *)
LEMMA Alone ==
  ASSUME Typed, LockInv, NEW e \in Executions, NEW f \in Executions, e # f, Acct(f) = Acct(e), taken[e] > 0
  PROVE  pc[f] \notin Inside
<1>1. taken[e] # 0 BY DEF Typed
<1>2. taken[f] = 0 BY <1>1 DEF LockInv
<1> QED BY <1>2 DEF LockInv

(* The OPEN that has passed the checks buys.                               *)
LEMMA RoomBought ==
  ASSUME Typed, LockInv, RowsInv, RoomInv, NEW e \in Executions, pc[e] = "submit", NEW S \in SUBSET LegsOf(e[1]),
         Trade(e, S), NEW w, Goto(e, w), w # "submit", \A a \in Accounts : slips[a] \subseteq slips'[a]
  PROVE  RoomInv'
<1>1. SUFFICES ASSUME NEW k \in SymbolKeys PROVE Fits(k)' BY DEF RoomInv
<1>2. PICK t : t = e[1] OBVIOUS
<1>3. t \in Trades /\ Acct(e) = Account[t] /\ Size[t] \in Nat BY <1>2, ExecutionFacts, TradeFacts
<1>4. Fits(k) /\ SymbolLimit[k[1]] \in Nat /\ k[1] \in Accounts BY LimitInt DEF RoomInv
<1>5. Tracked(k[1])' => Tracked(k[1]) BY <1>4 DEF Tracked
<1>6. pc'[e] = w /\ \A f \in Executions : f # e => pc'[f] = pc[f] BY Moves
<1>7. held'[t] = (IF Opens(e) THEN held[t] \cup S ELSE held[t] \ S) /\ \A s \in Trades : s # t => held'[s] = held[s]
  BY <1>2, <1>3 DEF Trade, Typed
<1>8. CASE ~(Opens(e) /\ k \in KeysOf(t, S))
  <2>1. ASSUME NEW s \in Trades, k \in KeysOf(s, held'[s]) PROVE k \in KeysOf(s, held[s])
    <3>1. CASE s # t BY <1>7, <2>1, <3>1
    <3>2. CASE s = t /\ Opens(e)
      <4>1. k \in KeysOf(t, held[t] \cup S) BY <1>7, <2>1, <3>2
      <4>2. k \in KeysOf(t, held[t]) \/ k \in KeysOf(t, S) BY <4>1 DEF KeysOf
      <4> QED BY <1>8, <3>2, <4>2
    <3>3. CASE s = t /\ ~Opens(e)
      <4>1. held[t] \ S \subseteq held[t] OBVIOUS
      <4> QED BY <1>7, <2>1, <3>3, <4>1, KeysGrow
    <3> QED BY <3>1, <3>2, <3>3
  <2>2. \A f \in Executions : Opens(f) /\ Acct(f) = k[1] /\ pc'[f] = "submit" => pc[f] = "submit" BY <1>6
  <2> QED BY <1>4, <1>5, <2>1, <2>2, RoomKept
<1>9. CASE Opens(e) /\ k \in KeysOf(t, S)
  <2>1. PICK f, g : f = held /\ g = held' OBVIOUS
  <2>2. held[t] = {}
    <3>1. TradeInv(t) /\ Opening(t) = "submit" BY <1>2, <1>3, <1>9, ExecutionFacts DEF RowsInv
    <3> QED BY <3>1 DEF TradeInv
  <2>3. k \notin KeysOf(t, f[t]) BY <2>1, <2>2 DEF KeysOf
  <2>4. k \in KeysOf(t, g[t])
    <3>1. S \subseteq held[t] \cup S OBVIOUS
    <3> QED BY <1>7, <1>9, <2>1, <3>1, KeysGrow
  <2>5. \A s \in Trades : s # t => f[s] = g[s] BY <1>7, <2>1
  <2>6. Weight(g, k) = Weight(f, k) + Size[t] BY <1>3, <2>3, <2>4, <2>5, WeightAdds
  <2>7. SUFFICES ASSUME Tracked(k[1])'
                 PROVE  /\ Weight(g, k) <= SymbolLimit[k[1]]
                        /\ \A h \in Executions : Opens(h) /\ pc'[h] = "submit" => k \notin KeysOf(h[1], LegsOf(h[1]))
    BY <2>1 DEF Fits, Weight, Weights
  <2>8. k \in KeysOf(e[1], LegsOf(e[1])) BY <1>2, <1>9, KeysGrow
  <2>9. Weight(f, k) + Size[t] <= SymbolLimit[k[1]] BY <1>2, <1>4, <1>5, <1>9, <2>1, <2>7, <2>8 DEF Fits
  <2>10. ASSUME NEW h \in Executions, Opens(h), pc'[h] = "submit", k \in KeysOf(h[1], LegsOf(h[1])) PROVE FALSE
    <3>1. h # e BY <1>6, <2>10
    <3>2. pc[h] \in Inside BY <1>6, <2>10, <3>1 DEF Inside
    <3>3. Acct(h) = k[1] BY <2>10, ExecutionFacts, KeyOwner
    <3>4. Acct(e) = k[1] BY <1>3, <1>9, KeyOwner
    <3>5. taken[e] > 0 BY DEF LockInv, Inside
    <3> QED BY <3>1, <3>2, <3>3, <3>4, <3>5, Alone
  <2> QED BY <2>6, <2>9, <2>10
<1> QED BY <1>8, <1>9

(* An OPEN passes the checks: nobody else of the account is inside, so the *)
(* tally the check read covers what is held.                               *)
LEMMA RoomFound ==
  ASSUME Typed, LockInv, CoverInv, NEW e \in Executions, Opens(e), pc[e] = "locking", Reached(e) > taken[e], Passes(e),
         NEW k \in SymbolKeys, k \in KeysOf(e[1], LegsOf(e[1])), Tracked(k[1])
  PROVE  Weight(held, k) + Size[e[1]] <= SymbolLimit[k[1]]
<1>1. e[1] \in Trades /\ Acct(e) = Account[e[1]] /\ Size[e[1]] \in Nat BY ExecutionFacts, TradeFacts
<1>2. k[1] = Acct(e) BY <1>1, KeyOwner
<1>3. Written(k[1])
  <2>1. SUFFICES ASSUME NEW f \in Executions, Acct(f) = k[1], Opens(f)
                 PROVE  pc[f] \notin Unwritten \cup {"rebuild", "write"}
    BY DEF Written
  <2>2. CASE f = e BY <2>2 DEF Unwritten
  <2>3. CASE f # e
    <3>1. taken[f] = 0 BY <1>2, <2>1, <2>3, MarginLockFirst
    <3> QED BY <3>1 DEF LockInv, Inside, Unwritten
  <2> QED BY <2>2, <2>3
<1>4. PICK f, g : f = held /\ g = OwedLegs OBVIOUS
<1>5. Weight(g, k) <= exposures[k] /\ exposures[k] \in Nat BY <1>3, <1>4 DEF CoverInv, Covers, Typed
<1>6. Weight(f, k) <= Weight(g, k)
  <2>1. \A t \in Trades : f[t] \subseteq g[t] BY <1>4 DEF OwedLegs, Owed
  <2>2. \A t \in Trades : k \in KeysOf(t, f[t]) => k \in KeysOf(t, g[t]) BY <2>1, KeysGrow
  <2> QED BY <2>2, WeightGrows
<1>7. exposures[k] + Size[e[1]] <= SymbolLimit[k[1]]
  <2>1. PICK i \in LegsOf(e[1]) : k = <<Account[e[1]], Legs[e[1]][i]>> BY DEF KeysOf
  <2> QED BY <2>1 DEF Passes, MoneyPerStockCheck
<1>8. Weight(f, k) \in Nat /\ Weight(g, k) \in Nat /\ SymbolLimit[k[1]] \in Nat BY WeightType, LimitInt
<1>9. Weight(f, k) + Size[e[1]] <= SymbolLimit[k[1]] BY <1>1, <1>5, <1>6, <1>7, <1>8
<1> QED BY <1>4, <1>9

LEMMA RoomStep ==
  ASSUME Typed, LockInv, RowsInv, CoverInv, RoomInv, [Next]_vars
  PROVE  RoomInv'
<1> USE DEF tables, tallies, margin, runs
<1>q. ASSUME \A t \in Trades : held'[t] \subseteq held[t], \A a \in Accounts : slips[a] \subseteq slips'[a],
             \A e \in Executions : pc'[e] = "submit" => pc[e] = "submit"
      PROVE  RoomInv'
  <2>1. SUFFICES ASSUME NEW k \in SymbolKeys PROVE Fits(k)' BY DEF RoomInv
  <2>2. Fits(k) /\ k[1] \in Accounts BY LimitInt DEF RoomInv
  <2>3. Tracked(k[1])' => Tracked(k[1]) BY <1>q, <2>2 DEF Tracked
  <2>4. \A t \in Trades : k \in KeysOf(t, held'[t]) => k \in KeysOf(t, held[t]) BY <1>q, KeysGrow
  <2> QED BY <1>q, <2>2, <2>3, <2>4, RoomKept
<1>m. ASSUME NEW e \in Executions, NEW w, Goto(e, w), w # "submit", UNCHANGED held,
             \A a \in Accounts : slips[a] \subseteq slips'[a]
      PROVE  RoomInv'
  <2>1. \A f \in Executions : pc'[f] = "submit" => pc[f] = "submit" BY <1>m, Moves
  <2> QED BY <1>m, <1>q, <2>1
<1>s. UNCHANGED slips => \A a \in Accounts : slips[a] \subseteq slips'[a] OBVIOUS
<1>b. ASSUME NEW e \in Executions, Begin(e) \/ Work(e) PROVE RoomInv'
  <2>1. CASE Begin(e) BY <1>m, <1>s, <2>1 DEF Begin
  <2>2. CASE EnterGuard(e)
    <3>1. UNCHANGED <<held, slips>> /\ pc[e] = "locking" /\ Reached(e) > taken[e] BY <2>2 DEF EnterGuard
    <3>2. PICK w : Goto(e, w) /\ (w = "submit" => Passes(e)) BY <2>2 DEF EnterGuard, Release
    <3>3. CASE w # "submit" BY <1>m, <1>s, <3>1, <3>2, <3>3
    <3>4. CASE w = "submit"
      <4>1. SUFFICES ASSUME NEW k \in SymbolKeys, Tracked(k[1])
                     PROVE  /\ Weight(held, k) <= SymbolLimit[k[1]]
                            /\ \A f \in Executions : Opens(f) /\ pc'[f] = "submit" /\ k \in KeysOf(f[1], LegsOf(f[1])) =>
                                 Weight(held, k) + Size[f[1]] <= SymbolLimit[k[1]]
        <5>1. \A k \in SymbolKeys : Weight(held, k)' = Weight(held, k) BY <3>1 DEF Weight, Weights
        <5>2. \A k \in SymbolKeys : Tracked(k[1])' = Tracked(k[1]) BY <3>1 DEF Tracked
        <5> QED BY <5>1, <5>2 DEF RoomInv, Fits
      <4>2. Fits(k) BY DEF RoomInv
      <4>3. ASSUME NEW f \in Executions, Opens(f), pc'[f] = "submit", k \in KeysOf(f[1], LegsOf(f[1]))
            PROVE  Weight(held, k) + Size[f[1]] <= SymbolLimit[k[1]]
        <5>1. CASE f = e BY <3>1, <3>2, <3>4, <4>1, <4>3, <5>1, RoomFound
        <5>2. CASE f # e
          <6>1. pc[f] = "submit" BY <3>2, <4>3, <5>2, Moves
          <6> QED BY <4>1, <4>2, <4>3, <6>1 DEF Fits
        <5> QED BY <5>1, <5>2
      <4> QED BY <4>1, <4>2, <4>3 DEF Fits
    <3> QED BY <3>3, <3>4
  <2>3. CASE Refuse(e) BY <1>m, <1>s, <2>3 DEF Refuse, Release
  <2>4. CASE Basket(e)
    <3>1. CASE BasketSettles(e)
      <4>1. PICK L \in SUBSET LegsOf(e[1]) : L = LegsOf(e[1]) OBVIOUS
      <4> QED BY <1>s, <3>1, <4>1, RoomBought DEF BasketSettles
    <3>2. CASE BasketCompensates(e) BY <1>m, <1>s, <3>2 DEF BasketCompensates
    <3>3. ASSUME NEW S \in SUBSET LegsOf(e[1]), BasketUnsettled(e, S) PROVE RoomInv'
      BY <1>s, <3>3, RoomBought DEF BasketUnsettled
    <3>4. ASSUME NEW S \in SUBSET LegsOf(e[1]), BasketRaises(e, S) PROVE RoomInv'
      <4>1. \A a \in Accounts : slips[a] \subseteq slips'[a] BY <3>4, SlipFacts DEF BasketRaises
      <4> QED BY <3>4, <4>1, RoomBought DEF BasketRaises, Release
    <3> QED BY <2>4, <3>1, <3>2, <3>3, <3>4 DEF Basket
  <2>5. CASE BookSettled(e) BY <1>m, <1>s, <2>5 DEF BookSettled
  <2>6. CASE BookUnsettled(e)
    <3>1. \A a \in Accounts : slips[a] \subseteq slips'[a] BY <2>6, SlipFacts DEF BookUnsettled
    <3> QED BY <1>m, <2>6, <3>1 DEF BookUnsettled
  <2>7. CASE Persist(e) BY <1>m, <1>s, <2>7 DEF Persist
  <2>8. CASE PersistFails(e)
    <3>1. \A a \in Accounts : slips[a] \subseteq slips'[a] BY <2>8, SlipFacts DEF PersistFails
    <3> QED BY <1>m, <2>8, <3>1 DEF PersistFails, Release
  <2>9. CASE RebuildRead(e) BY <1>m, <1>s, <2>9 DEF RebuildRead
  <2>10. CASE RebuildWrite(e)
    <3>1. \A a \in Accounts : slips[a] \subseteq slips'[a] BY <2>10, SlipFacts DEF RebuildWrite, Rewrite
    <3> QED BY <1>m, <2>10, <3>1 DEF RebuildWrite, Release
  <2> QED BY <1>b, <2>1, <2>2, <2>3, <2>4, <2>5, <2>6, <2>7, <2>8, <2>9, <2>10 DEF Work
<1>c. ASSUME NEW s \in Trades, CloseOutside(s) PROVE RoomInv'
  <2>1. UNCHANGED <<pc, slips>> /\ held' = [held EXCEPT ![s] = {}] BY <1>c DEF CloseOutside
  <2>2. \A t \in Trades : held'[t] \subseteq held[t] BY <2>1 DEF Typed
  <2> QED BY <1>q, <2>1, <2>2
<1>d. CASE Closing
  <2>1. \A a \in Accounts : slips[a] \subseteq slips'[a] BY <1>d, SlipFacts DEF Closing, OutsideRead, OutsideWrite, Rewrite
  <2> QED BY <1>d, <1>q, <2>1 DEF Closing, OutsideRead, OutsideWrite
<1>f. CASE SweepRead \/ Sweeping
  <2>1. UNCHANGED <<held, pc>> BY <1>f DEF SweepRead, Sweeping, SweepLock, SweepWrite
  <2>2. \A a \in Accounts : slips[a] \subseteq slips'[a]
    BY <1>f, SlipFacts DEF SweepRead, Sweeping, SweepLock, SweepWrite
  <2> QED BY <1>q, <2>1, <2>2
<1>g. ASSUME NEW a \in Accounts, NEW n \in 0 .. Len(commitments[a]), FundsTag(a, n) \/ OtherTag(a, n) PROVE RoomInv'
  <2>1. UNCHANGED <<held, pc>> BY <1>g DEF FundsTag, OtherTag
  <2>2. \A b \in Accounts : slips[b] \subseteq slips'[b] BY <1>g, SlipFacts DEF FundsTag, OtherTag
  <2> QED BY <1>q, <2>1, <2>2
<1>h. CASE Restart
  <2>1. UNCHANGED held BY <1>h DEF Restart
  <2>2. \A b \in Accounts : slips[b] \subseteq slips'[b] BY <1>h, SlipFacts DEF Restart
  <2>3. \A e \in Executions : pc'[e] # "submit" BY <1>h DEF Restart
  <2> QED BY <1>q, <2>1, <2>2, <2>3
<1>i. CASE UNCHANGED vars BY <1>q, <1>i DEF vars
<1> QED BY <1>b, <1>c, <1>d, <1>f, <1>g, <1>h, <1>i DEF Next

----------------------------------------------------------------------------
(* The margin.                                                             *)

(* The sum of a sequence of commitments.                                   *)
Total(c) == FoldSeq(+, 0, c)

LEMMA TotalIsSum ==
  ASSUME NEW c, NEW D, D = DOMAIN c
  PROVE  Total(c) = SumFunctionOnSet(c, D)
BY DEF Total, FoldSeq, SumFunctionOnSet, FoldFunctionOnSet, FoldFunction

LEMMA TotalFacts ==
  ASSUME NEW c \in Seq(Int)
  PROVE  /\ Total(c) \in Int
         /\ \A x \in Int : Total(Append(c, x)) = Total(c) + x
         /\ (\A i \in 1 .. Len(c) : c[i] >= 0) => Total(c) >= 0
         /\ c = <<>> => Total(c) = 0
<1>2. PICK n : n = Len(c) OBVIOUS
<1>3. n \in Nat /\ DOMAIN c = 1 .. n /\ \A i \in 1 .. n : c[i] \in Int BY <1>2
<1>4. PICK D : D = 1 .. n OBVIOUS
<1>5. IsFiniteSet(D) BY <1>3, <1>4, FS_Interval
<1>6. Total(c) = SumFunctionOnSet(c, D) BY <1>3, <1>4, TotalIsSum
<1>7. SumFunctionOnSet(c, D) \in Int BY <1>3, <1>4, <1>5, SumType
<1>8. ASSUME NEW x \in Int PROVE Total(Append(c, x)) = Total(c) + x
  <2>1. PICK d, E : d = Append(c, x) /\ E = 1 .. n + 1 OBVIOUS
  <2>2. /\ DOMAIN d = E /\ n + 1 \in E /\ d[n + 1] = x
        /\ \A i \in D : d[i] = c[i]
        /\ \A i \in E : d[i] \in Int
    BY <1>2, <1>3, <1>4, <2>1
  <2>3. IsFiniteSet(E)
    <3>1. 1 \in Int /\ n + 1 \in Int BY <1>3
    <3> QED BY <2>1, <3>1, FS_Interval
  <2>4. E \ {n + 1} = D BY <1>3, <1>4, <2>1
  <2>5. Total(d) = SumFunctionOnSet(d, E) BY <2>2, TotalIsSum
  <2>6. SumFunctionOnSet(d, E) = d[n + 1] + SumFunctionOnSet(d, E \ {n + 1}) BY <2>2, <2>3, SumRemove
  <2>7. SumFunctionOnSet(d, D) = SumFunctionOnSet(c, D) BY <1>5, <2>2, SumCong
  <2>8. PICK s \in Int : s = Total(c) BY <1>6, <1>7
  <2>9. Total(d) = x + s BY <1>6, <2>2, <2>4, <2>5, <2>6, <2>7, <2>8
  <2>10. x + s = s + x OBVIOUS
  <2> QED BY <2>1, <2>8, <2>9, <2>10
<1>9. ASSUME \A i \in 1 .. Len(c) : c[i] >= 0 PROVE Total(c) >= 0
  <2>1. \A i \in D : c[i] \in Nat BY <1>2, <1>3, <1>4, <1>9
  <2>2. SumFunctionOnSet(c, D) \in Nat BY <1>5, <2>1, SumNat
  <2> QED BY <1>6, <2>2
<1>10. ASSUME c = <<>> PROVE Total(c) = 0
  <2>1. D = {} BY <1>2, <1>4, <1>10
  <2> QED BY <1>6, <2>1, SumEmpty
<1> QED BY <1>6, <1>7, <1>8, <1>9, <1>10

LEMMA EffectiveIs ==
  ASSUME NEW a
  PROVE  /\ Effective(a) = seen[a] - Total(commitments[a])
         /\ Effective(a)' = seen'[a] - Total(commitments'[a])
<1>1. Pending(a) = Total(commitments[a]) BY DEF Pending, Total
<1>2. Pending(a)' = Total(commitments[a])' BY DEF Pending, Total
<1>3. Total(commitments[a])' = Total(commitments'[a]) OBVIOUS
<1> QED BY <1>1, <1>2, <1>3 DEF Effective

LEMMA FundsType ==
  ASSUME Typed, NEW a \in Accounts
  PROVE  Effective(a) \in Int /\ free[a] \in Int /\ seen[a] \in Int /\ Total(commitments[a]) \in Int
<1>1. PICK c \in Seq(Int) : c = commitments[a] BY DEF Typed
<1>2. Total(c) \in Int BY TotalFacts
<1>3. seen[a] \in Int /\ free[a] \in Int BY DEF Typed
<1> QED BY <1>1, <1>2, <1>3, EffectiveIs

LEMMA CommittedFacts ==
  ASSUME NEW e \in Executions, NEW legs \in SUBSET LegsOf(e[1])
  PROVE  /\ Required(e[1], legs) \in Nat
         /\ Committed(e, legs) = IF Opens(e) THEN Required(e[1], legs) ELSE -Required(e[1], legs)
         /\ Committed(e, legs) \in Int
         /\ legs = {} => Committed(e, legs) = 0
<1>1. e[1] \in Trades BY ExecutionFacts
<1>2. Required(e[1], legs) \in Nat BY <1>1, TradeFacts
<1>3. legs = {} => Required(e[1], legs) = 0
  <2>1. Size[e[1]] \in Nat BY <1>1, TradeFacts
  <2> QED BY <2>1, FS_EmptySet DEF Required
<1> QED BY <1>2, <1>3 DEF Committed

(* The account's figures stay, or it gets more funds.                      *)
LEMMA FundsKept ==
  ASSUME Typed, Typed', NEW a \in Accounts, Funded(a), Accounted(a)' => Accounted(a),
         seen'[a] = seen[a], commitments'[a] = commitments[a], free[a] <= free'[a],
         \A e \in Executions : Acct(e) = a => /\ Unbooked(e)' <=> Unbooked(e)
                                              /\ Unbooked(e) => Filled(e)' = Filled(e)
  PROVE  Funded(a)'
<1>1. Effective(a)' = Effective(a) BY EffectiveIs
<1>2. PICK x, m, n : x = Effective(a) /\ m = free[a] /\ n = free'[a] OBVIOUS
<1>3. x \in Int /\ m \in Int /\ n \in Int /\ m <= n
  <2>1. free'[a] \in Int BY DEF Typed
  <2> QED BY <1>2, <2>1, FundsType
<1>4. SUFFICES ASSUME Accounted(a)'
               PROVE  /\ \A e \in Executions : Acct(e) = a /\ Unbooked(e) => x <= n + Committed(e, Filled(e))
                      /\ (\A e \in Executions : Acct(e) = a => ~Unbooked(e)) => x <= n
  <2>1. \A e \in Executions : Acct(e) = a /\ Unbooked(e) => Committed(e, Filled(e))' = Committed(e, Filled(e))
    BY DEF Committed
  <2> QED BY <1>1, <1>2, <2>1 DEF Funded
<1>5. ASSUME NEW e \in Executions, Acct(e) = a, Unbooked(e) PROVE x <= n + Committed(e, Filled(e))
  <2>1. x <= m + Committed(e, Filled(e)) BY <1>2, <1>4, <1>5 DEF Funded
  <2>2. PICK L \in SUBSET LegsOf(e[1]) : L = Filled(e) BY <1>5 DEF Filled, Unbooked, Typed
  <2>3. Committed(e, L) \in Int BY CommittedFacts
  <2> QED BY <1>3, <2>1, <2>2, <2>3
<1>6. ASSUME \A e \in Executions : Acct(e) = a => ~Unbooked(e) PROVE x <= n
  <2>1. x <= m BY <1>2, <1>4, <1>6 DEF Funded
  <2> QED BY <1>3, <2>1
<1> QED BY <1>5, <1>6

(* What the bound says of an account while e is inside, and when e moves.  *)
LEMMA FundedAlone ==
  ASSUME Typed, LockInv, NEW e \in Executions, pc[e] \in Inside, NEW a, a = Acct(e)
  PROVE  /\ Funded(a) <=> (Accounted(a) => IF Unbooked(e) THEN Effective(a) <= free[a] + Committed(e, Filled(e))
                                                          ELSE Effective(a) <= free[a])
         /\ \A w : Goto(e, w) =>
              (Funded(a)' <=> (Accounted(a)' =>
                 IF w \in {"settled", "unsettled"}
                 THEN Effective(a)' <= free'[a] + Committed(e, IF w = "settled" THEN LegsOf(e[1]) ELSE read'[e])
                 ELSE Effective(a)' <= free'[a]))
<1>1. taken[e] > 0 BY DEF LockInv
<1>2. \A f \in Executions : f # e /\ Acct(f) = a => ~Unbooked(f) BY <1>1, Alone DEF Unbooked, Inside
<1>3. Funded(a) <=> (Accounted(a) => IF Unbooked(e) THEN Effective(a) <= free[a] + Committed(e, Filled(e))
                                                    ELSE Effective(a) <= free[a])
  BY <1>2 DEF Funded
<1>4. ASSUME NEW w, Goto(e, w)
      PROVE  Funded(a)' <=> (Accounted(a)' =>
                 IF w \in {"settled", "unsettled"}
                 THEN Effective(a)' <= free'[a] + Committed(e, IF w = "settled" THEN LegsOf(e[1]) ELSE read'[e])
                 ELSE Effective(a)' <= free'[a])
  <2>1. pc'[e] = w /\ \A f \in Executions : f # e => pc'[f] = pc[f] BY <1>4, Moves
  <2>2. \A f \in Executions : f # e /\ Acct(f) = a => ~Unbooked(f)' BY <1>2, <2>1 DEF Unbooked
  <2>3. Unbooked(e)' <=> w \in {"settled", "unsettled"} BY <2>1 DEF Unbooked
  <2>4. Committed(e, Filled(e))' = Committed(e, IF w = "settled" THEN LegsOf(e[1]) ELSE read'[e])
    BY <2>1 DEF Committed, Filled
  <2> QED BY <2>2, <2>3, <2>4 DEF Funded
<1> QED BY <1>3, <1>4

LEMMA FundsStep ==
  ASSUME Typed, Typed', LockInv, RowsInv, FundsInv, [Next]_vars
  PROVE  FundsInv'
<1> USE DEF tables, tallies, margin, runs
<1>s. UNCHANGED slips => \A a \in Accounts : slips[a] \subseteq slips'[a] OBVIOUS
<1>t. (\A a \in Accounts : slips[a] \subseteq slips'[a]) => \A a \in Accounts : Accounted(a)' => Accounted(a)
  BY DEF Accounted
(* The figures stay and nobody trades or books.                            *)
<1>q. ASSUME NEW a \in Accounts, \A b \in Accounts : slips[b] \subseteq slips'[b],
             seen'[a] = seen[a], commitments'[a] = commitments[a], free[a] <= free'[a],
             \A e \in Executions : Acct(e) = a => /\ pc'[e] \in {"settled", "unsettled"} <=> pc[e] \in {"settled", "unsettled"}
                                                  /\ pc[e] \in {"settled", "unsettled"} => pc'[e] = pc[e] /\ read'[e] = read[e]
      PROVE  Funded(a)'
  <2>1. Funded(a) /\ (Accounted(a)' => Accounted(a)) BY <1>q, <1>t DEF FundsInv
  <2>2. ASSUME NEW e \in Executions, Acct(e) = a
        PROVE  (Unbooked(e)' <=> Unbooked(e)) /\ (Unbooked(e) => Filled(e)' = Filled(e))
    <3>1. (pc'[e] \in {"settled", "unsettled"} <=> pc[e] \in {"settled", "unsettled"})
          /\ (pc[e] \in {"settled", "unsettled"} => pc'[e] = pc[e] /\ read'[e] = read[e])
      BY <1>q, <2>2
    <3> QED BY <3>1 DEF Unbooked, Filled
  <2> QED BY <1>q, <2>1, <2>2, FundsKept
<1>f. \A a \in Accounts : free[a] \in Int /\ free[a] <= free[a] BY FundsType
<1>b. ASSUME NEW e \in Executions, Begin(e) \/ Work(e) PROVE FundsInv'
  <2>0. e[1] \in Trades /\ Acct(e) \in Accounts BY ExecutionFacts
  <2>a. PICK a \in Accounts : a = Acct(e) BY <2>0
  (* The other accounts.                                                   *)
  <2>o. ASSUME NEW w, Goto(e, w), \A b \in Accounts : slips[b] \subseteq slips'[b], UNCHANGED seen,
               \A b \in Accounts : b # a => commitments'[b] = commitments[b] /\ free'[b] = free[b],
               \A f \in Executions : f # e => read'[f] = read[f], Funded(a)'
        PROVE  FundsInv'
    <3>1. SUFFICES ASSUME NEW b \in Accounts, b # a PROVE Funded(b)' BY <2>o DEF FundsInv
    <3>2. \A f \in Executions : Acct(f) = b => f # e /\ pc'[f] = pc[f] /\ read'[f] = read[f]
      BY <2>a, <2>o, <3>1, Moves
    <3>3. free[b] <= free'[b] BY <1>f, <2>o, <3>1
    <3> QED BY <1>q, <2>o, <3>1, <3>2, <3>3
  (* Steps of e that neither trade nor book.                               *)
  <2>q. ASSUME NEW w, Goto(e, w), \A b \in Accounts : slips[b] \subseteq slips'[b], UNCHANGED <<seen, commitments, free>>,
               \A f \in Executions : f # e => read'[f] = read[f],
               w \notin {"settled", "unsettled"}, pc[e] \notin {"settled", "unsettled"}
        PROVE  FundsInv'
    <3>1. \A f \in Executions :
            /\ pc'[f] \in {"settled", "unsettled"} <=> pc[f] \in {"settled", "unsettled"}
            /\ pc[f] \in {"settled", "unsettled"} => pc'[f] = pc[f] /\ read'[f] = read[f]
      BY <2>q, Moves
    <3>2. \A b \in Accounts : Funded(b)' BY <1>f, <1>q, <2>q, <3>1
    <3> QED BY <3>2 DEF FundsInv
  (* What the bound says of e's account.                                   *)
  <2>i. ASSUME pc[e] \in Inside
        PROVE  /\ Accounted(a) => IF Unbooked(e) THEN Effective(a) <= free[a] + Committed(e, Filled(e))
                                                 ELSE Effective(a) <= free[a]
               /\ \A w : Goto(e, w) =>
                    (Funded(a)' <=> (Accounted(a)' =>
                       IF w \in {"settled", "unsettled"}
                       THEN Effective(a)' <= free'[a] + Committed(e, IF w = "settled" THEN LegsOf(e[1]) ELSE read'[e])
                       ELSE Effective(a)' <= free'[a]))
    <3>1. Funded(a) BY DEF FundsInv
    <3> QED BY <2>a, <2>i, <3>1, FundedAlone
  <2>y. Effective(a) \in Int /\ free[a] \in Int /\ free'[a] \in Int
    <3>1. free'[a] \in Int BY DEF Typed
    <3> QED BY <3>1, FundsType
  <2>1. CASE Begin(e)
    <3>1. Goto(e, "locking") /\ UNCHANGED <<seen, commitments, free, read, slips>> /\ pc[e] = "idle" BY <2>1 DEF Begin
    <3> QED BY <1>s, <2>q, <3>1
  <2>2. CASE EnterGuard(e)
    <3>1. PICK w \in {"done", "submit", "locking"} : Goto(e, w) BY <2>2 DEF EnterGuard, Release
    <3>2. UNCHANGED <<seen, commitments, free, read, slips>> /\ pc[e] = "locking" BY <2>2 DEF EnterGuard
    <3> QED BY <1>s, <2>q, <3>1, <3>2
  <2>3. CASE Refuse(e)
    <3>1. Goto(e, "done") /\ UNCHANGED <<seen, commitments, free, read, slips>> /\ pc[e] = "submit" BY <2>3 DEF Refuse, Release
    <3> QED BY <1>s, <2>q, <3>1
  <2>4. CASE Basket(e)
    (* Legs S trade: the funds move by what will be committed.             *)
    <3>t. ASSUME NEW S \in SUBSET LegsOf(e[1]), Trade(e, S), UNCHANGED <<seen, commitments>>, pc[e] = "submit"
          PROVE  /\ \A b \in Accounts : b # a => commitments'[b] = commitments[b] /\ free'[b] = free[b]
                 /\ free'[a] = free[a] - Committed(e, S)
                 /\ Committed(e, S) \in Int
                 /\ Effective(a)' = Effective(a)
                 /\ Accounted(a) => Effective(a)' <= free'[a] + Committed(e, S)
                 /\ (S = {} \/ ~Opens(e)) => Committed(e, S) <= 0
      <4>1. PICK r \in Nat : r = Required(e[1], S) BY CommittedFacts
      <4>2. Committed(e, S) = IF Opens(e) THEN r ELSE -r BY <4>1, CommittedFacts
      <4>3. free'[a] = IF Opens(e) THEN free[a] - r ELSE free[a] + r BY <2>a, <3>t, <4>1 DEF Trade, Typed
      <4>4. \A b \in Accounts : b # a => free'[b] = free[b] BY <2>a, <3>t DEF Trade, Typed
      <4>5. Effective(a)' = Effective(a) BY <3>t, EffectiveIs
      <4>6. Accounted(a) => Effective(a) <= free[a] BY <2>i, <3>t DEF Inside, Unbooked
      <4>7. free'[a] = free[a] - Committed(e, S) BY <2>y, <4>2, <4>3
      <4>8. (S = {} \/ ~Opens(e)) => Committed(e, S) <= 0
        <5>1. S = {} => Committed(e, S) = 0 BY CommittedFacts
        <5> QED BY <4>2, <5>1
      <4>9. Accounted(a) => Effective(a)' <= free'[a] + Committed(e, S) BY <2>y, <4>2, <4>5, <4>6, <4>7
      <4> QED BY <3>t, <4>2, <4>4, <4>5, <4>7, <4>8, <4>9
    <3>1. CASE BasketSettles(e)
      <4>1. PICK L \in SUBSET LegsOf(e[1]) : L = LegsOf(e[1]) OBVIOUS
      <4>2. Goto(e, "settled") /\ UNCHANGED <<seen, commitments, read, slips>> /\ pc[e] = "submit" /\ Trade(e, L)
        BY <3>1, <4>1 DEF BasketSettles
      <4>3. Accounted(a)' => Accounted(a) BY <1>s, <1>t, <4>2
      <4>4. Accounted(a)' => Effective(a)' <= free'[a] + Committed(e, L) BY <3>t, <4>2, <4>3
      <4>5. Funded(a)' BY <2>i, <4>1, <4>2, <4>4 DEF Inside
      <4> QED BY <1>s, <2>o, <3>t, <4>2, <4>5
    <3>2. CASE BasketCompensates(e)
      <4>1. Goto(e, "rebuild") /\ UNCHANGED <<seen, commitments, free, read, slips>> /\ pc[e] = "submit"
        BY <3>2 DEF BasketCompensates
      <4> QED BY <1>s, <2>q, <4>1
    <3>3. ASSUME NEW S \in SUBSET LegsOf(e[1]), BasketUnsettled(e, S) PROVE FundsInv'
      <4>1. Goto(e, "unsettled") /\ UNCHANGED <<seen, commitments, slips>> /\ pc[e] = "submit" /\ Trade(e, S)
        BY <3>3 DEF BasketUnsettled
      <4>2. read'[e] = S /\ \A f \in Executions : f # e => read'[f] = read[f] BY <3>3 DEF BasketUnsettled, Typed
      <4>3. Accounted(a)' => Accounted(a) BY <1>s, <1>t, <4>1
      <4>4. Accounted(a)' => Effective(a)' <= free'[a] + Committed(e, S) BY <3>t, <4>1, <4>3
      <4>5. Funded(a)' BY <2>i, <4>1, <4>2, <4>4 DEF Inside
      <4> QED BY <1>s, <2>o, <3>t, <4>1, <4>2, <4>5
    <3>4. ASSUME NEW S \in SUBSET LegsOf(e[1]), BasketRaises(e, S) PROVE FundsInv'
      <4>1. Goto(e, "done") /\ UNCHANGED <<seen, commitments, read>> /\ pc[e] = "submit" /\ Trade(e, S)
        BY <3>4 DEF BasketRaises, Release
      <4>2. /\ \A b \in Accounts : slips[b] \subseteq slips'[b]
            /\ Opens(e) /\ S # {} => "untracked" \in slips'[a]
        <5>1. PICK A : A = (IF Opens(e) /\ S # {} THEN {Acct(e)} ELSE {}) OBVIOUS
        <5>2. Slip(A, "untracked") BY <3>4, <5>1 DEF BasketRaises
        <5>3. \A b \in Accounts : slips[b] \subseteq slips'[b] /\ (b \in A => "untracked" \in slips'[b])
          BY <5>2, SlipFacts
        <5> QED BY <2>a, <5>1, <5>3
      <4>3. Accounted(a)' => Accounted(a) /\ (S = {} \/ ~Opens(e)) BY <1>t, <4>2 DEF Accounted
      <4>4. Accounted(a)' => Effective(a)' <= free'[a]
        <5>1. Committed(e, S) \in Int /\ Effective(a)' = Effective(a) BY <3>t, <4>1
        <5>2. Accounted(a)' => Committed(e, S) <= 0 /\ Effective(a)' <= free'[a] + Committed(e, S) BY <3>t, <4>1, <4>3
        <5> QED BY <2>y, <5>1, <5>2
      <4>5. Funded(a)' BY <2>i, <4>1, <4>4 DEF Inside
      <4> QED BY <2>o, <3>t, <4>1, <4>2, <4>5
    <3> QED BY <2>4, <3>1, <3>2, <3>3, <3>4 DEF Basket
  (* The commitment takes the place of the correction.                     *)
  <2>c. ASSUME NEW L \in SUBSET LegsOf(e[1]), CommitMargin(e, L), UNCHANGED <<seen, free>>, pc[e] \in Inside,
               Unbooked(e), Filled(e) = L
        PROVE  /\ \A b \in Accounts : b # a => commitments'[b] = commitments[b] /\ free'[b] = free[b]
               /\ Accounted(a) => Effective(a)' <= free'[a]
    <3>1. PICK c \in Int : c = Committed(e, L) BY CommittedFacts
    <3>2. Accounted(a) => Effective(a) <= free[a] + c BY <2>i, <2>c, <3>1
    <3>3. PICK s \in Seq(Int) : s = commitments[a] BY DEF Typed
    <3>4. Total(commitments'[a]) = Total(s) + c
      <4>1. CASE L = {}
        <5>1. c = 0 BY <3>1, <4>1, CommittedFacts
        <5>2. commitments' = commitments BY <2>c, <4>1 DEF CommitMargin
        <5>3. Total(s) \in Int BY TotalFacts
        <5>4. Total(s) = Total(s) + c BY <5>1, <5>3
        <5> QED BY <3>3, <5>2, <5>4
      <4>2. CASE L # {}
        <5>1. commitments'[a] = Append(s, c) BY <2>a, <2>c, <3>1, <3>3, <4>2 DEF CommitMargin, Typed
        <5> QED BY <5>1, TotalFacts
      <4> QED BY <4>1, <4>2
    <3>5. Effective(a) = seen[a] - Total(s) /\ Effective(a)' = seen[a] - Total(commitments'[a])
      BY <2>c, <3>3, EffectiveIs
    <3>6. seen[a] \in Int /\ Total(s) \in Int BY <3>3, FundsType
    <3>7. PICK x, y, m : x = seen[a] /\ y = Total(s) /\ m = free[a] OBVIOUS
    <3>8. Accounted(a) => x - y <= m + c BY <3>2, <3>5, <3>7
    <3>9. Accounted(a) => x - (y + c) <= m BY <2>y, <3>6, <3>7, <3>8
    <3>10. Accounted(a) => Effective(a)' <= free'[a] BY <2>c, <3>4, <3>5, <3>7, <3>9
    <3>11. \A b \in Accounts : b # a => commitments'[b] = commitments[b] BY <2>a, <2>c DEF CommitMargin, Typed
    <3> QED BY <2>c, <3>10, <3>11
  <2>5. CASE BookSettled(e)
    <3>1. PICK L \in SUBSET LegsOf(e[1]) : L = LegsOf(e[1]) OBVIOUS
    <3>2. Goto(e, "persist") /\ UNCHANGED <<seen, free, read, slips>> /\ pc[e] = "settled" /\ CommitMargin(e, L)
      BY <2>5, <3>1 DEF BookSettled
    <3>3. pc[e] \in Inside /\ Unbooked(e) /\ Filled(e) = L BY <3>1, <3>2 DEF Inside, Unbooked, Filled
    <3>4. /\ \A b \in Accounts : b # a => commitments'[b] = commitments[b] /\ free'[b] = free[b]
          /\ Accounted(a) => Effective(a)' <= free'[a]
      BY <2>c, <3>2, <3>3
    <3>5. Accounted(a)' => Accounted(a) BY <1>s, <1>t, <3>2
    <3>6. Funded(a)' BY <2>i, <3>2, <3>3, <3>4, <3>5
    <3> QED BY <1>s, <2>o, <3>2, <3>4, <3>6
  <2>6. CASE BookUnsettled(e)
    <3>1. PICK L \in SUBSET LegsOf(e[1]) : L = read[e] BY <2>6 DEF BookUnsettled, Typed
    <3>2. Goto(e, "rebuild") /\ UNCHANGED <<seen, free>> /\ pc[e] = "unsettled" /\ CommitMargin(e, L)
          /\ read' = [read EXCEPT ![e] = {}]
      BY <2>6, <3>1 DEF BookUnsettled
    <3>3. pc[e] \in Inside /\ Unbooked(e) /\ Filled(e) = L BY <3>1, <3>2 DEF Inside, Unbooked, Filled
    <3>4. /\ \A b \in Accounts : b # a => commitments'[b] = commitments[b] /\ free'[b] = free[b]
          /\ Accounted(a) => Effective(a)' <= free'[a]
      BY <2>c, <3>2, <3>3
    <3>5. \A b \in Accounts : slips[b] \subseteq slips'[b] BY <2>6, SlipFacts DEF BookUnsettled
    <3>6. Accounted(a)' => Accounted(a) BY <1>t, <3>5
    <3>7. Funded(a)' BY <2>i, <3>2, <3>3, <3>4, <3>6
    <3>8. \A f \in Executions : f # e => read'[f] = read[f] BY <3>2
    <3> QED BY <2>o, <3>2, <3>4, <3>5, <3>7, <3>8
  <2>7. CASE Persist(e)
    <3>1. Goto(e, "rebuild") /\ UNCHANGED <<seen, commitments, free, read, slips>> /\ pc[e] = "persist" BY <2>7 DEF Persist
    <3> QED BY <1>s, <2>q, <3>1
  <2>8. CASE PersistFails(e)
    <3>1. Goto(e, "done") /\ UNCHANGED <<seen, commitments, free, read>> /\ pc[e] = "persist" BY <2>8 DEF PersistFails, Release
    <3>2. \A b \in Accounts : slips[b] \subseteq slips'[b] BY <2>8, SlipFacts DEF PersistFails
    <3> QED BY <2>q, <3>1, <3>2
  <2>9. CASE RebuildRead(e)
    <3>1. Goto(e, "write") /\ UNCHANGED <<seen, commitments, free, slips>> /\ pc[e] = "rebuild" /\ read' = [read EXCEPT ![e] = OpenRows]
      BY <2>9 DEF RebuildRead
    <3>2. \A f \in Executions : f # e => read'[f] = read[f] BY <3>1
    <3> QED BY <1>s, <2>q, <3>1, <3>2
  <2>10. CASE RebuildWrite(e)
    <3>1. Goto(e, "done") /\ UNCHANGED <<seen, commitments, free>> /\ pc[e] = "write" /\ read' = [read EXCEPT ![e] = {}]
      BY <2>10 DEF RebuildWrite, Release
    <3>2. \A f \in Executions : f # e => read'[f] = read[f] BY <3>1
    <3>3. \A b \in Accounts : slips[b] \subseteq slips'[b] BY <2>10, SlipFacts DEF RebuildWrite, Rewrite
    <3> QED BY <2>q, <3>1, <3>2, <3>3
  <2> QED BY <1>b, <2>1, <2>2, <2>3, <2>4, <2>5, <2>6, <2>7, <2>8, <2>9, <2>10 DEF Work
<1>c. ASSUME NEW t \in Trades, CloseOutside(t) PROVE FundsInv'
  <2>1. UNCHANGED <<pc, read, seen, commitments, slips>> /\ free' = [free EXCEPT ![Account[t]] = @ + Value(t)]
    BY <1>c DEF CloseOutside
  <2>2. \A a \in Accounts : free[a] <= free'[a]
    <3>1. Value(t) \in Nat /\ Account[t] \in Accounts BY TradeFacts
    <3>2. free \in [Accounts -> Int] BY DEF Typed
    <3>3. \A x \in Int : x <= x /\ x <= x + Value(t) BY <3>1
    <3>4. \A a \in Accounts : free'[a] = IF a = Account[t] THEN free[a] + Value(t) ELSE free[a] BY <2>1, <3>1, <3>2
    <3> QED BY <3>2, <3>3, <3>4
  <2>3. \A a \in Accounts : Funded(a)' BY <1>q, <1>s, <2>1, <2>2
  <2> QED BY <2>3 DEF FundsInv
<1>k. ASSUME UNCHANGED <<pc, read, seen, commitments, free>>, \A a \in Accounts : slips[a] \subseteq slips'[a]
      PROVE  FundsInv'
  <2>1. \A a \in Accounts : Funded(a)' BY <1>f, <1>k, <1>q
  <2> QED BY <2>1 DEF FundsInv
<1>d. CASE Closing
  <2>1. \A a \in Accounts : slips[a] \subseteq slips'[a] BY <1>d, SlipFacts DEF Closing, OutsideRead, OutsideWrite, Rewrite
  <2> QED BY <1>d, <1>k, <2>1 DEF Closing, OutsideRead, OutsideWrite
<1>e. CASE SweepRead \/ Sweeping
  <2>1. UNCHANGED <<pc, read, seen, commitments, free>> BY <1>e DEF SweepRead, Sweeping, SweepLock, SweepWrite
  <2>2. \A a \in Accounts : slips[a] \subseteq slips'[a]
    BY <1>e, SlipFacts DEF SweepRead, Sweeping, SweepLock, SweepWrite
  <2> QED BY <1>k, <2>1, <2>2
<1>g. ASSUME NEW a \in Accounts, NEW n \in 0 .. Len(commitments[a]), FundsTag(a, n) PROVE FundsInv'
  <2>1. /\ UNCHANGED <<pc, read, free>> /\ seen' = [seen EXCEPT ![a] = free[a]]
        /\ commitments' = [commitments EXCEPT ![a] = Kept(a, n)]
    BY <1>g DEF FundsTag
  <2>2. \A b \in Accounts : slips[b] \subseteq slips'[b] BY <1>g, SlipFacts DEF FundsTag
  <2>0. Kept(a, n) \in Seq(Int)
    <3>1. commitments[a] \in Seq(Int) BY DEF Typed
    <3> QED BY <3>1 DEF Kept
  <2>3. PICK c \in Seq(Int) : c = Kept(a, n) BY <2>0
  <2>4. Accounted(a)' => ~ClosesUnbooked(a) /\ \A i \in 1 .. Len(c) : c[i] >= 0
    <3>1. PICK A : A = (IF ClosesUnbooked(a) \/ \E i \in 1 .. Len(Kept(a, n)) : Kept(a, n)[i] < 0 THEN {a} ELSE {})
      OBVIOUS
    <3>2. Slip(A, "credited") BY <1>g, <3>1 DEF FundsTag
    <3>3. a \in A => "credited" \in slips'[a] BY <3>2, SlipFacts
    <3>4. Accounted(a)' => ~ClosesUnbooked(a) /\ ~ \E i \in 1 .. Len(c) : c[i] < 0
      BY <2>3, <3>1, <3>3 DEF Accounted
    <3>5. \A i \in 1 .. Len(c) : c[i] \in Int OBVIOUS
    <3> QED BY <3>4, <3>5
  <2>5. seen'[a] = free[a] /\ commitments'[a] = c BY <2>1, <2>3 DEF Typed
  <2>6. Accounted(a)' => Effective(a)' <= free'[a]
    <3>1. Effective(a)' = free[a] - Total(c) BY <2>5, EffectiveIs
    <3>2. Total(c) \in Int /\ free[a] \in Int BY TotalFacts, FundsType
    <3>3. Accounted(a)' => Total(c) >= 0 BY <2>4, TotalFacts
    <3> QED BY <2>1, <3>1, <3>2, <3>3
  <2>7. ASSUME Accounted(a)', NEW f \in Executions, Acct(f) = a, Unbooked(f)'
        PROVE  Effective(a)' <= free'[a] + Committed(f, Filled(f))'
    <3>1. Opens(f) BY <2>1, <2>4, <2>7 DEF ClosesUnbooked, Unbooked
    <3>2. PICK L \in SUBSET LegsOf(f[1]) : L = Filled(f)'
      BY <2>7 DEF Filled, Unbooked, Typed
    <3>3. Committed(f, Filled(f))' = Committed(f, L) BY <3>2 DEF Committed
    <3>4. Committed(f, L) \in Nat BY <3>1, CommittedFacts
    <3>5. Effective(a)' \in Int /\ free'[a] \in Int
      <4>1. Effective(a)' = free[a] - Total(c) BY <2>5, EffectiveIs
      <4>2. Total(c) \in Int /\ free[a] \in Int BY TotalFacts, FundsType
      <4> QED BY <2>1, <4>1, <4>2
    <3> QED BY <2>6, <2>7, <3>3, <3>4, <3>5
  <2>8. Funded(a)' BY <2>6, <2>7 DEF Funded
  <2>9. ASSUME NEW b \in Accounts, b # a PROVE Funded(b)'
    <3>1. seen'[b] = seen[b] /\ commitments'[b] = commitments[b] /\ free[b] <= free'[b] BY <1>f, <2>1, <2>9 DEF Typed
    <3> QED BY <1>q, <2>1, <2>2, <3>1
  <2> QED BY <2>8, <2>9 DEF FundsInv
<1>h. ASSUME NEW a \in Accounts, NEW n \in 0 .. Len(commitments[a]), OtherTag(a, n) PROVE FundsInv'
  <2>1. /\ UNCHANGED <<pc, read, free, seen>>
        /\ commitments' = [commitments EXCEPT ![a] = Kept(a, n)]
    BY <1>h DEF OtherTag
  <2>2. (\A b \in Accounts : slips[b] \subseteq slips'[b]) /\ "dropped" \in slips'[a]
    <3>1. PICK A : A = {a} OBVIOUS
    <3>2. Slip(A, "dropped") BY <1>h, <3>1 DEF OtherTag
    <3> QED BY <3>1, <3>2, SlipFacts
  <2>3. Funded(a)' BY <2>2 DEF Funded, Accounted
  <2>4. ASSUME NEW b \in Accounts, b # a PROVE Funded(b)'
    <3>1. seen'[b] = seen[b] /\ commitments'[b] = commitments[b] /\ free[b] <= free'[b] BY <1>f, <2>1, <2>4 DEF Typed
    <3> QED BY <1>q, <2>1, <2>2, <3>1
  <2> QED BY <2>3, <2>4 DEF FundsInv
<1>i. CASE Restart
  <2>1. ASSUME NEW a \in Accounts PROVE Funded(a)'
    <3>1. seen'[a] = free[a] /\ commitments'[a] = <<>> /\ free'[a] = free[a] BY <1>i DEF Restart
    <3>2. \A f \in Executions : ~Unbooked(f)' BY <1>i DEF Restart, Unbooked
    <3>0. <<>> \in Seq(Int) OBVIOUS
    <3>3. PICK c \in Seq(Int) : c = <<>> BY <3>0
    <3>4. Total(c) = 0 BY <3>3, TotalFacts
    <3>5. Effective(a)' = free[a] - Total(c) BY <3>1, <3>3, EffectiveIs
    <3>6. Effective(a)' <= free'[a] BY <1>f, <3>1, <3>4, <3>5
    <3> QED BY <3>2, <3>6 DEF Funded
  <2> QED BY <2>1 DEF FundsInv
<1>j. CASE UNCHANGED vars BY <1>k, <1>j DEF vars
<1> QED BY <1>b, <1>c, <1>d, <1>e, <1>g, <1>h, <1>i, <1>j DEF Next

----------------------------------------------------------------------------
(* The theorems.                                                           *)

LEMMA InvInit ==
  ASSUME Init
  PROVE  Inv
<1>0. {} \in SUBSET Trades OBVIOUS
<1>1. Typed
  <2>1. exposures \in [SymbolKeys -> Nat] /\ used \in [ModelKeys -> Nat] /\ counts \in [ModelKeys -> Nat]
    BY <1>0, ExposuresFacts, UsedFacts DEF Init
  <2>2. free \in [Accounts -> Int] /\ seen \in [Accounts -> Int] BY ConstantsAssumption DEF Init
  <2>3. taken \in [Executions -> Nat] /\ \A e \in Executions : taken[e] <= Len(LockOrder[e[1]])
    <3>1. \A e \in Executions : Len(LockOrder[e[1]]) \in Nat BY ExecutionFacts, LockFacts, TradeFacts
    <3> QED BY <3>1 DEF Init
  <2>4. commitments \in [Accounts -> Seq(Int)] BY DEF Init
  <2> QED BY <2>1, <2>2, <2>3, <2>4 DEF Init, Typed
<1>2. LockInv BY DEF Init, LockInv, Inside
<1>3. RowsInv
  <2>1. \A t \in Trades : Opening(t) = "idle" /\ ClosingOf(t) = "idle" BY DEF Init, Opening, ClosingOf
  <2> QED BY <2>1 DEF Init, RowsInv, TradeInv, Unwritten
<1>4. ASSUME NEW k \in SymbolKeys, NEW legs, \A t \in Trades : legs[t] = {} PROVE Weight(legs, k) = 0
  <2>1. PICK w : w = Weights(legs, k) OBVIOUS
  <2>2. \A t \in Trades : w[t] = 0 BY <1>4, <2>1 DEF Weights, KeysOf
  <2>3. SumFunctionOnSet(w, Trades) = 0 BY <2>2, ConstantsAssumption, SumZero
  <2> QED BY <2>1, <2>3 DEF Weight
<1>5. CoverInv
  <2>1. PICK f : f = OwedLegs OBVIOUS
  <2>2. \A t \in Trades : f[t] = {}
    <3>1. \A t \in Trades : ClosingOf(t) = "idle" BY DEF Init, ClosingOf
    <3> QED BY <2>1, <3>1 DEF Init, OwedLegs, Owed
  <2>3. \A k \in SymbolKeys : Weight(OwedLegs, k) = 0 BY <1>4, <2>1, <2>2
  <2>4. \A k \in SymbolKeys : exposures[k] \in Nat BY <1>1 DEF Typed
  <2> QED BY <2>3, <2>4 DEF CoverInv, Covers
<1>6. RoomInv
  <2>1. PICK f : f = held OBVIOUS
  <2>2. \A k \in SymbolKeys : Weight(held, k) = 0 BY <1>4, <2>1 DEF Init
  <2>3. \A e \in Executions : pc[e] # "submit" BY DEF Init
  <2>4. \A k \in SymbolKeys : SymbolLimit[k[1]] \in Nat BY LimitInt
  <2> QED BY <2>2, <2>3, <2>4 DEF RoomInv, Fits
<1>7. FundsInv
  <2>1. ASSUME NEW a \in Accounts PROVE Effective(a) <= free[a]
    <3>0. <<>> \in Seq(Int) /\ commitments[a] = <<>> BY DEF Init
    <3>1. PICK c \in Seq(Int) : c = commitments[a] /\ c = <<>> BY <3>0
    <3>2. Total(c) = 0 BY <3>1, TotalFacts
    <3>3. Effective(a) = free[a] - Total(c) BY <3>1, EffectiveIs DEF Init
    <3>4. free[a] \in Int BY <1>1 DEF Typed
    <3> QED BY <3>2, <3>3, <3>4
  <2>2. \A e \in Executions : ~Unbooked(e) BY DEF Init, Unbooked
  <2> QED BY <2>1, <2>2 DEF FundsInv, Funded
<1> QED BY <1>1, <1>2, <1>3, <1>5, <1>6, <1>7 DEF Inv

LEMMA InvStep ==
  ASSUME Inv, [Next]_vars
  PROVE  Inv'
<1>1. Typed' BY TypedStep DEF Inv
<1>2. LockInv' BY LockStep DEF Inv
<1>3. RowsInv' BY RowsStep DEF Inv
<1>4. CoverInv' BY <1>1, <1>3, CoverStep DEF Inv
<1>5. RoomInv' BY RoomStep DEF Inv
<1>6. FundsInv' BY <1>1, FundsStep DEF Inv
<1> QED BY <1>1, <1>2, <1>3, <1>4, <1>5, <1>6 DEF Inv

(* What the five theorems below rest on: locks, rows, tallies, room and    *)
(* funds agree after every step of every execution, close and sweep.       *)
THEOREM Invariance == Spec => []Inv
<1>1. Init => Inv BY InvInit
<1>2. Inv /\ [Next]_vars => Inv' BY InvStep
<1> QED BY <1>1, <1>2, PTL DEF Spec

(* Every variable stays within its type.                                   *)
THEOREM TypeCorrect == Spec => []TypeOK
<1>1. Inv => TypeOK
  <2>1. ASSUME Inv PROVE TypeOK
    <3>1. Typed BY <2>1 DEF Inv
    <3>2. \A e \in Executions : taken[e] \in 0 .. Len(LockOrder[e[1]])
      <4>1. \A e \in Executions : Len(LockOrder[e[1]]) \in Nat BY ExecutionFacts, LockFacts, TradeFacts
      <4> QED BY <3>1, <4>1 DEF Typed
    <3> QED BY <3>1, <3>2 DEF Typed, TypeOK, Inside
  <2> QED BY <2>1
<1> QED BY <1>1, Invariance, PTL

(* Whatever executions, closes, sweeps and restarts overlap: when no       *)
(* execution of an account is between its checks and its rewrite, the      *)
(* exposure that the money-per-stock check reads covers what the broker    *)
(* holds, but for a position without a row and a rewrite from rows read    *)
(* too early.                                                              *)
THEOREM TalliesCover == Spec => []TalliesCoverHoldings
<1>1. ASSUME Inv PROVE TalliesCoverHoldings
  <2>1. SUFFICES ASSUME NEW k \in SymbolKeys, Quiet(k[1]), Tracked(k[1]) PROVE HeldIn(k) <= exposures[k]
    BY DEF TalliesCoverHoldings, Tracked
  <2>2. Written(k[1]) BY <2>1 DEF Quiet, Written, Unwritten
  <2>3. PICK f, g : f = held /\ g = OwedLegs OBVIOUS
  <2>4. Weight(g, k) <= exposures[k] BY <1>1, <2>1, <2>2, <2>3 DEF Inv, CoverInv, Covers
  <2>5. Weight(f, k) <= Weight(g, k)
    <3>1. \A t \in Trades : f[t] \subseteq g[t] BY <2>3 DEF OwedLegs, Owed
    <3>2. \A t \in Trades : k \in KeysOf(t, f[t]) => k \in KeysOf(t, g[t]) BY <3>1, KeysGrow
    <3> QED BY <3>2, WeightGrows
  <2>6. exposures[k] \in Nat /\ Weight(f, k) \in Nat /\ Weight(g, k) \in Nat
    <3>1. exposures[k] \in Nat BY <1>1 DEF Inv, Typed
    <3> QED BY <3>1, WeightType
  <2>7. Weight(f, k) <= exposures[k] BY <2>4, <2>5, <2>6
  <2> QED BY <2>3, <2>7, HeldIsWeight
<1>2. Inv => TalliesCoverHoldings BY <1>1
<1> QED BY <1>2, Invariance, PTL

(* The broker never holds more of a symbol than the account's limit, also  *)
(* with several strategies trading it at once, with the same exceptions.   *)
THEOREM LimitKept == Spec => []LimitHolds
<1>1. ASSUME Inv PROVE LimitHolds
  <2>1. SUFFICES ASSUME NEW k \in SymbolKeys, Tracked(k[1]) PROVE HeldIn(k) <= SymbolLimit[k[1]]
    BY DEF LimitHolds, Tracked
  <2>2. Weight(held, k) <= SymbolLimit[k[1]] BY <1>1, <2>1 DEF Inv, RoomInv, Fits
  <2> QED BY <2>2, HeldIsWeight
<1>2. Inv => LimitHolds BY <1>1
<1> QED BY <1>2, Invariance, PTL

(* Between two executions the free margin that the gates compute is not    *)
(* more than the account has, but for dropped commitments, a CLOSE counted *)
(* twice and a basket that was not booked.                                 *)
THEOREM MarginKept == Spec => []MarginIsNotOverstated
<1>1. ASSUME Inv PROVE MarginIsNotOverstated
  <2>1. SUFFICES ASSUME NEW a \in Accounts, Quiet(a), Accounted(a) PROVE Effective(a) <= free[a]
    BY DEF MarginIsNotOverstated, Accounted
  <2>2. \A e \in Executions : Acct(e) = a => ~Unbooked(e) BY <2>1 DEF Quiet, Unbooked
  <2> QED BY <1>1, <2>1, <2>2 DEF Inv, FundsInv, Funded
<1>2. Inv => MarginIsNotOverstated BY <1>1
<1> QED BY <1>2, Invariance, PTL

(* No order of arrivals and no way of leaving the guard leaves everyone    *)
(* waiting for an exposure lock.                                           *)
THEOREM NoDeadlock == Spec => []SomebodyCanRun
<1>1. Inv => SomebodyCanRun BY NobodyStuck DEF Inv
<1> QED BY <1>1, Invariance, PTL

============================================================================
