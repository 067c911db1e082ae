---------------------------- MODULE SumTheorems ----------------------------
(* Facts about SumFunctionOnSet, the sum of a function over a finite set:  *)
(* it does not depend on the order in which elements are taken, grows with *)
(* its terms, and changes by what one term changes.  The induction is over *)
(* the subsets of a finite set, in the form of a minimal counterexample.   *)
EXTENDS Integers, FiniteSets, Functions, FiniteSetTheorems, TLAPS

(* g is the function that the fold behind SumFunctionOnSet defines.        *)
IsSum(g, f, S) ==
  g = [s \in SUBSET S |-> IF s = {} THEN 0 ELSE f[CHOOSE x \in s : TRUE] + g[s \ {CHOOSE x \in s : TRUE}]]

SumFcn(f, S) == CHOOSE g : IsSum(g, f, S)

(* SumFunctionOnSet is the last value of that function.                    *)
LEMMA SumDef ==
  ASSUME NEW f, NEW S
  PROVE SumFunctionOnSet(f, S) = SumFcn(f, S)[S]
BY DEF SumFunctionOnSet, FoldFunctionOnSet, MapThenFoldSet, SumFcn, IsSum

(* A set of subsets of a finite set has a minimal member: the induction    *)
(* principle of this module.                                               *)
LEMMA SubsetMin ==
  ASSUME NEW S, IsFiniteSet(S), NEW B, B \subseteq SUBSET S, B # {}
  PROVE  \E T \in B : \A U \in B : ~(U \subseteq T /\ U # T)
<1>1. IsWellFoundedOn(StrictSubsetOrdering(S), SUBSET S)
  BY FS_StrictSubsetOrderingWellFounded, FS_FiniteSubsetsOfFinite
<1>2. PICK T \in B : \A U \in B : ~(<<U, T>> \in StrictSubsetOrdering(S))
  BY <1>1, WFMin
<1> QED BY <1>2 DEF StrictSubsetOrdering

(* The recursion determines the function, also on part of the set.         *)
LEMMA SumUnique ==
  ASSUME NEW f, NEW S, IsFiniteSet(S), NEW g, NEW h, IsSum(g, f, S), NEW R \in SUBSET S, IsSum(h, f, R)
  PROVE  \A s \in SUBSET R : g[s] = h[s]
<1> DEFINE B == {s \in SUBSET R : g[s] # h[s]}
<1>1. SUFFICES ASSUME B # {} PROVE FALSE OBVIOUS
<1>2. PICK T \in B : \A U \in B : ~(U \subseteq T /\ U # T)
  <2>1. B \subseteq SUBSET S OBVIOUS
  <2> HIDE DEF B
  <2> QED BY <1>1, <2>1, SubsetMin
<1>3. T \in SUBSET R /\ T \in SUBSET S /\ g[T] # h[T] OBVIOUS
<1>4. T # {} BY <1>3 DEF IsSum
<1>5. PICK x : x = CHOOSE y \in T : TRUE OBVIOUS
<1>6. x \in T BY <1>4, <1>5
<1>7. T \ {x} \in SUBSET R /\ T \ {x} \notin B BY <1>2, <1>3, <1>6
<1>8. g[T \ {x}] = h[T \ {x}] BY <1>7
<1>9. g[T] = f[x] + g[T \ {x}] BY <1>3, <1>4, <1>5 DEF IsSum
<1>10. h[T] = f[x] + h[T \ {x}] BY <1>3, <1>4, <1>5 DEF IsSum
<1> QED BY <1>3, <1>8, <1>9, <1>10

(* The recursion defines a function on every finite set.                   *)
LEMMA SumExists ==
  ASSUME NEW f, NEW S, IsFiniteSet(S)
  PROVE  IsSum(SumFcn(f, S), f, S)
<1> DEFINE B == {s \in SUBSET S : ~ IsSum(SumFcn(f, s), f, s)}
<1>1. SUFFICES ASSUME B # {} PROVE FALSE OBVIOUS
<1>2. PICK T \in B : \A U \in B : ~(U \subseteq T /\ U # T)
  <2>1. B \subseteq SUBSET S OBVIOUS
  <2> HIDE DEF B
  <2> QED BY <1>1, <2>1, SubsetMin
<1>3. T \in SUBSET S /\ ~ IsSum(SumFcn(f, T), f, T) OBVIOUS
<1>4. \A U \in SUBSET T : U # T => IsSum(SumFcn(f, U), f, U) BY <1>2, <1>3
<1> HIDE DEF B
<1> DEFINE v(U) == SumFcn(f, U)[U]
<1> DEFINE c(U) == CHOOSE x \in U : TRUE
<1>5. \A U \in SUBSET T : U # T => v(U) = IF U = {} THEN 0 ELSE f[c(U)] + v(U \ {c(U)})
  <2>1. SUFFICES ASSUME NEW U \in SUBSET T, U # T
                 PROVE  v(U) = IF U = {} THEN 0 ELSE f[c(U)] + v(U \ {c(U)})
    OBVIOUS
  <2>2. IsSum(SumFcn(f, U), f, U) BY <1>4, <2>1
  <2>3. CASE U = {} BY <2>2, <2>3 DEF IsSum
  <2>4. CASE U # {}
    <3>1. PICK x : x = c(U) OBVIOUS
    <3>2. x \in U BY <3>1, <2>4
    <3>3. SumFcn(f, U)[U] = f[x] + SumFcn(f, U)[U \ {x}] BY <2>2, <2>4, <3>1 DEF IsSum
    <3>4. U \ {x} \in SUBSET T /\ U \ {x} # T BY <2>1, <3>2
    <3>5. IsSum(SumFcn(f, U \ {x}), f, U \ {x}) BY <1>4, <3>4
    <3>6. IsFiniteSet(U) BY <1>3, FS_Subset
    <3>7. SumFcn(f, U)[U \ {x}] = SumFcn(f, U \ {x})[U \ {x}]
      <4>1. PICK g, h, W : g = SumFcn(f, U) /\ h = SumFcn(f, U \ {x}) /\ W = U \ {x} OBVIOUS
      <4>2. IsSum(g, f, U) /\ IsSum(h, f, W) /\ W \in SUBSET U BY <4>1, <2>2, <3>5
      <4>3. \A s \in SUBSET W : g[s] = h[s] BY <4>2, <3>6, SumUnique
      <4> QED BY <4>1, <4>3
    <3> QED BY <3>1, <3>3, <3>7, <2>4
  <2> QED BY <2>3, <2>4
<1> DEFINE w(U) == IF U = {} THEN 0 ELSE f[c(U)] + v(U \ {c(U)})
<1> DEFINE G == [U \in SUBSET T |-> w(U)]
<1>6. IsSum(G, f, T)
  <2>1. \A U \in SUBSET T : U # {} => U \ {c(U)} \in SUBSET T /\ U \ {c(U)} # T
    <3> TAKE U \in SUBSET T
    <3> HAVE U # {}
    <3>1. c(U) \in U OBVIOUS
    <3> QED BY <3>1
  <2>2. \A U \in SUBSET T : U # {} => G[U \ {c(U)}] = v(U \ {c(U)})
    <3> TAKE U \in SUBSET T
    <3> HAVE U # {}
    <3>1. PICK V : V = U \ {c(U)} OBVIOUS
    <3>2. V \in SUBSET T /\ V # T BY <3>1, <2>1
    <3>3. G[V] = w(V) BY <3>2
    <3>4. w(V) = v(V) BY <3>2, <1>5
    <3> QED BY <3>1, <3>3, <3>4
  <2>3. G = [U \in SUBSET T |-> IF U = {} THEN 0 ELSE f[c(U)] + G[U \ {c(U)}]]
    <3> HIDE DEF v, G, c
    <3>1. \A U \in SUBSET T : w(U) = IF U = {} THEN 0 ELSE f[c(U)] + G[U \ {c(U)}]
      BY <2>2
    <3> HIDE DEF w
    <3>2. G = [U \in SUBSET T |-> w(U)] BY DEF G
    <3> QED BY <3>1, <3>2
  <2> QED BY <2>3 DEF IsSum
<1>7. IsSum(SumFcn(f, T), f, T)
  <2> HIDE DEF G
  <2> QED BY <1>6 DEF SumFcn
<1> QED BY <1>3, <1>7

(* The sum over nothing is zero.                                           *)
LEMMA SumEmpty ==
  ASSUME NEW f PROVE SumFunctionOnSet(f, {}) = 0
<1>1. IsSum(SumFcn(f, {}), f, {}) BY SumExists, FS_EmptySet
<1> QED BY <1>1, SumDef DEF IsSum

(* The sum, by the element that the fold takes first.                      *)
LEMMA SumChosen ==
  ASSUME NEW f, NEW S, IsFiniteSet(S), S # {}
  PROVE  SumFunctionOnSet(f, S) = f[CHOOSE x \in S : TRUE]
                                  + SumFunctionOnSet(f, S \ {CHOOSE x \in S : TRUE})
<1>1. PICK x : x = CHOOSE y \in S : TRUE OBVIOUS
<1>2. PICK W : W = S \ {x} OBVIOUS
<1>3. IsFiniteSet(W) /\ W \in SUBSET S BY <1>2, FS_Subset
<1>4. PICK g, h : g = SumFcn(f, S) /\ h = SumFcn(f, W) OBVIOUS
<1>5. IsSum(g, f, S) /\ IsSum(h, f, W) BY <1>3, <1>4, SumExists
<1>6. g[W] = h[W] BY <1>3, <1>5, SumUnique
<1>7. g[S] = f[x] + g[W] BY <1>1, <1>2, <1>5 DEF IsSum
<1>8. SumFunctionOnSet(f, S) = g[S] /\ SumFunctionOnSet(f, W) = h[W] BY <1>4, SumDef
<1> QED BY <1>1, <1>2, <1>6, <1>7, <1>8

(* A sum of integers is an integer.                                        *)
LEMMA SumType ==
  ASSUME NEW f, NEW S, IsFiniteSet(S), \A x \in S : f[x] \in Int
  PROVE  SumFunctionOnSet(f, S) \in Int
<1> DEFINE B == {s \in SUBSET S : SumFunctionOnSet(f, s) \notin Int}
<1>1. SUFFICES ASSUME B # {} PROVE FALSE OBVIOUS
<1>2. PICK T \in B : \A U \in B : ~(U \subseteq T /\ U # T)
  <2>1. B \subseteq SUBSET S OBVIOUS
  <2> HIDE DEF B
  <2> QED BY <1>1, <2>1, SubsetMin
<1>3. T \in SUBSET S /\ SumFunctionOnSet(f, T) \notin Int OBVIOUS
<1>4. T # {} BY <1>3, SumEmpty
<1>5. PICK x \in T : x = CHOOSE y \in T : TRUE BY <1>4
<1>6. IsFiniteSet(T) BY <1>3, FS_Subset
<1>7. SumFunctionOnSet(f, T) = f[x] + SumFunctionOnSet(f, T \ {x}) BY <1>4, <1>5, <1>6, SumChosen
<1>8. SumFunctionOnSet(f, T \ {x}) \in Int BY <1>2, <1>3, <1>5
<1> QED BY <1>3, <1>5, <1>7, <1>8

(* The sum, by any of its elements.                                        *)
LEMMA SumRemove ==
  ASSUME NEW f, NEW S, IsFiniteSet(S), \A x \in S : f[x] \in Int, NEW e \in S
  PROVE  SumFunctionOnSet(f, S) = f[e] + SumFunctionOnSet(f, S \ {e})
<1> DEFINE Splits(s) == \A x \in s : SumFunctionOnSet(f, s) = f[x] + SumFunctionOnSet(f, s \ {x})
<1> DEFINE B == {s \in SUBSET S : ~ Splits(s)}
<1>1. SUFFICES ASSUME B # {} PROVE FALSE
  <2>1. S \notin B BY <1>1
  <2>2. Splits(S) BY <2>1
  <2> QED BY <2>2
<1>2. PICK T \in B : \A U \in B : ~(U \subseteq T /\ U # T)
  <2>1. B \subseteq SUBSET S OBVIOUS
  <2> HIDE DEF B
  <2> QED BY <1>1, <2>1, SubsetMin
<1>3. T \in SUBSET S /\ ~ Splits(T) OBVIOUS
<1>4. PICK x \in T : SumFunctionOnSet(f, T) # f[x] + SumFunctionOnSet(f, T \ {x}) BY <1>3
<1>5. PICK c \in T : c = CHOOSE y \in T : TRUE BY <1>4
<1>6. IsFiniteSet(T) BY <1>3, FS_Subset
<1>7. SumFunctionOnSet(f, T) = f[c] + SumFunctionOnSet(f, T \ {c}) BY <1>4, <1>5, <1>6, SumChosen
<1>8. x # c BY <1>4, <1>7
<1>9. PICK X, C, D : X = T \ {x} /\ C = T \ {c} /\ D = (T \ {x}) \ {c} OBVIOUS
<1>10. C \ {x} = D /\ X \ {c} = D BY <1>9
<1>11. /\ X \in SUBSET S /\ C \in SUBSET S /\ D \in SUBSET S
       /\ X \subseteq T /\ C \subseteq T /\ X # T /\ C # T /\ x \in C /\ c \in X
  BY <1>3, <1>4, <1>5, <1>8, <1>9
<1>12. Splits(X) /\ Splits(C)
  <2>1. X \notin B /\ C \notin B BY <1>2, <1>11
  <2> QED BY <2>1, <1>11
<1>13. SumFunctionOnSet(f, X) = f[c] + SumFunctionOnSet(f, D) BY <1>10, <1>11, <1>12
<1>14. SumFunctionOnSet(f, C) = f[x] + SumFunctionOnSet(f, D) BY <1>10, <1>11, <1>12
<1>15. SumFunctionOnSet(f, D) \in Int
  <2>1. IsFiniteSet(D) BY <1>11, FS_Subset
  <2> QED BY <2>1, <1>11, SumType
<1>16. f[x] \in Int /\ f[c] \in Int BY <1>3, <1>4, <1>5
<1> HIDE DEF Splits, B
<1> QED BY <1>4, <1>7, <1>9, <1>13, <1>14, <1>15, <1>16

(* The sum depends on the values of the function on the set alone.         *)
LEMMA SumCong ==
  ASSUME NEW f, NEW h, NEW S, IsFiniteSet(S), \A x \in S : f[x] = h[x]
  PROVE  SumFunctionOnSet(f, S) = SumFunctionOnSet(h, S)
<1> DEFINE B == {s \in SUBSET S : SumFunctionOnSet(f, s) # SumFunctionOnSet(h, s)}
<1>1. SUFFICES ASSUME B # {} PROVE FALSE OBVIOUS
<1>2. PICK T \in B : \A U \in B : ~(U \subseteq T /\ U # T)
  <2>1. B \subseteq SUBSET S OBVIOUS
  <2> HIDE DEF B
  <2> QED BY <1>1, <2>1, SubsetMin
<1>3. T \in SUBSET S /\ SumFunctionOnSet(f, T) # SumFunctionOnSet(h, T) OBVIOUS
<1>4. T # {} BY <1>3, SumEmpty
<1>5. PICK x \in T : x = CHOOSE y \in T : TRUE BY <1>4
<1>6. IsFiniteSet(T) BY <1>3, FS_Subset
<1>7. SumFunctionOnSet(f, T) = f[x] + SumFunctionOnSet(f, T \ {x}) BY <1>4, <1>5, <1>6, SumChosen
<1>8. SumFunctionOnSet(h, T) = h[x] + SumFunctionOnSet(h, T \ {x}) BY <1>4, <1>5, <1>6, SumChosen
<1>9. SumFunctionOnSet(f, T \ {x}) = SumFunctionOnSet(h, T \ {x}) BY <1>2, <1>3, <1>5
<1> QED BY <1>3, <1>5, <1>7, <1>8, <1>9

(* When one term changes, the sum changes by as much.                      *)
LEMMA SumChange ==
  ASSUME NEW f, NEW h, NEW S, IsFiniteSet(S), NEW e \in S,
         \A x \in S : f[x] \in Int /\ h[x] \in Int /\ (x # e => f[x] = h[x])
  PROVE  SumFunctionOnSet(h, S) = SumFunctionOnSet(f, S) + (h[e] - f[e])
<1>1. PICK R : R = S \ {e} OBVIOUS
<1>2. IsFiniteSet(R) BY <1>1, FS_Subset
<1>3. SumFunctionOnSet(f, R) = SumFunctionOnSet(h, R) BY <1>1, <1>2, SumCong
<1>4. SumFunctionOnSet(f, S) = f[e] + SumFunctionOnSet(f, R) BY <1>1, SumRemove
<1>5. SumFunctionOnSet(h, S) = h[e] + SumFunctionOnSet(h, R) BY <1>1, SumRemove
<1>6. SumFunctionOnSet(f, R) \in Int BY <1>1, <1>2, SumType
<1> QED BY <1>3, <1>4, <1>5, <1>6

(* A sum grows with its terms.                                             *)
LEMMA SumMonotone ==
  ASSUME NEW f, NEW h, NEW S, IsFiniteSet(S),
         \A x \in S : f[x] \in Int /\ h[x] \in Int /\ f[x] <= h[x]
  PROVE  SumFunctionOnSet(f, S) <= SumFunctionOnSet(h, S)
<1> DEFINE B == {s \in SUBSET S : ~(SumFunctionOnSet(f, s) <= SumFunctionOnSet(h, s))}
<1>1. SUFFICES ASSUME B # {} PROVE FALSE OBVIOUS
<1>2. PICK T \in B : \A U \in B : ~(U \subseteq T /\ U # T)
  <2>1. B \subseteq SUBSET S OBVIOUS
  <2> HIDE DEF B
  <2> QED BY <1>1, <2>1, SubsetMin
<1>3. T \in SUBSET S /\ ~(SumFunctionOnSet(f, T) <= SumFunctionOnSet(h, T)) OBVIOUS
<1>4. T # {} BY <1>3, SumEmpty
<1>5. PICK x \in T : TRUE BY <1>4
<1>6. PICK R : R = T \ {x} OBVIOUS
<1>7. IsFiniteSet(T) /\ IsFiniteSet(R) /\ R \in SUBSET S BY <1>3, <1>6, FS_Subset
<1>8. SumFunctionOnSet(f, R) <= SumFunctionOnSet(h, R) BY <1>2, <1>3, <1>5, <1>6
<1>9. SumFunctionOnSet(f, T) = f[x] + SumFunctionOnSet(f, R) BY <1>3, <1>5, <1>6, <1>7, SumRemove
<1>10. SumFunctionOnSet(h, T) = h[x] + SumFunctionOnSet(h, R) BY <1>3, <1>5, <1>6, <1>7, SumRemove
<1>11. SumFunctionOnSet(f, R) \in Int /\ SumFunctionOnSet(h, R) \in Int BY <1>7, SumType
<1>12. f[x] \in Int /\ h[x] \in Int /\ f[x] <= h[x] BY <1>3, <1>5
<1> HIDE DEF B
<1> QED BY <1>3, <1>8, <1>9, <1>10, <1>11, <1>12

(* When a larger sum is no larger, no term of it is.                       *)
LEMMA SumTight ==
  ASSUME NEW f, NEW h, NEW S, IsFiniteSet(S),
         \A x \in S : f[x] \in Int /\ h[x] \in Int /\ f[x] <= h[x],
         SumFunctionOnSet(h, S) <= SumFunctionOnSet(f, S)
  PROVE  \A x \in S : f[x] = h[x]
<1> TAKE e \in S
<1>1. PICK R : R = S \ {e} OBVIOUS
<1>2. IsFiniteSet(R) BY <1>1, FS_Subset
<1>3. SumFunctionOnSet(f, R) <= SumFunctionOnSet(h, R) BY <1>1, <1>2, SumMonotone
<1>4. SumFunctionOnSet(f, S) = f[e] + SumFunctionOnSet(f, R) BY <1>1, SumRemove
<1>5. SumFunctionOnSet(h, S) = h[e] + SumFunctionOnSet(h, R) BY <1>1, SumRemove
<1>6. SumFunctionOnSet(f, R) \in Int /\ SumFunctionOnSet(h, R) \in Int BY <1>1, <1>2, SumType
<1> QED BY <1>3, <1>4, <1>5, <1>6

(* A sum of zeros is zero.                                                 *)
LEMMA SumZero ==
  ASSUME NEW f, NEW S, IsFiniteSet(S), \A x \in S : f[x] = 0
  PROVE  SumFunctionOnSet(f, S) = 0
<1> DEFINE B == {s \in SUBSET S : SumFunctionOnSet(f, s) # 0}
<1>1. SUFFICES ASSUME B # {} PROVE FALSE OBVIOUS
<1>2. PICK T \in B : \A U \in B : ~(U \subseteq T /\ U # T)
  <2>1. B \subseteq SUBSET S OBVIOUS
  <2> HIDE DEF B
  <2> QED BY <1>1, <2>1, SubsetMin
<1>3. T \in SUBSET S /\ SumFunctionOnSet(f, T) # 0 OBVIOUS
<1>4. T # {} BY <1>3, SumEmpty
<1>5. PICK x \in T : x = CHOOSE y \in T : TRUE BY <1>4
<1>6. IsFiniteSet(T) BY <1>3, FS_Subset
<1>7. SumFunctionOnSet(f, T) = f[x] + SumFunctionOnSet(f, T \ {x}) BY <1>4, <1>5, <1>6, SumChosen
<1>8. SumFunctionOnSet(f, T \ {x}) = 0 BY <1>2, <1>3, <1>5
<1> QED BY <1>3, <1>5, <1>7, <1>8

(* A sum of naturals is a natural.                                         *)
LEMMA SumNat ==
  ASSUME NEW f, NEW S, IsFiniteSet(S), \A x \in S : f[x] \in Nat
  PROVE  SumFunctionOnSet(f, S) \in Nat
<1>1. PICK z : z = [x \in S |-> 0] OBVIOUS
<1>2. SumFunctionOnSet(z, S) = 0 BY <1>1, SumZero
<1>3. SumFunctionOnSet(z, S) <= SumFunctionOnSet(f, S) BY <1>1, SumMonotone
<1>4. SumFunctionOnSet(f, S) \in Int BY SumType
<1> QED BY <1>2, <1>3, <1>4

(* A sum over part of a set is the sum over the set of the function that   *)
(* is zero elsewhere.                                                      *)
LEMMA SumPart ==
  ASSUME NEW f, NEW h, NEW S, IsFiniteSet(S), NEW T \in SUBSET S,
         \A x \in S : f[x] \in Int /\ h[x] = IF x \in T THEN f[x] ELSE 0
  PROVE  SumFunctionOnSet(f, T) = SumFunctionOnSet(h, S)
<1> DEFINE B == {s \in SUBSET S : SumFunctionOnSet(h, s) # SumFunctionOnSet(f, s \cap T)}
<1>1. SUFFICES ASSUME B # {} PROVE FALSE
  <2>1. S \notin B BY <1>1
  <2>2. S \cap T = T OBVIOUS
  <2> QED BY <2>1, <2>2
<1>2. PICK U \in B : \A V \in B : ~(V \subseteq U /\ V # U)
  <2>1. B \subseteq SUBSET S OBVIOUS
  <2> HIDE DEF B
  <2> QED BY <1>1, <2>1, SubsetMin
<1>3. U \in SUBSET S /\ SumFunctionOnSet(h, U) # SumFunctionOnSet(f, U \cap T) OBVIOUS
<1>4. U # {}
  <2>1. {} \cap T = {} OBVIOUS
  <2> QED BY <1>3, <2>1, SumEmpty
<1>5. PICK x \in U : TRUE BY <1>4
<1>6. PICK R, X, Y : R = U \ {x} /\ X = U \cap T /\ Y = R \cap T OBVIOUS
<1>7. SumFunctionOnSet(h, R) = SumFunctionOnSet(f, Y) BY <1>2, <1>3, <1>5, <1>6
<1>8. IsFiniteSet(U) /\ IsFiniteSet(X) /\ IsFiniteSet(Y) BY <1>3, <1>6, FS_Subset
<1>9. SumFunctionOnSet(h, U) = h[x] + SumFunctionOnSet(h, R) BY <1>3, <1>5, <1>6, <1>8, SumRemove
<1>10. SumFunctionOnSet(f, Y) \in Int BY <1>3, <1>6, <1>8, SumType
<1>11. CASE x \in T
  <2>1. x \in X /\ Y = X \ {x} BY <1>5, <1>6, <1>11
  <2>2. SumFunctionOnSet(f, X) = f[x] + SumFunctionOnSet(f, Y) BY <1>3, <1>6, <1>8, <2>1, SumRemove
  <2> HIDE DEF B
  <2> QED BY <1>3, <1>5, <1>6, <1>7, <1>9, <1>10, <1>11, <2>2
<1>12. CASE x \notin T
  <2>1. Y = X BY <1>5, <1>6, <1>12
  <2>2. h[x] = 0 BY <1>3, <1>5, <1>12
  <2> HIDE DEF B
  <2> QED BY <1>3, <1>6, <1>7, <1>9, <1>10, <2>1, <2>2
<1> QED BY <1>11, <1>12

(* A set of natural numbers has a least member.                            *)
LEMMA LeastNatural ==
  ASSUME NEW B, B \subseteq Nat, B # {}
  PROVE  \E n \in B : \A m \in B : n <= m
<1>1. PICK b \in B : TRUE OBVIOUS
<1> DEFINE Small == {m \in B : m <= b}
<1> DEFINE Upto(n) == 0 .. n
<1> DEFINE C == {Upto(n) : n \in Small}
<1>2. C \subseteq SUBSET (0 .. b) /\ C # {} BY <1>1
<1>3. IsFiniteSet(0 .. b) BY <1>1, FS_Interval
<1>4. PICK T \in C : \A U \in C : ~(U \subseteq T /\ U # T)
  <2>1. PICK W, D : W = 0 .. b /\ D = C OBVIOUS
  <2>2. IsFiniteSet(W) /\ D \subseteq SUBSET W /\ D # {} BY <2>1, <1>2, <1>3
  <2>3. \E T \in D : \A U \in D : ~(U \subseteq T /\ U # T) BY <2>2, SubsetMin
  <2> QED BY <2>1, <2>3
<1>5. PICK n \in Small : T = Upto(n) OBVIOUS
<1>6. \A m \in Small : m < n => Upto(m) \subseteq T /\ n \in T /\ n \notin Upto(m) BY <1>5
<1>7. \A m \in Small : ~(m < n)
  <2>1. \A m \in Small : Upto(m) \in C OBVIOUS
  <2> HIDE DEF C, Small, Upto
  <2> QED BY <1>4, <1>6, <2>1
<1>8. \A m \in B : n <= m BY <1>1, <1>5, <1>7
<1> QED BY <1>5, <1>8

============================================================================
