------------------------------- MODULE Sums -------------------------------
(***************************************************************************)
(* Sums over finite sets, as the folds of the community modules compute    *)
(* them: in the order in which CHOOSE takes the elements.  The lemmas say  *)
(* that the order does not matter and what changes when an element or a    *)
(* value does.  They rest on well-founded induction over the subsets of a  *)
(* finite set, each time as a least set for which the claim fails.         *)
(***************************************************************************)
EXTENDS Integers, FiniteSets, FiniteSetsExt, Functions, FiniteSetTheorems,
        WellFoundedInduction, TLAPS

(* The recursive function a fold with + defines, and its value.              *)
IsSum(it, f, S) ==
  it = [s \in SUBSET S |-> IF s = {} THEN 0
        ELSE LET x == CHOOSE x \in s : TRUE IN f[x] + it[s \ {x}]]

SumOf(f, S) == MapThenSumSet(LAMBDA x : f[x], S)

(* A set of finite sets has one without a proper subset in it.               *)
LEMMA LeastSet ==
  ASSUME NEW S, IsFiniteSet(S), NEW All \in SUBSET (SUBSET S), All # {}
  PROVE  \E T \in All : \A U \in All : ~(U \subseteq T /\ U # T)
<1>1. All \subseteq FiniteSubsetsOf(S)
  BY FS_FiniteSubsetsOfFinite
<1>2. PICK T \in All : \A U \in All : ~(<<U, T>> \in StrictSubsetOrdering(S))
  BY <1>1, FS_StrictSubsetOrderingWellFounded, WFMin
<1>3. ASSUME NEW U \in All, U \subseteq T, U # T PROVE FALSE
  BY <1>2, <1>3 DEF StrictSubsetOrdering
<1>. QED
  BY <1>3

(* What is summed up to a set does not depend on the set it is part of.      *)
LEMMA SumUnique ==
  ASSUME NEW f, NEW A, NEW B, IsFiniteSet(A), NEW i, NEW j, IsSum(i, f, A), IsSum(j, f, B),
         NEW t, t \subseteq A, t \subseteq B
  PROVE  i[t] = j[t]
<1>. DEFINE Bad == {s \in SUBSET (A \cap B) : i[s] # j[s]}
<1>1. SUFFICES ASSUME Bad # {} PROVE FALSE
  <2>. HIDE DEF Bad
  <2>1. t \notin Bad
    OBVIOUS
  <2>. QED
    BY <2>1 DEF Bad
<1>2. Bad \in SUBSET (SUBSET A)
  OBVIOUS
<1>3. PICK s \in Bad : \A u \in Bad : ~(u \subseteq s /\ u # s)
  <2>. HIDE DEF Bad
  <2>. QED
    BY <1>1, <1>2, LeastSet
<1>4. s \in SUBSET A /\ s \in SUBSET B /\ i[s] # j[s]
  OBVIOUS
<1>5. CASE s = {}
  BY <1>4, <1>5 DEF IsSum
<1>6. CASE s # {}
  <2>. DEFINE x == CHOOSE x \in s : TRUE
  <2>1. x \in s
    BY <1>6
  <2>2. i[s] = f[x] + i[s \ {x}] /\ j[s] = f[x] + j[s \ {x}]
    BY <1>4, <1>6 DEF IsSum
  <2>. HIDE DEF x
  <2>3. s \ {x} \notin Bad
    BY <1>3, <2>1
  <2>4. i[s \ {x}] = j[s \ {x}]
    BY <2>3
  <2>. QED
    BY <1>4, <2>2, <2>4
<1>. QED
  BY <1>5, <1>6

(* The recursive definition has a solution.                                  *)
LEMMA SumExists ==
  ASSUME NEW f, NEW S, IsFiniteSet(S)
  PROVE  \E it : IsSum(it, f, S)
<1>. DEFINE Bad == {T \in SUBSET S : ~\E it : IsSum(it, f, T)}
<1>1. SUFFICES ASSUME Bad # {} PROVE FALSE
  OBVIOUS
<1>2. PICK T \in Bad : \A U \in Bad : ~(U \subseteq T /\ U # T)
  <2>. HIDE DEF Bad
  <2>1. Bad \in SUBSET (SUBSET S)
    BY DEF Bad
  <2>. QED
    BY <1>1, <2>1, LeastSet
<1>. DEFINE it(U) == CHOOSE i : IsSum(i, f, U)
            v == [s \in SUBSET T |-> IF s = {} THEN 0
                  ELSE LET x == CHOOSE x \in s : TRUE IN f[x] + it(s \ {x})[s \ {x}]]
<1>3. \A U \in SUBSET T : U # T => IsSum(it(U), f, U)
  <2>. SUFFICES ASSUME NEW U \in SUBSET T, U # T PROVE \E i : IsSum(i, f, U)
    OBVIOUS
  <2>. QED
    BY <1>2
<1>. HIDE DEF it
<1>4. ASSUME NEW U \in SUBSET T, U # T PROVE v[U] = it(U)[U]
  <2>1. IsSum(it(U), f, U)
    BY <1>3, <1>4
  <2>2. CASE U = {}
    BY <2>1, <2>2 DEF IsSum
  <2>3. CASE U # {}
    <3>. DEFINE x == CHOOSE x \in U : TRUE
                W == U \ {x}
    <3>1. x \in U
      BY <2>3
    <3>2. v[U] = f[x] + it(W)[W] /\ it(U)[U] = f[x] + it(U)[W]
      BY <2>1, <2>3 DEF IsSum
    <3>. HIDE DEF x
    <3>3. W \in SUBSET T /\ W # T
      BY <1>4, <3>1
    <3>. HIDE DEF W
    <3>4. IsSum(it(W), f, W)
      BY <1>3, <3>3
    <3>5. IsFiniteSet(W) /\ W \subseteq W /\ W \subseteq U
      <4>1. W \in SUBSET U
        BY DEF W
      <4>2. IsFiniteSet(W)
        BY <4>1, FS_Subset
      <4>. QED
        BY <4>1, <4>2
    <3>6. it(W)[W] = it(U)[W]
      BY <2>1, <3>4, <3>5, SumUnique
    <3>. QED
      BY <3>2, <3>6
  <2>. QED
    BY <2>2, <2>3
<1>5. ASSUME NEW s \in SUBSET T, s # {}
      PROVE  LET x == CHOOSE x \in s : TRUE IN it(s \ {x})[s \ {x}] = v[s \ {x}]
  <2>. DEFINE x == CHOOSE x \in s : TRUE
  <2>1. x \in s
    BY <1>5
  <2>. HIDE DEF x, v
  <2>2. s \ {x} \in SUBSET T /\ s \ {x} # T
    BY <2>1
  <2>3. it(s \ {x})[s \ {x}] = v[s \ {x}]
    BY <1>4, <2>2
  <2>. QED
    BY <2>3 DEF x
<1>6. v = [s \in SUBSET T |-> IF s = {} THEN 0
           ELSE LET x == CHOOSE x \in s : TRUE IN f[x] + v[s \ {x}]]
  <2>. DEFINE w == [s \in SUBSET T |-> IF s = {} THEN 0
                    ELSE LET x == CHOOSE x \in s : TRUE IN f[x] + v[s \ {x}]]
  <2>1. \A s \in SUBSET T : v[s] = w[s]
    <3>1. ASSUME NEW s \in SUBSET T, s # {} PROVE v[s] = w[s]
      <4>1. v[s] = LET x == CHOOSE x \in s : TRUE IN f[x] + it(s \ {x})[s \ {x}]
        BY <3>1
      <4>. HIDE DEF v
      <4>. QED
        BY <1>5, <3>1, <4>1
    <3>. QED
      BY <3>1
  <2>2. DOMAIN v = SUBSET T /\ v = [s \in SUBSET T |-> v[s]]
    OBVIOUS
  <2>. HIDE DEF v
  <2>. QED
    BY <2>1, <2>2
<1>7. IsSum(v, f, T)
  BY <1>6 DEF IsSum
<1>. HIDE DEF v
<1>. QED
  BY <1>2, <1>7

(* Any solution gives the sums of all parts.                                 *)
LEMMA SumIs ==
  ASSUME NEW f, NEW S, IsFiniteSet(S), NEW it, IsSum(it, f, S), NEW T \in SUBSET S
  PROVE  SumOf(f, T) = it[T]
<1>. DEFINE c == CHOOSE i : IsSum(i, f, T)
<1>1. IsFiniteSet(T)
  BY FS_Subset
<1>2. IsSum(c, f, T)
  BY <1>1, SumExists
<1>3. SumOf(f, T) = c[T]
  BY DEF SumOf, MapThenSumSet, MapThenFoldSet, IsSum
<1>. HIDE DEF c
<1>4. T \subseteq T /\ T \subseteq S
  OBVIOUS
<1>5. c[T] = it[T]
  BY <1>1, <1>2, <1>4, SumUnique
<1>. QED
  BY <1>3, <1>5

(* The fold's own law.                                                       *)
LEMMA SumEmpty ==
  ASSUME NEW f
  PROVE  SumOf(f, {}) = 0
<1>1. PICK it : IsSum(it, f, {})
  BY SumExists, FS_EmptySet
<1>2. it[{}] = 0
  BY <1>1 DEF IsSum
<1>3. SumOf(f, {}) = it[{}]
  BY <1>1, SumIs, FS_EmptySet
<1>. QED
  BY <1>2, <1>3

(* The sum takes the element that CHOOSE gives first.                        *)
LEMMA SumChosen ==
  ASSUME NEW f, NEW S, IsFiniteSet(S), S # {}
  PROVE  LET x == CHOOSE x \in S : TRUE IN x \in S /\ SumOf(f, S) = f[x] + SumOf(f, S \ {x})
<1>. DEFINE x == CHOOSE x \in S : TRUE
<1>1. PICK it : IsSum(it, f, S)
  BY SumExists
<1>2. x \in S /\ it[S] = f[x] + it[S \ {x}]
  BY <1>1 DEF IsSum
<1>. HIDE DEF x
<1>3. S \ {x} \in SUBSET S /\ S \in SUBSET S
  OBVIOUS
<1>4. SumOf(f, S) = it[S] /\ SumOf(f, S \ {x}) = it[S \ {x}]
  BY <1>1, <1>3, SumIs
<1>5. x \in S /\ SumOf(f, S) = f[x] + SumOf(f, S \ {x})
  BY <1>2, <1>4
<1>. QED
  BY <1>5 DEF x

(* A sum of natural numbers is one.                                          *)
LEMMA SumType ==
  ASSUME NEW f, NEW S, IsFiniteSet(S), \A x \in S : f[x] \in Nat
  PROVE  SumOf(f, S) \in Nat
<1>. DEFINE Bad == {T \in SUBSET S : SumOf(f, T) \notin Nat}
<1>1. SUFFICES ASSUME Bad # {} PROVE FALSE
  OBVIOUS
<1>2. PICK T \in Bad : \A U \in Bad : ~(U \subseteq T /\ U # T)
  <2>. HIDE DEF Bad
  <2>1. Bad \in SUBSET (SUBSET S)
    BY DEF Bad
  <2>. QED
    BY <1>1, <2>1, LeastSet
<1>3. IsFiniteSet(T) /\ T # {}
  <2>1. T \in SUBSET S /\ SumOf(f, T) \notin Nat
    BY <1>2
  <2>2. T # {}
    BY <2>1, SumEmpty
  <2>. HIDE DEF Bad
  <2>. QED
    BY <2>1, <2>2, FS_Subset
<1>4. PICK x \in T : SumOf(f, T) = f[x] + SumOf(f, T \ {x})
  BY <1>3, SumChosen
<1>5. T \ {x} \notin Bad /\ T \ {x} \in SUBSET S
  BY <1>2
<1>6. SumOf(f, T \ {x}) \in Nat /\ f[x] \in Nat /\ SumOf(f, T) \notin Nat
  BY <1>5
<1>. QED
  BY <1>4, <1>6

(* Any element may be taken first.                                           *)
LEMMA SumSplit ==
  ASSUME NEW f, NEW S, IsFiniteSet(S), \A x \in S : f[x] \in Nat, NEW p \in S
  PROVE  SumOf(f, S) = f[p] + SumOf(f, S \ {p})
<1>. DEFINE Bad == {T \in SUBSET S : \E q \in T : SumOf(f, T) # f[q] + SumOf(f, T \ {q})}
<1>1. SUFFICES ASSUME Bad # {} PROVE FALSE
  <2>. HIDE DEF Bad
  <2>1. S \notin Bad
    OBVIOUS
  <2>. QED
    BY <2>1 DEF Bad
<1>2. PICK T \in Bad : \A U \in Bad : ~(U \subseteq T /\ U # T)
  <2>. HIDE DEF Bad
  <2>1. Bad \in SUBSET (SUBSET S)
    BY DEF Bad
  <2>. QED
    BY <1>1, <2>1, LeastSet
<1>3. T \in SUBSET S /\ IsFiniteSet(T)
  BY <1>2, FS_Subset
<1>4. PICK q \in T : SumOf(f, T) # f[q] + SumOf(f, T \ {q})
  BY <1>2
<1>5. PICK x \in T : SumOf(f, T) = f[x] + SumOf(f, T \ {x})
  BY <1>3, SumChosen
<1>6. x # q
  BY <1>4, <1>5
<1>7. /\ SumOf(f, T \ {x}) = f[q] + SumOf(f, (T \ {x}) \ {q})
      /\ SumOf(f, T \ {q}) = f[x] + SumOf(f, (T \ {q}) \ {x})
  <2>1. T \ {x} \notin Bad /\ T \ {q} \notin Bad /\ q \in T \ {x} /\ x \in T \ {q}
    BY <1>2, <1>6
  <2>. QED
    BY <1>3, <2>1
<1>8. (T \ {x}) \ {q} = (T \ {q}) \ {x}
  OBVIOUS
<1>9. SumOf(f, (T \ {q}) \ {x}) \in Nat /\ f[x] \in Nat /\ f[q] \in Nat
  <2>1. (T \ {q}) \ {x} \in SUBSET S
    BY <1>3
  <2>2. IsFiniteSet((T \ {q}) \ {x})
    BY <2>1, FS_Subset
  <2>. QED
    BY <1>3, <2>1, <2>2, SumType
<1>. HIDE DEF Bad
<1>10. PICK rest \in Nat : rest = SumOf(f, (T \ {q}) \ {x})
  BY <1>9
<1>11. SumOf(f, T) = f[x] + (f[q] + rest) /\ f[q] + SumOf(f, T \ {q}) = f[q] + (f[x] + rest)
  BY <1>5, <1>7, <1>8, <1>10
<1>12. f[x] + (f[q] + rest) = f[q] + (f[x] + rest)
  BY <1>9, <1>10
<1>. QED
  BY <1>4, <1>11, <1>12

(* No value is larger, so the sum is not.                                    *)
LEMMA SumMonotone ==
  ASSUME NEW f, NEW g, NEW S, IsFiniteSet(S),
         \A x \in S : f[x] \in Nat /\ g[x] \in Nat /\ f[x] <= g[x]
  PROVE  SumOf(f, S) <= SumOf(g, S)
<1>. DEFINE Bad == {T \in SUBSET S : ~(SumOf(f, T) <= SumOf(g, T))}
<1>1. SUFFICES ASSUME Bad # {} PROVE FALSE
  <2>. HIDE DEF Bad
  <2>1. S \notin Bad
    OBVIOUS
  <2>. QED
    BY <2>1 DEF Bad
<1>2. PICK T \in Bad : \A U \in Bad : ~(U \subseteq T /\ U # T)
  <2>. HIDE DEF Bad
  <2>1. Bad \in SUBSET (SUBSET S)
    BY DEF Bad
  <2>. QED
    BY <1>1, <2>1, LeastSet
<1>3. T \in SUBSET S /\ IsFiniteSet(T) /\ ~(SumOf(f, T) <= SumOf(g, T))
  BY <1>2, FS_Subset
<1>4. CASE T = {}
  BY <1>3, <1>4, SumEmpty
<1>5. CASE T # {}
  <2>1. PICK x \in T : TRUE
    BY <1>5
  <2>2. SumOf(f, T) = f[x] + SumOf(f, T \ {x}) /\ SumOf(g, T) = g[x] + SumOf(g, T \ {x})
    BY <1>3, SumSplit
  <2>3. T \ {x} \notin Bad /\ T \ {x} \in SUBSET S
    BY <1>2
  <2>4. SumOf(f, T \ {x}) <= SumOf(g, T \ {x})
    BY <2>3
  <2>5. IsFiniteSet(T \ {x})
    BY <2>3, FS_Subset
  <2>6. SumOf(f, T \ {x}) \in Nat /\ SumOf(g, T \ {x}) \in Nat
    BY <2>3, <2>5, SumType
  <2>. HIDE DEF Bad
  <2>. QED
    BY <1>3, <2>2, <2>4, <2>6
<1>. QED
  BY <1>4, <1>5

(* Equal values have equal sums.                                             *)
LEMMA SumSame ==
  ASSUME NEW f, NEW g, NEW S, IsFiniteSet(S),
         \A x \in S : f[x] \in Nat /\ g[x] = f[x]
  PROVE  SumOf(f, S) = SumOf(g, S)
<1>1. SumOf(f, S) <= SumOf(g, S) /\ SumOf(g, S) <= SumOf(f, S)
  BY SumMonotone
<1>2. SumOf(f, S) \in Nat /\ SumOf(g, S) \in Nat
  BY SumType
<1>. QED
  BY <1>1, <1>2

(* One value changes, and the sum by as much.                                *)
LEMMA SumChanges ==
  ASSUME NEW f, NEW g, NEW S, IsFiniteSet(S), NEW p \in S,
         \A x \in S : f[x] \in Nat /\ g[x] \in Nat /\ (x # p => g[x] = f[x])
  PROVE  SumOf(g, S) + f[p] = SumOf(f, S) + g[p]
<1>1. SumOf(f, S) = f[p] + SumOf(f, S \ {p}) /\ SumOf(g, S) = g[p] + SumOf(g, S \ {p})
  BY SumSplit
<1>2. IsFiniteSet(S \ {p})
  BY FS_Subset
<1>3. SumOf(f, S \ {p}) = SumOf(g, S \ {p}) /\ SumOf(f, S \ {p}) \in Nat
  BY <1>2, SumSame, SumType
<1>. QED
  BY <1>1, <1>3

(* A part sums up to no more than the whole.                                 *)
LEMMA SumOfPart ==
  ASSUME NEW f, NEW S, IsFiniteSet(S), \A x \in S : f[x] \in Nat, NEW T \in SUBSET S
  PROVE  SumOf(f, T) <= SumOf(f, S)
<1>. DEFINE Bad == {U \in SUBSET S : ~(SumOf(f, T \cap U) <= SumOf(f, U))}
<1>1. SUFFICES ASSUME Bad # {} PROVE FALSE
  <2>. HIDE DEF Bad
  <2>1. S \notin Bad
    OBVIOUS
  <2>2. T \cap S = T
    OBVIOUS
  <2>. QED
    BY <2>1, <2>2 DEF Bad
<1>2. PICK U \in Bad : \A W \in Bad : ~(W \subseteq U /\ W # U)
  <2>. HIDE DEF Bad
  <2>1. Bad \in SUBSET (SUBSET S)
    BY DEF Bad
  <2>. QED
    BY <1>1, <2>1, LeastSet
<1>3. U \in SUBSET S /\ IsFiniteSet(U) /\ ~(SumOf(f, T \cap U) <= SumOf(f, U))
  BY <1>2, FS_Subset
<1>4. CASE U = {}
  <2>1. T \cap U = {}
    BY <1>4
  <2>. QED
    BY <1>3, <1>4, <2>1, SumEmpty
<1>5. CASE U # {}
  <2>1. PICK x \in U : TRUE
    BY <1>5
  <2>2. U \ {x} \notin Bad /\ U \ {x} \in SUBSET S
    BY <1>2
  <2>3. SumOf(f, T \cap (U \ {x})) <= SumOf(f, U \ {x})
    BY <2>2
  <2>. HIDE DEF Bad
  <2>4. SumOf(f, U) = f[x] + SumOf(f, U \ {x})
    BY <1>3, SumSplit
  <2>5. IsFiniteSet(U \ {x}) /\ IsFiniteSet(T \cap U) /\ IsFiniteSet(T \cap (U \ {x}))
    BY <1>3, FS_Subset
  <2>6. SumOf(f, U \ {x}) \in Nat /\ SumOf(f, T \cap (U \ {x})) \in Nat /\ f[x] \in Nat
    BY <1>3, <2>5, SumType
  <2>7. CASE x \in T
    <3>1. (T \cap U) \ {x} = T \cap (U \ {x}) /\ x \in T \cap U
      BY <2>7
    <3>2. SumOf(f, T \cap U) = f[x] + SumOf(f, (T \cap U) \ {x})
      BY <1>3, <2>5, <3>1, SumSplit
    <3>3. SumOf(f, T \cap U) = f[x] + SumOf(f, T \cap (U \ {x}))
      BY <3>1, <3>2
    <3>4. SumOf(f, T \cap U) <= SumOf(f, U)
      BY <2>3, <2>4, <2>6, <3>3
    <3>. QED
      BY <1>3, <3>4
  <2>8. CASE x \notin T
    <3>1. T \cap U = T \cap (U \ {x})
      BY <2>8
    <3>2. SumOf(f, T \cap U) = SumOf(f, T \cap (U \ {x}))
      BY <3>1
    <3>3. SumOf(f, T \cap U) <= SumOf(f, U)
      BY <2>3, <2>4, <2>6, <3>2
    <3>. QED
      BY <1>3, <3>3
  <2>. QED
    BY <2>7, <2>8
<1>. QED
  BY <1>4, <1>5

(* A sum over a part is one over the whole in which the rest counts nothing. *)
LEMMA SumRestricted ==
  ASSUME NEW f, NEW g, NEW S, IsFiniteSet(S), NEW T \in SUBSET S,
         \A x \in S : f[x] \in Nat /\ g[x] = IF x \in T THEN f[x] ELSE 0
  PROVE  SumOf(g, S) = SumOf(f, T)
<1>. DEFINE Bad == {U \in SUBSET S : SumOf(g, U) # SumOf(f, T \cap U)}
<1>1. SUFFICES ASSUME Bad # {} PROVE FALSE
  <2>. HIDE DEF Bad
  <2>1. S \notin Bad
    OBVIOUS
  <2>2. T \cap S = T
    OBVIOUS
  <2>. QED
    BY <2>1, <2>2 DEF Bad
<1>2. PICK U \in Bad : \A W \in Bad : ~(W \subseteq U /\ W # U)
  <2>. HIDE DEF Bad
  <2>1. Bad \in SUBSET (SUBSET S)
    BY DEF Bad
  <2>. QED
    BY <1>1, <2>1, LeastSet
<1>3. U \in SUBSET S /\ IsFiniteSet(U) /\ SumOf(g, U) # SumOf(f, T \cap U)
  BY <1>2, FS_Subset
<1>4. CASE U = {}
  <2>1. T \cap U = {}
    BY <1>4
  <2>. QED
    BY <1>3, <1>4, <2>1, SumEmpty
<1>5. CASE U # {}
  <2>1. PICK x \in U : TRUE
    BY <1>5
  <2>2. U \ {x} \notin Bad /\ U \ {x} \in SUBSET S
    BY <1>2
  <2>3. SumOf(g, U \ {x}) = SumOf(f, T \cap (U \ {x}))
    BY <2>2
  <2>. HIDE DEF Bad
  <2>4. \A y \in S : g[y] \in Nat
    OBVIOUS
  <2>5. SumOf(g, U) = g[x] + SumOf(g, U \ {x})
    BY <1>3, <2>4, SumSplit
  <2>6. IsFiniteSet(T \cap U) /\ IsFiniteSet(T \cap (U \ {x})) /\ x \in S
    BY <1>3, FS_Subset
  <2>7. SumOf(f, T \cap (U \ {x})) \in Nat
    BY <1>3, <2>6, SumType
  <2>8. CASE x \in T
    <3>1. (T \cap U) \ {x} = T \cap (U \ {x}) /\ x \in T \cap U
      BY <2>8
    <3>2. SumOf(f, T \cap U) = f[x] + SumOf(f, (T \cap U) \ {x})
      BY <1>3, <2>6, <3>1, SumSplit
    <3>3. SumOf(f, T \cap U) = f[x] + SumOf(f, T \cap (U \ {x}))
      BY <3>1, <3>2
    <3>4. g[x] = f[x]
      BY <2>6, <2>8
    <3>. QED
      BY <1>3, <2>3, <2>5, <3>3, <3>4
  <2>9. CASE x \notin T
    <3>1. T \cap U = T \cap (U \ {x})
      BY <2>9
    <3>2. SumOf(f, T \cap U) = SumOf(f, T \cap (U \ {x}))
      BY <3>1
    <3>3. g[x] = 0
      BY <2>6, <2>9
    <3>. QED
      BY <1>3, <2>3, <2>5, <2>7, <3>2, <3>3
  <2>. QED
    BY <2>8, <2>9
<1>. QED
  BY <1>4, <1>5

(* Where nothing is counted the sum is nothing.                              *)
LEMMA SumZero ==
  ASSUME NEW f, NEW S, IsFiniteSet(S), \A x \in S : f[x] = 0
  PROVE  SumOf(f, S) = 0
<1>1. \A x \in S : f[x] \in Nat /\ f[x] = IF x \in {} THEN f[x] ELSE 0
  OBVIOUS
<1>2. {} \in SUBSET S
  OBVIOUS
<1>3. SumOf(f, S) = SumOf(f, {})
  BY <1>1, <1>2, SumRestricted
<1>. QED
  BY <1>3, SumEmpty

(* What is counted in two parts adds up.                                     *)
LEMMA SumPlus ==
  ASSUME NEW f, NEW g, NEW h, NEW S, IsFiniteSet(S),
         \A x \in S : f[x] \in Nat /\ g[x] \in Nat /\ h[x] = f[x] + g[x]
  PROVE  SumOf(h, S) = SumOf(f, S) + SumOf(g, S)
<1>. DEFINE Bad == {T \in SUBSET S : SumOf(h, T) # SumOf(f, T) + SumOf(g, T)}
<1>1. SUFFICES ASSUME Bad # {} PROVE FALSE
  <2>. HIDE DEF Bad
  <2>1. S \notin Bad
    OBVIOUS
  <2>. QED
    BY <2>1 DEF Bad
<1>2. PICK T \in Bad : \A U \in Bad : ~(U \subseteq T /\ U # T)
  <2>. HIDE DEF Bad
  <2>1. Bad \in SUBSET (SUBSET S)
    BY DEF Bad
  <2>. QED
    BY <1>1, <2>1, LeastSet
<1>3. T \in SUBSET S /\ IsFiniteSet(T) /\ SumOf(h, T) # SumOf(f, T) + SumOf(g, T)
  BY <1>2, FS_Subset
<1>4. CASE T = {}
  BY <1>3, <1>4, SumEmpty
<1>5. CASE T # {}
  <2>1. PICK x \in T : TRUE
    BY <1>5
  <2>2. \A y \in S : h[y] \in Nat
    OBVIOUS
  <2>3. SumOf(f, T) = f[x] + SumOf(f, T \ {x}) /\ SumOf(g, T) = g[x] + SumOf(g, T \ {x})
        /\ SumOf(h, T) = h[x] + SumOf(h, T \ {x})
    BY <1>3, <2>2, SumSplit
  <2>4. T \ {x} \notin Bad /\ T \ {x} \in SUBSET S /\ x \in S
    BY <1>2
  <2>5. SumOf(h, T \ {x}) = SumOf(f, T \ {x}) + SumOf(g, T \ {x})
    BY <2>4
  <2>6. IsFiniteSet(T \ {x})
    BY <2>4, FS_Subset
  <2>7. SumOf(f, T \ {x}) \in Nat /\ SumOf(g, T \ {x}) \in Nat
    BY <2>4, <2>6, SumType
  <2>8. f[x] \in Nat /\ g[x] \in Nat /\ h[x] = f[x] + g[x]
    BY <2>4
  <2>. HIDE DEF Bad
  <2>. QED
    BY <1>3, <2>3, <2>5, <2>7, <2>8
<1>. QED
  BY <1>4, <1>5

(* The values of a function on a finite set are finitely many.               *)
LEMMA FiniteImage ==
  ASSUME NEW f, NEW S, IsFiniteSet(S)
  PROVE  IsFiniteSet({f[x] : x \in S})
<1>. DEFINE T == {f[x] : x \in S}
            g == [x \in S |-> f[x]]
<1>1. g \in Surjection(S, T)
  BY DEF Surjection
<1>. QED
  BY <1>1, FS_Surjection

(* A sum is no more than one that has for each of its elements another that  *)
(* is as large.                                                              *)
LEMMA SumInjected ==
  ASSUME NEW f, NEW g, NEW m, NEW S, IsFiniteSet(S), NEW T, IsFiniteSet(T),
         \A x \in S : f[x] \in Nat /\ m[x] \in T /\ f[x] <= g[m[x]],
         \A y \in T : g[y] \in Nat,
         \A x, y \in S : m[x] = m[y] => x = y
  PROVE  SumOf(f, S) <= SumOf(g, T)
<1>. DEFINE image(U) == {m[x] : x \in U}
            Bad == {U \in SUBSET S : ~(SumOf(f, U) <= SumOf(g, image(U)))}
<1>1. ASSUME Bad # {} PROVE FALSE
  <2>1. PICK U \in Bad : \A V \in Bad : ~(V \subseteq U /\ V # U)
    <3>1. Bad \in SUBSET (SUBSET S)
      OBVIOUS
    <3>. HIDE DEF Bad
    <3>. QED
      BY <1>1, <3>1, LeastSet
  <2>2. U \in SUBSET S /\ ~(SumOf(f, U) <= SumOf(g, image(U)))
    OBVIOUS
  <2>3. U # {}
    <3>1. SUFFICES ASSUME U = {} PROVE FALSE
      OBVIOUS
    <3>2. image(U) = {}
      BY <3>1
    <3>3. SumOf(f, U) = 0 /\ SumOf(g, image(U)) = 0
      BY <3>1, <3>2, SumEmpty
    <3>. QED
      BY <2>2, <3>3
  <2>4. PICK p \in U : TRUE
    BY <2>3
  <2>5. /\ IsFiniteSet(U) /\ IsFiniteSet(image(U)) /\ image(U) \in SUBSET T
        /\ m[p] \in image(U) /\ f[p] \in Nat /\ g[m[p]] \in Nat /\ f[p] <= g[m[p]]
    <3>1. IsFiniteSet(U)
      BY <2>2, FS_Subset
    <3>2. image(U) \in SUBSET T
      BY <2>2
    <3>3. IsFiniteSet(image(U))
      BY <3>2, FS_Subset
    <3>. QED
      BY <2>2, <2>4, <3>1, <3>2, <3>3
  <2>6. image(U) \ {m[p]} = image(U \ {p})
    BY <2>2, <2>4
  <2>7. SumOf(f, U) = f[p] + SumOf(f, U \ {p})
    BY <2>2, <2>4, <2>5, SumSplit
  <2>8. SumOf(g, image(U)) = g[m[p]] + SumOf(g, image(U \ {p}))
    <3>1. PICK I : I = image(U)
      OBVIOUS
    <3>2. IsFiniteSet(I) /\ m[p] \in I /\ \A y \in I : g[y] \in Nat
      BY <2>5, <3>1
    <3>3. SumOf(g, I) = g[m[p]] + SumOf(g, I \ {m[p]})
      BY <3>2, SumSplit
    <3>. QED
      BY <2>6, <3>1, <3>3
  <2>9. SumOf(f, U \ {p}) <= SumOf(g, image(U \ {p}))
    <3>1. U \ {p} \in SUBSET S /\ U \ {p} # U /\ U \ {p} \notin Bad
      <4>. HIDE DEF Bad
      <4>. QED
        BY <2>1, <2>2, <2>4
    <3>. QED
      BY <3>1
  <2>10. SumOf(f, U \ {p}) \in Nat /\ SumOf(g, image(U \ {p})) \in Nat
    <3>1. PICK I : I = image(U \ {p})
      OBVIOUS
    <3>2. I \in SUBSET T /\ U \ {p} \in SUBSET S
      BY <2>2, <3>1
    <3>3. IsFiniteSet(I) /\ IsFiniteSet(U \ {p})
      BY <3>2, FS_Subset
    <3>4. (\A x \in U \ {p} : f[x] \in Nat) /\ (\A y \in I : g[y] \in Nat)
      BY <3>2
    <3>5. SumOf(f, U \ {p}) \in Nat /\ SumOf(g, I) \in Nat
      BY <3>3, <3>4, SumType
    <3>. QED
      BY <3>1, <3>5
  <2>. HIDE DEF image, Bad
  <2>. QED
    BY <2>2, <2>5, <2>7, <2>8, <2>9, <2>10
<1>2. S \notin Bad
  <2>. HIDE DEF Bad
  <2>. QED
    BY <1>1
<1>3. SumOf(f, S) <= SumOf(g, image(S))
  BY <1>2
<1>4. image(S) \in SUBSET T
  OBVIOUS
<1>5. PICK I : I = image(S)
  OBVIOUS
<1>6. SumOf(g, I) <= SumOf(g, T)
  BY <1>4, <1>5, SumOfPart
<1>7. SumOf(f, S) \in Nat
  BY SumType
<1>8. SumOf(g, T) \in Nat
  BY SumType
<1>9. SumOf(g, I) \in Nat
  <2>1. IsFiniteSet(I) /\ \A y \in I : g[y] \in Nat
    BY <1>4, <1>5, FS_Subset
  <2>. QED
    BY <2>1, SumType
<1>. HIDE DEF image, Bad
<1>. QED
  BY <1>3, <1>5, <1>6, <1>7, <1>8, <1>9
=============================================================================
