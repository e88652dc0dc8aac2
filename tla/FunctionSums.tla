---------------------------- MODULE FunctionSums ----------------------------
(***************************************************************************)
(* What the proofs need to know of SumFunctionOnSet, the sum of a function  *)
(* over a finite set of indices: it does not depend on the order in which   *)
(* the fold picks them, and it grows with the set and with the function.    *)
(*                                                                         *)
(* The fold is a recursive function, so these are inductions.  They are     *)
(* stated with a set of naturals in the place of a predicate and rest on    *)
(* the least-element principle, which needs no operator parameter.          *)
(***************************************************************************)
EXTENDS Functions, FiniteSetTheorems, TLAPS

-----------------------------------------------------------------------------
(* Induction over a set of naturals.                                        *)

\* A non-empty set of naturals has a least element.
LEMMA LeastNatural ==
  ASSUME NEW T \in SUBSET Nat, T # {}
  PROVE  \E n \in T : \A m \in T : n <= m
<1>1. PICK n \in T : \A m \in T : <<m, n>> \notin OpToRel(<, Nat)
  BY WFMin, NatLessThanWellFounded
<1>2. \A m \in T : ~(m < n) BY <1>1 DEF OpToRel
<1> QED BY <1>2

\* A set of naturals that holds 0 and the successor of each member holds all.
LEMMA SetInduction ==
  ASSUME NEW T \in SUBSET Nat, 0 \in T, \A n \in T : n + 1 \in T
  PROVE  T = Nat
<1> SUFFICES ASSUME Nat \ T # {} PROVE FALSE
  OBVIOUS
<1>1. PICK n \in Nat \ T : \A m \in Nat \ T : n <= m BY LeastNatural
<1>2. n - 1 \in Nat /\ n - 1 \in T BY <1>1
<1> QED BY <1>2

-----------------------------------------------------------------------------
(* The fold.                                                                *)

Pick(s) == CHOOSE x \in s : TRUE
Unfolded(v, f, s) == IF s = {} THEN 0 ELSE v[Pick(s)] + f[s \ {Pick(s)}]
IsFold(f, v, S) == f = [s \in SUBSET S |-> Unfolded(v, f, s)]

\* The sum is the value at S of a function that satisfies the recursion.
LEMMA SumIsFold ==
  ASSUME NEW v, NEW S
  PROVE  SumFunctionOnSet(v, S) = (CHOOSE f : IsFold(f, v, S))[S]
BY DEF SumFunctionOnSet, FoldFunctionOnSet, MapThenFoldSet, IsFold, Unfolded, Pick

\* The picked element is an element, and without it the set is smaller.
LEMMA PickSmaller ==
  ASSUME NEW s, IsFiniteSet(s), s # {}
  PROVE  /\ Pick(s) \in s
         /\ s \ {Pick(s)} \in SUBSET s
         /\ IsFiniteSet(s \ {Pick(s)})
         /\ Cardinality(s) \in Nat \ {0}
         /\ Cardinality(s \ {Pick(s)}) = Cardinality(s) - 1
<1>1. Pick(s) \in s BY DEF Pick
<1>2. Cardinality(s) \in Nat /\ Cardinality(s) # 0 BY FS_CardinalityType, FS_EmptySet
<1> QED BY <1>1, <1>2, FS_RemoveElement

\* For a finite set such a function exists: one that satisfies the recursion up
\* to n elements gives one that satisfies it up to n + 1.
LEMMA FoldExists ==
  ASSUME NEW v, NEW S, IsFiniteSet(S)
  PROVE  \E f : IsFold(f, v, S)
<1> DEFINE UpTo(f, n) == \A s \in SUBSET S : Cardinality(s) <= n => f[s] = Unfolded(v, f, s)
           T == {n \in Nat : \E f : UpTo(f, n)}
<1>1. \A s \in SUBSET S : IsFiniteSet(s) /\ Cardinality(s) \in Nat
                          /\ Cardinality(s) <= Cardinality(S)
  BY FS_Subset, FS_CardinalityType
<1>2. 0 \in T
  <2> DEFINE z == [s \in SUBSET S |-> 0]
  <2>1. UpTo(z, 0)
    <3> SUFFICES ASSUME NEW s \in SUBSET S, Cardinality(s) <= 0 PROVE z[s] = Unfolded(v, z, s)
      OBVIOUS
    <3>1. s = {} BY <1>1, FS_EmptySet
    <3> QED BY <3>1 DEF Unfolded
  <2> QED BY <2>1
<1>3. ASSUME NEW n \in T PROVE n + 1 \in T
  <2>1. PICK f : UpTo(f, n) BY <1>3
  <2> DEFINE g == [s \in SUBSET S |-> Unfolded(v, f, s)]
  <2>2. UpTo(g, n + 1)
    <3> SUFFICES ASSUME NEW s \in SUBSET S, Cardinality(s) <= n + 1
                 PROVE  g[s] = Unfolded(v, g, s)
      OBVIOUS
    <3>1. CASE s = {} BY <3>1 DEF Unfolded
    <3>2. CASE s # {}
      <4> DEFINE r == s \ {Pick(s)}
      <4>1. r \in SUBSET S /\ Cardinality(r) = Cardinality(s) - 1 /\ Cardinality(s) \in Nat
        BY <1>1, <3>2, PickSmaller
      <4>2. Cardinality(r) <= n BY <4>1, n \in Nat
      <4>3. f[r] = Unfolded(v, f, r) BY <2>1, <4>1, <4>2
      <4>4. g[r] = f[r] /\ g[s] = Unfolded(v, f, s) BY <4>1, <4>3
      <4> HIDE DEF g
      <4> QED BY <3>2, <4>4 DEF Unfolded
    <3> QED BY <3>1, <3>2
  <2>3. n + 1 \in Nat BY <1>3
  <2> HIDE DEF g, UpTo
  <2> QED BY <2>2, <2>3
<1>4. Cardinality(S) \in T
  <2> HIDE DEF T
  <2>1. T \in SUBSET Nat BY DEF T
  <2>2. T = Nat BY <1>2, <1>3, <2>1, SetInduction
  <2> QED BY <1>1, <2>2
<1>5. PICK f : UpTo(f, Cardinality(S)) BY <1>4
<1> DEFINE g == [s \in SUBSET S |-> f[s]]
<1>6. ASSUME NEW s \in SUBSET S PROVE g[s] = Unfolded(v, g, s)
  <2>1. f[s] = Unfolded(v, f, s) BY <1>1, <1>5
  <2>2. s # {} => s \ {Pick(s)} \in SUBSET S OBVIOUS
  <2> QED BY <2>1, <2>2 DEF Unfolded
<1> HIDE DEF g
<1>7. g = [s \in SUBSET S |-> g[s]] BY DEF g
<1>8. IsFold(g, v, S) BY <1>6, <1>7 DEF IsFold
<1> QED BY <1>8

\* Two such functions agree wherever both are defined.
LEMMA FoldUnique ==
  ASSUME NEW v, NEW S, NEW R, IsFiniteSet(S), R \in SUBSET S,
         NEW f, NEW g, IsFold(f, v, S), IsFold(g, v, R)
  PROVE  \A s \in SUBSET R : f[s] = g[s]
<1> DEFINE T == {n \in Nat : \A s \in SUBSET R : Cardinality(s) = n => f[s] = g[s]}
<1>1. \A s \in SUBSET R : IsFiniteSet(s) /\ Cardinality(s) \in Nat
  BY FS_Subset, FS_CardinalityType
<1>2. \A s \in SUBSET R : f[s] = Unfolded(v, f, s) /\ g[s] = Unfolded(v, g, s)
  BY DEF IsFold
<1>3. 0 \in T
  <2>1. \A s \in SUBSET R : Cardinality(s) = 0 => s = {} BY <1>1, FS_EmptySet
  <2> QED BY <1>2, <2>1 DEF Unfolded
<1>4. ASSUME NEW n \in T PROVE n + 1 \in T
  <2> SUFFICES ASSUME NEW s \in SUBSET R, Cardinality(s) = n + 1 PROVE f[s] = g[s]
    OBVIOUS
  <2>1. s # {} BY FS_EmptySet
  <2>2. s \ {Pick(s)} \in SUBSET R /\ Cardinality(s \ {Pick(s)}) = n
    BY <1>1, <2>1, PickSmaller
  <2>3. f[s \ {Pick(s)}] = g[s \ {Pick(s)}] BY <2>2
  <2> QED BY <1>2, <2>1, <2>3 DEF Unfolded
<1> HIDE DEF T
<1>5. T = Nat
  <2>1. T \in SUBSET Nat BY DEF T
  <2> QED BY <1>3, <1>4, <2>1, SetInduction
<1> QED BY <1>1, <1>5 DEF T

\* One unfolding of the sum.
LEMMA SumUnfolds ==
  ASSUME NEW v, NEW S, IsFiniteSet(S)
  PROVE  /\ SumFunctionOnSet(v, {}) = 0
         /\ S # {} => SumFunctionOnSet(v, S) =
                          v[Pick(S)] + SumFunctionOnSet(v, S \ {Pick(S)})
<1>1. \A R : IsFiniteSet(R) => /\ IsFold(CHOOSE f : IsFold(f, v, R), v, R)
                               /\ SumFunctionOnSet(v, R) = (CHOOSE f : IsFold(f, v, R))[R]
  BY FoldExists, SumIsFold
<1> DEFINE F(R) == CHOOSE f : IsFold(f, v, R)
<1>2. \A R : IsFiniteSet(R) => IsFold(F(R), v, R) /\ SumFunctionOnSet(v, R) = F(R)[R] BY <1>1
<1> HIDE DEF F
<1>3. SumFunctionOnSet(v, {}) = 0
  <2>1. F({})[{}] = Unfolded(v, F({}), {}) BY <1>2, FS_EmptySet DEF IsFold
  <2> QED BY <1>2, <2>1, FS_EmptySet DEF Unfolded
<1>4. ASSUME S # {}
      PROVE  SumFunctionOnSet(v, S) = v[Pick(S)] + SumFunctionOnSet(v, S \ {Pick(S)})
  <2> DEFINE R == S \ {Pick(S)}
  <2>1. R \in SUBSET S /\ IsFiniteSet(R) BY <1>4, PickSmaller
  <2>2. F(S)[S] = Unfolded(v, F(S), S) BY <1>2 DEF IsFold
  <2>3. F(S)[S] = v[Pick(S)] + F(S)[R] BY <1>4, <2>2 DEF Unfolded
  <2> HIDE DEF R
  <2>4. F(S)[R] = F(R)[R] BY <1>2, <2>1, FoldUnique
  <2> QED BY <1>2, <2>1, <2>3, <2>4 DEF R
<1> QED BY <1>3, <1>4

-----------------------------------------------------------------------------
(* What the sum of naturals promises.                                       *)

\* Any index may be taken out of the sum first.
THEOREM SumRemoves ==
  ASSUME NEW S, IsFiniteSet(S), NEW v \in [S -> Nat]
  PROVE  \A s \in SUBSET S :
            /\ SumFunctionOnSet(v, s) \in Nat
            /\ \A x \in s : SumFunctionOnSet(v, s) = v[x] + SumFunctionOnSet(v, s \ {x})
<1> DEFINE Sum(s) == SumFunctionOnSet(v, s)
           Fits(s) == Sum(s) \in Nat /\ \A x \in s : Sum(s) = v[x] + Sum(s \ {x})
           T == {n \in Nat : \A s \in SUBSET S : Cardinality(s) <= n => Fits(s)}
<1>1. \A s \in SUBSET S : IsFiniteSet(s) /\ Cardinality(s) \in Nat
  BY FS_Subset, FS_CardinalityType
<1>2. Sum({}) = 0 /\ \A s \in SUBSET S : s # {} => Sum(s) = v[Pick(s)] + Sum(s \ {Pick(s)})
  BY <1>1, FS_EmptySet, SumUnfolds
<1> HIDE DEF Sum
<1>3. 0 \in T
  <2>1. \A s \in SUBSET S : Cardinality(s) <= 0 => s = {} BY <1>1, FS_EmptySet
  <2>2. Fits({}) BY <1>2
  <2> HIDE DEF Fits
  <2> QED BY <2>1, <2>2
<1>4. ASSUME NEW n \in T PROVE n + 1 \in T
  <2>0. n \in Nat /\ \A s \in SUBSET S : Cardinality(s) <= n => Fits(s) OBVIOUS
  <2> SUFFICES ASSUME NEW s \in SUBSET S, Cardinality(s) <= n + 1, s # {} PROVE Fits(s)
    BY <1>2, <2>0
  <2> DEFINE p == Pick(s)
  <2>1. p \in s /\ p \in S BY <1>1, PickSmaller
  <2>2. Sum(s) = v[p] + Sum(s \ {p}) BY <1>2
  <2> HIDE DEF p
  <2>3. ASSUME NEW r \in SUBSET s, r # s PROVE Fits(r)
    <3>1. r \in SUBSET S /\ Cardinality(r) <= Cardinality(s) /\ Cardinality(r) # Cardinality(s)
      BY <1>1, <2>3, FS_Subset
    <3>2. Cardinality(r) <= n BY <1>1, <2>0, <3>1
    <3> QED BY <2>0, <3>1, <3>2
  <2>4. Fits(s \ {p}) BY <2>1, <2>3
  <2>5. Sum(s) \in Nat BY <2>1, <2>2, <2>4
  <2>6. ASSUME NEW x \in s, x # p PROVE Sum(s) = v[x] + Sum(s \ {x})
    <3> DEFINE r == (s \ {p}) \ {x}
    <3>1. Sum(s \ {p}) = v[x] + Sum(r) BY <2>4, <2>6
    <3>2. Fits(s \ {x}) BY <2>3
    <3>3. Sum(s \ {x}) = v[p] + Sum((s \ {x}) \ {p}) BY <2>1, <2>6, <3>2
    <3>4. (s \ {x}) \ {p} = r OBVIOUS
    <3>5. r \in SUBSET s /\ r # s BY <2>1
    <3> HIDE DEF r
    <3>6. Sum(r) \in Nat BY <2>3, <3>5
    <3>7. v[p] \in Nat /\ v[x] \in Nat BY <2>1
    <3> QED BY <2>2, <3>1, <3>3, <3>4, <3>6, <3>7
  <2> QED BY <2>2, <2>5, <2>6
<1> HIDE DEF T
<1>5. T = Nat
  <2>1. T \in SUBSET Nat BY DEF T
  <2> QED BY <1>3, <1>4, <2>1, SetInduction
<1>6. \A s \in SUBSET S : Fits(s) BY <1>1, <1>5 DEF T
<1> QED BY <1>6 DEF Sum

\* A sum of naturals over fewer indices, or of smaller naturals, is no larger.
THEOREM SumGrows ==
  ASSUME NEW S, IsFiniteSet(S), NEW v \in [S -> Nat], NEW w \in [S -> Nat],
         NEW s \in SUBSET S, NEW t \in SUBSET S, s \subseteq t,
         \A x \in s : v[x] <= w[x]
  PROVE  SumFunctionOnSet(v, s) <= SumFunctionOnSet(w, t)
<1> DEFINE V(r) == SumFunctionOnSet(v, r)
           W(r) == SumFunctionOnSet(w, r)
           Bounded(r) == V(s \cap r) <= W(r)
           T == {n \in Nat : \A r \in SUBSET t : Cardinality(r) = n => Bounded(r)}
<1>1. \A r \in SUBSET S : IsFiniteSet(r) /\ Cardinality(r) \in Nat
  BY FS_Subset, FS_CardinalityType
<1>2. \A r \in SUBSET S : V(r) \in Nat /\ \A x \in r : V(r) = v[x] + V(r \ {x})
  BY SumRemoves
<1>3. \A r \in SUBSET S : W(r) \in Nat /\ \A x \in r : W(r) = w[x] + W(r \ {x})
  BY SumRemoves
<1>4. V({}) = 0 /\ W({}) = 0 BY FS_EmptySet, SumUnfolds
<1> HIDE DEF V, W
<1>5. 0 \in T
  <2>1. \A r \in SUBSET t : Cardinality(r) = 0 => r = {} BY <1>1, FS_EmptySet
  <2>2. s \cap {} = {} OBVIOUS
  <2>3. Bounded({}) BY <1>4, <2>2
  <2> HIDE DEF Bounded
  <2> QED BY <2>1, <2>3
<1>6. ASSUME NEW n \in T PROVE n + 1 \in T
  <2>0. n \in Nat /\ \A r \in SUBSET t : Cardinality(r) = n => Bounded(r) OBVIOUS
  <2> SUFFICES ASSUME NEW r \in SUBSET t, Cardinality(r) = n + 1 PROVE Bounded(r)
    BY <2>0
  <2>1. r # {} BY <2>0, FS_EmptySet
  <2>2. PICK x \in r : TRUE BY <2>1
  <2> DEFINE q == r \ {x}
  <2>3. q \in SUBSET t /\ Cardinality(q) = n
    <3>1. Cardinality(q) = Cardinality(r) - 1 BY <1>1, FS_RemoveElement
    <3> QED BY <2>0, <3>1
  <2>4. V(s \cap q) <= W(q) BY <2>0, <2>3
  <2>5. W(r) = w[x] + W(q) /\ W(q) \in Nat /\ w[x] \in Nat BY <1>3
  <2>6. V(s \cap q) \in Nat /\ V(s \cap r) \in Nat BY <1>2
  <2>7. CASE x \in s
    <3>1. (s \cap r) \ {x} = s \cap q OBVIOUS
    <3>2. V(s \cap r) = v[x] + V((s \cap r) \ {x}) BY <1>2, <2>7
    <3>3. v[x] \in Nat /\ v[x] <= w[x] BY <2>7
    <3>4. V(s \cap r) = v[x] + V(s \cap q) BY <3>1, <3>2
    <3> HIDE DEF q, T
    <3>5. V(s \cap r) <= W(r) BY <2>4, <2>5, <2>6, <3>3, <3>4
    <3> QED BY <3>5
  <2>8. CASE x \notin s
    <3>1. s \cap r = s \cap q BY <2>8
    <3> HIDE DEF q
    <3> QED BY <2>4, <2>5, <2>6, <3>1
  <2> QED BY <2>7, <2>8
<1> HIDE DEF T
<1>7. T = Nat
  <2>1. T \in SUBSET Nat BY DEF T
  <2> QED BY <1>5, <1>6, <2>1, SetInduction
<1>8. Bounded(t) BY <1>1, <1>7 DEF T
<1>9. s \cap t = s OBVIOUS
<1> QED BY <1>8, <1>9 DEF V, W

\* One summand changes, and the sum by as much.
THEOREM SumChanges ==
  ASSUME NEW S, IsFiniteSet(S), NEW v \in [S -> Nat], NEW w \in [S -> Nat], NEW x \in S,
         \A y \in S : y # x => w[y] = v[y]
  PROVE  /\ SumFunctionOnSet(v, S) \in Nat /\ SumFunctionOnSet(w, S) \in Nat
         /\ SumFunctionOnSet(w, S) + v[x] = SumFunctionOnSet(v, S) + w[x]
<1> DEFINE R == S \ {x}
           V(s) == SumFunctionOnSet(v, s)
           W(s) == SumFunctionOnSet(w, s)
<1>0. S \in SUBSET S /\ R \in SUBSET S /\ R \subseteq R OBVIOUS
<1>1. V(S) \in Nat /\ V(R) \in Nat /\ V(S) = v[x] + V(R) BY <1>0, SumRemoves
<1>2. W(S) \in Nat /\ W(R) \in Nat /\ W(S) = w[x] + W(R) BY <1>0, SumRemoves
<1>3. \A y \in R : v[y] <= w[y] /\ w[y] <= v[y] OBVIOUS
<1>4. V(R) <= W(R) BY <1>0, <1>3, SumGrows
<1>5. W(R) <= V(R) BY <1>0, <1>3, SumGrows
<1>6. v[x] \in Nat /\ w[x] \in Nat OBVIOUS
<1> HIDE DEF V, W, R
<1>7. W(S) + v[x] = V(S) + w[x] BY <1>1, <1>2, <1>4, <1>5, <1>6
<1> QED BY <1>1, <1>2, <1>7 DEF V, W

\* A sum of zeros.
LEMMA SumOfZeros ==
  ASSUME NEW S, IsFiniteSet(S), NEW z \in [S -> Nat], \A x \in S : z[x] = 0
  PROVE  SumFunctionOnSet(z, S) = 0
<1> DEFINE T == {n \in Nat : \A s \in SUBSET S : Cardinality(s) = n => SumFunctionOnSet(z, s) = 0}
<1>1. \A s \in SUBSET S : IsFiniteSet(s) /\ Cardinality(s) \in Nat
  BY FS_Subset, FS_CardinalityType
<1>3. SumFunctionOnSet(z, {}) = 0 BY FS_EmptySet, SumUnfolds
<1>4. \A s \in SUBSET S :
         /\ SumFunctionOnSet(z, s) \in Nat
         /\ \A x \in s : SumFunctionOnSet(z, s) = z[x] + SumFunctionOnSet(z, s \ {x})
  BY SumRemoves
<1>5. 0 \in T
  <2>1. \A s \in SUBSET S : Cardinality(s) = 0 => s = {} BY <1>1, FS_EmptySet
  <2> QED BY <1>3, <2>1
<1>6. ASSUME NEW n \in T PROVE n + 1 \in T
  <2>0. n \in Nat OBVIOUS
  <2> SUFFICES ASSUME NEW s \in SUBSET S, Cardinality(s) = n + 1
               PROVE  SumFunctionOnSet(z, s) = 0
    BY <2>0
  <2>1. s # {} BY <2>0, FS_EmptySet
  <2>2. PICK x \in s : TRUE BY <2>1
  <2>3. s \ {x} \in SUBSET S /\ Cardinality(s \ {x}) = n
    <3>1. Cardinality(s \ {x}) = Cardinality(s) - 1 BY <1>1, FS_RemoveElement
    <3> QED BY <2>0, <3>1
  <2>4. SumFunctionOnSet(z, s \ {x}) = 0 BY <2>3
  <2>5. z[x] = 0 OBVIOUS
  <2>6. SumFunctionOnSet(z, s) = z[x] + SumFunctionOnSet(z, s \ {x}) BY <1>4
  <2> QED BY <2>4, <2>5, <2>6
<1> HIDE DEF T
<1>7. T = Nat
  <2>1. T \in SUBSET Nat BY DEF T
  <2> QED BY <1>5, <1>6, <2>1, SetInduction
<1>8. S \in SUBSET S /\ Cardinality(S) \in T BY <1>1, <1>7
<1> QED BY <1>8 DEF T
=============================================================================
