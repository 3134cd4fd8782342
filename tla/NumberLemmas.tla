---------------------------- MODULE NumberLemmas ----------------------------
(***************************************************************************)
(* Facts about numbers kept in sets and functions, for the proofs of the   *)
(* modules that look for a largest or a least one or add some up.          *)
(*                                                                         *)
(* A sum is the value of a recursive function on the subsets of its set    *)
(* (Functions, Folds).  That there is such a function, and what it is      *)
(* worth, is shown by looking at a smallest subset where the claim fails:  *)
(* strict inclusion is well-founded on the subsets of a finite set.        *)
(***************************************************************************)
EXTENDS Functions, Integers, FiniteSets, FiniteSetTheorems,
        WellFoundedInduction, TLAPS

-----------------------------------------------------------------------------
(* The largest.                                                            *)

(* The largest of some numbers, none above m.                              *)
LEMMA LargestOf ==
  ASSUME NEW m \in Nat, NEW S \in SUBSET (0 .. m), S # {}
  PROVE  \E x \in S : \A y \in S : x >= y
<1> DEFINE T == {m - s : s \in S}
           R == {p \in Nat \X Nat : p[1] < p[2]}
<1>1. \A t \in T : t \in Nat
  OBVIOUS
<1>2. T \subseteq Nat /\ T # {}
  <2>1. PICK s \in S : TRUE
    OBVIOUS
  <2>2. m - s \in T
    OBVIOUS
  <2> HIDE DEF T
  <2> QED
    BY <1>1, <2>2
<1>3. IsWellFoundedOn(R, Nat)
  BY NatLessThanWellFounded DEF OpToRel
<1>4. PICK t \in T : \A u \in T : <<u, t>> \notin R
  <2> HIDE DEF T, R
  <2> QED
    BY <1>2, <1>3, WFMin
<1>5. \A u \in T : t <= u
  <2> TAKE u \in T
  <2>1. u \in Nat /\ t \in Nat
    BY <1>1
  <2>2. <<u, t>> \notin R
    BY <1>4
  <2> HIDE DEF T
  <2> QED
    BY <2>1, <2>2
<1>6. PICK x \in S : t = m - x
  OBVIOUS
<1>7. \A y \in S : x >= y
  <2> TAKE y \in S
  <2>1. m - y \in T
    OBVIOUS
  <2>2. m - x <= m - y /\ x \in Nat /\ y \in Nat
    BY <1>5, <1>6, <2>1
  <2> HIDE DEF T, R
  <2> QED
    BY <2>2
<1> QED
  BY <1>7

-----------------------------------------------------------------------------
(* Sums are defined.                                                       *)

(* Among subsets of a finite set, one has no other below it. *)
LEMMA SmallestSubset ==
  ASSUME NEW S, IsFiniteSet(S), NEW B \in SUBSET SUBSET S, B # {}
  PROVE  \E U \in B : \A V \in SUBSET U : V # U => V \notin B
<1>1. IsWellFoundedOn(StrictSubsetOrdering(S), FiniteSubsetsOf(S))
  BY FS_StrictSubsetOrderingWellFounded
<1>2. B \subseteq FiniteSubsetsOf(S)
  BY FS_Subset DEF FiniteSubsetsOf
<1>3. PICK U \in B : \A V \in B : <<V, U>> \notin StrictSubsetOrdering(S)
  BY <1>1, <1>2, WFMin
<1>4. \A V \in B : ~(V \subseteq U /\ V # U)
  BY <1>3 DEF StrictSubsetOrdering
<1> QED
  BY <1>4

(* Among some numbers, none is below one of them. *)
LEMMA LeastValue ==
  ASSUME NEW S, IsFiniteSet(S), S # {}, NEW v, \A x \in S : v[x] \in Int
  PROVE  \E x \in S : \A y \in S : v[x] <= v[y]
<1> DEFINE Reaches(U) == \A y \in S : \E x \in U : v[x] <= v[y]
           B == {U \in SUBSET S : Reaches(U)}
<1>1. B \in SUBSET SUBSET S /\ S \in B
  OBVIOUS
<1>2. PICK U \in B : \A V \in SUBSET U : V # U => V \notin B
  <2> HIDE DEF B
  <2> QED
    BY <1>1, SmallestSubset
<1>3. U \in SUBSET S /\ Reaches(U)
  OBVIOUS
<1>4. PICK x \in U : TRUE
  BY <1>3
<1>5. CASE U = {x}
  BY <1>3, <1>5
<1>6. CASE U # {x}
  <2>1. U \ {x} \in SUBSET U /\ U \ {x} # U /\ {x} \in SUBSET U
    BY <1>4
  <2>2. ~Reaches(U \ {x})
    BY <1>2, <1>3, <2>1
  <2>3. PICK z \in S : \A y \in U \ {x} : ~(v[y] <= v[z])
    BY <2>2
  <2>4. v[x] <= v[z]
    BY <1>3, <2>3
  <2>5. \A y \in U : v[x] <= v[y]
    <3> TAKE y \in U
    <3>1. v[x] \in Int /\ v[y] \in Int /\ v[z] \in Int
      BY <1>3
    <3> QED
      BY <2>3, <2>4, <3>1
  <2>6. Reaches({x})
    <3> TAKE y \in S
    <3>1. PICK a \in U : v[a] <= v[y]
      BY <1>3
    <3>2. v[x] \in Int /\ v[y] \in Int /\ v[a] \in Int
      BY <1>3
    <3> QED
      BY <2>5, <3>1, <3>2
  <2> QED
    BY <1>2, <1>3, <1>6, <2>1, <2>6
<1> QED
  BY <1>5, <1>6

(* The element of a set that a sum takes next. *)
One(s) == CHOOSE x \in s : TRUE

(* it adds up f, over every subset of S. *)
Adds(it, f, S) ==
  it = [s \in SUBSET S |-> IF s = {} THEN 0 ELSE f[One(s)] + it[s \ {One(s)}]]

(* The element it takes is one of the set. *)
LEMMA OneIs ==
  ASSUME NEW S, S # {}
  PROVE  One(S) \in S
BY DEF One

(* What adds up is nothing for no elements, and one element and the rest. *)
LEMMA AddsIs ==
  ASSUME NEW it, NEW f, NEW S, Adds(it, f, S), NEW U \in SUBSET S
  PROVE  /\ U = {} => it[U] = 0
         /\ U # {} => it[U] = f[One(U)] + it[U \ {One(U)}]
BY DEF Adds

(* Two that add up functions which agree come to the same. *)
LEMMA AddsAgree ==
  ASSUME NEW S, IsFiniteSet(S), NEW T, NEW e, NEW f, NEW g, NEW h,
         Adds(g, e, S), Adds(h, f, T), \A x \in S \cap T : e[x] = f[x]
  PROVE  \A U \in SUBSET (S \cap T) : g[U] = h[U]
<1> DEFINE B == {U \in SUBSET (S \cap T) : g[U] # h[U]}
<1>1. ASSUME B # {} PROVE FALSE
  <2>1. B \in SUBSET SUBSET S
    OBVIOUS
  <2>2. PICK U \in B : \A V \in SUBSET U : V # U => V \notin B
    <3> HIDE DEF B
    <3> QED
      BY <1>1, <2>1, SmallestSubset
  <2>3. U \in SUBSET (S \cap T) /\ g[U] # h[U]
    OBVIOUS
  <2>4. U # {}
    BY <2>3, AddsIs
  <2>5. One(U) \in U /\ U \ {One(U)} \in SUBSET U /\ U \ {One(U)} # U
    BY <2>4, OneIs
  <2>6. g[U \ {One(U)}] = h[U \ {One(U)}]
    BY <2>2, <2>3, <2>5
  <2>7. U \in SUBSET S /\ U \in SUBSET T
    BY <2>3
  <2> HIDE DEF B
  <2>8. /\ g[U] = e[One(U)] + g[U \ {One(U)}]
        /\ h[U] = f[One(U)] + h[U \ {One(U)}]
    BY <2>4, <2>7, AddsIs
  <2>9. e[One(U)] = f[One(U)]
    BY <2>3, <2>5
  <2> QED
    BY <2>3, <2>6, <2>8, <2>9
<1> QED
  BY <1>1

(* Over a finite set there is one. *)
LEMMA AddsExists ==
  ASSUME NEW S, IsFiniteSet(S), NEW f
  PROVE  \E it : Adds(it, f, S)
<1> DEFINE B == {U \in SUBSET S : ~\E it : Adds(it, f, U)}
           Of(U) == CHOOSE it : Adds(it, f, U)
<1>1. ASSUME B # {} PROVE FALSE
  <2>1. B \in SUBSET SUBSET S
    OBVIOUS
  <2>2. PICK U \in B : \A V \in SUBSET U : V # U => V \notin B
    <3> HIDE DEF B
    <3> QED
      BY <1>1, <2>1, SmallestSubset
  <2> DEFINE h == [V \in SUBSET U |->
                     IF V = {} THEN 0
                     ELSE f[One(V)] + Of(V \ {One(V)})[V \ {One(V)}]]
  <2>3. U \in SUBSET S /\ ~\E it : Adds(it, f, U)
    OBVIOUS
  <2>4. ASSUME NEW V \in SUBSET U, V # U
        PROVE  Adds(Of(V), f, V)
    <3>1. V \in SUBSET S /\ V \notin B
      BY <2>2, <2>3, <2>4
    <3>2. \E it : Adds(it, f, V)
      BY <3>1
    <3> QED
      BY <3>2
  <2>5. ASSUME NEW W \in SUBSET U, W # U
        PROVE  h[W] = Of(W)[W]
    <3>1. Adds(Of(W), f, W) /\ W \in SUBSET W
      BY <2>4, <2>5
    <3>2. CASE W = {}
      <4> HIDE DEF Of
      <4> QED
        BY <3>1, <3>2, AddsIs
    <3>3. CASE W # {}
      <4> DEFINE V == W \ {One(W)}
      <4>1. V \in SUBSET W /\ V \in SUBSET U /\ V # U /\ IsFiniteSet(V)
        BY <2>3, <2>5, <3>3, OneIs, FS_Subset
      <4>2. Adds(Of(V), f, V)
        BY <2>4, <4>1
      <4> HIDE DEF V, Of
      <4>3. V \in SUBSET (V \cap W)
        BY <4>1
      <4>4. Of(V)[V] = Of(W)[V]
        BY <3>1, <4>1, <4>2, <4>3, AddsAgree
      <4>5. Of(W)[W] = f[One(W)] + Of(W)[V]
        BY <3>1, <3>3, AddsIs DEF V
      <4>6. h[W] = f[One(W)] + Of(V)[V]
        BY <3>3 DEF V
      <4> QED
        BY <4>4, <4>5, <4>6
    <3> QED
      BY <3>2, <3>3
  <2>6. \A V \in SUBSET U :
          V # {} => /\ V \ {One(V)} \in SUBSET U
                    /\ h[V \ {One(V)}] = Of(V \ {One(V)})[V \ {One(V)}]
    <3> TAKE V \in SUBSET U
    <3> HAVE V # {}
    <3>1. V \ {One(V)} \in SUBSET U /\ V \ {One(V)} # U
      BY OneIs
    <3> HIDE DEF h, Of
    <3> QED
      BY <2>5, <3>1
  <2>7. h = [V \in SUBSET U |-> IF V = {} THEN 0 ELSE f[One(V)] + h[V \ {One(V)}]]
    <3> HIDE DEF Of
    <3> QED
      BY <2>6
  <2>8. Adds(h, f, U)
    <3> HIDE DEF h
    <3> QED
      BY <2>7 DEF Adds
  <2> QED
    BY <2>3, <2>8
<1>2. S \in SUBSET S
  OBVIOUS
<1> QED
  BY <1>1, <1>2

(* A sum is what such a function comes to. *)
LEMMA SumAdds ==
  ASSUME NEW S, IsFiniteSet(S), NEW f
  PROVE  \E it : Adds(it, f, S) /\ SumFunctionOnSet(f, S) = it[S]
<1> DEFINE g == CHOOSE it : Adds(it, f, S)
<1>1. Adds(g, f, S)
  BY AddsExists
<1>2. SumFunctionOnSet(f, S) = g[S]
  BY DEF SumFunctionOnSet, FoldFunctionOnSet, MapThenFoldSet, Adds, One
<1> QED
  BY <1>1, <1>2
-----------------------------------------------------------------------------
(* What sums are worth.                                                    *)

(* Nothing adds up to nothing. *)
LEMMA SumOfNone ==
  ASSUME NEW f
  PROVE  SumFunctionOnSet(f, {}) = 0
<1>1. PICK it : Adds(it, f, {}) /\ SumFunctionOnSet(f, {}) = it[{}]
  BY SumAdds, FS_EmptySet
<1> QED
  BY <1>1, AddsIs

(* Functions that agree on a set have one sum over it. *)
LEMMA SumSame ==
  ASSUME NEW S, IsFiniteSet(S), NEW e, NEW f, \A x \in S : e[x] = f[x]
  PROVE  SumFunctionOnSet(e, S) = SumFunctionOnSet(f, S)
<1>1. PICK g : Adds(g, e, S) /\ SumFunctionOnSet(e, S) = g[S]
  BY SumAdds
<1>2. PICK h : Adds(h, f, S) /\ SumFunctionOnSet(f, S) = h[S]
  BY SumAdds
<1>3. \A U \in SUBSET (S \cap S) : g[U] = h[U]
  BY <1>1, <1>2, AddsAgree
<1> QED
  BY <1>1, <1>2, <1>3

(* One element, and the others. *)
LEMMA SumNext ==
  ASSUME NEW S, IsFiniteSet(S), S # {}, NEW f
  PROVE  /\ One(S) \in S
         /\ SumFunctionOnSet(f, S) = f[One(S)] + SumFunctionOnSet(f, S \ {One(S)})
<1> DEFINE T == S \ {One(S)}
<1>1. One(S) \in S /\ T \in SUBSET (S \cap T) /\ IsFiniteSet(T)
  BY OneIs, FS_Subset
<1> HIDE DEF T
<1>2. PICK g : Adds(g, f, S) /\ SumFunctionOnSet(f, S) = g[S]
  BY SumAdds
<1>3. PICK h : Adds(h, f, T) /\ SumFunctionOnSet(f, T) = h[T]
  BY <1>1, SumAdds
<1>4. g[T] = h[T]
  BY <1>1, <1>2, <1>3, AddsAgree
<1>5. g[S] = f[One(S)] + g[T]
  BY <1>2, AddsIs DEF T
<1> QED
  BY <1>1, <1>2, <1>3, <1>4, <1>5 DEF T

(* Numbers add up to a number. *)
LEMMA SumIsNat ==
  ASSUME NEW S, IsFiniteSet(S), NEW f, \A x \in S : f[x] \in Nat
  PROVE  SumFunctionOnSet(f, S) \in Nat
<1> DEFINE B == {U \in SUBSET S : SumFunctionOnSet(f, U) \notin Nat}
<1>1. ASSUME B # {} PROVE FALSE
  <2>1. B \in SUBSET SUBSET S
    OBVIOUS
  <2>2. PICK U \in B : \A V \in SUBSET U : V # U => V \notin B
    <3> HIDE DEF B
    <3> QED
      BY <1>1, <2>1, SmallestSubset
  <2>3. U \in SUBSET S /\ SumFunctionOnSet(f, U) \notin Nat /\ IsFiniteSet(U)
    BY FS_Subset
  <2>4. U # {}
    BY <2>3, SumOfNone
  <2>5. /\ One(U) \in U
        /\ SumFunctionOnSet(f, U) = f[One(U)] + SumFunctionOnSet(f, U \ {One(U)})
    BY <2>3, <2>4, SumNext
  <2>6. SumFunctionOnSet(f, U \ {One(U)}) \in Nat
    BY <2>2, <2>3, <2>5
  <2> HIDE DEF B
  <2>7. f[One(U)] \in Nat
    BY <2>3, <2>5
  <2> QED
    BY <2>3, <2>5, <2>6, <2>7
<1>2. S \notin B
  <2> HIDE DEF B
  <2> QED
    BY <1>1
<1> QED
  BY <1>2

(* Any of the elements, and the others. *)
LEMMA SumWithout ==
  ASSUME NEW S, IsFiniteSet(S), NEW f, \A y \in S : f[y] \in Nat, NEW x \in S
  PROVE  SumFunctionOnSet(f, S) = f[x] + SumFunctionOnSet(f, S \ {x})
<1> DEFINE Sum(U) == SumFunctionOnSet(f, U)
           Wrong(U) == \E y \in U : Sum(U) # f[y] + Sum(U \ {y})
           B == {U \in SUBSET S : Wrong(U)}
<1>1. ASSUME B # {} PROVE FALSE
  <2>1. B \in SUBSET SUBSET S
    OBVIOUS
  <2>2. PICK U \in B : \A V \in SUBSET U : V # U => V \notin B
    <3> HIDE DEF B
    <3> QED
      BY <1>1, <2>1, SmallestSubset
  <2>3. U \in SUBSET S /\ Wrong(U)
    OBVIOUS
  <2>4. PICK y \in U : Sum(U) # f[y] + Sum(U \ {y})
    BY <2>3
  <2> DEFINE z == One(U)
  <2>5. IsFiniteSet(U) /\ U # {}
    BY <2>3, <2>4, FS_Subset
  <2>6. z \in U /\ Sum(U) = f[z] + Sum(U \ {z})
    BY <2>5, SumNext
  <2> HIDE DEF z
  <2>7. y # z
    BY <2>4, <2>6
  <2>8. ASSUME NEW V \in SUBSET U, V # U, NEW w \in V
        PROVE  Sum(V) = f[w] + Sum(V \ {w})
    <3>1. V \in SUBSET S /\ V \notin B
      BY <2>2, <2>3, <2>8
    <3> QED
      BY <3>1
  <2>9. Sum(U \ {z}) = f[y] + Sum((U \ {z}) \ {y})
    <3>1. U \ {z} \in SUBSET U /\ U \ {z} # U /\ y \in U \ {z}
      BY <2>6, <2>7
    <3> HIDE DEF Sum
    <3> QED
      BY <2>8, <3>1
  <2>10. Sum(U \ {y}) = f[z] + Sum((U \ {y}) \ {z})
    <3>1. U \ {y} \in SUBSET U /\ U \ {y} # U /\ z \in U \ {y}
      BY <2>6, <2>7
    <3> HIDE DEF Sum
    <3> QED
      BY <2>8, <3>1
  <2>11. (U \ {z}) \ {y} = (U \ {y}) \ {z}
    OBVIOUS
  <2>12. /\ f[y] \in Nat /\ f[z] \in Nat
         /\ Sum((U \ {y}) \ {z}) \in Nat
    <3>1. IsFiniteSet((U \ {y}) \ {z}) /\ \A v \in (U \ {y}) \ {z} : f[v] \in Nat
      BY <2>3, <2>5, FS_Subset
    <3> QED
      BY <2>3, <2>6, <3>1, SumIsNat
  <2> HIDE DEF Sum
  <2>13. Sum((U \ {z}) \ {y}) = Sum((U \ {y}) \ {z})
    BY <2>11
  <2> QED
    BY <2>4, <2>6, <2>9, <2>10, <2>12, <2>13
<1>2. S \notin B
  <2> HIDE DEF B
  <2> QED
    BY <1>1
<1> QED
  BY <1>2

(* What changes in one place, changes the sum by as much. *)
LEMMA SumChanged ==
  ASSUME NEW S, IsFiniteSet(S), NEW x \in S, NEW e, NEW f,
         \A y \in S : e[y] \in Nat /\ f[y] \in Nat,
         \A y \in S \ {x} : e[y] = f[y]
  PROVE  SumFunctionOnSet(f, S) + e[x] = SumFunctionOnSet(e, S) + f[x]
<1> DEFINE T == S \ {x}
<1>1. IsFiniteSet(T) /\ \A y \in T : e[y] \in Nat /\ f[y] \in Nat
  BY FS_Subset
<1>2. SumFunctionOnSet(e, T) = SumFunctionOnSet(f, T)
  BY <1>1, SumSame
<1>3. SumFunctionOnSet(e, T) \in Nat
  BY <1>1, SumIsNat
<1>4. /\ SumFunctionOnSet(e, S) = e[x] + SumFunctionOnSet(e, T)
      /\ SumFunctionOnSet(f, S) = f[x] + SumFunctionOnSet(f, T)
  BY SumWithout
<1> HIDE DEF T
<1>5. e[x] \in Nat /\ f[x] \in Nat
  OBVIOUS
<1> QED
  BY <1>2, <1>3, <1>4, <1>5

(* What is nowhere less, does not add up to less. *)
LEMMA SumAtMost ==
  ASSUME NEW S, IsFiniteSet(S), NEW e, NEW f,
         \A y \in S : e[y] \in Nat /\ f[y] \in Nat /\ e[y] <= f[y]
  PROVE  SumFunctionOnSet(e, S) <= SumFunctionOnSet(f, S)
<1> DEFINE More(U) == ~(SumFunctionOnSet(e, U) <= SumFunctionOnSet(f, U))
           B == {U \in SUBSET S : More(U)}
<1>1. ASSUME B # {} PROVE FALSE
  <2>1. B \in SUBSET SUBSET S
    OBVIOUS
  <2>2. PICK U \in B : \A V \in SUBSET U : V # U => V \notin B
    <3> HIDE DEF B
    <3> QED
      BY <1>1, <2>1, SmallestSubset
  <2>3. U \in SUBSET S /\ More(U) /\ IsFiniteSet(U)
    BY FS_Subset
  <2>4. U # {}
    BY <2>3, SumOfNone
  <2> DEFINE T == U \ {One(U)}
  <2>5. /\ One(U) \in U
        /\ SumFunctionOnSet(e, U) = e[One(U)] + SumFunctionOnSet(e, T)
        /\ SumFunctionOnSet(f, U) = f[One(U)] + SumFunctionOnSet(f, T)
    BY <2>3, <2>4, SumNext
  <2>6. ~More(T) /\ IsFiniteSet(T) /\ T \in SUBSET S
    BY <2>2, <2>3, <2>5, FS_Subset
  <2>7. SumFunctionOnSet(e, T) \in Nat /\ SumFunctionOnSet(f, T) \in Nat
    BY <2>6, SumIsNat
  <2> HIDE DEF B, T
  <2>8. e[One(U)] \in Nat /\ f[One(U)] \in Nat /\ e[One(U)] <= f[One(U)]
    BY <2>3, <2>5
  <2> QED
    BY <2>3, <2>5, <2>6, <2>7, <2>8
<1>2. S \notin B
  <2> HIDE DEF B
  <2> QED
    BY <1>1
<1> QED
  BY <1>2

(* What is everywhere so many times more, adds up to so many times more. *)
LEMMA SumTimes ==
  ASSUME NEW S, IsFiniteSet(S), NEW u \in Nat, NEW e, NEW f,
         \A y \in S : f[y] \in Nat /\ e[y] = u * f[y]
  PROVE  SumFunctionOnSet(e, S) = u * SumFunctionOnSet(f, S)
<1> DEFINE Wrong(U) == SumFunctionOnSet(e, U) # u * SumFunctionOnSet(f, U)
           B == {U \in SUBSET S : Wrong(U)}
<1>1. ASSUME B # {} PROVE FALSE
  <2>1. B \in SUBSET SUBSET S
    OBVIOUS
  <2>2. PICK U \in B : \A V \in SUBSET U : V # U => V \notin B
    <3> HIDE DEF B
    <3> QED
      BY <1>1, <2>1, SmallestSubset
  <2>3. U \in SUBSET S /\ Wrong(U) /\ IsFiniteSet(U)
    BY FS_Subset
  <2>4. U # {}
    <3>1. SumFunctionOnSet(e, {}) = 0 /\ SumFunctionOnSet(f, {}) = 0
      BY SumOfNone
    <3> QED
      BY <2>3, <3>1
  <2> DEFINE T == U \ {One(U)}
  <2>5. /\ One(U) \in U
        /\ SumFunctionOnSet(e, U) = e[One(U)] + SumFunctionOnSet(e, T)
        /\ SumFunctionOnSet(f, U) = f[One(U)] + SumFunctionOnSet(f, T)
    BY <2>3, <2>4, SumNext
  <2>6. ~Wrong(T) /\ IsFiniteSet(T) /\ T \in SUBSET S
    BY <2>2, <2>3, <2>5, FS_Subset
  <2>7. SumFunctionOnSet(f, T) \in Nat
    BY <2>6, SumIsNat
  <2> HIDE DEF B, T
  <2>8. f[One(U)] \in Nat /\ e[One(U)] = u * f[One(U)]
    BY <2>3, <2>5
  <2>9. u * (f[One(U)] + SumFunctionOnSet(f, T))
          = u * f[One(U)] + u * SumFunctionOnSet(f, T)
    BY <2>7, <2>8
  <2> QED
    BY <2>3, <2>5, <2>6, <2>8, <2>9
<1>2. S \notin B
  <2> HIDE DEF B
  <2> QED
    BY <1>1
<1> QED
  BY <1>2

(* Nor does what is nowhere less when counted so many times, and more if  *)
(* it is more somewhere.                                                  *)
LEMMA SumScaled ==
  ASSUME NEW S, IsFiniteSet(S), NEW u \in Nat, NEW v \in Nat, NEW e, NEW f,
         \A y \in S : e[y] \in Nat /\ f[y] \in Nat /\ u * e[y] <= v * f[y]
  PROVE  /\ u * SumFunctionOnSet(e, S) <= v * SumFunctionOnSet(f, S)
         /\ \A x \in S : u * e[x] < v * f[x] =>
              u * SumFunctionOnSet(e, S) < v * SumFunctionOnSet(f, S)
<1> DEFINE g == [y \in S |-> u * e[y]]
           h == [y \in S |-> v * f[y]]
<1>1. \A y \in S : g[y] \in Nat /\ h[y] \in Nat /\ g[y] <= h[y]
  OBVIOUS
<1>2. SumFunctionOnSet(g, S) = u * SumFunctionOnSet(e, S)
  <2>1. \A y \in S : e[y] \in Nat /\ g[y] = u * e[y]
    OBVIOUS
  <2> HIDE DEF g
  <2> QED
    BY <2>1, SumTimes
<1>3. SumFunctionOnSet(h, S) = v * SumFunctionOnSet(f, S)
  <2>1. \A y \in S : f[y] \in Nat /\ h[y] = v * f[y]
    OBVIOUS
  <2> HIDE DEF h
  <2> QED
    BY <2>1, SumTimes
<1>4. SumFunctionOnSet(g, S) <= SumFunctionOnSet(h, S)
  <2> HIDE DEF g, h
  <2> QED
    BY <1>1, SumAtMost
<1>5. ASSUME NEW x \in S, u * e[x] < v * f[x]
      PROVE  SumFunctionOnSet(g, S) < SumFunctionOnSet(h, S)
  <2>1. g[x] < h[x]
    BY <1>5
  <2> HIDE DEF g, h
  <2>2. IsFiniteSet(S \ {x}) /\ \A y \in S \ {x} : y \in S
    BY FS_Subset
  <2>3. SumFunctionOnSet(g, S \ {x}) <= SumFunctionOnSet(h, S \ {x})
    BY <1>1, <2>2, SumAtMost
  <2>4. /\ SumFunctionOnSet(g, S \ {x}) \in Nat
        /\ SumFunctionOnSet(h, S \ {x}) \in Nat
    BY <1>1, <2>2, SumIsNat
  <2>5. /\ SumFunctionOnSet(g, S) = g[x] + SumFunctionOnSet(g, S \ {x})
        /\ SumFunctionOnSet(h, S) = h[x] + SumFunctionOnSet(h, S \ {x})
    BY <1>1, SumWithout
  <2> QED
    BY <1>1, <2>1, <2>3, <2>4, <2>5
<1> HIDE DEF g, h
<1> QED
  BY <1>2, <1>3, <1>4, <1>5

(* Ones add up to how many there are. *)
LEMMA SumOfOnes ==
  ASSUME NEW S, IsFiniteSet(S), NEW f, \A y \in S : f[y] = 1
  PROVE  SumFunctionOnSet(f, S) = Cardinality(S)
<1> DEFINE Wrong(U) == SumFunctionOnSet(f, U) # Cardinality(U)
           B == {U \in SUBSET S : Wrong(U)}
<1>1. ASSUME B # {} PROVE FALSE
  <2>1. B \in SUBSET SUBSET S
    OBVIOUS
  <2>2. PICK U \in B : \A V \in SUBSET U : V # U => V \notin B
    <3> HIDE DEF B
    <3> QED
      BY <1>1, <2>1, SmallestSubset
  <2>3. U \in SUBSET S /\ Wrong(U) /\ IsFiniteSet(U)
    BY FS_Subset
  <2>4. U # {}
    BY <2>3, SumOfNone, FS_EmptySet
  <2> DEFINE T == U \ {One(U)}
  <2>5. One(U) \in U /\ SumFunctionOnSet(f, U) = f[One(U)] + SumFunctionOnSet(f, T)
    BY <2>3, <2>4, SumNext
  <2>6. ~Wrong(T)
    BY <2>2, <2>3, <2>5
  <2>7. Cardinality(U) \in Nat /\ Cardinality(T) = Cardinality(U) - 1
    BY <2>3, <2>5, FS_RemoveElement, FS_CardinalityType
  <2> HIDE DEF B, T
  <2>8. f[One(U)] = 1
    BY <2>3, <2>5
  <2> QED
    BY <2>3, <2>5, <2>6, <2>7, <2>8
<1>2. S \notin B
  <2> HIDE DEF B
  <2> QED
    BY <1>1
<1> QED
  BY <1>2

(* Numbers f, each rounded to a multiple of u with an error of p at most:  *)
(* e is how many of u, of what h puts in the place of each.  The sums       *)
(* differ by p for each of them at most.                                   *)
LEMMA SumsNear ==
  ASSUME NEW S, IsFiniteSet(S), NEW u \in Nat, NEW p \in Nat, NEW T, NEW h \in [S -> T],
         NEW e, NEW f,
         \A x, y \in S : h[x] = h[y] => x = y, \A t \in T : \E x \in S : t = h[x],
         \A x \in S : /\ f[x] \in Nat /\ e[h[x]] \in Nat
                      /\ u * e[h[x]] <= f[x] + p
                      /\ f[x] <= u * e[h[x]] + p
  PROVE  /\ IsFiniteSet(T)
         /\ u * SumFunctionOnSet(e, T) <= SumFunctionOnSet(f, S) + Cardinality(T) * p
         /\ SumFunctionOnSet(f, S) <= u * SumFunctionOnSet(e, T) + Cardinality(T) * p
<1> DEFINE Put(U) == {h[x] : x \in U}
           Near(U) ==
             /\ IsFiniteSet(Put(U))
             /\ u * SumFunctionOnSet(e, Put(U)) <= SumFunctionOnSet(f, U) + Cardinality(Put(U)) * p
             /\ SumFunctionOnSet(f, U) <= u * SumFunctionOnSet(e, Put(U)) + Cardinality(Put(U)) * p
           B == {U \in SUBSET S : ~Near(U)}
<1>1. ASSUME B # {} PROVE FALSE
  <2>1. B \in SUBSET SUBSET S
    OBVIOUS
  <2>2. PICK U \in B : \A V \in SUBSET U : V # U => V \notin B
    <3> HIDE DEF B
    <3> QED
      BY <1>1, <2>1, SmallestSubset
  <2>3. U \in SUBSET S /\ ~Near(U) /\ IsFiniteSet(U)
    BY FS_Subset
  <2>4. U # {}
    <3>1. ASSUME U = {} PROVE Near(U)
      <4>1. Put(U) = {}
        BY <3>1
      <4>2. SumFunctionOnSet(e, {}) = 0 /\ SumFunctionOnSet(f, {}) = 0
        BY SumOfNone
      <4>3. IsFiniteSet({}) /\ Cardinality({}) = 0
        BY FS_EmptySet
      <4>4. u * 0 <= 0 + 0 * p /\ 0 <= u * 0 + 0 * p
        OBVIOUS
      <4> HIDE DEF Put
      <4> QED
        BY <3>1, <4>1, <4>2, <4>3, <4>4, Zenon
    <3> HIDE DEF Near
    <3> QED
      BY <2>3, <3>1
  <2>5. PICK x \in U : TRUE
    BY <2>4
  <2> DEFINE V == U \ {x}
  <2>6. V \in SUBSET U /\ V # U /\ V \in SUBSET S /\ IsFiniteSet(V) /\ x \in S
    BY <2>3, <2>5, FS_Subset
  <2>7. Near(V)
    <3> HIDE DEF V, Near
    <3>1. V \notin B
      <4> HIDE DEF B
      <4> QED
        BY <2>2, <2>6
    <3> QED
      BY <2>6, <3>1
  <2>8. h[x] \notin Put(V) /\ Put(U) = Put(V) \cup {h[x]} /\ Put(V) = Put(U) \ {h[x]}
    BY <2>3, <2>5
  <2>9. /\ \A y \in U : f[y] \in Nat
        /\ \A y \in Put(U) : e[y] \in Nat
        /\ \A y \in V : f[y] \in Nat
        /\ \A y \in Put(V) : e[y] \in Nat
    BY <2>3
  <2>10. IsFiniteSet(Put(V))
    BY <2>7
  <2> DEFINE P == Put(U)
             Q == Put(V)
  <2>11. /\ IsFiniteSet(P) /\ Cardinality(P) = Cardinality(Q) + 1
         /\ Cardinality(Q) \in Nat
    <3>1. /\ IsFiniteSet(Q) /\ h[x] \notin Q /\ P = Q \cup {h[x]}
      BY <2>8, <2>10
    <3> HIDE DEF P, Q
    <3>2. /\ IsFiniteSet(Q \cup {h[x]})
          /\ Cardinality(Q \cup {h[x]}) = Cardinality(Q) + 1
      BY <3>1, FS_AddElement
    <3> QED
      BY <3>1, <3>2, FS_CardinalityType
  <2>12. SumFunctionOnSet(f, U) = f[x] + SumFunctionOnSet(f, V)
    BY <2>3, <2>5, <2>9, SumWithout
  <2>13. SumFunctionOnSet(e, P) = e[h[x]] + SumFunctionOnSet(e, Q)
    <3>1. h[x] \in P /\ Q = P \ {h[x]}
      BY <2>8
    <3> HIDE DEF P, Q
    <3> QED
      BY <2>9, <2>11, <3>1, SumWithout DEF P
  <2>14. SumFunctionOnSet(f, V) \in Nat
    <3> HIDE DEF V
    <3> QED
      BY <2>6, <2>9, SumIsNat
  <2>15. SumFunctionOnSet(e, Q) \in Nat
    BY <2>9, <2>10, SumIsNat
  <2>16. /\ f[x] \in Nat /\ e[h[x]] \in Nat
         /\ u * e[h[x]] <= f[x] + p /\ f[x] <= u * e[h[x]] + p
    BY <2>6
  <2>17. /\ u * SumFunctionOnSet(e, Q) <= SumFunctionOnSet(f, V) + Cardinality(Q) * p
         /\ SumFunctionOnSet(f, V) <= u * SumFunctionOnSet(e, Q) + Cardinality(Q) * p
    BY <2>7
  <2> HIDE DEF B, V, P, Q, Put
  <2>18. ASSUME NEW n \in Nat, NEW a \in Nat, NEW b \in Nat
         PROVE  (n + 1) * p = n * p + p /\ n * p \in Nat
                /\ u * (a + b) = u * a + u * b /\ u * a \in Nat /\ u * b \in Nat
    OBVIOUS
  <2>19. /\ u * SumFunctionOnSet(e, P) <= SumFunctionOnSet(f, U) + Cardinality(P) * p
         /\ SumFunctionOnSet(f, U) <= u * SumFunctionOnSet(e, P) + Cardinality(P) * p
    <3>1. /\ Cardinality(P) * p = Cardinality(Q) * p + p /\ Cardinality(Q) * p \in Nat
          /\ u * SumFunctionOnSet(e, P) = u * e[h[x]] + u * SumFunctionOnSet(e, Q)
          /\ u * e[h[x]] \in Nat /\ u * SumFunctionOnSet(e, Q) \in Nat
      BY <2>11, <2>13, <2>15, <2>16, <2>18
    <3>2. PICK a, b, c, d, s, t : /\ a = u * e[h[x]] /\ b = u * SumFunctionOnSet(e, Q)
                                  /\ c = Cardinality(Q) * p /\ d = SumFunctionOnSet(f, V)
                                  /\ s = u * SumFunctionOnSet(e, P) /\ t = Cardinality(P) * p
      OBVIOUS
    <3>3. /\ a \in Nat /\ b \in Nat /\ c \in Nat /\ d \in Nat /\ f[x] \in Nat /\ s = a + b /\ t = c + p
          /\ a <= f[x] + p /\ f[x] <= a + p /\ b <= d + c /\ d <= b + c
      BY <2>14, <2>16, <2>17, <3>1, <3>2
    <3>4. s <= f[x] + d + t /\ f[x] + d <= s + t
      BY <3>3
    <3> QED
      BY <2>12, <3>2, <3>4
  <2>20. Near(U)
    BY <2>11, <2>19 DEF P
  <2> HIDE DEF Near
  <2> QED
    BY <2>3, <2>20
<1>2. S \notin B
  <2> HIDE DEF B
  <2> QED
    BY <1>1
<1>3. Near(S)
  BY <1>2
<1>4. Put(S) = T
  OBVIOUS
<1> HIDE DEF Put
<1> QED
  BY <1>3, <1>4

(* A part does not add up to more, and to as much if the rest is nothing. *)
LEMMA SumOfPart ==
  ASSUME NEW S, IsFiniteSet(S), NEW f, \A y \in S : f[y] \in Nat, NEW T \in SUBSET S
  PROVE  /\ SumFunctionOnSet(f, T) <= SumFunctionOnSet(f, S)
         /\ (\A y \in S \ T : f[y] = 0)
              => SumFunctionOnSet(f, T) = SumFunctionOnSet(f, S)
<1> DEFINE Sum(U) == SumFunctionOnSet(f, U)
           Right(U) == /\ Sum(T) <= Sum(U)
                       /\ (\A y \in U \ T : f[y] = 0) => Sum(T) = Sum(U)
           B == {U \in SUBSET S : T \subseteq U /\ ~Right(U)}
<1>1. ASSUME B # {} PROVE FALSE
  <2>1. B \in SUBSET SUBSET S
    OBVIOUS
  <2>2. PICK U \in B : \A V \in SUBSET U : V # U => V \notin B
    <3> HIDE DEF B
    <3> QED
      BY <1>1, <2>1, SmallestSubset
  <2>3. U \in SUBSET S /\ T \subseteq U /\ ~Right(U) /\ IsFiniteSet(U)
    BY FS_Subset
  <2>4. IsFiniteSet(T) /\ \A y \in U : f[y] \in Nat
    BY <2>3, FS_Subset
  <2>5. Sum(U) \in Nat /\ Sum(T) \in Nat
    BY <2>3, <2>4, SumIsNat
  <2>6. T # U
    BY <2>3, <2>5
  <2>7. PICK x \in U : x \notin T
    BY <2>3, <2>6
  <2> DEFINE V == U \ {x}
  <2>8. V \in SUBSET U /\ V # U /\ T \subseteq V /\ V \in SUBSET S
    BY <2>3, <2>7
  <2>9. Right(V)
    <3>1. V \notin B
      <4> HIDE DEF B, V
      <4> QED
        BY <2>2, <2>8
    <3> QED
      BY <2>8, <3>1
  <2>10. IsFiniteSet(V) /\ Sum(U) = f[x] + Sum(V)
    BY <2>3, <2>4, SumWithout, FS_Subset
  <2>11. Sum(V) \in Nat /\ f[x] \in Nat
    BY <2>4, <2>8, <2>10, SumIsNat
  <2> HIDE DEF B, Sum, V
  <2>12. Sum(T) <= Sum(U)
    BY <2>5, <2>9, <2>10, <2>11
  <2>13. ASSUME \A y \in U \ T : f[y] = 0
         PROVE  Sum(T) = Sum(U)
    <3>1. f[x] = 0 /\ \A y \in V \ T : f[y] = 0
      BY <2>7, <2>8, <2>13
    <3> QED
      BY <2>5, <2>9, <2>10, <2>11, <3>1
  <2> QED
    BY <2>3, <2>12, <2>13
<1>2. S \notin B
  <2> HIDE DEF B
  <2> QED
    BY <1>1
<1>3. Right(S)
  <2> HIDE DEF Right
  <2> QED
    BY <1>2
<1> QED
  BY <1>3

-----------------------------------------------------------------------------
(* Ranks and pages.                                                        *)

(* The least of some numbers. *)
LEMMA LeastOf ==
  ASSUME NEW S \in SUBSET Nat, S # {}
  PROVE  \E x \in S : \A y \in S : x <= y
<1> DEFINE R == {p \in Nat \X Nat : p[1] < p[2]}
<1>1. IsWellFoundedOn(R, Nat)
  BY NatLessThanWellFounded DEF OpToRel
<1>2. PICK x \in S : \A y \in S : <<y, x>> \notin R
  <2> HIDE DEF R
  <2> QED
    BY <1>1, WFMin
<1>3. \A y \in S : ~(y < x)
  BY <1>2
<1> QED
  BY <1>3

(* If one of them has m others above it, then for every smaller number n   *)
(* one of them has n others above it.                                      *)
LEMMA RanksFill ==
  ASSUME NEW S \in SUBSET Nat, IsFiniteSet(S), NEW x \in S,
         NEW n \in Nat, n <= Cardinality({z \in S : z > x})
  PROVE  \E y \in S : Cardinality({z \in S : z > y}) = n
<1> DEFINE Above(y) == {z \in S : z > y}
           Rank(y) == Cardinality(Above(y))
           m == Rank(x)
           Missing == {k \in 0 .. m : \A y \in S : Rank(y) # k}
<1>1. \A y \in S : IsFiniteSet(Above(y)) /\ Rank(y) \in Nat
  BY FS_Subset, FS_CardinalityType
<1>2. m \in Nat /\ n \in 0 .. m
  BY <1>1
<1>3. ASSUME Missing # {} PROVE FALSE
  <2>1. Missing \in SUBSET (0 .. m)
    OBVIOUS
  <2>2. PICK k \in Missing : \A l \in Missing : k >= l
    <3> HIDE DEF Missing, m
    <3> QED
      BY <1>2, <1>3, <2>1, LargestOf
  <2>3. k \in 0 .. m /\ k # m
    BY <2>2
  <2>4. k + 1 \in 0 .. m /\ k + 1 \notin Missing
    <3> HIDE DEF Missing, m
    <3> QED
      BY <1>2, <2>1, <2>2, <2>3
  <2>5. PICK y \in S : Rank(y) = k + 1
    BY <2>4
  <2>6. Above(y) # {}
    <3>1. Rank(y) # 0
      <4> HIDE DEF Rank, m
      <4> QED
        BY <1>2, <2>3, <2>5
    <3> QED
      BY <1>1, <3>1, FS_EmptySet
  <2>7. PICK z \in Above(y) : \A u \in Above(y) : z <= u
    <3>1. Above(y) \in SUBSET Nat
      OBVIOUS
    <3> HIDE DEF Above
    <3> QED
      BY <2>6, <3>1, LeastOf
  <2>8. z \in S /\ Above(z) = Above(y) \ {z}
    <3>1. z \in S /\ z > y /\ y \in Nat /\ z \in Nat
      OBVIOUS
    <3>2. ASSUME NEW u \in Above(y), u # z PROVE u > z
      <4>1. u \in Nat /\ z <= u
        BY <2>7
      <4> QED
        BY <3>1, <3>2, <4>1
    <3>3. ASSUME NEW u \in S, u > z PROVE u > y /\ u # z
      BY <3>1, <3>3
    <3> QED
      BY <3>1, <3>2, <3>3
  <2>9. Rank(z) = Rank(y) - 1
    <3>1. Cardinality(Above(y) \ {z}) = Cardinality(Above(y)) - 1
      <4> HIDE DEF Above
      <4> QED
        BY <1>1, <2>7, FS_RemoveElement
    <3> QED
      BY <2>8, <3>1
  <2>10. Rank(z) = k
    <3> HIDE DEF Rank, m
    <3> QED
      BY <1>2, <2>3, <2>5, <2>9
  <2> QED
    BY <2>2, <2>8, <2>10
<1>4. n \notin Missing
  <2> HIDE DEF Missing
  <2> QED
    BY <1>3
<1> QED
  BY <1>2, <1>4

(* A page of n numbers, counted down from the largest, is full if another  *)
(* number comes behind it.                                                 *)
LEMMA PageIsFull ==
  ASSUME NEW S \in SUBSET Nat, IsFiniteSet(S), NEW x \in S, NEW a \in Nat, NEW n \in Nat,
         a + n <= Cardinality({z \in S : z > x})
  PROVE  Cardinality({y \in S : /\ Cardinality({z \in S : z > y}) >= a
                                /\ Cardinality({z \in S : z > y}) < a + n}) >= n
<1> DEFINE Rank(y) == Cardinality({z \in S : z > y})
           P == {y \in S : Rank(y) >= a /\ Rank(y) < a + n}
           Ranks == a .. (a + n - 1)
           f == [y \in P |-> Rank(y)]
<1>1. \A y \in S : Rank(y) \in Nat
  BY FS_Subset, FS_CardinalityType
<1>2. ASSUME NEW r \in Ranks PROVE \E y \in P : f[y] = r
  <2>1. r \in Nat /\ r >= a /\ r < a + n /\ r <= Rank(x)
    <3>1. Rank(x) \in Nat /\ a + n <= Rank(x)
      BY <1>1
    <3> HIDE DEF Rank
    <3> QED
      BY <3>1
  <2>2. PICK y \in S : Rank(y) = r
    BY <2>1, RanksFill
  <2> HIDE DEF Rank
  <2> QED
    BY <2>1, <2>2
<1>3. f \in [P -> Ranks]
  <2>1. ASSUME NEW y \in P PROVE Rank(y) \in Ranks
    <3>1. Rank(y) \in Nat /\ Rank(y) >= a /\ Rank(y) < a + n
      BY <1>1
    <3> HIDE DEF Rank
    <3> QED
      BY <3>1
  <2> HIDE DEF Rank, Ranks, P
  <2> QED
    BY <2>1
<1>4. f \in Surjection(P, Ranks)
  <2> HIDE DEF f, P, Ranks
  <2> QED
    BY <1>2, <1>3 DEF Surjection
<1>5. IsFiniteSet(P)
  BY FS_Subset
<1>6. Cardinality(Ranks) <= Cardinality(P) /\ Cardinality(P) \in Nat
  <2> HIDE DEF f, P, Ranks
  <2> QED
    BY <1>4, <1>5, FS_Surjection, FS_CardinalityType
<1>7. Cardinality(Ranks) = n
  <2>1. a \in Int /\ a + n - 1 \in Int
    OBVIOUS
  <2>2. Cardinality(Ranks) = IF a > a + n - 1 THEN 0 ELSE (a + n - 1) - a + 1
    BY <2>1, FS_Interval
  <2> QED
    BY <2>2
<1> HIDE DEF P, Ranks
<1>8. Cardinality(P) >= n
  BY <1>6, <1>7
<1> QED
  BY <1>8 DEF P
=============================================================================
