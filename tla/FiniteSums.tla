------------------------------ MODULE FiniteSums ------------------------------
(***************************************************************************)
(* What SumFunctionOnSet of the module Functions returns: the sum of f[x]  *)
(* over a finite set of indices, whatever order they are taken in.  The    *)
(* library defines it by a recursive function that takes the indices in    *)
(* the order of CHOOSE; that such a function exists is proved here, by the *)
(* well-foundedness of the strict subsets of a finite set.  The proofs     *)
(* about points (SettlementProofs) and about the demo (MemberAppProofs)    *)
(* rest on these lemmas.                                                   *)
(***************************************************************************)
EXTENDS Integers, FiniteSets, Functions, FiniteSetTheorems, TLAPS

\* The index that is taken first, and the recursive function of the library.
First(s) == CHOOSE x \in s : TRUE

Iterates(g, f, D) ==
    g = [s \in D |-> IF s = {} THEN 0 ELSE f[First(s)] + g[s \ {First(s)}]]

Smaller(S, n) == {s \in SUBSET S : Cardinality(s) <= n}

\* The library's definition, named.
LEMMA SumIsIterated ==
  \A f, S : SumFunctionOnSet(f, S) = (CHOOSE g : Iterates(g, f, SUBSET S))[S]
  BY DEF SumFunctionOnSet, FoldFunctionOnSet, MapThenFoldSet, Iterates, First

\* A set of subsets of a finite set has one with no strict subset among them.
LEMMA MinimalSubset ==
  ASSUME NEW S, IsFiniteSet(S), NEW T \in SUBSET SUBSET S, T # {}
  PROVE  \E U \in T : \A V \in T : ~ (V \subseteq U /\ V # U)
<1>1. IsWellFoundedOn(StrictSubsetOrdering(S), SUBSET S)
  BY FS_StrictSubsetOrderingWellFounded, FS_FiniteSubsetsOfFinite
<1> DEFINE R == StrictSubsetOrdering(S)
<1>2. \E U \in T : \A V \in T : ~ (<<V, U>> \in R)
  <2> HIDE DEF R
  <2>1. IsWellFoundedOn(R, SUBSET S)
    BY <1>1 DEF R
  <2> QED BY <2>1, WFMin
<1>3. PICK U \in T : \A V \in T : ~ (<<V, U>> \in R)
  BY <1>2
<1>4. ASSUME NEW V \in T, V \subseteq U, V # U PROVE FALSE
  <2>1. <<V, U>> \in R
    BY <1>4 DEF StrictSubsetOrdering
  <2> QED BY <2>1, <1>3
<1> QED BY <1>3, <1>4

\* A finite set without one of its elements.
LEMMA WithoutOne ==
  ASSUME NEW S, IsFiniteSet(S), NEW U \in SUBSET S, NEW x \in U
  PROVE  /\ U \ {x} \in SUBSET S /\ U \ {x} # U
         /\ IsFiniteSet(U) /\ IsFiniteSet(U \ {x})
         /\ Cardinality(U) \in Nat /\ Cardinality(U \ {x}) \in Nat
         /\ Cardinality(U \ {x}) = Cardinality(U) - 1
<1>1. IsFiniteSet(U) /\ Cardinality(U) \in Nat
  BY FS_Subset, FS_CardinalityType
<1>2. IsFiniteSet(U \ {x}) /\ Cardinality(U \ {x}) = Cardinality(U) - 1
  BY <1>1, FS_RemoveElement
<1>3. Cardinality(U \ {x}) \in Nat
  BY <1>2, FS_CardinalityType
<1> QED BY <1>1, <1>2, <1>3

\* The recursive function exists, first for the subsets of each size.
LEMMA IterationExists ==
  ASSUME NEW f, NEW S, IsFiniteSet(S)
  PROVE  \E g : Iterates(g, f, SUBSET S)
<1> DEFINE Has(n) == \E g : Iterates(g, f, Smaller(S, n))
           T == {U \in SUBSET S : ~ Has(Cardinality(U))}
<1>1. SUFFICES Has(Cardinality(S))
  <2>1. Smaller(S, Cardinality(S)) = SUBSET S
    BY FS_Subset DEF Smaller
  <2> QED BY <2>1
<1>2. T = {}
  <2> SUFFICES ASSUME T # {} PROVE FALSE
    OBVIOUS
  <2>1. PICK U \in T : \A V \in T : ~ (V \subseteq U /\ V # U)
    <3> HIDE DEF T
    <3>1. T \in SUBSET SUBSET S
      BY DEF T
    <3> QED BY <3>1, MinimalSubset
  <2>2. U \in SUBSET S /\ ~ Has(Cardinality(U))
    OBVIOUS
  <2>3. U # {}
    <3> SUFFICES ASSUME U = {} PROVE FALSE
      OBVIOUS
    <3>1. Smaller(S, 0) = {{}}
      <4>1. ASSUME NEW s \in SUBSET S PROVE Cardinality(s) <= 0 <=> s = {}
        BY FS_EmptySet, FS_Subset, FS_CardinalityType
      <4> QED BY <4>1 DEF Smaller
    <3> DEFINE g == [s \in {{}} |-> 0]
    <3>2. Iterates(g, f, {{}})
      BY DEF Iterates
    <3>3. Has(0)
      BY <3>1, <3>2
    <3> QED BY <3>3, <2>2, FS_EmptySet
  <2>4. PICK x \in U : TRUE
    BY <2>3
  <2> DEFINE n == Cardinality(U) - 1
  <2>5. /\ U \ {x} \in SUBSET S /\ U \ {x} # U
        /\ Cardinality(U \ {x}) = n /\ n \in Nat /\ n + 1 = Cardinality(U)
    <3>1. /\ U \ {x} \in SUBSET S /\ U \ {x} # U
          /\ Cardinality(U) \in Nat /\ Cardinality(U \ {x}) \in Nat
          /\ Cardinality(U \ {x}) = Cardinality(U) - 1
      <4> HIDE DEF T
      <4> QED BY <2>2, WithoutOne
    <3> QED BY <3>1
  <2>6. Has(n)
    BY <2>1, <2>5
  <2>7. PICK g : Iterates(g, f, Smaller(S, n))
    BY <2>6
  <2> DEFINE next(s) == IF s = {} THEN 0 ELSE f[First(s)] + g[s \ {First(s)}]
             h == [s \in Smaller(S, n + 1) |-> next(s)]
  <2>8. ASSUME NEW s \in Smaller(S, n + 1), s # {}
        PROVE  s \ {First(s)} \in Smaller(S, n) /\ s \ {First(s)} \in Smaller(S, n + 1)
    <3>1. First(s) \in s
      BY <2>8 DEF First
    <3>2. s \in SUBSET S /\ Cardinality(s) <= n + 1
      BY DEF Smaller
    <3>3. /\ s \ {First(s)} \in SUBSET S
          /\ Cardinality(s) \in Nat /\ Cardinality(s \ {First(s)}) = Cardinality(s) - 1
      BY <3>1, <3>2, WithoutOne
    <3> QED BY <3>2, <3>3, <2>5 DEF Smaller
  <2>9. ASSUME NEW s \in Smaller(S, n) PROVE g[s] = next(s)
    BY <2>7 DEF Iterates
  <2>10. ASSUME NEW s \in Smaller(S, n + 1), s # {}
         PROVE  h[s \ {First(s)}] = g[s \ {First(s)}]
    BY <2>8, <2>9, <2>10
  <2>11. Iterates(h, f, Smaller(S, n + 1))
    BY <2>10 DEF Iterates
  <2> QED BY <2>11, <2>5, <2>2
<1> QED BY <1>2

\* It does not depend on f outside the set, nor on the set it is taken over.
LEMMA IterationIsUnique ==
  ASSUME NEW S, IsFiniteSet(S), NEW e, NEW f, NEW g, NEW h,
         Iterates(g, f, SUBSET S), Iterates(h, e, SUBSET S), \A x \in S : e[x] = f[x]
  PROVE  g[S] = h[S]
<1> DEFINE W == {U \in SUBSET S : g[U] # h[U]}
<1>1. W = {}
  <2> SUFFICES ASSUME W # {} PROVE FALSE
    OBVIOUS
  <2>1. PICK U \in W : \A V \in W : ~ (V \subseteq U /\ V # U)
    <3> HIDE DEF W
    <3>1. W \in SUBSET SUBSET S
      BY DEF W
    <3> QED BY <3>1, MinimalSubset
  <2>2. U \in SUBSET S /\ g[U] # h[U]
    OBVIOUS
  <2>3. U # {}
    BY <2>2 DEF Iterates
  <2>4. First(U) \in U
    BY <2>3 DEF First
  <2>5. U \ {First(U)} \in SUBSET S /\ U \ {First(U)} # U /\ U \ {First(U)} \subseteq U
    BY <2>2, <2>4
  <2>6. g[U \ {First(U)}] = h[U \ {First(U)}]
    BY <2>1, <2>5
  <2>7. g[U] = f[First(U)] + g[U \ {First(U)}]
    BY <2>2, <2>3 DEF Iterates
  <2>8. h[U] = e[First(U)] + h[U \ {First(U)}]
    BY <2>2, <2>3 DEF Iterates
  <2> QED BY <2>2, <2>4, <2>6, <2>7, <2>8
<1> QED BY <1>1

LEMMA SumIsIteration ==
  ASSUME NEW S, IsFiniteSet(S), NEW T \in SUBSET S, NEW f, NEW g,
         Iterates(g, f, SUBSET S)
  PROVE  SumFunctionOnSet(f, T) = g[T]
<1>1. IsFiniteSet(T)
  BY FS_Subset
<1> DEFINE h == CHOOSE k : Iterates(k, f, SUBSET T)
           k == [U \in SUBSET T |-> g[U]]
<1>2. Iterates(h, f, SUBSET T)
  BY <1>1, IterationExists
<1>3. SumFunctionOnSet(f, T) = h[T]
  BY SumIsIterated
<1>4. Iterates(k, f, SUBSET T)
  <2>1. ASSUME NEW U \in SUBSET T, U # {} PROVE k[U \ {First(U)}] = g[U \ {First(U)}]
    OBVIOUS
  <2>2. ASSUME NEW U \in SUBSET T
        PROVE  g[U] = IF U = {} THEN 0 ELSE f[First(U)] + g[U \ {First(U)}]
    BY DEF Iterates
  <2> QED BY <2>1, <2>2 DEF Iterates
<1>5. k[T] = g[T]
  OBVIOUS
<1> HIDE DEF h, k
<1>6. k[T] = h[T]
  BY <1>1, <1>2, <1>4, IterationIsUnique
<1> QED BY <1>3, <1>5, <1>6

-----------------------------------------------------------------------------
(* The sum.                                                                *)

\* Nothing adds up to 0; else the first index and the others.
LEMMA SumOfNone == \A f : SumFunctionOnSet(f, {}) = 0
<1> TAKE f
<1>1. PICK g : Iterates(g, f, SUBSET {})
  BY IterationExists, FS_EmptySet
<1>2. SumFunctionOnSet(f, {}) = g[{}]
  BY <1>1, SumIsIteration, FS_EmptySet
<1> QED BY <1>1, <1>2 DEF Iterates

LEMMA SumOfFirst ==
  ASSUME NEW S, IsFiniteSet(S), S # {}, NEW f
  PROVE  /\ First(S) \in S
         /\ SumFunctionOnSet(f, S) = f[First(S)] + SumFunctionOnSet(f, S \ {First(S)})
<1>1. PICK g : Iterates(g, f, SUBSET S)
  BY IterationExists
<1>2. SumFunctionOnSet(f, S) = g[S] /\ SumFunctionOnSet(f, S \ {First(S)}) = g[S \ {First(S)}]
  BY <1>1, SumIsIteration
<1>3. g[S] = f[First(S)] + g[S \ {First(S)}]
  BY <1>1 DEF Iterates
<1> QED BY <1>2, <1>3 DEF First

\* Only what f is on the indices matters.
LEMMA SumOfEquals ==
  ASSUME NEW S, IsFiniteSet(S), NEW e, NEW f, \A x \in S : e[x] = f[x]
  PROVE  SumFunctionOnSet(e, S) = SumFunctionOnSet(f, S)
<1>1. PICK g : Iterates(g, f, SUBSET S)
  BY IterationExists
<1>2. PICK h : Iterates(h, e, SUBSET S)
  BY IterationExists
<1>3. SumFunctionOnSet(f, S) = g[S] /\ SumFunctionOnSet(e, S) = h[S]
  BY <1>1, <1>2, SumIsIteration
<1>4. g[S] = h[S]
  BY <1>1, <1>2, IterationIsUnique
<1> QED BY <1>3, <1>4

\* A sum of naturals is a natural.
LEMMA SumIsNat ==
  ASSUME NEW S, IsFiniteSet(S), NEW f, \A x \in S : f[x] \in Nat
  PROVE  SumFunctionOnSet(f, S) \in Nat
<1> DEFINE W == {U \in SUBSET S : SumFunctionOnSet(f, U) \notin Nat}
<1>1. W = {}
  <2> SUFFICES ASSUME W # {} PROVE FALSE
    OBVIOUS
  <2>1. PICK U \in W : \A V \in W : ~ (V \subseteq U /\ V # U)
    <3> HIDE DEF W
    <3>1. W \in SUBSET SUBSET S
      BY DEF W
    <3> QED BY <3>1, MinimalSubset
  <2>2. U \in SUBSET S /\ IsFiniteSet(U) /\ SumFunctionOnSet(f, U) \notin Nat
    BY FS_Subset
  <2>3. U # {}
    BY <2>2, SumOfNone
  <2>4. /\ First(U) \in U
        /\ SumFunctionOnSet(f, U) = f[First(U)] + SumFunctionOnSet(f, U \ {First(U)})
    BY <2>2, <2>3, SumOfFirst
  <2>5. SumFunctionOnSet(f, U \ {First(U)}) \in Nat
    BY <2>1, <2>2, <2>4
  <2> QED BY <2>2, <2>4, <2>5
<1> QED BY <1>1

\* Any index may be taken out of the sum.
LEMMA SumOfAny ==
  ASSUME NEW S, IsFiniteSet(S), NEW f, \A y \in S : f[y] \in Nat, NEW x \in S
  PROVE  SumFunctionOnSet(f, S) = f[x] + SumFunctionOnSet(f, S \ {x})
<1> DEFINE Splits(U) ==
             \A y \in U : SumFunctionOnSet(f, U) = f[y] + SumFunctionOnSet(f, U \ {y})
           W == {U \in SUBSET S : ~ Splits(U)}
<1>1. W = {}
  <2> SUFFICES ASSUME W # {} PROVE FALSE
    OBVIOUS
  <2>1. PICK U \in W : \A V \in W : ~ (V \subseteq U /\ V # U)
    <3> HIDE DEF W
    <3>1. W \in SUBSET SUBSET S
      BY DEF W
    <3> QED BY <3>1, MinimalSubset
  <2>2. U \in SUBSET S /\ IsFiniteSet(U)
    BY FS_Subset
  <2>3. PICK y \in U : SumFunctionOnSet(f, U) # f[y] + SumFunctionOnSet(f, U \ {y})
    OBVIOUS
  <2> DEFINE z == First(U)
  <2>4. z \in U /\ SumFunctionOnSet(f, U) = f[z] + SumFunctionOnSet(f, U \ {z})
    BY <2>2, <2>3, SumOfFirst
  <2> HIDE DEF z
  <2>5. y # z
    BY <2>3, <2>4
  <2>6. Splits(U \ {z}) /\ Splits(U \ {y})
    <3>1. /\ U \ {z} \in SUBSET S /\ U \ {z} \subseteq U /\ U \ {z} # U
          /\ U \ {y} \in SUBSET S /\ U \ {y} \subseteq U /\ U \ {y} # U
      BY <2>2, <2>4
    <3> QED BY <2>1, <3>1
  <2>7. SumFunctionOnSet(f, U \ {z}) = f[y] + SumFunctionOnSet(f, (U \ {z}) \ {y})
    BY <2>5, <2>6
  <2>8. SumFunctionOnSet(f, U \ {y}) = f[z] + SumFunctionOnSet(f, (U \ {y}) \ {z})
    BY <2>4, <2>5, <2>6
  <2>9. (U \ {z}) \ {y} = (U \ {y}) \ {z}
    OBVIOUS
  <2>10. SumFunctionOnSet(f, (U \ {y}) \ {z}) \in Nat /\ f[y] \in Nat /\ f[z] \in Nat
    <3>1. IsFiniteSet((U \ {y}) \ {z}) /\ (U \ {y}) \ {z} \subseteq S
      BY <2>2, FS_Subset
    <3> QED BY <3>1, SumIsNat, <2>2, <2>4
  <2> QED BY <2>3, <2>4, <2>7, <2>8, <2>9, <2>10
<1>2. Splits(S)
  BY <1>1
<1> QED BY <1>2

\* The sum with one index more.
LEMMA SumOfOneMore ==
  ASSUME NEW S, IsFiniteSet(S), NEW x, x \notin S, NEW f,
         \A y \in S \cup {x} : f[y] \in Nat
  PROVE  SumFunctionOnSet(f, S \cup {x}) = f[x] + SumFunctionOnSet(f, S)
<1>1. IsFiniteSet(S \cup {x}) /\ (S \cup {x}) \ {x} = S
  BY FS_AddElement
<1> QED BY <1>1, SumOfAny

\* Nothing but zeros adds up to nothing.
LEMMA SumOfZeros ==
  ASSUME NEW S, IsFiniteSet(S), NEW f, \A x \in S : f[x] = 0
  PROVE  SumFunctionOnSet(f, S) = 0
<1> DEFINE W == {U \in SUBSET S : SumFunctionOnSet(f, U) # 0}
<1>1. W = {}
  <2> SUFFICES ASSUME W # {} PROVE FALSE
    OBVIOUS
  <2>1. PICK U \in W : \A V \in W : ~ (V \subseteq U /\ V # U)
    <3> HIDE DEF W
    <3>1. W \in SUBSET SUBSET S
      BY DEF W
    <3> QED BY <3>1, MinimalSubset
  <2>2. U \in SUBSET S /\ IsFiniteSet(U) /\ SumFunctionOnSet(f, U) # 0
    BY <2>1, FS_Subset
  <2>3. U # {}
    BY <2>2, SumOfNone
  <2>4. /\ First(U) \in U
        /\ SumFunctionOnSet(f, U) = f[First(U)] + SumFunctionOnSet(f, U \ {First(U)})
    BY <2>2, <2>3, SumOfFirst
  <2>5. SumFunctionOnSet(f, U \ {First(U)}) = 0
    BY <2>1, <2>2, <2>4
  <2>6. f[First(U)] = 0
    BY <2>2, <2>4
  <2> QED BY <2>2, <2>4, <2>5, <2>6
<1> QED BY <1>1

\* One summand that changes moves the sum by as much.
LEMMA SumOfChange ==
  ASSUME NEW S, IsFiniteSet(S), NEW x \in S, NEW e, NEW f,
         \A y \in S : e[y] \in Nat /\ f[y] \in Nat,
         \A y \in S \ {x} : e[y] = f[y]
  PROVE  SumFunctionOnSet(e, S) + f[x] = SumFunctionOnSet(f, S) + e[x]
<1>1. SumFunctionOnSet(e, S) = e[x] + SumFunctionOnSet(e, S \ {x})
  BY SumOfAny
<1>2. SumFunctionOnSet(f, S) = f[x] + SumFunctionOnSet(f, S \ {x})
  BY SumOfAny
<1>3. IsFiniteSet(S \ {x})
  BY FS_RemoveElement
<1>4. SumFunctionOnSet(e, S \ {x}) = SumFunctionOnSet(f, S \ {x})
  BY <1>3, SumOfEquals
<1>5. SumFunctionOnSet(f, S \ {x}) \in Nat
  BY <1>3, SumIsNat
<1> QED BY <1>1, <1>2, <1>4, <1>5

\* A sum over fewer indices is not larger.
LEMMA SumOfFewer ==
  ASSUME NEW S, IsFiniteSet(S), NEW T \in SUBSET S, NEW f, \A x \in S : f[x] \in Nat
  PROVE  SumFunctionOnSet(f, T) <= SumFunctionOnSet(f, S)
<1> DEFINE W == {U \in SUBSET S : T \subseteq U
                      /\ ~ (SumFunctionOnSet(f, T) <= SumFunctionOnSet(f, U))}
<1>1. W = {}
  <2> SUFFICES ASSUME W # {} PROVE FALSE
    OBVIOUS
  <2>1. PICK U \in W : \A V \in W : ~ (V \subseteq U /\ V # U)
    <3> HIDE DEF W
    <3>1. W \in SUBSET SUBSET S
      BY DEF W
    <3> QED BY <3>1, MinimalSubset
  <2>2. /\ U \in SUBSET S /\ T \subseteq U /\ IsFiniteSet(U)
        /\ ~ (SumFunctionOnSet(f, T) <= SumFunctionOnSet(f, U))
    BY FS_Subset
  <2>3. SumFunctionOnSet(f, T) \in Nat
    BY SumIsNat, FS_Subset
  <2>4. PICK x \in U : x \notin T
    BY <2>2, <2>3
  <2>5. SumFunctionOnSet(f, U) = f[x] + SumFunctionOnSet(f, U \ {x}) /\ f[x] \in Nat
    BY <2>2, <2>4, SumOfAny
  <2>6. SumFunctionOnSet(f, U \ {x}) \in Nat
    BY <2>2, FS_RemoveElement, SumIsNat
  <2>7. SumFunctionOnSet(f, T) <= SumFunctionOnSet(f, U \ {x})
    BY <2>1, <2>2, <2>4
  <2> QED BY <2>2, <2>3, <2>5, <2>6, <2>7
<1> QED BY <1>1
=============================================================================
