-------------------------- MODULE StorageQuotaProofs --------------------------
(***************************************************************************)
(* What storage/quota.py promises, for any number of processes, objects    *)
(* and sizes: the counter trails the bucket by no more than the uploads    *)
(* still to be recorded and what was lost to it, and the budget is         *)
(* overshot by no more than the uploads that were checked together.        *)
(*                                                                         *)
(* Both properties are about sums, so the proof has to move sums.  The     *)
(* first part gives what SumFunctionOnSet is: that it unfolds by one       *)
(* element, and from there how it splits, changes and is bounded.          *)
(***************************************************************************)
EXTENDS StorageQuota, FiniteSetTheorems, WellFoundedInduction, TLAPS

-----------------------------------------------------------------------------
(***************************************************************************)
(* Sums over finite sets.                                                  *)
(***************************************************************************)

\* The element the library's fold takes next.
Some(s) == CHOOSE x \in s : TRUE

\* F gives the sum of f over every subset of S.
IsSum(F, f, S) ==
    F = [s \in SUBSET S |-> IF s = {} THEN 0 ELSE f[Some(s)] + F[s \ {Some(s)}]]

\* Induction over the subsets of a finite set: of any of them, one is least.
LEMMA LeastSubset ==
  ASSUME NEW S, IsFiniteSet(S), NEW C \in SUBSET SUBSET S, C # {}
  PROVE  \E m \in C : \A s \in SUBSET m : s # m => s \notin C
  <1>1. IsWellFoundedOn(StrictSubsetOrdering(S), FiniteSubsetsOf(S))
    BY FS_StrictSubsetOrderingWellFounded
  <1>2. C \subseteq FiniteSubsetsOf(S)
    BY FS_Subset DEF FiniteSubsetsOf
  <1>3. \E m \in C : \A s \in C : ~(<<s, m>> \in StrictSubsetOrdering(S))
    BY <1>1, <1>2, WFMin
  <1> QED
    BY <1>3 DEF StrictSubsetOrdering

\* The library's sum is the value of such a function.
LEMMA SumChosen ==
  ASSUME NEW f, NEW S
  PROVE  SumFunctionOnSet(f, S) = (CHOOSE F : IsSum(F, f, S))[S]
  BY DEF SumFunctionOnSet, FoldFunctionOnSet, MapThenFoldSet, IsSum, Some

\* Such a function unfolds by one element.
LEMMA IsSumAt ==
  ASSUME NEW f, NEW S, NEW F, IsSum(F, f, S)
  PROVE  /\ F[{}] = 0
         /\ \A s \in SUBSET S : s # {} =>
               F[s] = f[Some(s)] + F[s \ {Some(s)}]
  <1> DEFINE E(t) == IF t = {} THEN 0 ELSE f[Some(t)] + F[t \ {Some(t)}]
  <1>1. F = [t \in SUBSET S |-> E(t)]
    BY DEF IsSum
  <1>2. \A s \in SUBSET S : F[s] = E(s)
    <2> HIDE DEF E
    <2> QED
      BY <1>1
  <1> QED
    BY <1>2

\* A set that is not empty has the element.
LEMMA SomeIn ==
  ASSUME NEW s, s # {}
  PROVE  Some(s) \in s
  BY DEF Some

\* Two such functions agree where both are defined.
LEMMA IsSumUnique ==
  ASSUME NEW f, NEW S, IsFiniteSet(S), NEW T \in SUBSET S,
         NEW F, IsSum(F, f, S), NEW G, IsSum(G, f, T)
  PROVE  \A s \in SUBSET T : F[s] = G[s]
  <1> DEFINE C == {s \in SUBSET T : F[s] # G[s]}
  <1> SUFFICES ASSUME C # {} PROVE FALSE
    OBVIOUS
  <1>1. IsFiniteSet(T) /\ C \in SUBSET SUBSET T
    BY FS_Subset
  <1>2. PICK m \in C : \A s \in SUBSET m : s # m => s \notin C
    <2> HIDE DEF C
    <2> QED
      BY <1>1, LeastSubset
  <1>3. /\ F[{}] = G[{}]
        /\ \A s \in SUBSET T : s # {} =>
              /\ F[s] = f[Some(s)] + F[s \ {Some(s)}]
              /\ G[s] = f[Some(s)] + G[s \ {Some(s)}]
    BY IsSumAt
  <1>4. m # {} /\ Some(m) \in m
    BY <1>3, SomeIn
  <1> DEFINE r == m \ {Some(m)}
  <1>5. F[r] = G[r]
    BY <1>2, <1>4
  <1> QED
    BY <1>3, <1>4, <1>5

\* There is one for every finite set.
LEMMA IsSumExists ==
  ASSUME NEW f, NEW S, IsFiniteSet(S)
  PROVE  \A T \in SUBSET S : \E F : IsSum(F, f, T)
  <1> DEFINE C == {T \in SUBSET S : ~ \E F : IsSum(F, f, T)}
  <1> SUFFICES ASSUME C # {} PROVE FALSE
    OBVIOUS
  <1>1. C \in SUBSET SUBSET S
    OBVIOUS
  <1>2. PICK m \in C : \A s \in SUBSET m : s # m => s \notin C
    <2> HIDE DEF C
    <2> QED
      BY <1>1, LeastSubset
  <1> DEFINE G(s) == CHOOSE F : IsSum(F, f, s)
             Rest(s) == s \ {Some(s)}
             E(s) == IF s = {} THEN 0 ELSE f[Some(s)] + G(Rest(s))[Rest(s)]
             H == [s \in SUBSET m |-> E(s)]
  <1>3. \A s \in SUBSET m : s # m => IsSum(G(s), f, s)
    BY <1>2
  <1>4. \A s \in SUBSET m : s # {} => Rest(s) \in SUBSET m /\ Rest(s) # m
    BY SomeIn
  <1>5. ASSUME NEW s \in SUBSET m, s # {}
        PROVE  H[s] = f[Some(s)] + H[Rest(s)]
    <2> DEFINE r == Rest(s)
    <2>1. r \in SUBSET m /\ IsSum(G(r), f, r)
      BY <1>3, <1>4, <1>5
    <2>2. G(r)[r] = E(r)
      <3>1. CASE r = {}
        BY <2>1, <3>1, IsSumAt
      <3>2. CASE r # {}
        <4>1. G(r)[r] = f[Some(r)] + G(r)[Rest(r)]
          <5> HIDE DEF G, r
          <5> QED
            BY <2>1, <3>2, IsSumAt
        <4>2. Rest(r) \in SUBSET r /\ IsSum(G(Rest(r)), f, Rest(r)) /\ IsFiniteSet(r)
          BY <1>3, <1>4, <2>1, <3>2, FS_Subset
        <4>3. G(r)[Rest(r)] = G(Rest(r))[Rest(r)]
          <5> HIDE DEF G, r, Rest
          <5> QED
            BY <2>1, <4>2, IsSumUnique
        <4> QED
          BY <3>2, <4>1, <4>3
      <3> QED
        BY <3>1, <3>2
    <2>3. H[s] = E(s) /\ H[r] = E(r)
      <3> HIDE DEF E, r
      <3> QED
        BY <2>1
    <2> QED
      BY <1>5, <2>2, <2>3
  <1>6. H[{}] = 0
    BY DEF H
  <1>7. IsSum(H, f, m)
    <2> DEFINE D(s) == IF s = {} THEN 0 ELSE f[Some(s)] + H[s \ {Some(s)}]
    <2>1. \A s \in SUBSET m : E(s) = D(s)
      <3>1. \A s \in SUBSET m : H[s] = E(s)
        <4> HIDE DEF E
        <4> QED
          BY DEF H
      <3> HIDE DEF H, E
      <3> QED
        BY <1>5, <1>6, <3>1
    <2>2. H = [s \in SUBSET m |-> D(s)]
      <3> HIDE DEF D, E
      <3> QED
        BY <2>1
    <2> HIDE DEF H
    <2> QED
      BY <2>2 DEF IsSum
  <1> QED
    BY <1>2, <1>7

\* So the sum over S is that of any one element and the rest: first in the
\* order that CHOOSE takes ...
LEMMA SumRest ==
  ASSUME NEW f, NEW S, IsFiniteSet(S)
  PROVE  /\ SumFunctionOnSet(f, {}) = 0
         /\ S # {} => /\ Some(S) \in S
                      /\ SumFunctionOnSet(f, S) = f[Some(S)] + SumFunctionOnSet(f, S \ {Some(S)})
  <1> DEFINE G(s) == CHOOSE F : IsSum(F, f, s)
  <1>1. \A s \in SUBSET S : IsSum(G(s), f, s)
    BY IsSumExists
  <1>2. \A s : SumFunctionOnSet(f, s) = G(s)[s]
    BY SumChosen
  <1> DEFINE r == S \ {Some(S)}
  <1>3. IsSum(G(S), f, S) /\ IsSum(G(r), f, r) /\ IsSum(G({}), f, {})
    BY <1>1
  <1> HIDE DEF G
  <1>4. G({})[{}] = 0
    BY <1>3, IsSumAt
  <1>5. S # {} => G(S)[S] = f[Some(S)] + G(S)[r]
    BY <1>3, IsSumAt
  <1>6. G(S)[r] = G(r)[r]
    BY <1>3, IsSumUnique
  <1> QED
    BY <1>2, <1>4, <1>5, <1>6, SomeIn

\* A sum of integers is one, and of naturals a natural.
LEMMA SumType ==
  ASSUME NEW S, IsFiniteSet(S), NEW f, \A x \in S : f[x] \in Int
  PROVE  \A T \in SUBSET S : SumFunctionOnSet(f, T) \in Int
  <1> DEFINE C == {T \in SUBSET S : SumFunctionOnSet(f, T) \notin Int}
  <1> SUFFICES ASSUME C # {} PROVE FALSE
    OBVIOUS
  <1>1. PICK m \in C : \A s \in SUBSET m : s # m => s \notin C
    <2>1. C \in SUBSET SUBSET S
      OBVIOUS
    <2> HIDE DEF C
    <2> QED
      BY <2>1, LeastSubset
  <1>2. IsFiniteSet(m)
    BY FS_Subset
  <1>3. m # {}
    <2>1. SumFunctionOnSet(f, {}) = 0
      BY <1>2, SumRest
    <2> QED
      BY <2>1
  <1>5. /\ Some(m) \in m
        /\ SumFunctionOnSet(f, m) = f[Some(m)] + SumFunctionOnSet(f, m \ {Some(m)})
    BY <1>2, <1>3, SumRest
  <1>4. SumFunctionOnSet(f, m \ {Some(m)}) \in Int
    BY <1>1, <1>5
  <1> QED
    BY <1>4, <1>5

\* ... then in any order.
LEMMA SumSplit ==
  ASSUME NEW S, IsFiniteSet(S), NEW f, \A x \in S : f[x] \in Int
  PROVE  \A T \in SUBSET S : \A x \in T :
            SumFunctionOnSet(f, T) = f[x] + SumFunctionOnSet(f, T \ {x})
  <1> DEFINE Sum(T) == SumFunctionOnSet(f, T)
             C == {T \in SUBSET S : \E x \in T : Sum(T) # f[x] + Sum(T \ {x})}
  <1> SUFFICES ASSUME C # {} PROVE FALSE
    OBVIOUS
  <1>0. C \in SUBSET SUBSET S
    OBVIOUS
  <1>1. PICK m \in C : \A s \in SUBSET m : s # m => s \notin C
    <2> HIDE DEF C
    <2> QED
      BY <1>0, LeastSubset
  <1>2. PICK x \in m : Sum(m) # f[x] + Sum(m \ {x})
    BY <1>1
  <1> DEFINE c == Some(m)
  <1>3. IsFiniteSet(m) /\ IsFiniteSet(m \ {c})
    BY FS_Subset
  <1>4. c \in m /\ Sum(m) = f[c] + Sum(m \ {c})
    BY <1>2, <1>3, SumRest
  <1>5. x # c
    BY <1>2, <1>4
  <1> HIDE DEF c
  <1>6. Sum(m \ {c}) = f[x] + Sum((m \ {c}) \ {x})
    BY <1>1, <1>2, <1>4, <1>5
  <1>7. Sum(m \ {x}) = f[c] + Sum((m \ {x}) \ {c})
    BY <1>1, <1>2, <1>4, <1>5
  <1>8. (m \ {x}) \ {c} = (m \ {c}) \ {x}
    OBVIOUS
  <1>9. Sum((m \ {c}) \ {x}) \in Int /\ f[x] \in Int /\ f[c] \in Int
    BY <1>4, SumType
  <1> DEFINE rest == Sum((m \ {c}) \ {x})
  <1>10. Sum(m \ {c}) = f[x] + rest /\ Sum(m \ {x}) = f[c] + rest
    BY <1>6, <1>7, <1>8
  <1> HIDE DEF Sum, rest, C
  <1> QED
    BY <1>2, <1>4, <1>9, <1>10 DEF rest

\* Functions that agree on a set have one sum over it.
LEMMA SumAgree ==
  ASSUME NEW S, IsFiniteSet(S), NEW f, NEW g, \A x \in S : f[x] = g[x]
  PROVE  SumFunctionOnSet(f, S) = SumFunctionOnSet(g, S)
  <1> DEFINE C == {T \in SUBSET S : SumFunctionOnSet(f, T) # SumFunctionOnSet(g, T)}
  <1> SUFFICES ASSUME C # {} PROVE FALSE
    OBVIOUS
  <1>1. PICK m \in C : \A s \in SUBSET m : s # m => s \notin C
    <2>1. C \in SUBSET SUBSET S
      OBVIOUS
    <2> HIDE DEF C
    <2> QED
      BY <2>1, LeastSubset
  <1>2. IsFiniteSet(m)
    BY FS_Subset
  <1> DEFINE r == m \ {Some(m)}
  <1>3. m # {} /\ Some(m) \in m
        /\ SumFunctionOnSet(f, m) = f[Some(m)] + SumFunctionOnSet(f, r)
        /\ SumFunctionOnSet(g, m) = g[Some(m)] + SumFunctionOnSet(g, r)
    BY <1>2, SumRest
  <1>4. SumFunctionOnSet(f, r) = SumFunctionOnSet(g, r)
    BY <1>1, <1>3
  <1> QED
    BY <1>3, <1>4

\* Changing f at x changes the sum by as much.
LEMMA SumUpdate ==
  ASSUME NEW S, IsFiniteSet(S), NEW f, \A y \in S : f[y] \in Int,
         NEW g, NEW x \in S, g[x] \in Int, \A y \in S \ {x} : g[y] = f[y]
  PROVE  SumFunctionOnSet(g, S) = SumFunctionOnSet(f, S) - f[x] + g[x]
  <1>1. IsFiniteSet(S \ {x}) /\ \A y \in S : g[y] \in Int
    BY FS_Subset
  <1>2. SumFunctionOnSet(f, S) = f[x] + SumFunctionOnSet(f, S \ {x})
    BY SumSplit
  <1>3. SumFunctionOnSet(g, S) = g[x] + SumFunctionOnSet(g, S \ {x})
    BY <1>1, SumSplit
  <1>4. SumFunctionOnSet(g, S \ {x}) = SumFunctionOnSet(f, S \ {x})
    BY <1>1, SumAgree
  <1>5. SumFunctionOnSet(f, S \ {x}) \in Int
    BY SumType
  <1> QED
    BY <1>2, <1>3, <1>4, <1>5

\* A sum of naturals is a natural.
LEMMA SumNat ==
  ASSUME NEW S, IsFiniteSet(S), NEW f, \A x \in S : f[x] \in Nat
  PROVE  \A T \in SUBSET S : SumFunctionOnSet(f, T) \in Nat
  <1> DEFINE C == {T \in SUBSET S : SumFunctionOnSet(f, T) \notin Nat}
  <1> SUFFICES ASSUME C # {} PROVE FALSE
    OBVIOUS
  <1>1. PICK m \in C : \A s \in SUBSET m : s # m => s \notin C
    <2>1. C \in SUBSET SUBSET S
      OBVIOUS
    <2> HIDE DEF C
    <2> QED
      BY <2>1, LeastSubset
  <1>2. IsFiniteSet(m)
    BY FS_Subset
  <1>3. m # {}
    <2>1. SumFunctionOnSet(f, {}) = 0
      BY <1>2, SumRest
    <2> QED
      BY <2>1
  <1>4. /\ Some(m) \in m
        /\ SumFunctionOnSet(f, m) = f[Some(m)] + SumFunctionOnSet(f, m \ {Some(m)})
    BY <1>2, <1>3, SumRest
  <1>5. SumFunctionOnSet(f, m \ {Some(m)}) \in Nat
    BY <1>1, <1>4
  <1> QED
    BY <1>4, <1>5

\* Where f and g together are between 0 and n, so are their sums, n times the
\* number of elements at most.
LEMMA SumBound ==
  ASSUME NEW S, IsFiniteSet(S), NEW n \in Nat,
         NEW f, NEW g, \A x \in S : f[x] \in Nat /\ g[x] \in Nat /\ f[x] + g[x] <= n
  PROVE  /\ SumFunctionOnSet(f, S) \in Nat /\ SumFunctionOnSet(g, S) \in Nat
         /\ SumFunctionOnSet(f, S) + SumFunctionOnSet(g, S) <= n * Cardinality(S)
  <1> DEFINE Good(T) == /\ SumFunctionOnSet(f, T) \in Nat /\ SumFunctionOnSet(g, T) \in Nat
                        /\ SumFunctionOnSet(f, T) + SumFunctionOnSet(g, T) <= n * Cardinality(T)
             C == {T \in SUBSET S : ~Good(T)}
  <1> SUFFICES ASSUME C # {} PROVE FALSE
    OBVIOUS
  <1>0. C \in SUBSET SUBSET S
    OBVIOUS
  <1>1. PICK m \in C : \A s \in SUBSET m : s # m => s \notin C
    <2> HIDE DEF C
    <2> QED
      BY <1>0, LeastSubset
  <1>2. IsFiniteSet(m)
    BY FS_Subset
  <1>3. m # {}
    <2>1. Cardinality({}) = 0 /\ SumFunctionOnSet(f, {}) = 0 /\ SumFunctionOnSet(g, {}) = 0
      BY <1>2, SumRest, FS_EmptySet
    <2> QED
      BY <2>1
  <1> DEFINE x == Some(m)
             r == m \ {x}
  <1>4. /\ x \in m
        /\ SumFunctionOnSet(f, m) = f[x] + SumFunctionOnSet(f, r)
        /\ SumFunctionOnSet(g, m) = g[x] + SumFunctionOnSet(g, r)
    BY <1>2, <1>3, SumRest
  <1>5. Good(r)
    <2>1. r \in SUBSET S /\ r \notin C
      BY <1>1, <1>4
    <2> HIDE DEF Good, r
    <2> QED
      BY <2>1
  <1>6. IsFiniteSet(r) /\ Cardinality(r) \in Nat /\ Cardinality(m) = Cardinality(r) + 1
    <2> HIDE DEF x
    <2>1. IsFiniteSet(r) /\ Cardinality(r) = Cardinality(m) - 1
      BY <1>2, <1>4, FS_RemoveElement
    <2>2. Cardinality(r) \in Nat /\ Cardinality(m) \in Nat
      BY <1>2, <2>1, FS_CardinalityType
    <2> QED
      BY <2>1, <2>2
  <1>7. n * Cardinality(m) = n * Cardinality(r) + n /\ n * Cardinality(r) \in Nat
    BY <1>6
  <1>8. f[x] \in Nat /\ g[x] \in Nat /\ f[x] + g[x] <= n
    BY <1>4
  <1>9. Good(m)
    <2> HIDE DEF x, r
    <2> QED
      BY <1>4, <1>5, <1>7, <1>8
  <1> QED
    BY <1>9

\* A set can be summed in two parts.
LEMMA SumParts ==
  ASSUME NEW S, IsFiniteSet(S), NEW f, \A x \in S : f[x] \in Int
  PROVE  \A T \in SUBSET S :
            SumFunctionOnSet(f, S) = SumFunctionOnSet(f, T) + SumFunctionOnSet(f, S \ T)
  <1> DEFINE Sum(T) == SumFunctionOnSet(f, T)
             C == {T \in SUBSET S : Sum(S) # Sum(T) + Sum(S \ T)}
  <1> SUFFICES ASSUME C # {} PROVE FALSE
    OBVIOUS
  <1>1. C \in SUBSET SUBSET S
    OBVIOUS
  <1>2. PICK m \in C : \A s \in SUBSET m : s # m => s \notin C
    <2> HIDE DEF C
    <2> QED
      BY <1>1, LeastSubset
  <1>3. \A T \in SUBSET S : Sum(T) \in Int
    BY SumType
  <1>4. m # {}
    <2>1. Sum({}) = 0 /\ Sum(S) \in Int
      BY <1>3, SumRest
    <2> SUFFICES ASSUME m = {} PROVE FALSE
      OBVIOUS
    <2>2. Sum(m) = 0 /\ Sum(S \ m) = Sum(S)
      <3>1. S \ m = S
        OBVIOUS
      <3> QED
        BY <2>1, <3>1
    <2>3. Sum(S) # Sum(m) + Sum(S \ m)
      OBVIOUS
    <2> HIDE DEF Sum, C
    <2> QED
      BY <2>1, <2>2, <2>3
  <1>5. PICK x \in m : TRUE
    BY <1>4
  <1> DEFINE r == m \ {x}
  <1>6. Sum(S) = Sum(r) + Sum(S \ r)
    BY <1>2, <1>5
  <1>7. Sum(m) = f[x] + Sum(r)
    BY <1>5, SumSplit
  <1>8. Sum(S \ r) = f[x] + Sum(S \ m)
    <2>1. S \ r \in SUBSET S /\ x \in S \ r /\ (S \ r) \ {x} = S \ m
      OBVIOUS
    <2> QED
      BY <2>1, SumSplit
  <1>9. Sum(r) \in Int /\ Sum(S \ m) \in Int /\ f[x] \in Int
    BY <1>3
  <1>10. Sum(S) # Sum(m) + Sum(S \ m)
    OBVIOUS
  <1> HIDE DEF Sum, r, C
  <1> QED
    BY <1>6, <1>7, <1>8, <1>9, <1>10

\* Where f is 0 it adds nothing.
LEMMA SumZeros ==
  ASSUME NEW S, IsFiniteSet(S), NEW f, \A x \in S : f[x] \in Int,
         NEW T \in SUBSET S, \A x \in S \ T : f[x] = 0
  PROVE  SumFunctionOnSet(f, S) = SumFunctionOnSet(f, T)
  <1>1. IsFiniteSet(S \ T) /\ Cardinality(S \ T) \in Nat
    BY FS_Subset, FS_CardinalityType
  <1>2. /\ SumFunctionOnSet(f, S \ T) \in Nat
        /\ SumFunctionOnSet(f, S \ T) + SumFunctionOnSet(f, S \ T) <= 0 * Cardinality(S \ T)
    BY <1>1, SumBound
  <1>3. SumFunctionOnSet(f, S) = SumFunctionOnSet(f, T) + SumFunctionOnSet(f, S \ T)
    BY SumParts
  <1>4. SumFunctionOnSet(f, T) \in Int
    BY SumType
  <1> QED
    BY <1>1, <1>2, <1>3, <1>4

-----------------------------------------------------------------------------
(***************************************************************************)
(* The inductive invariant.                                                *)
(***************************************************************************)

\* What the worker's upload into b has in this step, and all workers' have.
Amount(step, b) ==
    [w \in Worker |-> IF At(w, step) /\ TargetBucket(w) = b THEN upload[w].bytes ELSE 0]
InStep(step, b) == SumFunctionOnSet(Amount(step, b), Worker)

\* Only what fits gets past ensure_budget, and only migrations get by it.
UploadsFit ==
    \A w \in Worker : upload[w] # None =>
        IF w \in Uploader THEN ~At(w, "copying") /\ upload[w].bytes \in Fitting
                          ELSE At(w, "copying")

\* What the other uploaders may have under way beside one that is checked, and
\* what the bucket may come to, its lost bytes apart.
Spare == LargestFitting * (Cardinality(Uploader) - 1)
Room == Ceiling + Spare

\* The overshoot counts from ensure_budget on.
BudgetHolds == \A b \in Bucket : Stored(b) + InStep("checked", b) <= Room + lost[b]

CounterCovers == \A b \in Bucket : Stored(b) <= counter[b] + InStep("stored", b) + lost[b]

\* What a walk has listed and what it is still to list, as it is now, trail the
\* bucket by no more than the counter will once it is overwritten.
WalkCovers(r, b) ==
    /\ walk[r].unlisted \subseteq KeysOf(b)
    /\ Stored(b) <= walk[r].total + SumFunctionOnSet(object, walk[r].unlisted)
                      + walk[r].since + InStep("stored", b) + lost[b]
WalksCover == \A r \in Auditor, b \in Bucket : Walks(r, b) => WalkCovers(r, b)

IInv ==
    /\ TypeOK
    /\ UploadsFit
    /\ BudgetHolds
    /\ CounterCovers
    /\ WalksCover

-----------------------------------------------------------------------------
(***************************************************************************)
(* Sums over the state.                                                    *)
(***************************************************************************)

\* There is a largest size that fits.
LEMMA LargestFits ==
  /\ LargestFitting \in Fitting /\ LargestFitting \in Nat /\ LargestFitting <= Ceiling
  /\ \A n \in Fitting : n \in Nat /\ n <= LargestFitting
  <1>1. /\ Ceiling \in Nat /\ 0 \in Fitting
        /\ \A n \in Fitting : n \in Nat /\ n <= Ceiling
    BY QuotaAssumption DEF Fitting
  <1> DEFINE C == {n .. Ceiling : n \in Fitting}
  <1>2. C \in SUBSET SUBSET (0 .. Ceiling) /\ C # {} /\ IsFiniteSet(0 .. Ceiling)
    <2>1. IsFiniteSet(0 .. Ceiling)
      BY <1>1, FS_Interval
    <2>2. \A n \in Fitting : n .. Ceiling \in SUBSET (0 .. Ceiling)
      BY <1>1
    <2> QED
      BY <1>1, <2>1, <2>2
  <1>3. PICK I \in C : \A s \in SUBSET I : s # I => s \notin C
    <2> HIDE DEF C
    <2> QED
      BY <1>2, LeastSubset
  <1>4. PICK n \in Fitting : I = n .. Ceiling
    OBVIOUS
  <1>5. ASSUME NEW m \in Fitting, n < m
        PROVE  FALSE
    <2>1. m .. Ceiling \in SUBSET I /\ n \in I /\ n \notin m .. Ceiling
      BY <1>1, <1>4, <1>5
    <2> QED
      BY <1>3, <2>1
  <1>6. LargestFitting \in Fitting /\ \A m \in Fitting : m <= LargestFitting
    BY <1>1, <1>5 DEF LargestFitting
  <1> QED
    BY <1>1, <1>6

\* Objects, stored or to be stored, have sizes in Nat.
LEMMA Sizes ==
  /\ \A n \in Bytes : n \in Nat
  /\ TypeOK => \A k \in Key : object[k] \in Nat
  <1>1. \A n \in Bytes : n \in Nat
    BY QuotaAssumption
  <1>2. ASSUME TypeOK, NEW k \in Key
        PROVE  object[k] \in Nat
    <2>1. object[k] \in Bytes \cup {0}
      BY <1>2 DEF TypeOK
    <2> QED
      BY <1>1, <2>1
  <1> QED
    BY <1>1, <1>2

\* So has every set of objects, and every bucket.
LEMMA ObjectSums ==
  ASSUME TypeOK
  PROVE  /\ \A T \in SUBSET Key : SumFunctionOnSet(object, T) \in Nat
         /\ \A b \in Bucket : Stored(b) \in Nat
  <1>1. \A k \in Key : object[k] \in Nat
    BY Sizes
  <1>2. \A T \in SUBSET Key : SumFunctionOnSet(object, T) \in Nat
    BY <1>1, SumNat, QuotaAssumption
  <1> QED
    BY <1>2 DEF Stored, KeysOf

\* put_object changes the sum over a set of keys by what it does to its own key.
LEMMA PutSums ==
  ASSUME TypeOK, NEW w \in Worker, upload[w] # None, PutObject(w), NEW T \in SUBSET Key
  PROVE  /\ upload[w].key \in Key /\ upload[w].bytes \in Nat
         /\ object[upload[w].key] \in Nat
         /\ SumFunctionOnSet(object', T) =
               IF upload[w].key \in T
               THEN SumFunctionOnSet(object, T) - object[upload[w].key] + upload[w].bytes
               ELSE SumFunctionOnSet(object, T)
  <1> DEFINE k == upload[w].key
             n == upload[w].bytes
  <1>1. k \in Key /\ n \in Nat /\ object[k] \in Nat /\ \A y \in Key : object[y] \in Nat
    BY Sizes DEF TypeOK, UploadStage
  <1>2. object'[k] = n /\ \A y \in Key \ {k} : object'[y] = object[y]
    BY <1>1 DEF TypeOK, PutObject
  <1>3. IsFiniteSet(T)
    BY FS_Subset, QuotaAssumption
  <1> HIDE DEF k, n
  <1>4. CASE k \in T
    <2>1. SumFunctionOnSet(object', T) = SumFunctionOnSet(object, T) - object[k] + object'[k]
      BY <1>1, <1>2, <1>3, <1>4, SumUpdate
    <2> QED
      BY <1>1, <1>2, <1>4, <2>1 DEF k, n
  <1>5. CASE k \notin T
    <2>1. SumFunctionOnSet(object', T) = SumFunctionOnSet(object, T)
      BY <1>2, <1>3, <1>5, SumAgree
    <2> QED
      BY <1>1, <1>5, <2>1 DEF k, n
  <1> QED
    BY <1>4, <1>5

\* What is under way adds up to a natural number,
LEMMA InStepType ==
  ASSUME TypeOK, NEW step, NEW b
  PROVE  /\ \A w \in Worker : Amount(step, b)[w] \in Nat
         /\ InStep(step, b) \in Nat
  <1>1. \A w \in Worker : Amount(step, b)[w] \in Nat
    BY QuotaAssumption DEF TypeOK, UploadStage, Amount, At
  <1>2. InStep(step, b) \in Nat
    BY <1>1, SumNat, QuotaAssumption DEF InStep
  <1> QED
    BY <1>1, <1>2

\* and does so after a step.
LEMMA InStepMovesType ==
  ASSUME TypeOK', NEW step, NEW b
  PROVE  InStep(step, b)' \in Nat
  <1> DEFINE g == Amount(step, b)'
  <1>1. \A v \in Worker : g[v] \in Nat
    BY QuotaAssumption DEF TypeOK, UploadStage, Amount, At
  <1> HIDE DEF g
  <1>2. SumFunctionOnSet(g, Worker) \in Nat
    BY <1>1, SumNat, QuotaAssumption
  <1> QED
    BY <1>2 DEF g, InStep

\* What a worker does with its upload changes the sums by its own amount.
LEMMA InStepMoves ==
  ASSUME TypeOK, TypeOK', NEW w \in Worker,
         \A v \in Worker \ {w} : upload'[v] = upload[v],
         NEW step, NEW b
  PROVE  /\ InStep(step, b) \in Nat /\ InStep(step, b)' \in Nat
         /\ Amount(step, b)[w] \in Nat
         /\ InStep(step, b)' = InStep(step, b) - Amount(step, b)[w] + Amount(step, b)'[w]
  <1> DEFINE f == Amount(step, b)
             g == Amount(step, b)'
  <1>1. /\ \A v \in Worker : f[v] \in Nat
        /\ InStep(step, b) \in Nat
    BY InStepType
  <1>2. \A v \in Worker : g[v] \in Nat
    BY QuotaAssumption DEF TypeOK, UploadStage, Amount, At
  <1>3. \A v \in Worker \ {w} : g[v] = f[v]
    BY DEF Amount, At, TargetBucket
  <1> HIDE DEF f, g
  <1>4. SumFunctionOnSet(g, Worker) = SumFunctionOnSet(f, Worker) - f[w] + g[w]
    BY <1>1, <1>2, <1>3, SumUpdate, QuotaAssumption
  <1>5. SumFunctionOnSet(g, Worker) \in Nat
    BY <1>2, SumNat, QuotaAssumption
  <1> QED
    BY <1>1, <1>4, <1>5 DEF f, g, InStep

\* Uploads of other workers together never have more under way than there is
\* room for besides one that has just been checked.
LEMMA OthersFit ==
  ASSUME TypeOK, UploadsFit, NEW w \in Uploader, upload[w] = None, NEW b \in Bucket
  PROVE  InStep("checked", b) + InStep("stored", b) <= Spare
  <1> DEFINE f == Amount("checked", b)
             g == Amount("stored", b)
             T == Uploader \ {w}
  <1>1. \A v \in Worker : f[v] \in Nat /\ g[v] \in Nat
    BY InStepType
  <1>2. \A v \in Worker \ T : f[v] = 0 /\ g[v] = 0
    BY DEF Amount, At, UploadsFit, Worker
  <1>3. \A v \in T : f[v] + g[v] <= LargestFitting
    <2> SUFFICES ASSUME NEW v \in T PROVE f[v] + g[v] <= LargestFitting
      OBVIOUS
    <2>1. v \in Worker /\ v \in Uploader
      BY DEF Worker
    <2>2. f[v] = 0 \/ g[v] = 0
      BY <2>1 DEF Amount, At
    <2>3. upload[v] # None => upload[v].bytes \in Fitting
      BY <2>1 DEF UploadsFit
    <2>4. f[v] # 0 \/ g[v] # 0 => upload[v] # None
      BY <2>1 DEF Amount, At
    <2>5. (f[v] = 0 \/ f[v] = upload[v].bytes) /\ (g[v] = 0 \/ g[v] = upload[v].bytes)
      BY <2>1 DEF Amount
    <2>6. \A n \in Fitting : n \in Nat /\ n <= LargestFitting
      BY LargestFits
    <2>7. LargestFitting \in Nat
      BY LargestFits
    <2> HIDE DEF f, g, T
    <2>8. f[v] \in Nat /\ f[v] <= LargestFitting /\ g[v] \in Nat /\ g[v] <= LargestFitting
      BY <2>3, <2>4, <2>5, <2>6, <2>7
    <2> QED
      BY <2>2, <2>7, <2>8
  <1>4. IsFiniteSet(Uploader) /\ IsFiniteSet(T) /\ Cardinality(T) = Cardinality(Uploader) - 1
        /\ T \in SUBSET Worker
    BY FS_Subset, FS_RemoveElement, QuotaAssumption DEF Worker
  <1> HIDE DEF f, g, T
  <1>5. SumFunctionOnSet(f, T) + SumFunctionOnSet(g, T) <= LargestFitting * Cardinality(T)
    BY <1>1, <1>3, <1>4, SumBound, LargestFits
  <1>6. SumFunctionOnSet(f, Worker) = SumFunctionOnSet(f, T)
    BY <1>1, <1>2, <1>4, SumZeros, QuotaAssumption
  <1>7. SumFunctionOnSet(g, Worker) = SumFunctionOnSet(g, T)
    BY <1>1, <1>2, <1>4, SumZeros, QuotaAssumption
  <1> QED
    BY <1>4, <1>5, <1>6, <1>7 DEF f, g, InStep, Spare

\* There is room for nothing at least.
LEMMA RoomType == Spare \in Int /\ Room \in Int /\ Room = Ceiling + Spare /\ Room >= 0
  <1>1. Cardinality(Uploader) \in Nat /\ LargestFitting \in Nat /\ Ceiling \in Nat
    BY FS_Subset, FS_CardinalityType, LargestFits, QuotaAssumption DEF Worker
  <1>2. CASE Cardinality(Uploader) = 0
    <2>1. Spare = 0 - LargestFitting
      BY <1>1, <1>2 DEF Spare
    <2> QED
      BY <1>1, <2>1, LargestFits DEF Room
  <1>3. CASE Cardinality(Uploader) - 1 \in Nat
    <2>1. Spare \in Nat
      BY <1>1, <1>3 DEF Spare
    <2> QED
      BY <1>1, <2>1 DEF Room
  <1> QED
    BY <1>1, <1>2, <1>3

\* Nothing stored, counted, under way or lost.
LEMMA InitIInv == Init => IInv
  <1> SUFFICES ASSUME Init PROVE IInv
    OBVIOUS
  <1>1. TypeOK
    BY QuotaAssumption DEF Init, TypeOK
  <1>2. UploadsFit /\ WalksCover
    BY DEF Init, UploadsFit, WalksCover, Walks
  <1>3. \A b \in Bucket : lost[b] = 0 /\ counter[b] = 0
    BY DEF Init
  <1>4. ASSUME NEW b \in Bucket PROVE Stored(b) = 0
    <2>1. \A k \in KeysOf(b) : object[k] = 0
      BY DEF Init, KeysOf
    <2>2. IsFiniteSet(KeysOf(b)) /\ {} \in SUBSET KeysOf(b)
      BY FS_Subset, QuotaAssumption DEF KeysOf
    <2>3. SumFunctionOnSet(object, KeysOf(b)) = SumFunctionOnSet(object, {})
      BY <2>1, <2>2, SumZeros
    <2> QED
      BY <2>2, <2>3, SumRest DEF Stored
  <1>5. ASSUME NEW b \in Bucket, NEW step PROVE InStep(step, b) = 0
    <2>1. \A w \in Worker : Amount(step, b)[w] = 0
      BY DEF Init, Amount, At
    <2>2. IsFiniteSet(Worker) /\ {} \in SUBSET Worker
      BY QuotaAssumption
    <2>3. SumFunctionOnSet(Amount(step, b), Worker) = SumFunctionOnSet(Amount(step, b), {})
      BY <2>1, <2>2, SumZeros
    <2> QED
      BY <2>2, <2>3, SumRest DEF InStep
  <1>6. BudgetHolds /\ CounterCovers
    BY <1>3, <1>4, <1>5, RoomType DEF BudgetHolds, CounterCovers
  <1> QED
    BY <1>1, <1>2, <1>6 DEF IInv

-----------------------------------------------------------------------------
(***************************************************************************)
(* Uploads.                                                                *)
(***************************************************************************)

\* Where the objects stay, the walks go on to cover the bucket as long as no
\* upload under way is forgotten.
LEMMA WalksStayCovered ==
  ASSUME IInv, TypeOK', UNCHANGED <<object, walk>>,
         \A b \in Bucket : InStep("stored", b) + lost[b] <= InStep("stored", b)' + lost'[b]
  PROVE  WalksCover'
  <1> SUFFICES ASSUME NEW r \in Auditor, NEW b \in Bucket, Walks(r, b)
               PROVE  WalkCovers(r, b)'
    BY DEF WalksCover, Walks
  <1> DEFINE u == walk[r].unlisted
  <1>1. WalkCovers(r, b)
    BY DEF IInv, WalksCover
  <1>2. /\ u \in SUBSET Key /\ walk[r].total \in Nat /\ walk[r].since \in Nat
        /\ lost[b] \in Nat /\ lost'[b] \in Nat
    BY DEF IInv, TypeOK, Walks, WalkStage
  <1>3. InStep("stored", b) \in Nat /\ InStep("stored", b)' \in Nat
    BY InStepType, InStepMovesType DEF IInv
  <1>4. Stored(b) \in Nat /\ SumFunctionOnSet(object, u) \in Nat
    BY <1>2, ObjectSums DEF IInv
  <1>5. Stored(b)' = Stored(b)
    BY DEF Stored, KeysOf
  <1>6. InStep("stored", b) + lost[b] <= InStep("stored", b)' + lost'[b]
    OBVIOUS
  <1>7. Stored(b) <= walk[r].total + SumFunctionOnSet(object, u)
                       + walk[r].since + InStep("stored", b)' + lost'[b]
    BY <1>1, <1>2, <1>3, <1>4, <1>6 DEF WalkCovers
  <1> QED
    BY <1>1, <1>5, <1>7 DEF WalkCovers, KeysOf

\* Against the budget an upload counts from its check.
LEMMA EnsureBudgetKeepsIInv ==
  ASSUME IInv, NEW w \in Worker, NEW k \in Key, NEW n \in Bytes, EnsureBudget(w, k, n)
  PROVE  IInv'
  <1>0. n \in Nat /\ Ceiling \in Nat /\ BucketOf[k] \in Bucket /\ counter[BucketOf[k]] \in Nat
    BY Sizes, QuotaAssumption DEF IInv, TypeOK
  <1>1. /\ w \in Uploader /\ upload[w] = None
        /\ counter[BucketOf[k]] + n <= Ceiling
        /\ upload' = [upload EXCEPT ![w] = [step |-> "checked", key |-> k, bytes |-> n]]
        /\ UNCHANGED <<object, counter, walk, lost>>
    BY <1>0 DEF EnsureBudget, Begin, WouldExceed
  <1>2. [step |-> "checked", key |-> k, bytes |-> n] \in UploadStage
    BY DEF UploadStage
  <1>3. TypeOK'
    BY <1>1, <1>2 DEF IInv, TypeOK
  <1>4. /\ upload'[w] = [step |-> "checked", key |-> k, bytes |-> n]
        /\ upload'[w] # None
        /\ \A v \in Worker \ {w} : upload'[v] = upload[v]
    BY <1>1, <1>2, QuotaAssumption DEF IInv, TypeOK
  <1>5. n \in Nat /\ n \in Fitting /\ BucketOf[k] \in Bucket
    BY <1>0, <1>1 DEF Fitting
  <1>6. UploadsFit'
    BY <1>1, <1>4, <1>5 DEF IInv, UploadsFit, At
  <1>7. ASSUME NEW b \in Bucket
        PROVE  /\ InStep("checked", b)' = InStep("checked", b) + IF BucketOf[k] = b THEN n ELSE 0
               /\ InStep("stored", b)' = InStep("stored", b)
               /\ InStep("checked", b) \in Nat /\ InStep("stored", b) \in Nat
               /\ lost[b] \in Nat /\ counter[b] \in Nat /\ Stored(b) \in Nat
               /\ Stored(b)' = Stored(b)
    <2>1. /\ Amount("checked", b)[w] = 0 /\ Amount("stored", b)[w] = 0
          /\ Amount("checked", b)'[w] = IF BucketOf[k] = b THEN n ELSE 0
          /\ Amount("stored", b)'[w] = 0
      BY <1>1, <1>4 DEF Amount, At, TargetBucket
    <2>2. InStep("checked", b)' = InStep("checked", b) + IF BucketOf[k] = b THEN n ELSE 0
      BY <1>3, <1>4, <1>5, <2>1, InStepMoves DEF IInv
    <2>3. InStep("stored", b)' = InStep("stored", b)
      BY <1>3, <1>4, <1>5, <2>1, InStepMoves DEF IInv
    <2>4. lost[b] \in Nat /\ counter[b] \in Nat /\ Stored(b) \in Nat
      BY ObjectSums DEF IInv, TypeOK
    <2> QED
      BY <1>1, <2>2, <2>3, <2>4, InStepType DEF IInv, Stored, KeysOf
  <1>8. WalksCover'
    BY <1>1, <1>3, <1>7, WalksStayCovered DEF IInv
  <1>9. CounterCovers'
    BY <1>1, <1>7 DEF IInv, CounterCovers
  <1>10. BudgetHolds'
    <2> SUFFICES ASSUME NEW b \in Bucket
                 PROVE  Stored(b)' + InStep("checked", b)' <= Room + lost[b]
      BY <1>1 DEF BudgetHolds, Room, Spare
    <2>1. CASE BucketOf[k] # b
      BY <1>7, <2>1 DEF IInv, BudgetHolds
    <2>2. CASE BucketOf[k] = b
      <3>1. InStep("checked", b) + InStep("stored", b) <= Spare
        BY <1>1, OthersFit DEF IInv
      <3>2. Stored(b) <= counter[b] + InStep("stored", b) + lost[b]
        BY DEF IInv, CounterCovers
      <3>3. Spare \in Int /\ Room = Ceiling + Spare
        BY RoomType
      <3>4. counter[b] + n <= Ceiling /\ Ceiling \in Nat
        BY <1>1, <2>2, QuotaAssumption
      <3> QED
        BY <1>5, <1>7, <2>2, <3>1, <3>2, <3>3, <3>4
    <2> QED
      BY <2>1, <2>2
  <1> QED
    BY <1>3, <1>6, <1>8, <1>9, <1>10 DEF IInv

\* What a worker's own upload counts for.
LEMMA OwnAmount ==
  ASSUME NEW w \in Worker, NEW step, NEW b
  PROVE  Amount(step, b)[w] = IF At(w, step) /\ TargetBucket(w) = b THEN upload[w].bytes ELSE 0
  BY DEF Amount

\* The same after a step, in terms of where the upload is then.
LEMMA OwnAmountNext ==
  ASSUME NEW w \in Worker, NEW step, NEW b
  PROVE  Amount(step, b)'[w] =
            IF upload'[w] # None /\ upload'[w].step = step /\ BucketOf[upload'[w].key] = b
            THEN upload'[w].bytes ELSE 0
  BY DEF Amount, At, TargetBucket

\* The numbers of the invariant are natural.
LEMMA Quantities ==
  ASSUME TypeOK, NEW b \in Bucket
  PROVE  /\ Stored(b) \in Nat /\ counter[b] \in Nat /\ lost[b] \in Nat
         /\ \A step : InStep(step, b) \in Nat
  BY ObjectSums, InStepType DEF TypeOK

\* A migration's copy counts for nothing yet.
LEMMA BeginCopyKeepsIInv ==
  ASSUME IInv, NEW w \in Worker, NEW k \in Key, NEW n \in Bytes, BeginCopy(w, k, n)
  PROVE  IInv'
  <1>1. /\ w \in Migrator /\ upload[w] = None
        /\ upload' = [upload EXCEPT ![w] = [step |-> "copying", key |-> k, bytes |-> n]]
        /\ UNCHANGED <<object, counter, walk, lost>>
    BY DEF BeginCopy, Begin
  <1>2. [step |-> "copying", key |-> k, bytes |-> n] \in UploadStage
    BY DEF UploadStage
  <1>3. TypeOK'
    BY <1>1, <1>2 DEF IInv, TypeOK
  <1>4. /\ upload'[w] = [step |-> "copying", key |-> k, bytes |-> n]
        /\ \A v \in Worker \ {w} : upload'[v] = upload[v]
    BY <1>1 DEF IInv, TypeOK
  <1>5. UploadsFit'
    BY <1>1, <1>2, <1>4, QuotaAssumption DEF IInv, UploadsFit, At
  <1>6. ASSUME NEW b \in Bucket, NEW step \in {"checked", "stored"}
        PROVE  InStep(step, b)' = InStep(step, b)
    <2>1. Amount(step, b)[w] = 0 /\ Amount(step, b)'[w] = 0
      BY <1>1, <1>4, OwnAmount, OwnAmountNext DEF At
    <2> QED
      BY <1>3, <1>4, <2>1, InStepMoves DEF IInv
  <1>7. \A b \in Bucket : Stored(b)' = Stored(b)
    BY <1>1 DEF Stored, KeysOf
  <1>8. WalksCover'
    <2>1. \A b \in Bucket : InStep("stored", b) + lost[b] <= InStep("stored", b)' + lost'[b]
      BY <1>1, <1>6, Quantities DEF IInv
    <2> QED
      BY <1>1, <1>3, <2>1, WalksStayCovered
  <1>9. CounterCovers' /\ BudgetHolds'
    BY <1>1, <1>6, <1>7 DEF IInv, CounterCovers, BudgetHolds, Room, Spare
  <1> QED
    BY <1>3, <1>5, <1>8, <1>9 DEF IInv

\* A walk misses at most the object that is put while it is going on.
LEMMA WalksSeePut ==
  ASSUME IInv, TypeOK', NEW w \in Worker, upload[w] # None, PutObject(w), UNCHANGED walk,
         \A b \in Bucket : InStep("stored", b)' + lost'[b] =
            InStep("stored", b) + lost[b] + IF TargetBucket(w) = b THEN upload[w].bytes ELSE 0
  PROVE  WalksCover'
  <1> SUFFICES ASSUME NEW r \in Auditor, NEW b \in Bucket, Walks(r, b)
               PROVE  WalkCovers(r, b)'
    BY DEF WalksCover, Walks
  <1> DEFINE u == walk[r].unlisted
             n == upload[w].bytes
             k == upload[w].key
  <1>1. /\ u \subseteq KeysOf(b)
        /\ Stored(b) <= walk[r].total + SumFunctionOnSet(object, u)
                          + walk[r].since + InStep("stored", b) + lost[b]
    BY DEF IInv, WalksCover, WalkCovers
  <1>2. /\ u \in SUBSET Key /\ walk[r].total \in Nat /\ walk[r].since \in Nat
        /\ KeysOf(b) \in SUBSET Key
        /\ lost[b] \in Nat /\ lost'[b] \in Nat
    BY DEF IInv, TypeOK, Walks, WalkStage, KeysOf
  <1>3. InStep("stored", b) \in Nat /\ InStep("stored", b)' \in Nat
    BY InStepType, InStepMovesType DEF IInv
  <1>4. Stored(b) \in Nat /\ SumFunctionOnSet(object, u) \in Nat
    BY <1>2, ObjectSums DEF IInv
  <1>5. /\ k \in Key /\ n \in Nat /\ object[k] \in Nat
        /\ Stored(b)' = IF k \in KeysOf(b) THEN Stored(b) - object[k] + n ELSE Stored(b)
        /\ SumFunctionOnSet(object', u) =
              IF k \in u THEN SumFunctionOnSet(object, u) - object[k] + n
                         ELSE SumFunctionOnSet(object, u)
    BY <1>2, PutSums DEF IInv, Stored, KeysOf
  <1>6. k \in KeysOf(b) <=> TargetBucket(w) = b
    BY <1>5 DEF KeysOf, TargetBucket
  <1>7. InStep("stored", b)' + lost'[b] =
            InStep("stored", b) + lost[b] + IF k \in KeysOf(b) THEN n ELSE 0
    BY <1>6
  <1>8. Stored(b)' <= walk[r].total + SumFunctionOnSet(object', u)
                        + walk[r].since + InStep("stored", b)' + lost'[b]
    <2> HIDE DEF u, n, k
    <2> DEFINE so == SumFunctionOnSet(object, u)
               sn == SumFunctionOnSet(object', u)
    <2>1. so \in Nat /\ sn \in Int
      BY <1>4, <1>5
    <2> HIDE DEF so, sn
    <2>2. k \in u => k \in KeysOf(b)
      BY <1>1
    <2>3. Stored(b) <= walk[r].total + so + walk[r].since + InStep("stored", b) + lost[b]
      BY <1>1 DEF so, u
    <2>4. sn = IF k \in u THEN so - object[k] + n ELSE so
      BY <1>5 DEF so, sn
    <2>5. Stored(b)' <= walk[r].total + sn + walk[r].since + InStep("stored", b)' + lost'[b]
      BY <1>2, <1>3, <1>4, <1>5, <1>7, <2>1, <2>2, <2>3, <2>4
    <2> QED
      BY <2>5 DEF sn
  <1> QED
    BY <1>1, <1>8 DEF WalkCovers, KeysOf

\* What was checked is stored: it leaves the budget's sum and enters the counter's.
LEMMA UploadKeepsIInv ==
  ASSUME IInv, NEW w \in Worker, Upload(w)
  PROVE  IInv'
  <1> DEFINE n == upload[w].bytes
             k == upload[w].key
  <1>1. /\ upload[w] # None /\ upload[w].step = "checked" /\ upload[w] \in UploadStage
        /\ PutObject(w)
        /\ upload' = [upload EXCEPT ![w].step = "stored"]
        /\ UNCHANGED <<counter, walk, lost>>
    BY DEF Upload, At, IInv, TypeOK
  <1>2. k \in Key /\ n \in Bytes /\ n \in Nat
    BY <1>1, Sizes DEF UploadStage
  <1>3. /\ \A v \in Worker \ {w} : upload'[v] = upload[v]
        /\ upload'[w] \in UploadStage /\ upload'[w] # None
        /\ upload'[w].step = "stored" /\ upload'[w].key = k /\ upload'[w].bytes = n
    BY <1>1, QuotaAssumption DEF IInv, TypeOK, UploadStage
  <1>4. TypeOK'
    BY <1>1, <1>2, <1>3 DEF IInv, TypeOK, PutObject
  <1>5. UploadsFit'
    BY <1>1, <1>3 DEF IInv, UploadsFit, At
  <1>6. ASSUME NEW b \in Bucket
        PROVE  /\ InStep("checked", b)' = InStep("checked", b) - IF TargetBucket(w) = b THEN n ELSE 0
               /\ InStep("stored", b)' = InStep("stored", b) + IF TargetBucket(w) = b THEN n ELSE 0
    <2>1. /\ Amount("checked", b)[w] = IF TargetBucket(w) = b THEN n ELSE 0
          /\ Amount("stored", b)[w] = 0
      BY <1>1, OwnAmount DEF At
    <2>2. /\ Amount("checked", b)'[w] = 0
          /\ Amount("stored", b)'[w] = IF TargetBucket(w) = b THEN n ELSE 0
      BY <1>3, OwnAmountNext DEF TargetBucket
    <2> QED
      BY <1>2, <1>3, <1>4, <2>1, <2>2, InStepMoves DEF IInv
  <1>7. ASSUME NEW b \in Bucket
        PROVE  /\ Stored(b)' \in Int /\ Stored(b) \in Nat
               /\ Stored(b)' <= Stored(b) + IF TargetBucket(w) = b THEN n ELSE 0
    <2>1. KeysOf(b) \in SUBSET Key /\ (k \in KeysOf(b) <=> TargetBucket(w) = b)
      BY <1>2 DEF KeysOf, TargetBucket
    <2>2. /\ object[k] \in Nat /\ Stored(b) \in Nat
          /\ Stored(b)' = IF k \in KeysOf(b) THEN Stored(b) - object[k] + n ELSE Stored(b)
      BY <1>1, <2>1, PutSums, ObjectSums DEF IInv, Stored, KeysOf
    <2> QED
      BY <1>2, <2>1, <2>2
  <1>8. WalksCover'
    <2>1. \A b \in Bucket : InStep("stored", b)' + lost'[b] =
              InStep("stored", b) + lost[b] + IF TargetBucket(w) = b THEN upload[w].bytes ELSE 0
      BY <1>1, <1>2, <1>6, Quantities DEF IInv
    <2> QED
      BY <1>1, <1>4, <2>1, WalksSeePut
  <1>9. CounterCovers'
    <2> SUFFICES ASSUME NEW b \in Bucket
                 PROVE  Stored(b)' <= counter'[b] + InStep("stored", b)' + lost'[b]
      BY DEF CounterCovers
    <2>1. Stored(b) <= counter[b] + InStep("stored", b) + lost[b]
      BY DEF IInv, CounterCovers
    <2> QED
      BY <1>1, <1>2, <1>6, <1>7, <2>1, Quantities DEF IInv
  <1>10. BudgetHolds'
    <2> SUFFICES ASSUME NEW b \in Bucket
                 PROVE  Stored(b)' + InStep("checked", b)' <= Room + lost'[b]
      BY DEF BudgetHolds, Room, Spare
    <2>1. Stored(b) + InStep("checked", b) <= Room + lost[b]
      BY DEF IInv, BudgetHolds
    <2> QED
      BY <1>1, <1>2, <1>6, <1>7, <2>1, RoomType, Quantities DEF IInv
  <1> QED
    BY <1>4, <1>5, <1>8, <1>9, <1>10 DEF IInv

\* An upload that ends, however it does, stops counting as under way.
LEMMA UploadEnds ==
  ASSUME IInv, TypeOK', NEW w \in Worker, upload[w] # None,
         upload' = [upload EXCEPT ![w] = None]
  PROVE  /\ UploadsFit'
         /\ upload[w].bytes \in Nat /\ upload[w].key \in Key /\ TargetBucket(w) \in Bucket
         /\ \A b \in Bucket, step \in {"checked", "stored"} :
               /\ InStep(step, b)' \in Nat
               /\ InStep(step, b)' = InStep(step, b)
                     - IF At(w, step) /\ TargetBucket(w) = b THEN upload[w].bytes ELSE 0
  <1>1. upload[w].bytes \in Nat /\ upload[w].key \in Key /\ TargetBucket(w) \in Bucket
    BY QuotaAssumption DEF IInv, TypeOK, UploadStage, TargetBucket
  <1>2. upload'[w] = None /\ \A v \in Worker \ {w} : upload'[v] = upload[v]
    BY DEF IInv, TypeOK
  <1>3. UploadsFit'
    BY <1>2 DEF IInv, UploadsFit, At
  <1>4. ASSUME NEW b \in Bucket, NEW step \in {"checked", "stored"}
        PROVE  /\ InStep(step, b)' \in Nat
               /\ InStep(step, b)' = InStep(step, b)
                     - IF At(w, step) /\ TargetBucket(w) = b THEN upload[w].bytes ELSE 0
    <2>1. Amount(step, b)'[w] = 0
      BY <1>2, OwnAmountNext
    <2>2. Amount(step, b)[w] = IF At(w, step) /\ TargetBucket(w) = b THEN upload[w].bytes ELSE 0
      BY OwnAmount
    <2>3. /\ InStep(step, b) \in Nat /\ InStep(step, b)' \in Nat
          /\ Amount(step, b)[w] \in Nat
          /\ InStep(step, b)' = InStep(step, b) - Amount(step, b)[w] + Amount(step, b)'[w]
      BY <1>2, InStepMoves DEF IInv
    <2> QED
      BY <1>1, <2>1, <2>2, <2>3
  <1> QED
    BY <1>1, <1>3, <1>4

\* What is lost is lost to the bucket of the upload only.
LEMMA LoseType ==
  ASSUME TypeOK, NEW w \in Worker, upload[w] # None, Lose(w)
  PROVE  /\ lost' \in [Bucket -> Nat]
         /\ \A b \in Bucket :
               lost'[b] = lost[b] + IF TargetBucket(w) = b THEN upload[w].bytes ELSE 0
  <1>1. upload[w].bytes \in Nat /\ TargetBucket(w) \in Bucket
    BY QuotaAssumption DEF TypeOK, UploadStage, TargetBucket
  <1> QED
    BY <1>1 DEF TypeOK, Lose

\* What a migration stores nobody will count.
LEMMA CopyKeepsIInv ==
  ASSUME IInv, NEW w \in Worker, Copy(w)
  PROVE  IInv'
  <1> DEFINE n == upload[w].bytes
             k == upload[w].key
  <1>1. /\ upload[w] # None /\ upload[w].step = "copying" /\ upload[w] \in UploadStage
        /\ PutObject(w) /\ Lose(w)
        /\ upload' = [upload EXCEPT ![w] = None]
        /\ UNCHANGED <<counter, walk>>
    BY DEF Copy, At, IInv, TypeOK
  <1>2. k \in Key /\ n \in Bytes /\ n \in Nat
    BY <1>1, Sizes DEF UploadStage
  <1>3. /\ lost' \in [Bucket -> Nat]
        /\ \A b \in Bucket :
              lost'[b] = lost[b] + IF TargetBucket(w) = b THEN n ELSE 0
    BY <1>1, LoseType DEF IInv
  <1>4. TypeOK'
    BY <1>1, <1>2, <1>3 DEF IInv, TypeOK, PutObject
  <1>5. ~At(w, "checked") /\ ~At(w, "stored")
    BY <1>1 DEF At
  <1>6. UploadsFit'
    BY <1>1, <1>4, UploadEnds
  <1>7. ASSUME NEW b \in Bucket
        PROVE  /\ InStep("checked", b)' = InStep("checked", b)
               /\ InStep("stored", b)' = InStep("stored", b)
    <2>1. \A step \in {"checked", "stored"} :
             /\ InStep(step, b)' \in Nat
             /\ InStep(step, b)' = InStep(step, b)
                   - IF At(w, step) /\ TargetBucket(w) = b THEN n ELSE 0
      BY <1>1, <1>4, UploadEnds
    <2>2. InStep("checked", b) \in Nat /\ InStep("stored", b) \in Nat
      BY Quantities DEF IInv
    <2> QED
      BY <1>5, <2>1, <2>2
  <1>8. ASSUME NEW b \in Bucket
        PROVE  /\ Stored(b)' \in Int /\ Stored(b) \in Nat
               /\ Stored(b)' <= Stored(b) + IF TargetBucket(w) = b THEN n ELSE 0
    <2>1. KeysOf(b) \in SUBSET Key /\ (k \in KeysOf(b) <=> TargetBucket(w) = b)
      BY <1>2 DEF KeysOf, TargetBucket
    <2>2. /\ object[k] \in Nat /\ Stored(b) \in Nat
          /\ Stored(b)' = IF k \in KeysOf(b) THEN Stored(b) - object[k] + n ELSE Stored(b)
      BY <1>1, <2>1, PutSums, ObjectSums DEF IInv, Stored, KeysOf
    <2> QED
      BY <1>2, <2>1, <2>2
  <1>9. WalksCover'
    <2>1. \A b \in Bucket : InStep("stored", b)' + lost'[b] =
              InStep("stored", b) + lost[b] + IF TargetBucket(w) = b THEN upload[w].bytes ELSE 0
      BY <1>2, <1>3, <1>7, Quantities DEF IInv
    <2> QED
      BY <1>1, <1>4, <2>1, WalksSeePut
  <1>10. CounterCovers'
    <2> SUFFICES ASSUME NEW b \in Bucket
                 PROVE  Stored(b)' <= counter'[b] + InStep("stored", b)' + lost'[b]
      BY DEF CounterCovers
    <2>1. Stored(b) <= counter[b] + InStep("stored", b) + lost[b]
      BY DEF IInv, CounterCovers
    <2> QED
      BY <1>1, <1>2, <1>3, <1>7, <1>8, <2>1, Quantities DEF IInv
  <1>11. BudgetHolds'
    <2> SUFFICES ASSUME NEW b \in Bucket
                 PROVE  Stored(b)' + InStep("checked", b)' <= Room + lost'[b]
      BY DEF BudgetHolds, Room, Spare
    <2>1. Stored(b) + InStep("checked", b) <= Room + lost[b]
      BY DEF IInv, BudgetHolds
    <2> QED
      BY <1>2, <1>3, <1>7, <1>8, <2>1, RoomType, Quantities DEF IInv
  <1> QED
    BY <1>4, <1>6, <1>9, <1>10, <1>11 DEF IInv

\* What is recorded moves from the uploads into the counter, and into what the
\* walks under way will have to give up.
LEMMA RecordBytesKeepsIInv ==
  ASSUME IInv, NEW w \in Worker, RecordBytes(w)
  PROVE  IInv'
  <1> DEFINE n == upload[w].bytes
  <1>1. /\ upload[w] # None /\ upload[w] \in UploadStage /\ At(w, "stored") /\ ~At(w, "checked")
        /\ CountUpload(w) /\ NoteSince(w)
        /\ upload' = [upload EXCEPT ![w] = None]
        /\ UNCHANGED <<object, lost>>
    BY DEF RecordBytes, At, IInv, TypeOK
  <1>2. n \in Nat /\ TargetBucket(w) \in Bucket
    BY <1>1, Sizes, QuotaAssumption DEF UploadStage, TargetBucket
  <1>3. /\ counter' \in [Bucket -> Nat]
        /\ \A b \in Bucket :
              counter'[b] = counter[b] + IF TargetBucket(w) = b THEN n ELSE 0
    BY <1>1, <1>2 DEF IInv, TypeOK, CountUpload
  <1>4. ASSUME NEW r \in Auditor
        PROVE  /\ walk'[r] \in WalkStage \cup {None}
               /\ walk[r] = None => walk'[r] = None
               /\ walk[r] # None =>
                     /\ walk[r] \in WalkStage /\ walk'[r] # None
                     /\ walk'[r].bucket = walk[r].bucket
                     /\ walk'[r].unlisted = walk[r].unlisted
                     /\ walk'[r].total = walk[r].total
                     /\ walk'[r].since =
                           walk[r].since + IF walk[r].bucket = TargetBucket(w) THEN n ELSE 0
    <2>1. walk[r] \in WalkStage \cup {None} /\ None \notin WalkStage
      BY QuotaAssumption DEF IInv, TypeOK
    <2>2. walk'[r] = IF walk[r] # None /\ walk[r].bucket = TargetBucket(w)
                     THEN [walk[r] EXCEPT !.since = @ + n] ELSE walk[r]
      BY <1>1 DEF NoteSince
    <2>3. CASE walk[r] = None
      BY <2>2, <2>3
    <2>4. CASE walk[r] # None
      <3>1. /\ walk[r] \in WalkStage
            /\ walk[r] = [bucket |-> walk[r].bucket, unlisted |-> walk[r].unlisted,
                          total |-> walk[r].total, since |-> walk[r].since]
            /\ walk[r].since \in Nat
        BY <2>1, <2>4 DEF WalkStage
      <3>2. CASE walk[r].bucket # TargetBucket(w)
        BY <2>2, <2>4, <3>1, <3>2
      <3>3. CASE walk[r].bucket = TargetBucket(w)
        <4>1. walk'[r] = [bucket |-> walk[r].bucket, unlisted |-> walk[r].unlisted,
                          total |-> walk[r].total, since |-> walk[r].since + n]
          BY <2>2, <2>4, <3>1, <3>3
        <4>2. walk'[r] \in WalkStage
          BY <1>2, <3>1, <4>1 DEF WalkStage
        <4> QED
          BY <2>1, <2>4, <3>1, <3>3, <4>1, <4>2
      <3> QED
        BY <3>2, <3>3
    <2> QED
      BY <2>3, <2>4
  <1>5. TypeOK'
    <2>1. walk' \in [Auditor -> WalkStage \cup {None}]
      BY <1>1, <1>4 DEF NoteSince
    <2> QED
      BY <1>1, <1>3, <2>1 DEF IInv, TypeOK
  <1>6. UploadsFit'
    BY <1>1, <1>5, UploadEnds
  <1>7. ASSUME NEW b \in Bucket
        PROVE  /\ InStep("checked", b)' = InStep("checked", b)
               /\ InStep("stored", b)' \in Nat
               /\ InStep("stored", b)' =
                     InStep("stored", b) - IF TargetBucket(w) = b THEN n ELSE 0
               /\ Stored(b)' = Stored(b)
    <2>1. \A step \in {"checked", "stored"} :
             /\ InStep(step, b)' \in Nat
             /\ InStep(step, b)' = InStep(step, b)
                   - IF At(w, step) /\ TargetBucket(w) = b THEN n ELSE 0
      BY <1>1, <1>5, UploadEnds
    <2>2. InStep("checked", b) \in Nat /\ InStep("stored", b) \in Nat
      BY Quantities DEF IInv
    <2>3. Stored(b)' = Stored(b)
      BY <1>1 DEF Stored, KeysOf
    <2>4. ~At(w, "checked") /\ At(w, "stored")
      BY <1>1
    <2> HIDE DEF n
    <2> QED
      BY <1>2, <2>1, <2>2, <2>3, <2>4
  <1>8. WalksCover'
    <2> SUFFICES ASSUME NEW r \in Auditor, NEW b \in Bucket, Walks(r, b)
                 PROVE  WalkCovers(r, b)'
      BY <1>4 DEF WalksCover, Walks
    <2>1. /\ walk[r].unlisted \subseteq KeysOf(b)
          /\ Stored(b) <= walk[r].total + SumFunctionOnSet(object, walk[r].unlisted)
                            + walk[r].since + InStep("stored", b) + lost[b]
      BY DEF IInv, WalksCover, WalkCovers
    <2>2. /\ walk[r] \in WalkStage /\ walk[r].bucket = b
          /\ walk[r].total \in Nat /\ walk[r].since \in Nat /\ walk[r].unlisted \in SUBSET Key
      BY DEF IInv, TypeOK, Walks, WalkStage
    <2>3. SumFunctionOnSet(object, walk[r].unlisted) \in Nat
      BY <2>2, ObjectSums DEF IInv
    <2>4. /\ walk'[r].unlisted = walk[r].unlisted /\ walk'[r].total = walk[r].total
          /\ walk'[r].since = walk[r].since + IF TargetBucket(w) = b THEN n ELSE 0
      BY <1>4, <2>2 DEF Walks
    <2>5. Stored(b) <= walk'[r].total + SumFunctionOnSet(object, walk'[r].unlisted)
                         + walk'[r].since + InStep("stored", b)' + lost[b]
      BY <1>2, <1>7, <2>1, <2>2, <2>3, <2>4, Quantities DEF IInv
    <2> QED
      BY <1>1, <1>7, <2>1, <2>4, <2>5 DEF WalkCovers, KeysOf
  <1>9. CounterCovers'
    <2> SUFFICES ASSUME NEW b \in Bucket
                 PROVE  Stored(b)' <= counter'[b] + InStep("stored", b)' + lost'[b]
      BY DEF CounterCovers
    <2>1. Stored(b) <= counter[b] + InStep("stored", b) + lost[b]
      BY DEF IInv, CounterCovers
    <2> QED
      BY <1>1, <1>2, <1>3, <1>7, <2>1, Quantities DEF IInv
  <1>10. BudgetHolds'
    BY <1>1, <1>7 DEF IInv, BudgetHolds, Room, Spare
  <1> QED
    BY <1>5, <1>6, <1>8, <1>9, <1>10 DEF IInv

\* What was stored and will not be recorded is lost.
LEMMA AbortKeepsIInv ==
  ASSUME IInv, NEW w \in Worker, Abort(w)
  PROVE  IInv'
  <1> DEFINE n == upload[w].bytes
  <1>1. /\ upload[w] # None
        /\ IF At(w, "stored") THEN Lose(w) ELSE UNCHANGED lost
        /\ upload' = [upload EXCEPT ![w] = None]
        /\ UNCHANGED <<object, counter, walk>>
    BY DEF Abort
  <1>2. n \in Nat
    BY <1>1, QuotaAssumption DEF IInv, TypeOK, UploadStage
  <1>3. /\ lost' \in [Bucket -> Nat]
        /\ \A b \in Bucket :
              lost'[b] = lost[b] + IF At(w, "stored") /\ TargetBucket(w) = b THEN n ELSE 0
    <2>1. CASE At(w, "stored")
      BY <1>1, <2>1, LoseType DEF IInv
    <2>2. CASE ~At(w, "stored")
      BY <1>1, <2>2, Quantities DEF IInv, TypeOK
    <2> QED
      BY <2>1, <2>2
  <1>4. TypeOK'
    BY <1>1, <1>3 DEF IInv, TypeOK
  <1>5. UploadsFit'
    BY <1>1, <1>4, UploadEnds
  <1>6. ASSUME NEW b \in Bucket
        PROVE  /\ InStep("checked", b)' \in Nat /\ InStep("checked", b)' <= InStep("checked", b)
               /\ InStep("stored", b)' \in Nat
               /\ InStep("stored", b)' =
                     InStep("stored", b) - IF At(w, "stored") /\ TargetBucket(w) = b THEN n ELSE 0
               /\ Stored(b)' = Stored(b)
               /\ InStep("stored", b)' + lost'[b] = InStep("stored", b) + lost[b]
               /\ lost'[b] >= lost[b]
    <2>1. /\ InStep("checked", b)' \in Nat
          /\ InStep("checked", b)' =
                InStep("checked", b) - IF At(w, "checked") /\ TargetBucket(w) = b THEN n ELSE 0
          /\ InStep("stored", b)' \in Nat
          /\ InStep("stored", b)' =
                InStep("stored", b) - IF At(w, "stored") /\ TargetBucket(w) = b THEN n ELSE 0
      BY <1>1, <1>4, UploadEnds
    <2>2. Stored(b)' = Stored(b)
      BY <1>1 DEF Stored, KeysOf
    <2> HIDE DEF n
    <2> QED
      BY <1>2, <1>3, <2>1, <2>2, Quantities DEF IInv
  <1>7. WalksCover'
    <2>1. \A b \in Bucket : InStep("stored", b) + lost[b] <= InStep("stored", b)' + lost'[b]
      BY <1>6, Quantities DEF IInv
    <2> QED
      BY <1>1, <1>4, <2>1, WalksStayCovered
  <1>8. CounterCovers'
    <2> SUFFICES ASSUME NEW b \in Bucket
                 PROVE  Stored(b)' <= counter'[b] + InStep("stored", b)' + lost'[b]
      BY DEF CounterCovers
    <2>1. Stored(b) <= counter[b] + InStep("stored", b) + lost[b]
      BY DEF IInv, CounterCovers
    <2>2. lost'[b] \in Nat /\ counter'[b] = counter[b]
      BY <1>1, <1>3
    <2> QED
      BY <1>6, <2>1, <2>2, Quantities DEF IInv
  <1>9. BudgetHolds'
    <2> SUFFICES ASSUME NEW b \in Bucket
                 PROVE  Stored(b)' + InStep("checked", b)' <= Room + lost'[b]
      BY DEF BudgetHolds, Room, Spare
    <2>1. Stored(b) + InStep("checked", b) <= Room + lost[b]
      BY DEF IInv, BudgetHolds
    <2>2. lost'[b] \in Nat
      BY <1>3
    <2> QED
      BY <1>6, <2>1, <2>2, RoomType, Quantities DEF IInv
  <1> QED
    BY <1>4, <1>5, <1>7, <1>8, <1>9 DEF IInv

-----------------------------------------------------------------------------
(***************************************************************************)
(* Reconciles.                                                             *)
(***************************************************************************)

\* A reconcile touches no upload and no object.
LEMMA AuditsOnlyCount ==
  ASSUME TypeOK, UNCHANGED <<object, upload>>
  PROVE  /\ UploadsFit => UploadsFit'
         /\ \A b \in Bucket : Stored(b)' = Stored(b)
         /\ \A b \in Bucket : \A step : InStep(step, b)' = InStep(step, b)
  <1>1. UploadsFit => UploadsFit'
    BY DEF UploadsFit, At
  <1>2. \A b \in Bucket : Stored(b)' = Stored(b)
    BY DEF Stored, KeysOf
  <1>3. ASSUME NEW b \in Bucket, NEW step
        PROVE  InStep(step, b)' = InStep(step, b)
    <2>1. Amount(step, b)' = Amount(step, b)
      BY DEF Amount, At, TargetBucket
    <2> QED
      BY <2>1 DEF InStep
  <1> QED
    BY <1>1, <1>2, <1>3

\* Of a walk of its own each reconcile is at most at one.
LEMMA WalkTyped ==
  ASSUME TypeOK, NEW r \in Auditor, NEW b \in Bucket, Walks(r, b)
  PROVE  /\ walk[r] \in WalkStage /\ walk[r].bucket = b
         /\ walk[r].total \in Nat /\ walk[r].since \in Nat /\ walk[r].unlisted \in SUBSET Key
         /\ SumFunctionOnSet(object, walk[r].unlisted) \in Nat
  <1>1. walk[r] \in WalkStage /\ walk[r].bucket = b
    BY DEF TypeOK, Walks
  <1>2. walk[r].total \in Nat /\ walk[r].since \in Nat /\ walk[r].unlisted \in SUBSET Key
    BY <1>1 DEF WalkStage
  <1> QED
    BY <1>1, <1>2, ObjectSums

\* A step that concerns one reconcile's walk keeps the others covered.
LEMMA OtherWalksCovered ==
  ASSUME IInv, UNCHANGED <<object, upload>>, NEW r \in Auditor,
         \A q \in Auditor \ {r} : walk'[q] = walk[q],
         \A b \in Bucket : lost'[b] \in Nat /\ lost[b] <= lost'[b],
         \A b \in Bucket : Walks(r, b)' => WalkCovers(r, b)'
  PROVE  WalksCover'
  <1> SUFFICES ASSUME NEW q \in Auditor, NEW b \in Bucket, Walks(q, b)'
               PROVE  WalkCovers(q, b)'
    BY DEF WalksCover
  <1>1. CASE q = r
    BY <1>1
  <1>2. CASE q # r
    <2>1. walk'[q] = walk[q]
      BY <1>2
    <2>2. Walks(q, b)
      BY <2>1 DEF Walks
    <2>3. /\ walk[q].unlisted \subseteq KeysOf(b)
          /\ Stored(b) <= walk[q].total + SumFunctionOnSet(object, walk[q].unlisted)
                            + walk[q].since + InStep("stored", b) + lost[b]
      BY <2>2 DEF IInv, WalksCover, WalkCovers
    <2>4. /\ walk[q].total \in Nat /\ walk[q].since \in Nat
          /\ SumFunctionOnSet(object, walk[q].unlisted) \in Nat
      BY <2>2, WalkTyped DEF IInv
    <2>5. /\ Stored(b)' = Stored(b) /\ InStep("stored", b)' = InStep("stored", b)
          /\ Stored(b) \in Nat /\ InStep("stored", b) \in Nat /\ lost[b] \in Nat
      BY AuditsOnlyCount, Quantities DEF IInv
    <2>6. lost'[b] \in Nat /\ lost[b] <= lost'[b]
      OBVIOUS
    <2>7. Stored(b)' <= walk[q].total + SumFunctionOnSet(object, walk[q].unlisted)
                          + walk[q].since + InStep("stored", b)' + lost'[b]
      BY <2>3, <2>4, <2>5, <2>6
    <2> QED
      BY <2>1, <2>3, <2>7 DEF WalkCovers, KeysOf
  <1> QED
    BY <1>1, <1>2

\* At its start a walk still has the whole bucket to list.
LEMMA BeginWalkKeepsIInv ==
  ASSUME IInv, NEW r \in Auditor, NEW a \in Bucket, BeginWalk(r, a)
  PROVE  IInv'
  <1> DEFINE fresh == [bucket |-> a, unlisted |-> KeysOf(a), total |-> 0, since |-> 0]
  <1>1. /\ walk[r] = None
        /\ walk' = [walk EXCEPT ![r] = fresh]
        /\ UNCHANGED <<object, counter, upload, lost>>
    BY DEF BeginWalk
  <1>2. fresh \in WalkStage
    BY DEF WalkStage, KeysOf
  <1>3. TypeOK'
    BY <1>1, <1>2 DEF IInv, TypeOK
  <1>4. walk'[r] = fresh /\ \A q \in Auditor \ {r} : walk'[q] = walk[q]
    BY <1>1 DEF IInv, TypeOK
  <1>5. ASSUME NEW b \in Bucket, Walks(r, b)'
        PROVE  WalkCovers(r, b)'
    <2>1. /\ b = a
          /\ walk'[r].unlisted = KeysOf(b) /\ walk'[r].total = 0 /\ walk'[r].since = 0
      BY <1>4, <1>5 DEF Walks
    <2>2. Stored(b)' <= 0 + SumFunctionOnSet(object', KeysOf(b)) + 0 + InStep("stored", b)' + lost'[b]
      BY <1>1, AuditsOnlyCount, Quantities DEF IInv, Stored
    <2> QED
      BY <2>1, <2>2 DEF WalkCovers, KeysOf
  <1>6. WalksCover'
    <2>1. \A b \in Bucket : lost'[b] \in Nat /\ lost[b] <= lost'[b]
      BY <1>1 DEF IInv, TypeOK
    <2> QED
      BY <1>1, <1>4, <1>5, <2>1, OtherWalksCovered
  <1>7. UploadsFit' /\ BudgetHolds' /\ CounterCovers'
    BY <1>1, AuditsOnlyCount DEF IInv, BudgetHolds, CounterCovers, Room, Spare
  <1> QED
    BY <1>3, <1>6, <1>7 DEF IInv

\* A page moves from what is to be listed into the total.
LEMMA ListPageKeepsIInv ==
  ASSUME IInv, NEW r \in Auditor, ListPage(r)
  PROVE  IInv'
  <1>1. PICK p \in SUBSET walk[r].unlisted :
           /\ walk[r] # None
           /\ walk' = [walk EXCEPT ![r].unlisted = @ \ p,
                                   ![r].total = @ + SumFunctionOnSet(object, p)]
           /\ UNCHANGED <<object, counter, upload, lost>>
    BY DEF ListPage
  <1> DEFINE u == walk[r].unlisted
             w == walk[r]
  <1>2. /\ w \in WalkStage /\ u \in SUBSET Key /\ w.bucket \in Bucket
        /\ w.total \in Nat /\ w.since \in Nat
    BY <1>1 DEF IInv, TypeOK, WalkStage
  <1>3. SumFunctionOnSet(object, p) \in Nat /\ SumFunctionOnSet(object, u \ p) \in Nat
    BY <1>2, ObjectSums DEF IInv
  <1>4. SumFunctionOnSet(object, u) =
           SumFunctionOnSet(object, p) + SumFunctionOnSet(object, u \ p)
    <2>1. IsFiniteSet(u) /\ \A k \in u : object[k] \in Int
      BY <1>2, Sizes, FS_Subset, QuotaAssumption DEF IInv
    <2>2. p \in SUBSET u
      OBVIOUS
    <2> HIDE DEF u
    <2> QED
      BY <2>1, <2>2, SumParts
  <1>5. /\ walk'[r] = [bucket |-> w.bucket, unlisted |-> u \ p,
                       total |-> w.total + SumFunctionOnSet(object, p), since |-> w.since]
        /\ \A q \in Auditor \ {r} : walk'[q] = walk[q]
        /\ walk' \in [Auditor -> WalkStage \cup {None}]
    <2> DEFINE next == [bucket |-> w.bucket, unlisted |-> u \ p,
                        total |-> w.total + SumFunctionOnSet(object, p), since |-> w.since]
    <2>1. next \in WalkStage
      BY <1>2, <1>3 DEF WalkStage
    <2>2. walk' = [walk EXCEPT ![r] = next]
      <3> DEFINE listed == [walk EXCEPT ![r].unlisted = @ \ p]
      <3>1. walk' = [listed EXCEPT ![r].total = @ + SumFunctionOnSet(object, p)]
        BY <1>1
      <3>2. walk \in [Auditor -> WalkStage \cup {None}]
        BY DEF IInv, TypeOK
      <3>3. listed = [walk EXCEPT ![r] = [w EXCEPT !.unlisted = @ \ p]]
        OBVIOUS
      <3>4. [w EXCEPT !.unlisted = @ \ p] = [bucket |-> w.bucket, unlisted |-> u \ p,
                                            total |-> w.total, since |-> w.since]
        BY <1>2 DEF WalkStage
      <3>5. listed = [walk EXCEPT ![r] = [bucket |-> w.bucket, unlisted |-> u \ p,
                                           total |-> w.total, since |-> w.since]]
        BY <3>3, <3>4
      <3>6. walk' = [listed EXCEPT ![r] =
                        [listed[r] EXCEPT !.total = @ + SumFunctionOnSet(object, p)]]
        BY <3>1
      <3>7. listed[r] = [bucket |-> w.bucket, unlisted |-> u \ p,
                         total |-> w.total, since |-> w.since]
        BY <3>2, <3>5
      <3>8. [listed[r] EXCEPT !.total = @ + SumFunctionOnSet(object, p)] = next
        <4> HIDE DEF listed
        <4> QED
          BY <3>7
      <3>9. walk' = [listed EXCEPT ![r] = next]
        BY <3>6, <3>8
      <3> HIDE DEF listed, next
      <3> QED
        BY <3>2, <3>5, <3>9
    <2> HIDE DEF next
    <2>3. /\ walk'[r] = next
          /\ \A q \in Auditor \ {r} : walk'[q] = walk[q]
          /\ walk' \in [Auditor -> WalkStage \cup {None}]
      BY <2>1, <2>2 DEF IInv, TypeOK
    <2> QED
      BY <2>3 DEF next
  <1>6. TypeOK'
    BY <1>1, <1>5 DEF IInv, TypeOK
  <1>7. ASSUME NEW b \in Bucket, Walks(r, b)'
        PROVE  WalkCovers(r, b)'
    <2>1. Walks(r, b)
      BY <1>1, <1>5, <1>7 DEF Walks
    <2>2. /\ u \subseteq KeysOf(b)
          /\ Stored(b) <= w.total + SumFunctionOnSet(object, u)
                            + w.since + InStep("stored", b) + lost[b]
      BY <2>1 DEF IInv, WalksCover, WalkCovers
    <2>3. /\ walk'[r].unlisted = u \ p /\ walk'[r].since = w.since
          /\ walk'[r].total = w.total + SumFunctionOnSet(object, p)
      BY <1>5
    <2>4. /\ Stored(b)' = Stored(b) /\ InStep("stored", b)' = InStep("stored", b)
          /\ Stored(b) \in Nat /\ InStep("stored", b) \in Nat /\ lost[b] \in Nat /\ lost'[b] = lost[b]
      BY <1>1, AuditsOnlyCount, Quantities DEF IInv
    <2> HIDE DEF u, w
    <2>5. Stored(b)' <= walk'[r].total + SumFunctionOnSet(object, u \ p)
                          + walk'[r].since + InStep("stored", b)' + lost'[b]
      BY <1>2, <1>3, <1>4, <2>2, <2>3, <2>4
    <2> QED
      BY <1>1, <2>2, <2>3, <2>5 DEF WalkCovers, KeysOf
  <1>8. WalksCover'
    <2>1. \A b \in Bucket : lost'[b] \in Nat /\ lost[b] <= lost'[b]
      BY <1>1 DEF IInv, TypeOK
    <2> QED
      BY <1>1, <1>5, <1>7, <2>1, OtherWalksCovered
  <1>9. UploadsFit' /\ BudgetHolds' /\ CounterCovers'
    BY <1>1, AuditsOnlyCount DEF IInv, BudgetHolds, CounterCovers, Room, Spare
  <1> QED
    BY <1>6, <1>8, <1>9 DEF IInv

\* The total replaces the counter, and with it what was recorded meanwhile.
LEMMA ReconcileKeepsIInv ==
  ASSUME IInv, NEW r \in Auditor, Reconcile(r)
  PROVE  IInv'
  <1> DEFINE a == walk[r].bucket
  <1>1. /\ walk[r] # None /\ walk[r].unlisted = {}
        /\ counter' = [counter EXCEPT ![a] = walk[r].total]
        /\ lost' = [lost EXCEPT ![a] = @ + walk[r].since]
        /\ walk' = [walk EXCEPT ![r] = None]
        /\ UNCHANGED <<object, upload>>
    BY DEF Reconcile, SetTotal
  <1>2. a \in Bucket /\ Walks(r, a) /\ walk[r].total \in Nat /\ walk[r].since \in Nat
    BY <1>1 DEF IInv, TypeOK, WalkStage, Walks
  <1>3. /\ counter' \in [Bucket -> Nat] /\ lost' \in [Bucket -> Nat]
        /\ counter'[a] = walk[r].total /\ lost'[a] = lost[a] + walk[r].since
        /\ \A b \in Bucket \ {a} : counter'[b] = counter[b] /\ lost'[b] = lost[b]
    BY <1>1, <1>2 DEF IInv, TypeOK
  <1>4. TypeOK'
    BY <1>1, <1>3 DEF IInv, TypeOK
  <1>5. \A b \in Bucket : lost'[b] \in Nat /\ lost[b] <= lost'[b]
    BY <1>2, <1>3, Quantities DEF IInv
  <1>6. WalksCover'
    <2>1. walk'[r] = None /\ \A q \in Auditor \ {r} : walk'[q] = walk[q]
      BY <1>1 DEF IInv, TypeOK
    <2> QED
      BY <1>1, <1>5, <2>1, OtherWalksCovered DEF Walks
  <1>7. UploadsFit'
    BY <1>1, AuditsOnlyCount DEF IInv
  <1>8. BudgetHolds'
    <2> SUFFICES ASSUME NEW b \in Bucket
                 PROVE  Stored(b)' + InStep("checked", b)' <= Room + lost'[b]
      BY DEF BudgetHolds, Room, Spare
    <2>1. Stored(b) + InStep("checked", b) <= Room + lost[b]
      BY DEF IInv, BudgetHolds
    <2>2. Stored(b)' = Stored(b) /\ InStep("checked", b)' = InStep("checked", b)
      BY <1>1, AuditsOnlyCount DEF IInv
    <2> QED
      BY <1>5, <2>1, <2>2, RoomType, Quantities DEF IInv
  <1>9. CounterCovers'
    <2> SUFFICES ASSUME NEW b \in Bucket
                 PROVE  Stored(b)' <= counter'[b] + InStep("stored", b)' + lost'[b]
      BY DEF CounterCovers
    <2>1. Stored(b)' = Stored(b) /\ InStep("stored", b)' = InStep("stored", b)
      BY <1>1, AuditsOnlyCount DEF IInv
    <2>2. CASE b # a
      BY <1>3, <2>1, <2>2 DEF IInv, CounterCovers
    <2>3. CASE b = a
      <3>1. Stored(a) <= walk[r].total + SumFunctionOnSet(object, walk[r].unlisted)
                           + walk[r].since + InStep("stored", a) + lost[a]
        BY <1>2 DEF IInv, WalksCover, WalkCovers
      <3>2. SumFunctionOnSet(object, {}) = 0
        BY SumRest, FS_EmptySet
      <3>3. Stored(a) <= walk[r].total + 0 + walk[r].since + InStep("stored", a) + lost[a]
        BY <1>1, <3>1, <3>2
      <3>4. Stored(a) \in Nat /\ InStep("stored", a) \in Nat /\ lost[a] \in Nat
        BY <1>2, Quantities DEF IInv
      <3> HIDE DEF a
      <3> QED
        BY <1>2, <1>3, <2>1, <2>3, <3>3, <3>4
    <2> QED
      BY <2>2, <2>3
  <1> QED
    BY <1>4, <1>6, <1>7, <1>8, <1>9 DEF IInv

\* A walk that fails leaves everything as it was.
LEMMA WalkFailsKeepsIInv ==
  ASSUME IInv, NEW r \in Auditor, WalkFails(r)
  PROVE  IInv'
  <1>1. /\ walk' = [walk EXCEPT ![r] = None]
        /\ UNCHANGED <<object, counter, upload, lost>>
    BY DEF WalkFails
  <1>2. TypeOK'
    BY <1>1 DEF IInv, TypeOK
  <1>3. walk'[r] = None /\ \A q \in Auditor \ {r} : walk'[q] = walk[q]
    BY <1>1 DEF IInv, TypeOK
  <1>4. WalksCover'
    <2>1. \A b \in Bucket : lost'[b] \in Nat /\ lost[b] <= lost'[b]
      BY <1>1 DEF IInv, TypeOK
    <2> QED
      BY <1>1, <1>3, <2>1, OtherWalksCovered DEF Walks
  <1>5. UploadsFit' /\ BudgetHolds' /\ CounterCovers'
    BY <1>1, AuditsOnlyCount DEF IInv, BudgetHolds, CounterCovers, Room, Spare
  <1> QED
    BY <1>2, <1>4, <1>5 DEF IInv

-----------------------------------------------------------------------------
(***************************************************************************)
(* The theorems.                                                           *)
(***************************************************************************)

\* Every step of every process keeps the invariant,
LEMMA NextKeepsIInv == IInv /\ [Next]_vars => IInv'
  <1> SUFFICES ASSUME IInv, [Next]_vars PROVE IInv'
    OBVIOUS
  <1>1. ASSUME NEW w \in Worker, UploadStep(w)
        PROVE  IInv'
    BY <1>1, EnsureBudgetKeepsIInv, BeginCopyKeepsIInv, UploadKeepsIInv, CopyKeepsIInv,
       RecordBytesKeepsIInv, AbortKeepsIInv DEF UploadStep
  <1>2. ASSUME NEW r \in Auditor, AuditStep(r)
        PROVE  IInv'
    BY <1>2, BeginWalkKeepsIInv, ListPageKeepsIInv, ReconcileKeepsIInv, WalkFailsKeepsIInv
    DEF AuditStep
  <1>3. CASE UNCHANGED vars
    <2>1. UNCHANGED <<object, counter, upload, walk, lost>>
      BY <1>3 DEF vars
    <2>2. TypeOK'
      BY <2>1 DEF IInv, TypeOK
    <2>3. \A b \in Bucket : InStep("stored", b)' = InStep("stored", b)
      BY <2>1, AuditsOnlyCount DEF IInv
    <2>4. WalksCover'
      BY <2>1, <2>2, <2>3, WalksStayCovered, Quantities DEF IInv
    <2>5. UploadsFit' /\ BudgetHolds' /\ CounterCovers'
      BY <2>1, AuditsOnlyCount DEF IInv, BudgetHolds, CounterCovers, Room, Spare
    <2> QED
      BY <2>2, <2>4, <2>5 DEF IInv
  <1> QED
    BY <1>1, <1>2, <1>3 DEF Next

\* so that it holds throughout.
LEMMA Invariance == Spec => []IInv
  BY InitIInv, NextKeepsIInv, PTL DEF Spec

\* Sizes, counters and walks are what they are declared to be: the upsert of
\* record_bytes and the one of reconcile never leave a bucket's total below 0.
THEOREM TypeCorrect == Spec => []TypeOK
  <1>1. IInv => TypeOK
    BY DEF IInv
  <1> QED
    BY <1>1, Invariance, PTL

\* The sum the invariant counts is the one the property speaks of.
LEMMA UnrecordedIsInStep ==
  ASSUME TypeOK, NEW b \in Bucket
  PROVE  Unrecorded(b) = InStep("stored", b)
  <1> DEFINE S == {w \in Worker : At(w, "stored") /\ TargetBucket(w) = b}
             f == [w \in S |-> upload[w].bytes]
             g == Amount("stored", b)
  <1>1. S \in SUBSET Worker /\ IsFiniteSet(S) /\ DOMAIN f = S
    BY FS_Subset, QuotaAssumption
  <1>2. \A w \in S : f[w] = g[w]
    BY DEF Amount
  <1>3. \A w \in Worker \ S : g[w] = 0
    BY DEF Amount
  <1>4. \A w \in Worker : g[w] \in Int
    BY InStepType
  <1>5. Unrecorded(b) = SumFunctionOnSet(f, DOMAIN f)
    BY DEF Unrecorded, SumFunction, FoldFunction, SumFunctionOnSet
  <1> HIDE DEF S, f, g
  <1>6. SumFunctionOnSet(f, S) = SumFunctionOnSet(g, S)
    BY <1>1, <1>2, SumAgree
  <1>7. SumFunctionOnSet(g, Worker) = SumFunctionOnSet(g, S)
    BY <1>1, <1>3, <1>4, SumZeros, QuotaAssumption
  <1> QED
    BY <1>1, <1>5, <1>6, <1>7 DEF g, InStep

\* ensure_budget reads a counter that is short of the bucket only by uploads
\* still to be recorded and by bytes no record_bytes will count: neither an
\* upload nor a reconcile that overwrites the counter with an old listing hides
\* more than that.
THEOREM CounterNeverHidesMore == Spec => []CounterCoversBucket
  <1>1. IInv => CounterCoversBucket
    BY UnrecordedIsInStep DEF IInv, CounterCovers, CounterCoversBucket
  <1> QED
    BY <1>1, Invariance, PTL

\* Uploads that all pass ensure_budget before any of them is recorded take the
\* bucket past the ceiling by one object of a size that fits per further
\* uploader, and by what was lost, whatever the number of uploaders and objects.
THEOREM OvershootBounded == Spec => []OvershootIsBounded
  <1>1. ASSUME IInv PROVE OvershootIsBounded
    <2> SUFFICES ASSUME NEW b \in Bucket
                 PROVE  Stored(b) <= Ceiling + Spare + lost[b]
      BY DEF OvershootIsBounded, Spare
    <2>1. Stored(b) + InStep("checked", b) <= Room + lost[b]
      BY <1>1 DEF IInv, BudgetHolds
    <2> QED
      BY <1>1, <2>1, RoomType, Quantities DEF IInv
  <1> QED
    BY <1>1, Invariance, PTL

=============================================================================
