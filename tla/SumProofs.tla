------------------------------ MODULE SumProofs ------------------------------
(***************************************************************************)
(* The sum of a function over a finite set, SumFunctionOnSet of the        *)
(* community modules, which SnapMerge takes the room of the save layer     *)
(* from: that it is a number, and what one member adds to it.  The library *)
(* has no theorem about it.  Its induction theorems take an operator for a *)
(* parameter; the proofs here go by a least counterexample instead.        *)
(***************************************************************************)
EXTENDS FiniteSets, Integers, Functions, FiniteSetTheorems, TLAPS

(* The order of the natural numbers as the library has it: a set of pairs. *)
Less == {ss \in Nat \X Nat : ss[1] < ss[2]}
(* Each set of natural numbers that is not empty has a least member.       *)
LEMMA LeastNumber ==
  ASSUME NEW T \in SUBSET Nat, T # {}
  PROVE  \E n \in T : \A m \in T : n <= m
<1>1. IsWellFoundedOn(Less, Nat)
  BY NatLessThanWellFounded DEF OpToRel, Less
<1>2. \E n \in T : \A m \in T : ~(<<m, n>> \in Less)
  BY <1>1, WFMin
<1>3. \A m, n \in Nat : <<m, n>> \in Less <=> m < n
  BY DEF Less
<1>4. \A m, n \in Nat : ~(m < n) => n <= m
  OBVIOUS
<1> QED BY <1>2, <1>3, <1>4

(* If some part of a finite set is bad, one is bad that has no bad part     *)
(* smaller by one member: what an induction over finite sets rests on.      *)
LEMMA MinimalSubset ==
  ASSUME NEW S, IsFiniteSet(S), NEW Bad \in SUBSET SUBSET S, Bad # {}
  PROVE  \E s \in Bad : \A x \in s : s \ {x} \notin Bad
<1> DEFINE Sizes == {n \in Nat : \E s \in Bad : n = Cardinality(s)}
<1>1. \A s \in SUBSET S : IsFiniteSet(s) /\ Cardinality(s) \in Nat
  BY FS_Subset, FS_CardinalityType
<1>2. \E n \in Sizes : \A m \in Sizes : n <= m
  <2>1. Sizes # {}
    BY <1>1
  <2>2. Sizes \in SUBSET Nat
    OBVIOUS
  <2> HIDE DEF Sizes
  <2> QED BY <2>1, <2>2, LeastNumber
<1>3. PICK s \in Bad : \A t \in Bad : Cardinality(s) <= Cardinality(t)
  BY <1>1, <1>2
<1>4. \A x \in s : Cardinality(s \ {x}) = Cardinality(s) - 1
  BY <1>1, FS_RemoveElement
<1> QED BY <1>1, <1>3, <1>4
-----------------------------------------------------------------------------
(* SumFunctionOnSet is a fold: it adds up the values member by member, in  *)
(* the order CHOOSE has, by a function that recurs on the parts of the set. *)
Chosen(s) == CHOOSE x \in s : TRUE
SumStep(f, g, s) == IF s = {} THEN 0 ELSE f[Chosen(s)] + g[s \ {Chosen(s)}]
Iter(f, S) == CHOOSE g : g = [s \in SUBSET S |-> SumStep(f, g, s)]

(* The library's sum is that function at the whole set.                     *)
LEMMA SumIsIter ==
  ASSUME NEW f, NEW S
  PROVE  SumFunctionOnSet(f, S) = Iter(f, S)[S]
BY DEF SumFunctionOnSet, FoldFunctionOnSet, MapThenFoldSet, Chosen, SumStep, Iter

(* What is left when the chosen member is taken out.                        *)
LEMMA ChosenRemoved ==
  ASSUME NEW S, IsFiniteSet(S), NEW s \in SUBSET S, s # {}
  PROVE  /\ Chosen(s) \in s /\ s \ {Chosen(s)} \in SUBSET S
         /\ IsFiniteSet(s) /\ Cardinality(s) \in Nat
         /\ Cardinality(s \ {Chosen(s)}) = Cardinality(s) - 1
<1>1. Chosen(s) \in s
  BY DEF Chosen
<1>2. IsFiniteSet(s) /\ Cardinality(s) \in Nat
  BY FS_Subset, FS_CardinalityType
<1> QED BY <1>1, <1>2, FS_RemoveElement

(* The function exists: each bound on the size of the parts has one.        *)
LEMMA IterExists ==
  ASSUME NEW f, NEW S, IsFiniteSet(S)
  PROVE  \E g : g = [s \in SUBSET S |-> SumStep(f, g, s)]
<1> DEFINE Good(n) == \E g : \A s \in SUBSET S :
                        Cardinality(s) <= n => g[s] = SumStep(f, g, s)
           Bad == {n \in Nat : ~Good(n)}
<1>0. \A s \in SUBSET S : IsFiniteSet(s) /\ Cardinality(s) \in Nat
  BY FS_Subset, FS_CardinalityType
<1>1. ASSUME NEW n \in Bad, \A m \in Bad : n <= m PROVE FALSE
  <2>1. CASE n = 0
    <3> DEFINE g == [s \in SUBSET S |-> 0]
    <3>1. \A s \in SUBSET S : Cardinality(s) <= 0 => s = {}
      BY <1>0, FS_EmptySet
    <3>2. \A s \in SUBSET S : Cardinality(s) <= 0 => g[s] = SumStep(f, g, s)
      BY <3>1 DEF SumStep
    <3> QED BY <2>1, <3>2, <1>1
  <2>2. CASE n # 0
    <3>1. n - 1 \in Nat /\ n \in Nat
      BY <2>2
    <3>2. Good(n - 1)
      BY <3>1, <1>1
    <3>3. PICK g : \A s \in SUBSET S : Cardinality(s) <= n - 1 => g[s] = SumStep(f, g, s)
      BY <3>2
    <3> DEFINE h == [s \in SUBSET S |-> IF Cardinality(s) <= n - 1 THEN g[s] ELSE SumStep(f, g, s)]
    <3>4. ASSUME NEW s \in SUBSET S, Cardinality(s) <= n PROVE h[s] = SumStep(f, h, s)
      <4>1. CASE s = {}
        BY <4>1, <3>1, <3>3, FS_EmptySet DEF SumStep
      <4>2. CASE s # {}
        <5>1. s \ {Chosen(s)} \in SUBSET S /\ Cardinality(s \ {Chosen(s)}) = Cardinality(s) - 1
              /\ Cardinality(s) \in Nat
          BY <4>2, ChosenRemoved
        <5>2. h[s \ {Chosen(s)}] = g[s \ {Chosen(s)}]
          BY <5>1, <3>4, <3>1
        <5>3. h[s] = SumStep(f, g, s)
          BY <3>3
        <5> QED BY <4>2, <5>2, <5>3 DEF SumStep
      <4> QED BY <4>1, <4>2
    <3>5. Good(n)
      BY <3>4
    <3> QED BY <3>5
  <2> QED BY <2>1, <2>2
<1>2. Bad = {}
  <2>1. Bad \in SUBSET Nat
    OBVIOUS
  <2> HIDE DEF Bad
  <2> QED BY <2>1, <1>1, LeastNumber
<1>3. \A s \in SUBSET S : Cardinality(s) <= Cardinality(S)
  BY FS_Subset
<1>4. Good(Cardinality(S))
  BY <1>2, <1>0
<1>5. PICK g : \A s \in SUBSET S : g[s] = SumStep(f, g, s)
  BY <1>3, <1>4
<1> DEFINE h == [s \in SUBSET S |-> g[s]]
<1>6. \A s \in SUBSET S : SumStep(f, g, s) = SumStep(f, h, s)
  BY ChosenRemoved DEF SumStep
<1>7. h = [s \in SUBSET S |-> SumStep(f, h, s)]
  BY <1>5, <1>6
<1> QED BY <1>7

(* So the function satisfies its recursion.                                 *)
LEMMA IterSteps ==
  ASSUME NEW f, NEW S, IsFiniteSet(S), NEW s \in SUBSET S
  PROVE  Iter(f, S)[s] = SumStep(f, Iter(f, S), s)
<1>1. Iter(f, S) = [t \in SUBSET S |-> SumStep(f, Iter(f, S), t)]
  BY IterExists DEF Iter
<1> QED BY <1>1

(* The sum of a set does not depend on the set that the fold began with.    *)
LEMMA IterOfPart ==
  ASSUME NEW f, NEW S, IsFiniteSet(S), NEW T \in SUBSET S, NEW u \in SUBSET T
  PROVE  Iter(f, T)[u] = Iter(f, S)[u]
<1> DEFINE Bad == {s \in SUBSET T : Iter(f, T)[s] # Iter(f, S)[s]}
<1>1. IsFiniteSet(T)
  BY FS_Subset
<1>2. ASSUME NEW s \in Bad, \A x \in s : s \ {x} \notin Bad PROVE FALSE
  <2>1. /\ Iter(f, T)[s] = SumStep(f, Iter(f, T), s)
        /\ Iter(f, S)[s] = SumStep(f, Iter(f, S), s)
    BY <1>1, IterSteps
  <2>2. s # {}
    BY <2>1 DEF SumStep
  <2>3. Iter(f, T)[s \ {Chosen(s)}] = Iter(f, S)[s \ {Chosen(s)}]
    BY <1>1, <1>2, <2>2, ChosenRemoved
  <2> QED BY <2>1, <2>3 DEF SumStep
<1>3. Bad \in SUBSET SUBSET T
  OBVIOUS
<1>4. Bad = {}
  <2> HIDE DEF Bad
  <2> QED BY <1>1, <1>2, <1>3, MinimalSubset
<1> QED BY <1>4

(* The sum of nothing, and the sum by the chosen member.                    *)
LEMMA SumUnfolds ==
  ASSUME NEW f, NEW S, IsFiniteSet(S)
  PROVE  /\ SumFunctionOnSet(f, {}) = 0
         /\ S # {} => SumFunctionOnSet(f, S) =
                        f[Chosen(S)] + SumFunctionOnSet(f, S \ {Chosen(S)})
<1>1. SumFunctionOnSet(f, {}) = 0
  BY SumIsIter, IterSteps, FS_EmptySet DEF SumStep
<1>2. ASSUME S # {}
      PROVE  SumFunctionOnSet(f, S) = f[Chosen(S)] + SumFunctionOnSet(f, S \ {Chosen(S)})
  <2>1. Iter(f, S)[S] = f[Chosen(S)] + Iter(f, S)[S \ {Chosen(S)}]
    BY <1>2, IterSteps DEF SumStep
  <2>2. Iter(f, S)[S \ {Chosen(S)}] = Iter(f, S \ {Chosen(S)})[S \ {Chosen(S)}]
    BY IterOfPart
  <2> QED BY <2>1, <2>2, SumIsIter
<1> QED BY <1>1, <1>2

(* The sum of natural numbers is one.                                       *)
LEMMA SumType ==
  ASSUME NEW A, NEW f \in [A -> Nat], NEW S \in SUBSET A, IsFiniteSet(S)
  PROVE  SumFunctionOnSet(f, S) \in Nat
<1> DEFINE Bad == {s \in SUBSET S : SumFunctionOnSet(f, s) \notin Nat}
<1>1. ASSUME NEW s \in Bad, \A x \in s : s \ {x} \notin Bad PROVE FALSE
  <2>1. IsFiniteSet(s)
    BY FS_Subset
  <2>6. SumFunctionOnSet(f, {}) = 0
    BY SumUnfolds, FS_EmptySet
  <2>2. s # {}
    BY <2>6
  <2>5. SumFunctionOnSet(f, s) = f[Chosen(s)] + SumFunctionOnSet(f, s \ {Chosen(s)})
    BY <2>1, <2>2, SumUnfolds
  <2>3. Chosen(s) \in A /\ SumFunctionOnSet(f, s \ {Chosen(s)}) \in Nat
    BY <1>1, <2>2, ChosenRemoved
  <2>4. f[Chosen(s)] \in Nat
    BY <2>3
  <2> QED BY <2>5, <2>3, <2>4
<1>2. Bad \in SUBSET SUBSET S
  OBVIOUS
<1>3. Bad = {}
  <2> HIDE DEF Bad
  <2> QED BY <1>1, <1>2, MinimalSubset
<1> QED BY <1>3

(* Any member, not only the chosen one, can be taken out of the sum.        *)
LEMMA SumWithout ==
  ASSUME NEW A, NEW f \in [A -> Nat], NEW S \in SUBSET A, IsFiniteSet(S), NEW y \in S
  PROVE  SumFunctionOnSet(f, S) = f[y] + SumFunctionOnSet(f, S \ {y})
<1> DEFINE Bad == {s \in SUBSET S : \E x \in s :
                     SumFunctionOnSet(f, s) # f[x] + SumFunctionOnSet(f, s \ {x})}
<1>1. ASSUME NEW s \in Bad, \A x \in s : s \ {x} \notin Bad PROVE FALSE
  <2>1. PICK x \in s : SumFunctionOnSet(f, s) # f[x] + SumFunctionOnSet(f, s \ {x})
    OBVIOUS
  <2>2. IsFiniteSet(s) /\ s # {} /\ x \in A
    BY FS_Subset
  <2> DEFINE c == Chosen(s)
  <2>3. c \in s /\ c \in A /\ SumFunctionOnSet(f, s) = f[c] + SumFunctionOnSet(f, s \ {c})
    BY <2>2, SumUnfolds, ChosenRemoved
  <2> HIDE DEF c
  <2>4. x # c
    BY <2>1, <2>3
  <2>5. SumFunctionOnSet(f, s \ {c}) = f[x] + SumFunctionOnSet(f, (s \ {c}) \ {x})
    BY <1>1, <2>3, <2>4
  <2>6. SumFunctionOnSet(f, s \ {x}) = f[c] + SumFunctionOnSet(f, (s \ {x}) \ {c})
    BY <1>1, <2>3, <2>4
  <2>7. (s \ {x}) \ {c} = (s \ {c}) \ {x}
    OBVIOUS
  <2>8. SumFunctionOnSet(f, (s \ {c}) \ {x}) \in Nat
    <3>1. IsFiniteSet((s \ {c}) \ {x}) /\ (s \ {c}) \ {x} \in SUBSET A
      BY <2>2, FS_Subset
    <3> QED BY <3>1, SumType
  <2>9. f[x] \in Nat /\ f[c] \in Nat
    BY <2>2, <2>3
  <2> QED BY <2>1, <2>3, <2>5, <2>6, <2>7, <2>8, <2>9
<1>2. Bad \in SUBSET SUBSET S
  OBVIOUS
<1>3. Bad = {}
  <2> HIDE DEF Bad
  <2> QED BY <1>1, <1>2, MinimalSubset
<1> QED BY <1>3

(* A part of a set has no bigger sum than the set.                         *)
LEMMA SumOfPart ==
  ASSUME NEW A, NEW f \in [A -> Nat], NEW S \in SUBSET A, IsFiniteSet(S),
         NEW T \in SUBSET S
  PROVE  SumFunctionOnSet(f, T) <= SumFunctionOnSet(f, S)
<1> DEFINE Bad == {s \in SUBSET S : T \subseteq s /\
                     ~(SumFunctionOnSet(f, T) <= SumFunctionOnSet(f, s))}
<1>1. \A s \in SUBSET S : IsFiniteSet(s) /\ SumFunctionOnSet(f, s) \in Nat
  BY FS_Subset, SumType
<1>2. ASSUME NEW s \in Bad, \A x \in s : s \ {x} \notin Bad PROVE FALSE
  <2>1. s # T
    BY <1>1
  <2>2. PICK x \in s : x \notin T
    BY <2>1
  <2>3. SumFunctionOnSet(f, T) <= SumFunctionOnSet(f, s \ {x})
    BY <1>2, <2>2
  <2>4. SumFunctionOnSet(f, s) = f[x] + SumFunctionOnSet(f, s \ {x})
    BY <1>1, SumWithout
  <2>5. f[x] \in Nat
    OBVIOUS
  <2> QED
    BY <1>1, <2>3, <2>4, <2>5
<1>3. Bad \in SUBSET SUBSET S
  OBVIOUS
<1>4. Bad = {}
  <2> HIDE DEF Bad
  <2> QED
    BY <1>2, <1>3, MinimalSubset
<1> QED
  BY <1>4

(* A function that is nowhere bigger has no bigger sum.                    *)
LEMMA SumMonotone ==
  ASSUME NEW A, NEW f \in [A -> Nat], NEW g \in [A -> Nat],
         NEW S \in SUBSET A, IsFiniteSet(S), \A x \in S : f[x] <= g[x]
  PROVE  SumFunctionOnSet(f, S) <= SumFunctionOnSet(g, S)
<1> DEFINE Bad == {s \in SUBSET S :
                     ~(SumFunctionOnSet(f, s) <= SumFunctionOnSet(g, s))}
<1>1. \A s \in SUBSET S : /\ IsFiniteSet(s)
                          /\ SumFunctionOnSet(f, s) \in Nat
                          /\ SumFunctionOnSet(g, s) \in Nat
  BY FS_Subset, SumType
<1>2. ASSUME NEW s \in Bad, \A x \in s : s \ {x} \notin Bad PROVE FALSE
  <2>1. SumFunctionOnSet(f, {}) = 0 /\ SumFunctionOnSet(g, {}) = 0
    BY SumUnfolds, FS_EmptySet
  <2>2. PICK x \in s : TRUE
    BY <2>1
  <2>3. SumFunctionOnSet(f, s \ {x}) <= SumFunctionOnSet(g, s \ {x})
    BY <1>2, <2>2
  <2>4. SumFunctionOnSet(f, s) = f[x] + SumFunctionOnSet(f, s \ {x})
    BY <1>1, <2>2, SumWithout
  <2>5. SumFunctionOnSet(g, s) = g[x] + SumFunctionOnSet(g, s \ {x})
    BY <1>1, <2>2, SumWithout
  <2>6. f[x] \in Nat /\ g[x] \in Nat /\ f[x] <= g[x]
    BY <2>2
  <2>7. /\ SumFunctionOnSet(f, s \ {x}) \in Nat
        /\ SumFunctionOnSet(g, s \ {x}) \in Nat
    BY <1>1, <2>2
  <2> QED
    BY <2>3, <2>4, <2>5, <2>6, <2>7
<1>3. Bad \in SUBSET SUBSET S
  OBVIOUS
<1>4. Bad = {}
  <2> HIDE DEF Bad
  <2> QED
    BY <1>2, <1>3, MinimalSubset
<1> QED
  BY <1>4

(* One value changed changes the sum by as much.                           *)
LEMMA SumChange ==
  ASSUME NEW A, NEW f \in [A -> Nat], NEW g \in [A -> Nat],
         NEW S \in SUBSET A, IsFiniteSet(S), NEW y \in S,
         \A x \in S \ {y} : g[x] = f[x]
  PROVE  SumFunctionOnSet(g, S) = SumFunctionOnSet(f, S) - f[y] + g[y]
<1> DEFINE T == S \ {y}
<1>1. T \in SUBSET A /\ IsFiniteSet(T) /\ f[y] \in Nat /\ g[y] \in Nat
  BY FS_Subset
<1>2. \A x \in T : f[x] <= g[x] /\ g[x] <= f[x]
  OBVIOUS
<1>3. /\ SumFunctionOnSet(f, S) = f[y] + SumFunctionOnSet(f, T)
      /\ SumFunctionOnSet(g, S) = g[y] + SumFunctionOnSet(g, T)
  BY SumWithout
<1> HIDE DEF T
<1>4. SumFunctionOnSet(f, T) \in Nat /\ SumFunctionOnSet(g, T) \in Nat
  BY <1>1, SumType
<1>5. /\ SumFunctionOnSet(f, T) <= SumFunctionOnSet(g, T)
      /\ SumFunctionOnSet(g, T) <= SumFunctionOnSet(f, T)
  BY <1>1, <1>2, SumMonotone
<1> QED
  BY <1>1, <1>3, <1>4, <1>5

(* Nothing but zeros adds up to zero.                                      *)
LEMMA SumOfNothing ==
  ASSUME NEW A, NEW f \in [A -> Nat], NEW S \in SUBSET A, IsFiniteSet(S),
         \A x \in S : f[x] = 0
  PROVE  SumFunctionOnSet(f, S) = 0
<1> DEFINE Bad == {s \in SUBSET S : SumFunctionOnSet(f, s) # 0}
<1>1. ASSUME NEW s \in Bad, \A x \in s : s \ {x} \notin Bad PROVE FALSE
  <2>1. SumFunctionOnSet(f, {}) = 0 /\ IsFiniteSet(s)
    BY SumUnfolds, FS_EmptySet, FS_Subset
  <2>2. PICK x \in s : TRUE
    BY <2>1
  <2>3. SumFunctionOnSet(f, s) = f[x] + SumFunctionOnSet(f, s \ {x})
    BY <2>1, <2>2, SumWithout
  <2> QED
    BY <1>1, <2>2, <2>3
<1>2. Bad \in SUBSET SUBSET S
  OBVIOUS
<1>3. Bad = {}
  <2> HIDE DEF Bad
  <2> QED
    BY <1>1, <1>2, MinimalSubset
<1> QED
  BY <1>3
=============================================================================
