---------------------------- MODULE SetTheorems ----------------------------
(***************************************************************************)
(* What the proofs need of finite sets: an induction over the subsets of    *)
(* one, sums, least and largest elements and ranks.  SumFunctionOnSet of    *)
(* the community modules is a fold; the lemmas say that the fold is a sum:  *)
(* whatever order it takes the elements in, one element more adds its       *)
(* value.                                                                   *)
(***************************************************************************)
EXTENDS Functions, FiniteSetsExt, FiniteSetTheorems, WellFoundedInduction, TLAPS

(* Among some subsets of a finite set there is one that none of them is one *)
(* element smaller than.                                                    *)
LEMMA SmallestSubset ==
  ASSUME NEW S, IsFiniteSet(S), NEW Q, Q \subseteq SUBSET S, Q # {}
  PROVE  \E T \in Q : \A a \in T : T \ {a} \notin Q
<1> DEFINE Sizes == {Cardinality(T) : T \in Q}
<1>1. \A T \in Q : IsFiniteSet(T) /\ Cardinality(T) \in Nat
  BY FS_Subset, FS_CardinalityType
<1>2. Sizes \subseteq Nat /\ Sizes # {}
  BY <1>1
<1> HIDE DEF Sizes
<1>3. PICK n \in Sizes : \A m \in Sizes : ~ (<<m, n>> \in OpToRel(<, Nat))
  BY <1>2, WFMin, NatLessThanWellFounded
<1>4. \A m \in Sizes : ~ (m < n)
  BY <1>2, <1>3 DEF OpToRel
<1>5. PICK T \in Q : Cardinality(T) = n
  BY DEF Sizes
<1>6. ASSUME NEW a \in T PROVE T \ {a} \notin Q
  <2>1. Cardinality(T \ {a}) = Cardinality(T) - 1
    BY <1>1, FS_RemoveElement
  <2>2. Cardinality(T \ {a}) < n
    BY <1>1, <1>5, <2>1
  <2> QED BY <1>4, <2>2 DEF Sizes
<1> QED BY <1>6

(* A set of sets that contains {} and, with a subset of S, the subset and   *)
(* one element more, contains S.                                            *)
LEMMA SubsetInduction ==
  ASSUME NEW S, IsFiniteSet(S), NEW Q, {} \in Q,
         ASSUME NEW T \in SUBSET S, NEW a \in S \ T, T \in Q PROVE T \cup {a} \in Q
  PROVE  S \in Q
<1> DEFINE Bad == (SUBSET S) \ Q
<1>1. SUFFICES ASSUME S \notin Q PROVE FALSE
  OBVIOUS
<1>2. PICK T \in Bad : \A a \in T : T \ {a} \notin Bad
  BY <1>1, SmallestSubset
<1>3. PICK a \in T : TRUE
  BY <1>2
<1>4. T \ {a} \in Q /\ (T \ {a}) \cup {a} = T
  BY <1>2
<1>5. (T \ {a}) \cup {a} \in Q
  BY <1>4
<1> QED BY <1>4, <1>5

-----------------------------------------------------------------------------
(* Sums by their defining equation, for every subset of S at once.          *)
IsSum(g, f, S) ==
  /\ g \in [SUBSET S -> Int]
  /\ g[{}] = 0
  /\ \A s \in SUBSET S : \A x \in s : g[s] = f[x] + g[s \ {x}]

Plus(f, S, g, a) ==
  [s \in SUBSET (S \cup {a}) |-> IF a \in s THEN f[a] + g[s \ {a}] ELSE g[s]]

LEMMA PlusIsSum ==
  ASSUME NEW S, NEW a, a \notin S, NEW f, \A x \in S \cup {a} : f[x] \in Int,
         NEW g, IsSum(g, f, S)
  PROVE  IsSum(Plus(f, S, g, a), f, S \cup {a})
<1> DEFINE h == Plus(f, S, g, a)
<1>1. \A s \in SUBSET S : g[s] \in Int
  BY DEF IsSum
<1>2. \A s \in SUBSET (S \cup {a}) : h[s] = IF a \in s THEN f[a] + g[s \ {a}] ELSE g[s]
  BY DEF Plus
<1>3. \A s \in SUBSET (S \cup {a}) : s \ {a} \in SUBSET S /\ (a \notin s => s \in SUBSET S)
  OBVIOUS
<1>4. h = [s \in SUBSET (S \cup {a}) |-> h[s]]
  BY DEF Plus
<1> HIDE DEF h
<1>5. h \in [SUBSET (S \cup {a}) -> Int]
  <2>1. ASSUME NEW s \in SUBSET (S \cup {a}) PROVE h[s] \in Int
    <3>1. CASE a \in s
      <4>1. g[s \ {a}] \in Int /\ f[a] \in Int
        BY <1>1, <1>3
      <4> QED BY <1>2, <3>1, <4>1
    <3>2. CASE a \notin s
      BY <1>1, <1>2, <1>3, <3>2
    <3> QED BY <3>1, <3>2
  <2> QED BY <1>4, <2>1
<1>6. h[{}] = 0
  BY <1>2 DEF IsSum
<1>7. ASSUME NEW s \in SUBSET (S \cup {a}), NEW x \in s
      PROVE  h[s] = f[x] + h[s \ {x}]
  <2>1. CASE x = a
    BY <1>2, <2>1
  <2>2. CASE x # a /\ a \notin s
    <3>1. g[s] = f[x] + g[s \ {x}]
      BY <1>3, <2>2 DEF IsSum
    <3> QED BY <1>2, <2>2, <3>1
  <2>3. CASE x # a /\ a \in s
    <3>1. s \ {a} \in SUBSET S /\ x \in s \ {a}
      BY <1>3, <2>3
    <3>2. g[s \ {a}] = f[x] + g[(s \ {a}) \ {x}]
      BY <3>1 DEF IsSum
    <3>3. (s \ {a}) \ {x} = (s \ {x}) \ {a} /\ (s \ {x}) \ {a} \in SUBSET S
      BY <1>3
    <3>4. h[s] = f[a] + g[s \ {a}] /\ h[s \ {x}] = f[a] + g[(s \ {x}) \ {a}]
      BY <1>2, <2>3
    <3>5. f[a] \in Int /\ f[x] \in Int /\ g[(s \ {x}) \ {a}] \in Int
      BY <1>1, <3>3
    <3>6. h[s] = f[a] + (f[x] + g[(s \ {x}) \ {a}])
      BY <3>2, <3>3, <3>4
    <3> QED BY <3>4, <3>5, <3>6
  <2> QED BY <2>1, <2>2, <2>3
<1> QED BY <1>5, <1>6, <1>7 DEF IsSum, h

LEMMA SumExists ==
  ASSUME NEW S, IsFiniteSet(S), NEW f, \A x \in S : f[x] \in Int
  PROVE  \E g : IsSum(g, f, S)
<1> DEFINE Q == {T \in SUBSET S : \E g : IsSum(g, f, T)}
<1>1. {} \in Q
  <2>1. IsSum([s \in SUBSET {} |-> 0], f, {})
    BY DEF IsSum
  <2> QED BY <2>1
<1>2. ASSUME NEW T \in SUBSET S, NEW a \in S \ T, T \in Q PROVE T \cup {a} \in Q
  <2>1. PICK g : IsSum(g, f, T)
    BY <1>2
  <2>2. IsSum(Plus(f, T, g, a), f, T \cup {a})
    BY <2>1, PlusIsSum
  <2> QED BY <2>2
<1> HIDE DEF Q
<1>3. S \in Q
  BY <1>1, <1>2, SubsetInduction
<1> QED BY <1>3 DEF Q

(* The recursive function of the fold satisfies its own definition, as one  *)
(* function that does exists, and the definition determines its values.     *)
Pick(s) == CHOOSE x \in s : TRUE

LEMMA FoldIsSum ==
  ASSUME NEW S, IsFiniteSet(S), NEW f, NEW g, IsSum(g, f, S)
  PROVE  SumFunctionOnSet(f, S) = g[S]
<1> DEFINE Body(h) == [s \in SUBSET S |-> IF s = {} THEN 0 ELSE f[Pick(s)] + h[s \ {Pick(s)}]]
           iter == CHOOSE h : h = Body(h)
           Bad == {s \in SUBSET S : iter[s] # g[s]}
<1>1. SumFunctionOnSet(f, S) = iter[S]
  BY DEF SumFunctionOnSet, FoldFunctionOnSet, MapThenFoldSet, Pick
<1>2. \A s \in SUBSET S : s # {} => Pick(s) \in s
  BY DEF Pick
<1>3. \A s \in SUBSET S : g[s] = IF s = {} THEN 0 ELSE f[Pick(s)] + g[s \ {Pick(s)}]
  BY <1>2 DEF IsSum
<1>4. g = Body(g)
  <2>1. g = [s \in SUBSET S |-> g[s]]
    BY DEF IsSum
  <2> QED BY <1>3, <2>1
<1>5. iter = Body(iter)
  BY <1>4
<1> HIDE DEF iter
<1>6. \A s \in SUBSET S :
        iter[s] = IF s = {} THEN 0 ELSE f[Pick(s)] + iter[s \ {Pick(s)}]
  BY <1>5
<1>7. ASSUME Bad # {} PROVE FALSE
  <2>1. PICK s \in Bad : \A x \in s : s \ {x} \notin Bad
    BY <1>7, SmallestSubset
  <2>2. s # {}
    BY <1>3, <1>6
  <2>3. iter[s \ {Pick(s)}] = g[s \ {Pick(s)}]
    BY <1>2, <2>1, <2>2
  <2> QED BY <1>3, <1>6, <2>2, <2>3
<1> QED BY <1>1, <1>7

-----------------------------------------------------------------------------
(* The equations of a sum.                                                  *)
LEMMA SumEmpty == ASSUME NEW f PROVE SumFunctionOnSet(f, {}) = 0
<1>1. \A x \in {} : f[x] \in Int
  OBVIOUS
<1>2. PICK g : IsSum(g, f, {})
  BY <1>1, SumExists, FS_EmptySet
<1>3. SumFunctionOnSet(f, {}) = g[{}]
  BY <1>2, FoldIsSum, FS_EmptySet
<1> QED BY <1>2, <1>3 DEF IsSum

LEMMA SumType ==
  ASSUME NEW S, IsFiniteSet(S), NEW f, \A x \in S : f[x] \in Int
  PROVE  SumFunctionOnSet(f, S) \in Int
<1>1. PICK g : IsSum(g, f, S)
  BY SumExists
<1>2. SumFunctionOnSet(f, S) = g[S]
  BY <1>1, FoldIsSum
<1> QED BY <1>1, <1>2 DEF IsSum

LEMMA SumRemove ==
  ASSUME NEW S, IsFiniteSet(S), NEW f, \A x \in S : f[x] \in Int, NEW a \in S
  PROVE  SumFunctionOnSet(f, S) = f[a] + SumFunctionOnSet(f, S \ {a})
<1>1. PICK g : IsSum(g, f, S)
  BY SumExists
<1>2. SumFunctionOnSet(f, S) = g[S]
  BY <1>1, FoldIsSum
<1>3. IsFiniteSet(S \ {a})
  BY FS_Subset
<1>4. IsSum([s \in SUBSET (S \ {a}) |-> g[s]], f, S \ {a})
  BY <1>1 DEF IsSum
<1>5. SumFunctionOnSet(f, S \ {a}) = g[S \ {a}]
  <2>1. SumFunctionOnSet(f, S \ {a}) = [s \in SUBSET (S \ {a}) |-> g[s]][S \ {a}]
    BY <1>3, <1>4, FoldIsSum
  <2> QED BY <2>1
<1> QED BY <1>1, <1>2, <1>5 DEF IsSum

LEMMA SumAdd ==
  ASSUME NEW S, IsFiniteSet(S), NEW a, a \notin S, NEW f, \A x \in S \cup {a} : f[x] \in Int
  PROVE  SumFunctionOnSet(f, S \cup {a}) = f[a] + SumFunctionOnSet(f, S)
<1>1. IsFiniteSet(S \cup {a})
  BY FS_AddElement
<1>2. (S \cup {a}) \ {a} = S
  OBVIOUS
<1>3. SumFunctionOnSet(f, S \cup {a}) = f[a] + SumFunctionOnSet(f, (S \cup {a}) \ {a})
  BY <1>1, SumRemove
<1> QED BY <1>2, <1>3

(* Functions that agree on a set have the same sum over it, and one that is *)
(* nowhere larger has no larger sum.                                        *)
LEMMA SumMonotone ==
  ASSUME NEW S, IsFiniteSet(S), NEW f, NEW h,
         \A x \in S : f[x] \in Int /\ h[x] \in Int /\ f[x] <= h[x]
  PROVE  SumFunctionOnSet(f, S) <= SumFunctionOnSet(h, S)
<1> DEFINE Q == {T \in SUBSET S : SumFunctionOnSet(f, T) <= SumFunctionOnSet(h, T)}
<1>1. {} \in Q
  BY SumEmpty
<1>2. ASSUME NEW T \in SUBSET S, NEW a \in S \ T, T \in Q PROVE T \cup {a} \in Q
  <2>1. IsFiniteSet(T)
    BY FS_Subset
  <2>2. SumFunctionOnSet(f, T \cup {a}) = f[a] + SumFunctionOnSet(f, T)
    BY <2>1, SumAdd
  <2>3. SumFunctionOnSet(h, T \cup {a}) = h[a] + SumFunctionOnSet(h, T)
    BY <2>1, SumAdd
  <2>4. SumFunctionOnSet(f, T) \in Int /\ SumFunctionOnSet(h, T) \in Int
    BY <2>1, SumType
  <2>5. SumFunctionOnSet(f, T) <= SumFunctionOnSet(h, T)
    BY <1>2
  <2>6. f[a] \in Int /\ h[a] \in Int /\ f[a] <= h[a]
    OBVIOUS
  <2>7. SumFunctionOnSet(f, T \cup {a}) <= SumFunctionOnSet(h, T \cup {a})
    BY <2>2, <2>3, <2>4, <2>5, <2>6
  <2> QED BY <2>7
<1> HIDE DEF Q
<1>3. S \in Q
  BY <1>1, <1>2, SubsetInduction
<1> QED BY <1>3 DEF Q

LEMMA SumAgree ==
  ASSUME NEW S, IsFiniteSet(S), NEW f, NEW h,
         \A x \in S : f[x] \in Int /\ f[x] = h[x]
  PROVE  SumFunctionOnSet(f, S) = SumFunctionOnSet(h, S)
<1>1. SumFunctionOnSet(f, S) <= SumFunctionOnSet(h, S)
  BY SumMonotone
<1>2. SumFunctionOnSet(h, S) <= SumFunctionOnSet(f, S)
  BY SumMonotone
<1>3. SumFunctionOnSet(f, S) \in Int /\ SumFunctionOnSet(h, S) \in Int
  BY SumType
<1> QED BY <1>1, <1>2, <1>3

LEMMA SumZero ==
  ASSUME NEW S, IsFiniteSet(S), NEW f, \A x \in S : f[x] = 0
  PROVE  SumFunctionOnSet(f, S) = 0
<1> DEFINE Q == {T \in SUBSET S : SumFunctionOnSet(f, T) = 0}
<1>1. {} \in Q
  BY SumEmpty
<1>2. ASSUME NEW T \in SUBSET S, NEW a \in S \ T, T \in Q PROVE T \cup {a} \in Q
  <2>1. IsFiniteSet(T) /\ \A x \in T \cup {a} : f[x] \in Int
    BY FS_Subset
  <2>2. SumFunctionOnSet(f, T \cup {a}) = f[a] + SumFunctionOnSet(f, T)
    BY <2>1, SumAdd
  <2> QED BY <1>2, <2>2
<1> HIDE DEF Q
<1>3. S \in Q
  BY <1>1, <1>2, SubsetInduction
<1> QED BY <1>3 DEF Q

LEMMA SumNat ==
  ASSUME NEW S, IsFiniteSet(S), NEW f, \A x \in S : f[x] \in Nat
  PROVE  SumFunctionOnSet(f, S) \in Nat
<1> DEFINE zero == [x \in S |-> 0]
<1>1. \A x \in S : zero[x] = 0 /\ zero[x] \in Int /\ f[x] \in Int /\ zero[x] <= f[x]
  OBVIOUS
<1> HIDE DEF zero
<1>2. SumFunctionOnSet(zero, S) = 0
  BY <1>1, SumZero
<1>3. SumFunctionOnSet(zero, S) <= SumFunctionOnSet(f, S)
  BY <1>1, SumMonotone
<1>4. SumFunctionOnSet(f, S) \in Int
  BY <1>1, SumType
<1> QED BY <1>2, <1>3, <1>4

(* Changing one value changes the sum by the difference.                    *)
LEMMA SumUpdate ==
  ASSUME NEW S, IsFiniteSet(S), NEW f, NEW h, NEW a \in S,
         \A x \in S : f[x] \in Int /\ h[x] \in Int,
         \A x \in S \ {a} : f[x] = h[x]
  PROVE  SumFunctionOnSet(h, S) = SumFunctionOnSet(f, S) - f[a] + h[a]
<1>1. IsFiniteSet(S \ {a})
  BY FS_Subset
<1>2. SumFunctionOnSet(f, S \ {a}) = SumFunctionOnSet(h, S \ {a})
  BY <1>1, SumAgree
<1>3. SumFunctionOnSet(f, S) = f[a] + SumFunctionOnSet(f, S \ {a})
  BY SumRemove
<1>4. SumFunctionOnSet(h, S) = h[a] + SumFunctionOnSet(h, S \ {a})
  BY SumRemove
<1>5. SumFunctionOnSet(f, S \ {a}) \in Int /\ f[a] \in Int /\ h[a] \in Int
  BY <1>1, SumType
<1> QED BY <1>2, <1>3, <1>4, <1>5

(* A sum of values of at most k.                                            *)
LEMMA SumBound ==
  ASSUME NEW S, IsFiniteSet(S), NEW k \in Nat, NEW f, \A x \in S : f[x] \in Int /\ f[x] <= k
  PROVE  SumFunctionOnSet(f, S) <= Cardinality(S) * k
<1> DEFINE Q == {T \in SUBSET S : SumFunctionOnSet(f, T) <= Cardinality(T) * k}
<1>1. {} \in Q
  BY SumEmpty, FS_EmptySet
<1>2. ASSUME NEW T \in SUBSET S, NEW a \in S \ T, T \in Q PROVE T \cup {a} \in Q
  <2>1. IsFiniteSet(T)
    BY FS_Subset
  <2>2. SumFunctionOnSet(f, T \cup {a}) = f[a] + SumFunctionOnSet(f, T)
    BY <2>1, SumAdd
  <2>3. Cardinality(T \cup {a}) = Cardinality(T) + 1 /\ Cardinality(T) \in Nat
    BY <2>1, FS_AddElement, FS_CardinalityType
  <2>4. SumFunctionOnSet(f, T) \in Int /\ f[a] \in Int /\ f[a] <= k
    BY <2>1, SumType
  <2>5. SumFunctionOnSet(f, T) <= Cardinality(T) * k
    BY <1>2
  <2>6. (Cardinality(T) + 1) * k = Cardinality(T) * k + k
    BY <2>3
  <2>7. Cardinality(T) * k \in Int
    BY <2>3
  <2>8. f[a] + SumFunctionOnSet(f, T) <= Cardinality(T) * k + k
    BY <2>4, <2>5, <2>7
  <2> QED BY <2>2, <2>3, <2>6, <2>8
<1> HIDE DEF Q
<1>3. S \in Q
  BY <1>1, <1>2, SubsetInduction
<1> QED BY <1>3 DEF Q

(* Two functions are added up at once, and the order of a set does not      *)
(* matter: a one-to-one renaming of its elements keeps the sum.             *)
LEMMA SumPlus ==
  ASSUME NEW S, IsFiniteSet(S), NEW f, NEW g, NEW h,
         \A x \in S : f[x] \in Int /\ g[x] \in Int /\ h[x] = f[x] + g[x]
  PROVE  SumFunctionOnSet(h, S) = SumFunctionOnSet(f, S) + SumFunctionOnSet(g, S)
<1> DEFINE Q == {T \in SUBSET S :
                   SumFunctionOnSet(h, T) = SumFunctionOnSet(f, T) + SumFunctionOnSet(g, T)}
<1>1. {} \in Q
  BY SumEmpty
<1>2. ASSUME NEW T \in SUBSET S, NEW a \in S \ T, T \in Q PROVE T \cup {a} \in Q
  <2>1. IsFiniteSet(T) /\ T \cup {a} \in SUBSET S
    BY FS_Subset
  <2>2. \A x \in T \cup {a} : f[x] \in Int /\ g[x] \in Int /\ h[x] \in Int
    OBVIOUS
  <2>3. /\ SumFunctionOnSet(f, T \cup {a}) = f[a] + SumFunctionOnSet(f, T)
        /\ SumFunctionOnSet(g, T \cup {a}) = g[a] + SumFunctionOnSet(g, T)
        /\ SumFunctionOnSet(h, T \cup {a}) = h[a] + SumFunctionOnSet(h, T)
    BY <2>1, <2>2, SumAdd
  <2>4. SumFunctionOnSet(f, T) \in Int /\ SumFunctionOnSet(g, T) \in Int
    BY <2>1, <2>2, SumType
  <2>5. f[a] \in Int /\ g[a] \in Int /\ h[a] = f[a] + g[a]
    OBVIOUS
  <2>6. SumFunctionOnSet(h, T) = SumFunctionOnSet(f, T) + SumFunctionOnSet(g, T)
    BY <1>2
  <2>7. SumFunctionOnSet(h, T \cup {a})
          = SumFunctionOnSet(f, T \cup {a}) + SumFunctionOnSet(g, T \cup {a})
    BY <2>3, <2>4, <2>5, <2>6
  <2> QED BY <2>1, <2>7
<1> HIDE DEF Q
<1>3. S \in Q
  BY <1>1, <1>2, SubsetInduction
<1> QED BY <1>3 DEF Q

LEMMA SumReindex ==
  ASSUME NEW S, IsFiniteSet(S), NEW f, \A x, y \in S : f[x] = f[y] => x = y,
         NEW g, \A x \in S : g[f[x]] \in Int,
         NEW h, \A x \in S : h[x] = g[f[x]]
  PROVE  SumFunctionOnSet(h, S) = SumFunctionOnSet(g, {f[x] : x \in S})
<1> DEFINE image(T) == {f[x] : x \in T}
           Q == {T \in SUBSET S : /\ IsFiniteSet(image(T))
                                  /\ SumFunctionOnSet(h, T) = SumFunctionOnSet(g, image(T))}
<1>1. {} \in Q
  <2>1. image({}) = {}
    OBVIOUS
  <2> QED BY <2>1, SumEmpty, FS_EmptySet
<1>2. ASSUME NEW T \in SUBSET S, NEW a \in S \ T, T \in Q PROVE T \cup {a} \in Q
  <2>1. IsFiniteSet(T) /\ T \cup {a} \in SUBSET S
    BY FS_Subset
  <2>2. image(T \cup {a}) = image(T) \cup {f[a]} /\ f[a] \notin image(T)
    OBVIOUS
  <2>3. IsFiniteSet(image(T)) /\ SumFunctionOnSet(h, T) = SumFunctionOnSet(g, image(T))
    BY <1>2
  <2>4. \A y \in image(T) \cup {f[a]} : g[y] \in Int
    OBVIOUS
  <2>5. \A x \in T \cup {a} : h[x] \in Int
    OBVIOUS
  <2>6. h[a] = g[f[a]]
    OBVIOUS
  <2> HIDE DEF image, Q
  <2>7. SumFunctionOnSet(h, T \cup {a}) = h[a] + SumFunctionOnSet(h, T)
    BY <2>1, <2>5, SumAdd
  <2>8. SumFunctionOnSet(g, image(T) \cup {f[a]}) = g[f[a]] + SumFunctionOnSet(g, image(T))
    BY <2>2, <2>3, <2>4, SumAdd
  <2>9. IsFiniteSet(image(T \cup {a}))
    <3>1. IsFiniteSet(image(T) \cup {f[a]})
      BY <2>3, FS_AddElement
    <3> QED BY <2>2, <3>1
  <2> QED BY <2>1, <2>2, <2>3, <2>6, <2>7, <2>8, <2>9 DEF Q
<1> HIDE DEF Q
<1>3. S \in Q
  BY <1>1, <1>2, SubsetInduction
<1> QED BY <1>3 DEF Q

-----------------------------------------------------------------------------
(* A finite set of numbers has a largest and a smallest one.                *)
LEMMA LargestExists ==
  ASSUME NEW S, IsFiniteSet(S), S \subseteq Int, S # {}
  PROVE  Max(S) \in S /\ \A x \in S : x <= Max(S)
<1> DEFINE Q == {T \in SUBSET S : T = {} \/ \E x \in T : \A y \in T : x >= y}
<1>1. {} \in Q
  OBVIOUS
<1>2. ASSUME NEW T \in SUBSET S, NEW a \in S \ T, T \in Q PROVE T \cup {a} \in Q
  <2>1. CASE T = {}
    BY <2>1
  <2>2. CASE T # {}
    <3>1. PICK x \in T : \A y \in T : x >= y
      BY <1>2, <2>2
    <3>2. CASE a >= x
      <4>1. \A y \in T \cup {a} : a >= y
        BY <3>1, <3>2
      <4> QED BY <4>1
    <3>3. CASE ~ (a >= x)
      <4>1. \A y \in T \cup {a} : x >= y
        BY <3>1, <3>3
      <4> QED BY <3>1, <4>1
    <3> QED BY <3>2, <3>3
  <2> QED BY <2>1, <2>2
<1> HIDE DEF Q
<1>3. S \in Q
  BY <1>1, <1>2, SubsetInduction
<1>4. \E x \in S : \A y \in S : x >= y
  BY <1>3 DEF Q
<1>5. Max(S) \in S /\ \A y \in S : Max(S) >= y
  BY <1>4 DEF Max
<1> QED BY <1>5

LEMMA SmallestExists ==
  ASSUME NEW S, IsFiniteSet(S), S \subseteq Int, S # {}
  PROVE  Min(S) \in S /\ \A x \in S : Min(S) <= x
<1> DEFINE Q == {T \in SUBSET S : T = {} \/ \E x \in T : \A y \in T : x <= y}
<1>1. {} \in Q
  OBVIOUS
<1>2. ASSUME NEW T \in SUBSET S, NEW a \in S \ T, T \in Q PROVE T \cup {a} \in Q
  <2>1. CASE T = {}
    BY <2>1
  <2>2. CASE T # {}
    <3>1. PICK x \in T : \A y \in T : x <= y
      BY <1>2, <2>2
    <3>2. CASE a <= x
      <4>1. \A y \in T \cup {a} : a <= y
        BY <3>1, <3>2
      <4> QED BY <4>1
    <3>3. CASE ~ (a <= x)
      <4>1. \A y \in T \cup {a} : x <= y
        BY <3>1, <3>3
      <4> QED BY <3>1, <4>1
    <3> QED BY <3>2, <3>3
  <2> QED BY <2>1, <2>2
<1> HIDE DEF Q
<1>3. S \in Q
  BY <1>1, <1>2, SubsetInduction
<1>4. \E x \in S : \A y \in S : x <= y
  BY <1>3 DEF Q
<1>5. Min(S) \in S /\ \A y \in S : Min(S) <= y
  BY <1>4 DEF Min
<1> QED BY <1>5

(* A sum of ones counts.                                                    *)
LEMMA SumCounts ==
  ASSUME NEW S, IsFiniteSet(S), NEW T \in SUBSET S, NEW h,
         \A x \in S : h[x] = IF x \in T THEN 1 ELSE 0
  PROVE  SumFunctionOnSet(h, S) = Cardinality(T)
<1> DEFINE Q == {U \in SUBSET S : SumFunctionOnSet(h, U) = Cardinality(U \cap T)}
<1>1. {} \in Q
  <2>1. {} \cap T = {}
    OBVIOUS
  <2> QED BY <2>1, SumEmpty, FS_EmptySet
<1>2. ASSUME NEW U \in SUBSET S, NEW a \in S \ U, U \in Q PROVE U \cup {a} \in Q
  <2>1. IsFiniteSet(U) /\ IsFiniteSet(U \cap T) /\ Cardinality(U \cap T) \in Nat
    BY FS_Subset, FS_CardinalityType
  <2>2. \A x \in U \cup {a} : h[x] \in Int
    OBVIOUS
  <2>3. SumFunctionOnSet(h, U \cup {a}) = h[a] + SumFunctionOnSet(h, U)
    BY <2>1, <2>2, SumAdd
  <2>4. SumFunctionOnSet(h, U) = Cardinality(U \cap T)
    BY <1>2
  <2>5. CASE a \in T
    <3>1. (U \cup {a}) \cap T = (U \cap T) \cup {a} /\ a \notin U \cap T
      BY <2>5
    <3>2. Cardinality((U \cap T) \cup {a}) = Cardinality(U \cap T) + 1
      BY <2>1, <3>1, FS_AddElement
    <3>3. h[a] = 1
      BY <2>5
    <3> QED BY <2>1, <2>3, <2>4, <3>1, <3>2, <3>3
  <2>6. CASE a \notin T
    <3>1. (U \cup {a}) \cap T = U \cap T
      BY <2>6
    <3>2. h[a] = 0
      BY <2>6
    <3>3. SumFunctionOnSet(h, U \cup {a}) = SumFunctionOnSet(h, U)
      BY <2>1, <2>3, <2>4, <3>2
    <3> QED BY <2>4, <3>1, <3>3
  <2> QED BY <2>5, <2>6
<1> HIDE DEF Q
<1>3. S \in Q
  BY <1>1, <1>2, SubsetInduction
<1>4. S \cap T = T
  OBVIOUS
<1> QED BY <1>3, <1>4 DEF Q

(* The ranks of a finite set of numbers are 0 .. size - 1, each once.       *)
Below(S, c) == {x \in S : x < c}

LEMMA RanksAreDense ==
  ASSUME NEW S, S \subseteq Int, IsFiniteSet(S),
         NEW rank, rank = [c \in S |-> rank[c]],
         \A c \in S : rank[c] = Cardinality(Below(S, c))
  PROVE  /\ \A a, b \in S : rank[a] = rank[b] => a = b
         /\ \A c \in S : rank[c] \in 0 .. Cardinality(S) - 1
         /\ \A n \in 0 .. Cardinality(S) - 1 : \E c \in S : rank[c] = n
<1> DEFINE below(c) == Below(S, c)
           Ranks == 0 .. Cardinality(S) - 1
<1>0. \A c : below(c) = {x \in S : x < c}
  BY DEF Below
<1>1. ASSUME NEW c \in S
      PROVE  IsFiniteSet(below(c)) /\ Cardinality(below(c)) \in Nat
             /\ rank[c] = Cardinality(below(c))
  <2>1. below(c) \in SUBSET S
    BY <1>0
  <2>2. rank[c] = Cardinality(below(c))
    OBVIOUS
  <2> HIDE DEF below
  <2> QED BY <2>1, <2>2, FS_Subset, FS_CardinalityType
<1>2. ASSUME NEW a \in S, NEW b \in S, a < b PROVE rank[a] < rank[b]
  <2>1. a \in Int /\ b \in Int /\ \A x \in S : x \in Int
    OBVIOUS
  <2> HIDE DEF below
  <2>2. a \in below(b)
    BY <1>0, <1>2
  <2>3. a \notin below(a)
    BY <1>0, <2>1
  <2>4. \A x \in S : x < a => x < b
    BY <1>2, <2>1
  <2>5. below(a) \subseteq below(b)
    BY <1>0, <2>4
  <2>6. Cardinality(below(a)) <= Cardinality(below(b))
    BY <1>1, <2>5, FS_Subset
  <2>7. Cardinality(below(a)) # Cardinality(below(b))
    BY <1>1, <2>2, <2>3, <2>5, FS_Subset
  <2> QED BY <1>1, <2>6, <2>7
<1>3. ASSUME NEW a \in S, NEW b \in S, rank[a] = rank[b] PROVE a = b
  <2>1. rank[a] \in Nat /\ rank[b] \in Nat /\ a \in Int /\ b \in Int
    BY <1>1
  <2>2. ~ (a < b) /\ ~ (b < a)
    BY <1>2, <1>3, <2>1
  <2> QED BY <2>1, <2>2
<1>4. ASSUME NEW c \in S PROVE rank[c] \in Ranks
  <2> HIDE DEF below
  <2>1. below(c) \in SUBSET S /\ c \notin below(c)
    BY <1>0
  <2>2. Cardinality(below(c)) <= Cardinality(S) /\ Cardinality(below(c)) # Cardinality(S)
    BY <2>1, FS_Subset
  <2>3. Cardinality(S) \in Nat
    BY FS_CardinalityType
  <2> QED BY <1>1, <2>2, <2>3
<1>5. Cardinality(S) \in Nat
  BY FS_CardinalityType
<1>6. IsFiniteSet(Ranks) /\ Cardinality(Ranks) = Cardinality(S)
  <2>1. 0 \in Int /\ Cardinality(S) - 1 \in Int /\ 0 <= Cardinality(S)
    BY <1>5
  <2>2. /\ IsFiniteSet(0 .. Cardinality(S) - 1)
        /\ Cardinality(0 .. Cardinality(S) - 1)
             = IF 0 > Cardinality(S) - 1 THEN 0 ELSE Cardinality(S) - 1 - 0 + 1
    BY <2>1, FS_Interval
  <2> QED BY <1>5, <2>2
<1> HIDE DEF Ranks, below
<1>7. DOMAIN rank = S
  OBVIOUS
<1>8. rank \in Injection(S, Ranks)
  BY <1>3, <1>4, <1>7 DEF Injection, IsInjective
<1>9. rank \in Surjection(S, Ranks)
  BY <1>6, <1>8, FS_Injection
<1>10. \A n \in Ranks : \E c \in S : rank[c] = n
  BY <1>9 DEF Surjection
<1> QED BY <1>3, <1>4, <1>10 DEF Ranks

-----------------------------------------------------------------------------
(* A set of numbers that contains 0 and, with a number, the next one        *)
(* contains all of them.                                                    *)
LEMMA NatSetInduction ==
  ASSUME NEW Q, 0 \in Q, ASSUME NEW m \in Nat, m \in Q PROVE m + 1 \in Q
  PROVE  \A m \in Nat : m \in Q
<1> DEFINE Bad == {m \in Nat : m \notin Q}
<1> SUFFICES ASSUME Bad # {} PROVE FALSE
  OBVIOUS
<1>1. PICK n \in Bad : \A m \in Bad : ~ (<<m, n>> \in OpToRel(<, Nat))
  BY WFMin, NatLessThanWellFounded
<1>2. n \in Nat /\ n # 0 /\ n - 1 \in Nat /\ n - 1 < n /\ (n - 1) + 1 = n
  OBVIOUS
<1>3. n - 1 \in Q
  BY <1>1, <1>2 DEF OpToRel
<1> QED BY <1>2, <1>3

(* The sum over two disjoint sets.                                          *)
LEMMA SumUnion ==
  ASSUME NEW S, IsFiniteSet(S), NEW T, IsFiniteSet(T), S \cap T = {},
         NEW f, \A x \in S \cup T : f[x] \in Int
  PROVE  SumFunctionOnSet(f, S \cup T) = SumFunctionOnSet(f, S) + SumFunctionOnSet(f, T)
<1> DEFINE Q == {U \in SUBSET T :
                   SumFunctionOnSet(f, S \cup U) = SumFunctionOnSet(f, S) + SumFunctionOnSet(f, U)}
<1>0. SumFunctionOnSet(f, S) \in Int
  BY SumType
<1>1. {} \in Q
  <2>1. S \cup {} = S
    OBVIOUS
  <2> QED BY <1>0, <2>1, SumEmpty
<1>2. ASSUME NEW U \in SUBSET T, NEW a \in T \ U, U \in Q PROVE U \cup {a} \in Q
  <2>1. IsFiniteSet(U) /\ IsFiniteSet(S \cup U) /\ U \cup {a} \in SUBSET T
    BY FS_Subset, FS_Union
  <2>2. a \notin S \cup U /\ (S \cup U) \cup {a} = S \cup (U \cup {a})
    OBVIOUS
  <2>3. /\ \A x \in (S \cup U) \cup {a} : f[x] \in Int
        /\ \A x \in U \cup {a} : f[x] \in Int
    OBVIOUS
  <2>4. SumFunctionOnSet(f, (S \cup U) \cup {a}) = f[a] + SumFunctionOnSet(f, S \cup U)
    BY <2>1, <2>2, <2>3, SumAdd
  <2>5. SumFunctionOnSet(f, U \cup {a}) = f[a] + SumFunctionOnSet(f, U)
    BY <2>1, <2>3, SumAdd
  <2>6. SumFunctionOnSet(f, S \cup U) = SumFunctionOnSet(f, S) + SumFunctionOnSet(f, U)
    BY <1>2
  <2>7. SumFunctionOnSet(f, U) \in Int /\ f[a] \in Int
    BY <2>1, <2>3, SumType
  <2>8. SumFunctionOnSet(f, S \cup (U \cup {a}))
          = SumFunctionOnSet(f, S) + SumFunctionOnSet(f, U \cup {a})
    <3>1. SumFunctionOnSet(f, S \cup (U \cup {a})) = SumFunctionOnSet(f, (S \cup U) \cup {a})
      BY <2>2, Zenon
    <3> QED BY <1>0, <3>1, <2>4, <2>5, <2>6, <2>7
  <2> QED BY <2>1, <2>8
<1> HIDE DEF Q
<1>3. T \in Q
  BY <1>1, <1>2, SubsetInduction
<1> QED BY <1>3 DEF Q

(* Values outside a subset that are 0 do not count.                         *)
LEMMA SumRestrict ==
  ASSUME NEW S, IsFiniteSet(S), NEW T \in SUBSET S, NEW f, \A x \in S : f[x] \in Int,
         \A x \in S \ T : f[x] = 0
  PROVE  SumFunctionOnSet(f, S) = SumFunctionOnSet(f, T)
<1>1. IsFiniteSet(T) /\ IsFiniteSet(S \ T) /\ T \cup (S \ T) = S /\ T \cap (S \ T) = {}
  BY FS_Subset
<1>2. \A x \in T \cup (S \ T) : f[x] \in Int
  BY <1>1
<1>3. SumFunctionOnSet(f, T \cup (S \ T)) = SumFunctionOnSet(f, T) + SumFunctionOnSet(f, S \ T)
  BY <1>1, <1>2, SumUnion
<1>4. SumFunctionOnSet(f, S \ T) = 0
  BY <1>1, SumZero
<1>5. SumFunctionOnSet(f, T) \in Int
  BY <1>1, SumType
<1>6. SumFunctionOnSet(f, S) = SumFunctionOnSet(f, T \cup (S \ T))
  BY <1>1, Zenon
<1> QED BY <1>3, <1>4, <1>5, <1>6

LEMMA SumScale ==
  ASSUME NEW S, IsFiniteSet(S), NEW c \in Int, NEW f, NEW h,
         \A x \in S : f[x] \in Int /\ h[x] = c * f[x]
  PROVE  SumFunctionOnSet(h, S) = c * SumFunctionOnSet(f, S)
<1> DEFINE Q == {T \in SUBSET S : SumFunctionOnSet(h, T) = c * SumFunctionOnSet(f, T)}
<1>1. {} \in Q
  BY SumEmpty
<1>2. ASSUME NEW T \in SUBSET S, NEW a \in S \ T, T \in Q PROVE T \cup {a} \in Q
  <2>1. IsFiniteSet(T) /\ T \cup {a} \in SUBSET S
    BY FS_Subset
  <2>2. \A x \in T \cup {a} : f[x] \in Int /\ h[x] \in Int
    OBVIOUS
  <2>3. /\ SumFunctionOnSet(f, T \cup {a}) = f[a] + SumFunctionOnSet(f, T)
        /\ SumFunctionOnSet(h, T \cup {a}) = h[a] + SumFunctionOnSet(h, T)
    BY <2>1, <2>2, SumAdd
  <2>4. SumFunctionOnSet(f, T) \in Int /\ f[a] \in Int /\ h[a] = c * f[a]
    BY <2>1, <2>2, SumType
  <2>5. SumFunctionOnSet(h, T) = c * SumFunctionOnSet(f, T)
    BY <1>2
  <2>6. c * (f[a] + SumFunctionOnSet(f, T)) = c * f[a] + c * SumFunctionOnSet(f, T)
    BY <2>4
  <2>7. SumFunctionOnSet(h, T \cup {a}) = c * SumFunctionOnSet(f, T \cup {a})
    BY <2>3, <2>4, <2>5, <2>6
  <2> QED BY <2>1, <2>7
<1> HIDE DEF Q
<1>3. S \in Q
  BY <1>1, <1>2, SubsetInduction
<1> QED BY <1>3 DEF Q

-----------------------------------------------------------------------------
(* FoldLeft takes the elements of a sequence from left to right by a        *)
(* recursive function on sets of indices.  Body[s] is one step, from the    *)
(* set s without its largest index to s; X[s] holds what the fold may be    *)
(* after s.                                                                 *)
Indices(n) == SUBSET (1 .. n)
Earlier(s) == s \ {Max(s)}

IsFold(g, Body, base, n) ==
  /\ g = [s \in Indices(n) |-> g[s]]
  /\ g[{}] = base
  /\ \A s \in Indices(n) : s # {} => g[s] = Body[s][g[Earlier(s)]]

StaysIn(X, Body, base, n) ==
  /\ base \in X[{}]
  /\ \A s \in Indices(n) : s # {} => \A x \in X[Earlier(s)] : Body[s][x] \in X[s]

LEMMA LastIndex ==
  ASSUME NEW n \in Nat, NEW s \in Indices(n), s # {}
  PROVE  Max(s) \in s /\ Max(s) \in 1 .. n /\ Earlier(s) \in Indices(n)
         /\ \A i \in s : i <= Max(s)
<1>1. IsFiniteSet(1 .. n)
  BY FS_Interval
<1>2. IsFiniteSet(s) /\ s \subseteq Int
  <2>1. s \in SUBSET (1 .. n)
    BY DEF Indices
  <2>2. IsFiniteSet(s)
    BY <1>1, <2>1, FS_Subset
  <2> QED BY <2>1, <2>2
<1>3. Max(s) \in s /\ \A i \in s : i <= Max(s)
  BY <1>2, LargestExists
<1> QED BY <1>3 DEF Indices, Earlier

(* An induction along a fold.                                               *)
LEMMA IndexInduction ==
  ASSUME NEW n \in Nat, NEW Q, {} \in Q,
         \A s \in Indices(n) : s # {} /\ Earlier(s) \in Q => s \in Q
  PROVE  \A s \in Indices(n) : s \in Q
<1> DEFINE Bad == {s \in Indices(n) : s \notin Q}
<1> SUFFICES ASSUME Bad # {} PROVE FALSE
  OBVIOUS
<1>1. IsFiniteSet(1 .. n) /\ Bad \subseteq SUBSET (1 .. n)
  BY FS_Interval DEF Indices
<1>2. PICK s \in Bad : \A i \in s : s \ {i} \notin Bad
  BY <1>1, SmallestSubset
<1>3. s # {}
  OBVIOUS
<1>4. Max(s) \in s /\ Earlier(s) \in Indices(n)
  BY <1>3, LastIndex
<1>5. Earlier(s) \notin Bad
  BY <1>2, <1>4 DEF Earlier
<1> QED BY <1>3, <1>4, <1>5

LEMMA FoldExists ==
  ASSUME NEW Body, NEW base, NEW n \in Nat
  PROVE  \E g : IsFold(g, Body, base, n)
<1> DEFINE Q == {m \in Nat : \E g : IsFold(g, Body, base, m)}
<1>1. 0 \in Q
  <2>1. Indices(0) = {{}}
    BY DEF Indices
  <2>2. IsFold([s \in Indices(0) |-> base], Body, base, 0)
    BY <2>1 DEF IsFold
  <2> QED BY <2>2
<1>2. ASSUME NEW m \in Nat, m \in Q PROVE m + 1 \in Q
  <2>1. PICK g : IsFold(g, Body, base, m)
    BY <1>2
  <2> DEFINE h == [s \in Indices(m + 1) |-> IF m + 1 \in s THEN Body[s][g[s \ {m + 1}]] ELSE g[s]]
  <2>2. \A s \in Indices(m + 1) : s \ {m + 1} \in Indices(m)
    BY DEF Indices
  <2>3. \A s \in Indices(m) : s \in Indices(m + 1) /\ m + 1 \notin s
    BY DEF Indices
  <2>4. \A s \in Indices(m + 1) : m + 1 \notin s => s \in Indices(m)
    BY DEF Indices
  <2>5. h[{}] = base
    <3>1. {} \in Indices(m + 1)
      BY DEF Indices
    <3> QED BY <2>1, <3>1 DEF IsFold
  <2>6. ASSUME NEW s \in Indices(m + 1), s # {} PROVE h[s] = Body[s][h[Earlier(s)]]
    <3>1. Max(s) \in s /\ Max(s) \in 1 .. m + 1 /\ Earlier(s) \in Indices(m + 1)
          /\ \A i \in s : i <= Max(s)
      BY <2>6, LastIndex
    <3>2. CASE m + 1 \in s
      <4>1. Max(s) = m + 1
        BY <3>1, <3>2
      <4>2. Earlier(s) = s \ {m + 1} /\ m + 1 \notin Earlier(s)
        BY <4>1 DEF Earlier
      <4>3. h[Earlier(s)] = g[s \ {m + 1}]
        BY <3>1, <4>2
      <4>4. h[s] = Body[s][g[s \ {m + 1}]]
        BY <3>2
      <4> QED BY <4>3, <4>4
    <3>3. CASE m + 1 \notin s
      <4>1. s \in Indices(m) /\ m + 1 \notin Earlier(s)
        BY <2>4, <3>3 DEF Earlier
      <4>2. g[s] = Body[s][g[Earlier(s)]]
        BY <2>1, <2>6, <4>1 DEF IsFold
      <4>3. h[s] = g[s] /\ h[Earlier(s)] = g[Earlier(s)]
        BY <3>1, <3>3, <4>1
      <4> QED BY <4>2, <4>3
    <3> QED BY <3>2, <3>3
  <2>7. h = [s \in Indices(m + 1) |-> h[s]]
    OBVIOUS
  <2> HIDE DEF h
  <2>8. IsFold(h, Body, base, m + 1)
    BY <2>5, <2>6, <2>7 DEF IsFold
  <2> QED BY <2>8
<1> HIDE DEF Q
<1>3. \A m \in Nat : m \in Q
  BY <1>1, <1>2, NatSetInduction
<1> QED BY <1>3 DEF Q

LEMMA FoldReaches ==
  ASSUME NEW n \in Nat, NEW X, NEW Body, NEW base, StaysIn(X, Body, base, n),
         NEW g, IsFold(g, Body, base, n)
  PROVE  \A s \in Indices(n) : g[s] \in X[s]
<1> DEFINE Q == {s \in Indices(n) : g[s] \in X[s]}
<1>1. {} \in Q
  BY DEF IsFold, StaysIn, Indices
<1>2. ASSUME NEW s \in Indices(n), s # {}, Earlier(s) \in Q PROVE s \in Q
  BY <1>2 DEF IsFold, StaysIn
<1> HIDE DEF Q
<1>3. \A s \in Indices(n) : s \in Q
  BY <1>1, <1>2, IndexInduction
<1> QED BY <1>3 DEF Q
=============================================================================
