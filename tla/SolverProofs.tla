---------------------------- MODULE SolverProofs ----------------------------
(***************************************************************************)
(* Proofs about two of the algorithms that the mapping calls.               *)
(*                                                                         *)
(* The Hungarian method returns an assignment of least cost, for every     *)
(* matrix of every size.  The potentials never exceed a cost, and are       *)
(* equal to it for every assigned row: no assignment can cost less than     *)
(* their sum, and the result costs just that.  Along the search the columns *)
(* reached form a tree whose edges are tight; ranks that grow away from the *)
(* root show that flipping a path changes no assignment that the rest of    *)
(* the path still has to read.                                              *)
(*                                                                         *)
(* Greedy matching of heavy edges, for every graph, partition, weight       *)
(* limit and order of the vertices: an edge is passed over only when it     *)
(* could not be matched or a better one had been taken, and the pairs can   *)
(* be contracted.  The choice is mutual: a vertex that found no open        *)
(* neighbour is eligible for none that is still open, so nobody takes it    *)
(* later, and what was taken before a visit stays taken.                    *)
(***************************************************************************)
EXTENDS Hungarian, HeavyEdge, SetTheorems, SequenceTheorems

Tight(r, j) == u[r] + v[j] = cost[r][j]
ReducedCost(k, j) == cost[p[k]][j] - u[p[k]] - v[j]

TypeOK ==
  /\ cost \in [Cols -> [Cols -> Costs]]
  /\ u \in [AllCols -> Int] /\ v \in [AllCols -> Int] /\ minv \in [AllCols -> Int]
  /\ p \in [AllCols -> AllCols] /\ way \in [AllCols -> AllCols]
  /\ used \subseteq AllCols /\ j0 \in AllCols
  /\ pc \in {"search", "flip", "done"}
  /\ i \in 1 .. N + 1 /\ (pc # "done" => i <= N)

(* The columns of T hold each of the rows once, and are free otherwise.     *)
Assigned(T, rows) ==
  /\ \A j \in T : p[j] \in rows \cup {0}
  /\ \A r \in rows : \E j \in T : p[j] = r
  /\ \A j, k \in T : p[j] = p[k] /\ p[j] # 0 => j = k

(* While a path is flipped its present end is about to get another row.     *)
Hole == IF pc = "flip" THEN {j0} ELSE {}
PotentialInv ==
  /\ \A r \in Cols : u[r] >= 0 /\ \A j \in Cols : u[r] + v[j] <= cost[r][j]
  /\ \A j \in Cols \ Hole : IF p[j] = 0 THEN v[j] = 0 ELSE Tight(p[j], j)

Tree(rank, T) == \A j \in T \ {0} :
  way[j] \in used /\ rank[way[j]] < rank[j] /\ Tight(p[way[j]], j)

(* minv is the least reduced cost from the tree to a column, way its end.   *)
MinvInv ==
  IF used = {} THEN j0 = 0 /\ \A j \in Cols : minv[j] = Infinity
  ELSE /\ 0 \in used
       /\ \A j \in Cols \ used :
            /\ way[j] \in used /\ minv[j] = ReducedCost(way[j], j)
            /\ \A k \in used : minv[j] <= ReducedCost(k, j)

SearchInv ==
  /\ Assigned(AllCols, 1 .. i) /\ p[0] = i
  /\ j0 \notin used /\ \A j \in used \cup {j0} : p[j] # 0
  /\ \E rank \in [AllCols -> Nat] :
       /\ Tree(rank, used \cup {j0})
       /\ \A j \in used \cup {j0} : rank[j] <= Cardinality(used)
  /\ MinvInv

FlipInv ==
  /\ Assigned(AllCols \ {j0}, 1 .. i) /\ p[0] = i
  /\ j0 \in Cols /\ \A j \in used : p[j] # 0
  /\ \E rank \in [AllCols -> Nat] : Tree(rank, {j0} \cup {j \in used : rank[j] < rank[j0]})

IInv ==
  /\ TypeOK /\ PotentialInv
  /\ pc = "search" => SearchInv
  /\ pc = "flip" => FlipInv
  /\ pc = "done" => Assigned(Cols, Cols)

-----------------------------------------------------------------------------
LEMMA Sizes ==
  /\ N \in Nat /\ N > 0 /\ Cols = AllCols \ {0} /\ 0 \in AllCols /\ AllCols \subseteq Int
  /\ IsFiniteSet(Cols) /\ Cardinality(Cols) = N
  /\ IsFiniteSet(AllCols) /\ Cardinality(AllCols) = N + 1
  /\ \A c \in Costs : c \in Nat
<1>1. N \in Nat /\ N > 0 /\ \A c \in Costs : c \in Nat
  BY HungarianAssumption
<1>2. 0 \in Int /\ 1 \in Int /\ N \in Int /\ ~ (0 > N) /\ ~ (1 > N)
  BY <1>1
<1>3. /\ IsFiniteSet(1 .. N) /\ Cardinality(1 .. N) = N - 1 + 1
      /\ IsFiniteSet(0 .. N) /\ Cardinality(0 .. N) = N - 0 + 1
  BY <1>2, FS_Interval
<1> QED BY <1>1, <1>3 DEF Cols, AllCols

(* Two costs together do not reach Infinity when there are two columns.     *)
LEMMA BelowInfinity ==
  ASSUME NEW a \in Costs, NEW b \in Costs
  PROVE  a \in Nat /\ b \in Nat /\ a < Infinity /\ (N > 1 => a + b < Infinity)
<1>1. /\ a \in Nat /\ b \in Nat /\ a * N < Infinity /\ b * N < Infinity
      /\ N \in Nat /\ N >= 1 /\ Infinity \in Nat
  BY HungarianAssumption
<1>2. a <= a * N /\ b <= b * N /\ a * N \in Nat /\ b * N \in Nat
  BY <1>1
<1>3. ASSUME N > 1 PROVE a + a <= a * N /\ b + b <= b * N
  BY <1>1, <1>3
<1>4. ASSUME N > 1 PROVE a + b < Infinity
  <2>1. CASE a <= b
    BY <1>1, <1>2, <1>3, <1>4, <2>1
  <2>2. CASE b <= a
    BY <1>1, <1>2, <1>3, <1>4, <2>2
  <2> QED BY <1>1, <2>1, <2>2
<1> QED BY <1>1, <1>2, <1>4

LEMMA CostsAreNatural == ASSUME TypeOK PROVE \A r, j \in Cols : cost[r][j] \in Nat
<1>1. ASSUME NEW r \in Cols, NEW j \in Cols PROVE cost[r][j] \in Costs
  BY DEF TypeOK
<1> QED BY <1>1, Sizes

LEMMA InitEstablishes == ASSUME Init PROVE IInv
<1>1. /\ N \in Nat /\ N > 0 /\ Cols = AllCols \ {0} /\ 0 \in AllCols /\ Infinity \in Nat
      /\ 1 \in AllCols /\ \A c \in Costs : c \in Nat
  BY Sizes, HungarianAssumption DEF AllCols
<1>2. /\ cost \in [Cols -> [Cols -> Costs]] /\ i = 1 /\ j0 = 0 /\ pc = "search" /\ used = {}
      /\ u = [x \in AllCols |-> 0] /\ v = [x \in AllCols |-> 0]
      /\ p = [x \in AllCols |-> IF x = 0 THEN 1 ELSE 0]
      /\ way = [x \in AllCols |-> 0] /\ minv = [x \in AllCols |-> Infinity]
  BY DEF Init
<1>3. TypeOK
  BY <1>1, <1>2 DEF TypeOK
<1>4. PotentialInv
  <2>1. \A r, j \in Cols : cost[r][j] \in Nat
    BY <1>1, <1>2
  <2>2. \A x \in AllCols : u[x] = 0 /\ v[x] = 0
    BY <1>2
  <2> QED BY <1>1, <1>2, <2>1, <2>2 DEF PotentialInv
<1>5. Assigned(AllCols, 1 .. i) /\ p[0] = i
  BY <1>1, <1>2 DEF Assigned
<1>6. \E rank \in [AllCols -> Nat] :
        /\ Tree(rank, used \cup {j0})
        /\ \A j \in used \cup {j0} : rank[j] <= Cardinality(used)
  <2> DEFINE rank == [x \in AllCols |-> 0]
  <2>1. rank \in [AllCols -> Nat] /\ Tree(rank, used \cup {j0})
    BY <1>2 DEF Tree
  <2>2. \A j \in used \cup {j0} : rank[j] <= Cardinality(used)
    BY <1>1, <1>2, FS_EmptySet
  <2> HIDE DEF rank
  <2> QED BY <2>1, <2>2
<1>7. SearchInv
  BY <1>1, <1>2, <1>5, <1>6 DEF SearchInv, MinvInv
<1> QED BY <1>2, <1>3, <1>4, <1>7 DEF IInv

-----------------------------------------------------------------------------
(* The search.  Some column is free, so no row's potential exceeds a cost   *)
(* and every reduced cost is below Infinity.                                *)
LEMMA SomeColumnIsFree ==
  ASSUME TypeOK, Assigned(AllCols, 1 .. i), i <= N
  PROVE  \E j \in AllCols : p[j] = 0
<1>1. SUFFICES ASSUME \A j \in AllCols : p[j] # 0 PROVE FALSE
  OBVIOUS
<1>2. p \in [AllCols -> 1 .. i]
  BY <1>1 DEF TypeOK, Assigned
<1>3. i \in Nat /\ i >= 1 /\ 1 \in Int /\ i \in Int
  BY Sizes DEF TypeOK
<1>4. IsFiniteSet(1 .. i) /\ Cardinality(1 .. i) = i
  BY <1>3, FS_Interval
<1>5. Cardinality(1 .. i) < Cardinality(AllCols) /\ IsFiniteSet(AllCols)
  BY <1>3, <1>4, Sizes
<1>6. \E x, y \in AllCols : x # y /\ p[x] = p[y]
  BY <1>2, <1>4, <1>5, FS_PigeonHole
<1> QED BY <1>1, <1>6 DEF Assigned

LEMMA ReducedCostsAreFinite ==
  ASSUME TypeOK, PotentialInv, SearchInv, pc = "search", NEW r \in Cols, NEW j \in Cols
  PROVE  /\ cost[r][j] - u[r] - v[j] \in Nat
         /\ cost[r][j] - u[r] - v[j] < Infinity
<1>1. /\ r \in AllCols /\ j \in AllCols /\ u[r] \in Int /\ v[j] \in Int
      /\ cost[r][j] \in Costs /\ cost[r][j] \in Nat /\ N \in Nat /\ Infinity \in Nat
  BY Sizes, HungarianAssumption DEF TypeOK
<1>2. u[r] >= 0 /\ u[r] + v[j] <= cost[r][j]
  BY DEF PotentialInv
<1>3. PICK free \in Cols : p[free] = 0
  <2>1. PICK free \in AllCols : p[free] = 0
    BY SomeColumnIsFree DEF SearchInv, TypeOK
  <2>2. p[0] # 0
    BY DEF SearchInv, TypeOK
  <2> QED BY <2>1, <2>2, Sizes
<1>4. CASE p[j] = 0
  <2>1. v[j] = 0
    BY <1>4 DEF PotentialInv, Hole
  <2>2. cost[r][j] < Infinity
    BY <1>1, BelowInfinity
  <2> QED BY <1>1, <1>2, <2>1, <2>2
<1>5. CASE p[j] # 0
  <2> DEFINE s == p[j]
  <2>1. s \in Cols /\ s \in AllCols /\ Tight(s, j)
    BY <1>1, <1>5, Sizes DEF PotentialInv, Hole, TypeOK
  <2>2. v[free] = 0 /\ u[s] + v[free] <= cost[s][free]
    BY <1>3, <2>1 DEF PotentialInv, Hole
  <2>3. /\ cost[s][free] \in Costs /\ cost[s][j] \in Costs /\ u[s] \in Int
        /\ cost[s][free] \in Nat /\ cost[s][j] \in Nat
    BY <2>1, Sizes DEF TypeOK
  <2>4. N > 1
    BY <1>1, <1>3, <1>5 DEF Cols
  <2>5. cost[r][j] + cost[s][free] < Infinity
    BY <1>1, <2>3, <2>4, BelowInfinity
  <2>6. u[s] + v[j] = cost[s][j]
    BY <2>1 DEF Tight
  <2> HIDE DEF s
  <2> QED BY <1>1, <1>2, <2>2, <2>3, <2>5, <2>6
<1> QED BY <1>4, <1>5

(* The column that is chosen next is one of least minv.                     *)
LEMMA NextColumnIsNearest ==
  ASSUME NEW open \in SUBSET Cols, open # {}, NEW mv, \A j \in open : mv[j] \in Int
  PROVE  NextColumn(mv, open) \in open /\ \A j \in open : mv[NextColumn(mv, open)] <= mv[j]
<1> DEFINE values == {mv[j] : j \in open}
           near == {j \in open : \A x \in open : mv[j] <= mv[x]}
<1>1. IsFiniteSet(open) /\ open \subseteq Int
  BY Sizes, FS_Subset
<1>2. IsFiniteSet(values)
  <2> DEFINE f == [j \in open |-> mv[j]]
  <2>1. f \in Surjection(open, values)
    BY DEF Surjection
  <2> HIDE DEF f, values
  <2> QED BY <1>1, <2>1, FS_Surjection
<1>3. values \subseteq Int /\ values # {}
  OBVIOUS
<1>4. Min(values) \in values /\ \A x \in values : Min(values) <= x
  <2> HIDE DEF values
  <2> QED BY <1>2, <1>3, SmallestExists
<1>5. near # {} /\ near \subseteq open
  <2>1. PICK j \in open : mv[j] = Min(values)
    BY <1>4
  <2>2. \A x \in open : mv[j] <= mv[x]
    BY <1>4, <2>1
  <2> QED BY <2>2
<1>6. IsFiniteSet(near) /\ near \subseteq Int
  BY <1>1, <1>5, FS_Subset
<1>7. NextColumn(mv, open) = Min(near)
  BY DEF NextColumn
<1>8. Min(near) \in near
  <2> HIDE DEF near
  <2> QED BY <1>5, <1>6, SmallestExists
<1> QED BY <1>7, <1>8

LEMMA SearchPreserves == ASSUME IInv, Search PROVE IInv'
<1> DEFINE S == used \cup {j0}
           open == UnusedColumns(S)
           mv == NewMinv
           nearest == NextColumn(mv, open)
<1>0. /\ TypeOK /\ PotentialInv /\ SearchInv /\ pc = "search" /\ i <= N
      /\ N \in Nat /\ Cols = AllCols \ {0} /\ 0 \in AllCols /\ AllCols \subseteq Int
      /\ Infinity \in Nat
  BY Sizes, HungarianAssumption DEF IInv, Search, TypeOK
<1>1. /\ used' = S /\ j0' = nearest
      /\ way' = [j \in AllCols |-> IF Nearer(j) THEN j0 ELSE way[j]]
      /\ u' = StepU(S, mv[nearest])
      /\ v' = [j \in AllCols |-> IF j \in S THEN v[j] - mv[nearest] ELSE v[j]]
      /\ minv' = [j \in AllCols |-> IF j \in S THEN mv[j] ELSE mv[j] - mv[nearest]]
      /\ pc' = IF p[nearest] # 0 THEN "search" ELSE "flip"
      /\ cost' = cost /\ i' = i /\ p' = p
  BY DEF Search
<1>2. S \subseteq AllCols /\ 0 \in S /\ \A j \in S : p[j] \in Cols
  <2>1. \A j \in S : p[j] # 0
    BY <1>0 DEF SearchInv
  <2>2. 0 \in S
    BY <1>0 DEF SearchInv, MinvInv
  <2> QED BY <1>0, <2>1, <2>2 DEF TypeOK
<1>3. open \subseteq Cols /\ open # {} /\ open = Cols \ S
  <2>1. PICK j \in AllCols : p[j] = 0
    BY <1>0, SomeColumnIsFree DEF SearchInv
  <2>2. j \in Cols \ S
    BY <1>0, <1>2, <2>1
  <2> QED BY <2>2 DEF UnusedColumns
<1>4. ASSUME NEW k \in S, NEW j \in Cols
      PROVE  ReducedCost(k, j) \in Nat /\ ReducedCost(k, j) < Infinity
  BY <1>0, <1>2, <1>4, ReducedCostsAreFinite DEF ReducedCost
<1>5. ASSUME NEW j \in open
      PROVE  /\ way'[j] \in S /\ mv[j] = ReducedCost(way'[j], j) /\ mv[j] \in Nat
             /\ \A k \in S : mv[j] <= ReducedCost(k, j)
  <2>1. j \in Cols /\ j \in AllCols /\ j \notin S
    BY <1>0, <1>3
  <2>2. Reduced(j) = ReducedCost(j0, j)
    BY DEF Reduced, ReducedCost
  <2>3. way'[j] = (IF Nearer(j) THEN j0 ELSE way[j])
        /\ mv[j] = (IF Nearer(j) THEN Reduced(j) ELSE minv[j])
    BY <1>1, <2>1 DEF NewMinv
  <2>4. Nearer(j) <=> ReducedCost(j0, j) < minv[j]
    BY <2>1, <2>2 DEF Nearer
  <2>5. ReducedCost(j0, j) \in Nat /\ ReducedCost(j0, j) < Infinity
    BY <1>4, <2>1
  <2>6. CASE used = {}
    <3>1. minv[j] = Infinity /\ S = {j0}
      BY <1>0, <2>1, <2>6 DEF SearchInv, MinvInv
    <3> QED BY <2>2, <2>3, <2>4, <2>5, <3>1
  <2>7. CASE used # {}
    <3>1. /\ way[j] \in used /\ minv[j] = ReducedCost(way[j], j)
          /\ \A k \in used : minv[j] <= ReducedCost(k, j)
      BY <1>0, <2>1, <2>7 DEF SearchInv, MinvInv
    <3>2. minv[j] \in Nat /\ \A k \in S : ReducedCost(k, j) \in Nat
      BY <1>4, <2>1, <3>1
    <3> QED BY <2>2, <2>3, <2>4, <2>5, <3>1, <3>2
  <2> QED BY <2>6, <2>7
<1>6. mv \in [AllCols -> Int]
  <2>1. ASSUME NEW j \in AllCols PROVE mv[j] \in Int
    <3>1. CASE Nearer(j)
      <4>1. j \in Cols /\ j0 \in S
        BY <3>1 DEF Nearer
      <4>2. ReducedCost(j0, j) \in Int
        BY <1>4, <4>1
      <4> QED BY <3>1, <4>2 DEF NewMinv, Reduced, ReducedCost
    <3>2. CASE ~ Nearer(j)
      BY <1>0, <3>2 DEF NewMinv, TypeOK
    <3> QED BY <3>1, <3>2
  <2> QED BY <2>1 DEF NewMinv
<1>7. nearest \in open /\ \A j \in open : mv[nearest] <= mv[j]
  <2> HIDE DEF open, mv
  <2> QED BY <1>3, <1>5, NextColumnIsNearest
<1>8. PICK j1 \in open, delta \in Nat :
        /\ j1 = nearest /\ delta = mv[j1] /\ j1 \in Cols /\ j1 \in AllCols /\ j1 \notin S
        /\ \A j \in open : delta <= mv[j]
        /\ u' = StepU(S, delta) /\ v' = [j \in AllCols |-> IF j \in S THEN v[j] - delta ELSE v[j]]
        /\ minv' = [j \in AllCols |-> IF j \in S THEN mv[j] ELSE mv[j] - delta]
        /\ used' = S /\ j0' = j1 /\ pc' = IF p[j1] # 0 THEN "search" ELSE "flip"
  <2> HIDE DEF open, mv, nearest, S
  <2> QED BY <1>0, <1>1, <1>3, <1>5, <1>7
<1> HIDE DEF S, open, mv, nearest
<1>9. \A j \in AllCols : v'[j] \in Int /\ v'[j] = (IF j \in S THEN v[j] - delta ELSE v[j])
  BY <1>0, <1>8 DEF TypeOK
<1>10. \A r \in AllCols :
         u'[r] \in Int /\ u'[r] = (IF r \in RowsOf(S) THEN u[r] + delta ELSE u[r])
  BY <1>0, <1>8 DEF TypeOK, StepU
<1>11. ASSUME NEW j \in AllCols, p[j] # 0
       PROVE  p[j] \in RowsOf(S) <=> j \in S
  BY <1>0, <1>2, <1>11 DEF SearchInv, Assigned, RowsOf
<1>12. ASSUME NEW j \in AllCols, p[j] # 0
       PROVE  u'[p[j]] = (IF j \in S THEN u[p[j]] + delta ELSE u[p[j]])
  BY <1>0, <1>10, <1>11, <1>12 DEF TypeOK
<1>13. TypeOK'
  <2>1. way' \in [AllCols -> AllCols]
    BY <1>0, <1>1 DEF TypeOK
  <2>2. minv' \in [AllCols -> Int]
    BY <1>6, <1>8
  <2>3. u' \in [AllCols -> Int] /\ v' \in [AllCols -> Int]
    BY <1>8, <1>9, <1>10 DEF StepU
  <2> QED BY <1>0, <1>1, <1>2, <1>8, <2>1, <2>2, <2>3 DEF TypeOK
(* What is tight within the tree, and outside of it, stays so.              *)
<1>14. ASSUME NEW k \in AllCols, NEW j \in Cols, p[k] # 0, k \in S <=> j \in S,
              Tight(p[k], j)
       PROVE  Tight(p[k], j)'
  <2>1. /\ u[p[k]] \in Int /\ v[j] \in Int /\ p[k] \in Cols /\ j \in AllCols
        /\ cost[p[k]][j] \in Nat
    BY <1>0, <1>14, Sizes DEF TypeOK
  <2>2. u[p[k]] + v[j] = cost[p[k]][j]
    BY <1>14 DEF Tight
  <2>3. u'[p[k]] = (IF k \in S THEN u[p[k]] + delta ELSE u[p[k]])
        /\ v'[j] = (IF j \in S THEN v[j] - delta ELSE v[j])
    BY <1>9, <1>12, <1>14, <2>1
  <2>4. u'[p[k]] + v'[j] = cost[p[k]][j]
    BY <1>8, <1>14, <2>1, <2>2, <2>3
  <2> QED BY <1>1, <2>4 DEF Tight
<1>15. ASSUME NEW r \in Cols, NEW j \in Cols PROVE u'[r] >= 0 /\ u'[r] + v'[j] <= cost'[r][j]
  <2>1. /\ r \in AllCols /\ j \in AllCols /\ u[r] \in Int /\ v[j] \in Int
        /\ cost[r][j] \in Nat /\ cost'[r][j] = cost[r][j]
    BY <1>0, <1>1, Sizes DEF TypeOK
  <2>2. u[r] >= 0 /\ u[r] + v[j] <= cost[r][j]
    BY <1>0 DEF PotentialInv
  <2>3. CASE r \in RowsOf(S) /\ j \notin S
    <3>1. PICK k \in S : r = p[k]
      BY <2>3 DEF RowsOf
    <3>2. j \in open
      BY <1>3, <2>3
    <3>3. delta <= mv[j] /\ mv[j] <= ReducedCost(k, j) /\ mv[j] \in Nat
      BY <1>5, <1>8, <3>2
    <3>4. ReducedCost(k, j) = cost[r][j] - u[r] - v[j]
      BY <3>1 DEF ReducedCost
    <3>5. delta <= cost[r][j] - u[r] - v[j]
      BY <1>8, <2>1, <3>3, <3>4
    <3> QED BY <1>8, <1>9, <1>10, <2>1, <2>2, <2>3, <3>5
  <2>4. CASE ~ (r \in RowsOf(S) /\ j \notin S)
    BY <1>8, <1>9, <1>10, <2>1, <2>2, <2>4
  <2> QED BY <2>3, <2>4
<1>16. PotentialInv'
  <2>1. ASSUME NEW j \in Cols PROVE (IF p[j] = 0 THEN v[j] = 0 ELSE Tight(p[j], j))'
    <3>1. IF p[j] = 0 THEN v[j] = 0 ELSE Tight(p[j], j)
      BY <1>0 DEF PotentialInv, Hole
    <3>2. CASE p[j] = 0
      <4>1. j \notin S /\ j \in AllCols
        BY <1>0, <1>2, <3>2
      <4> QED BY <1>1, <1>9, <3>1, <3>2, <4>1
    <3>3. CASE p[j] # 0
      <4>1. j \in AllCols /\ Tight(p[j], j)
        BY <1>0, <3>1, <3>3
      <4>2. Tight(p[j], j)'
        BY <1>14, <3>3, <4>1
      <4> QED BY <1>1, <3>3, <4>2
    <3> QED BY <3>2, <3>3
  <2> QED BY <1>15, <2>1 DEF PotentialInv
(* The next column hangs on the tree by a tight edge.                       *)
<1>17. PICK k1 \in S : k1 = way'[j1] /\ Tight(p[k1], j1)'
  <2>1. way'[j1] \in S /\ mv[j1] = ReducedCost(way'[j1], j1)
    BY <1>5, <1>8
  <2>2. PICK k \in S : k = way'[j1]
    BY <2>1
  <2>3. /\ u[p[k]] \in Int /\ v[j1] \in Int /\ cost[p[k]][j1] \in Nat
        /\ k \in AllCols /\ p[k] # 0
    <3>1. k \in AllCols /\ p[k] \in Cols /\ p[k] # 0 /\ p[k] \in AllCols /\ j1 \in Cols
      BY <1>0, <1>2, <1>8, <2>2
    <3>2. cost[p[k]][j1] \in Costs
      BY <1>0, <3>1 DEF TypeOK
    <3>3. u[p[k]] \in Int /\ v[j1] \in Int
      BY <1>0, <1>8, <3>1 DEF TypeOK
    <3> QED BY <3>1, <3>2, <3>3, Sizes
  <2>4. delta = cost[p[k]][j1] - u[p[k]] - v[j1]
    BY <1>8, <2>1, <2>2 DEF ReducedCost
  <2>5. u'[p[k]] = u[p[k]] + delta /\ v'[j1] = v[j1]
    BY <1>8, <1>9, <1>12, <2>3
  <2>6. u'[p[k]] + v'[j1] = cost[p[k]][j1]
    BY <1>8, <2>3, <2>4, <2>5
  <2>7. Tight(p[k], j1)'
    BY <1>1, <2>6 DEF Tight
  <2> QED BY <2>2, <2>7
<1>18. S = used \cup {j0} /\ j0 \notin used /\ IsFiniteSet(used) /\ used \subseteq AllCols
  BY <1>0, Sizes, FS_Subset DEF S, SearchInv, TypeOK
<1>19. Cardinality(S) = Cardinality(used) + 1 /\ Cardinality(used) \in Nat
  BY <1>18, FS_AddElement, FS_CardinalityType
<1>20. PICK old \in [AllCols -> Nat] :
         Tree(old, S) /\ \A j \in S : old[j] <= Cardinality(used)
  BY <1>0, <1>18 DEF SearchInv
<1>21. PICK rank \in [AllCols -> Nat] :
         rank[j1] = Cardinality(S) /\ \A j \in AllCols \ {j1} : rank[j] = old[j]
  <2>1. PICK c \in Nat : c = Cardinality(S)
    BY <1>19
  <2> DEFINE new == [x \in AllCols |-> IF x = j1 THEN c ELSE old[x]]
  <2> HIDE DEF AllCols
  <2>2. \A x \in AllCols : new[x] = (IF x = j1 THEN c ELSE old[x]) /\ new[x] \in Nat
    BY <1>20
  <2>3. new \in [AllCols -> Nat]
    BY <2>2
  <2> HIDE DEF new
  <2> QED BY <1>8, <2>1, <2>2, <2>3
<1>22. ASSUME NEW j \in (S \cup {j1}) \ {0}
       PROVE  way'[j] \in S /\ rank[way'[j]] < rank[j] /\ Tight(p[way[j]], j)'
  <2>1. CASE j = j1
    <3>1. k1 \in S /\ k1 # j1 /\ k1 \in AllCols /\ rank[k1] = old[k1] /\ old[k1] \in Nat
      BY <1>2, <1>8, <1>17, <1>20, <1>21
    <3>2. rank[k1] < rank[j1]
      BY <1>19, <1>20, <1>21, <3>1
    <3>3. Tight(p[way[j1]], j1)'
      BY <1>17 DEF Tight
    <3> QED BY <1>17, <2>1, <3>2, <3>3
  <2>2. CASE j \in S
    <3>1. /\ j \in S \ {0} /\ way[j] \in used /\ old[way[j]] < old[j] /\ Tight(p[way[j]], j)
      BY <1>20, <2>2 DEF Tree
    <3>2. PICK k \in S : k = way[j] /\ k \in AllCols /\ k # j1 /\ j # j1 /\ p[k] # 0
      BY <1>0, <1>2, <1>8, <1>18, <2>2, <3>1
    <3>3. way'[j] = way[j] /\ j \in Cols /\ j \in AllCols
      <4>1. j \in Cols /\ j \in AllCols
        BY <1>0, <1>2, <2>2
      <4>2. ~ Nearer(j)
        BY <2>2 DEF Nearer, S
      <4> QED BY <1>1, <4>1, <4>2
    <3>4. Tight(p[k], j)'
      BY <1>14, <2>2, <3>1, <3>2, <3>3
    <3>5. rank[k] < rank[j]
      BY <1>21, <3>1, <3>2, <3>3
    <3>6. way'[j] = k
      BY <3>2, <3>3
    <3>7. Tight(p[way[j]], j)'
      BY <3>4, <3>6 DEF Tight
    <3> QED BY <3>2, <3>5, <3>6, <3>7
  <2> QED BY <2>1, <2>2
<1>23. /\ \E f \in [AllCols -> Nat] :
              /\ Tree(f, used \cup {j0})'
              /\ \A j \in (used \cup {j0})' : f[j] <= Cardinality(used')
       /\ MinvInv'
  <2>1. Tree(rank, used \cup {j0})'
    BY <1>8, <1>22 DEF Tree
  <2>2. \A j \in (used \cup {j0})' : rank[j] <= Cardinality(used')
    BY <1>8, <1>19, <1>20, <1>21, <1>2
  <2>3. ASSUME NEW j \in Cols \ S
        PROVE  /\ way'[j] \in S /\ minv'[j] = ReducedCost(way[j], j)'
               /\ \A k \in S : minv'[j] <= ReducedCost(k, j)'
    <3>1. j \in open /\ j \in AllCols /\ v'[j] = v[j] /\ v[j] \in Int
      BY <1>0, <1>3, <1>9 DEF TypeOK
    <3>2. minv'[j] = mv[j] - delta /\ mv[j] \in Nat /\ delta \in Nat
      BY <1>5, <1>8, <3>1
    <3>3. ASSUME NEW k \in S PROVE ReducedCost(k, j)' = ReducedCost(k, j) - delta
      <4>1. k \in AllCols /\ p[k] \in Cols /\ p[k] # 0 /\ p[k] \in AllCols
        BY <1>0, <1>2
      <4>2. u'[p[k]] = u[p[k]] + delta /\ u[p[k]] \in Int
        BY <1>0, <1>12, <4>1 DEF TypeOK
      <4>3. cost[p[k]][j] \in Nat
        BY <1>0, <2>3, <4>1, CostsAreNatural
      <4>4. cost[p[k]][j] - u'[p[k]] - v'[j] = cost[p[k]][j] - u[p[k]] - v[j] - delta
        BY <3>1, <3>2, <4>2, <4>3
      <4> QED BY <1>1, <4>4 DEF ReducedCost
    <3>4. ASSUME NEW k \in S PROVE ReducedCost(k, j) \in Nat
      BY <1>4
    <3>5. PICK k2 \in S : k2 = way'[j] /\ mv[j] = ReducedCost(k2, j)
      BY <1>5, <3>1
    <3>6. minv'[j] = ReducedCost(k2, j)'
      BY <3>2, <3>3, <3>5
    <3>7. ReducedCost(way[j], j)' = ReducedCost(k2, j)'
      BY <3>5 DEF ReducedCost
    <3>8. ASSUME NEW k \in S PROVE minv'[j] <= ReducedCost(k, j)'
      <4>1. mv[j] <= ReducedCost(k, j)
        BY <1>5, <3>1
      <4> QED BY <3>2, <3>3, <3>4, <4>1
    <3> QED BY <3>5, <3>6, <3>7, <3>8
  <2>4. MinvInv'
    BY <1>2, <1>8, <2>3 DEF MinvInv
  <2> QED BY <2>1, <2>2, <2>4
<1>24. CASE p[j1] # 0
  <2>1. pc' = "search" /\ p' = p /\ i' = i /\ used' = S /\ j0' = j1
    BY <1>1, <1>8, <1>24
  <2>2. Assigned(AllCols, 1 .. i)' /\ p'[0] = i'
    BY <1>0, <2>1 DEF SearchInv, Assigned
  <2>3. j0' \notin used' /\ \A j \in used' \cup {j0'} : p'[j] # 0
    BY <1>2, <1>8, <1>24, <2>1, Sizes
  <2>4. SearchInv'
    BY <1>23, <2>2, <2>3 DEF SearchInv
  <2> QED BY <1>13, <1>16, <2>1, <2>4 DEF IInv
<1>25. CASE p[j1] = 0
  <2>1. pc' = "flip" /\ p' = p /\ i' = i /\ used' = S /\ j0' = j1
    BY <1>1, <1>8, <1>25
  <2>2. Assigned(AllCols \ {j1}, 1 .. i)
    <3>1. Assigned(AllCols, 1 .. i) /\ 0 \notin 1 .. i
      BY <1>0 DEF SearchInv
    <3> HIDE DEF AllCols
    <3> QED BY <1>25, <3>1 DEF Assigned
  <2>3. Assigned(AllCols \ {j0}, 1 .. i)' /\ p'[0] = i'
    BY <1>0, <2>1, <2>2 DEF SearchInv, Assigned
  <2>4. \E f \in [AllCols -> Nat] : Tree(f, {j0} \cup {j \in used : f[j] < f[j0]})'
    <3>1. PICK f \in [AllCols -> Nat] : Tree(f, used \cup {j0})'
      BY <1>23
    <3>2. Tree(f, {j0} \cup {j \in used : f[j] < f[j0]})'
      BY <3>1 DEF Tree
    <3> QED BY <3>1, <3>2
  <2>5. j0' \in Cols /\ \A j \in used' : p'[j] # 0
    BY <1>2, <1>8, <2>1, Sizes
  <2>6. FlipInv'
    BY <2>3, <2>4, <2>5 DEF FlipInv
  <2> QED BY <1>13, <1>16, <2>1, <2>6 DEF IInv
<1> QED BY <1>24, <1>25

-----------------------------------------------------------------------------
(* The flip moves the hole towards the root; the rows read later are those  *)
(* of columns of smaller rank, which it has not yet written.                *)
LEMMA FlipPreserves == ASSUME IInv, Flip PROVE IInv'
<1>0. /\ TypeOK /\ PotentialInv /\ FlipInv /\ pc = "flip" /\ i \in 1 .. N /\ i \in Nat /\ i > 0
      /\ N \in Nat /\ Cols = AllCols \ {0} /\ 0 \in AllCols /\ AllCols \subseteq Int
      /\ Infinity \in Nat
  <2>1. TypeOK /\ PotentialInv /\ FlipInv /\ pc = "flip" /\ i \in 1 .. N + 1 /\ i <= N
    BY DEF IInv, Flip, TypeOK
  <2> QED BY <2>1, Sizes, HungarianAssumption
<1>1. PICK rank \in [AllCols -> Nat] : Tree(rank, {j0} \cup {j \in used : rank[j] < rank[j0]})
  BY <1>0 DEF FlipInv
<1>2. PICK j1 \in used :
        /\ j1 = way[j0] /\ rank[j1] < rank[j0] /\ Tight(p[j1], j0) /\ j1 \in AllCols /\ j1 # j0
        /\ j0 \in Cols /\ j0 \in AllCols /\ j0 # 0 /\ p[j1] # 0 /\ rank[j1] \in Nat
  <2>1. j0 \in Cols /\ j0 \in AllCols /\ j0 # 0
    BY <1>0 DEF FlipInv
  <2>2. way[j0] \in used /\ rank[way[j0]] < rank[j0] /\ Tight(p[way[j0]], j0)
    BY <1>1, <2>1 DEF Tree
  <2>3. way[j0] \in AllCols /\ p[way[j0]] # 0
    BY <1>0, <2>2 DEF TypeOK, FlipInv
  <2>4. rank[way[j0]] \in Nat /\ rank[j0] \in Nat
    BY <1>1, <2>1, <2>3
  <2> QED BY <2>1, <2>2, <2>3, <2>4
<1>3. /\ p' = [p EXCEPT ![j0] = p[j1], ![0] = IF j1 = 0 /\ i < N THEN i + 1 ELSE @]
      /\ j0' = j1 /\ u' = u /\ v' = v /\ cost' = cost /\ way' = way
      /\ j1 # 0 => i' = i /\ minv' = minv /\ used' = used /\ pc' = pc
      /\ j1 = 0 => /\ i' = i + 1 /\ used' = {}
                  /\ minv' = [x \in AllCols |-> Infinity]
                  /\ pc' = IF i < N THEN "search" ELSE "done"
  BY <1>2 DEF Flip
<1>4. p \in [AllCols -> AllCols] /\ \A j \in AllCols : p[j] \in AllCols
  BY <1>0 DEF TypeOK
<1>5. /\ p'[j0] = p[j1]
      /\ p'[0] = IF j1 = 0 /\ i < N THEN i + 1 ELSE p[0]
      /\ \A j \in AllCols \ {0, j0} : p'[j] = p[j]
  BY <1>0, <1>2, <1>3, <1>4
<1>6. \A j \in AllCols : p'[j] \in AllCols
  <2>1. i < N => i + 1 \in AllCols
    BY <1>0 DEF AllCols
  <2> QED BY <1>0, <1>2, <1>4, <1>5, <2>1
<1>7. p' \in [AllCols -> AllCols]
  BY <1>3, <1>4, <1>6
<1>8. TypeOK'
  <2>1. i' \in 1 .. N + 1 /\ (pc' # "done" => i' <= N) /\ pc' \in {"search", "flip", "done"}
    <3>1. CASE j1 = 0
      BY <1>0, <1>3, <3>1
    <3>2. CASE j1 # 0
      BY <1>0, <1>3, <3>2
    <3> QED BY <3>1, <3>2
  <2>2. minv' \in [AllCols -> Int] /\ used' \subseteq AllCols
    <3> HIDE DEF AllCols
    <3>1. minv \in [AllCols -> Int] /\ used \subseteq AllCols
      BY <1>0 DEF TypeOK
    <3>2. CASE j1 = 0
      BY <1>0, <1>3, <3>2
    <3>3. CASE j1 # 0
      BY <1>3, <3>1, <3>3
    <3> QED BY <3>2, <3>3
  <2>3. cost' \in [Cols -> [Cols -> Costs]] /\ u' \in [AllCols -> Int] /\ v' \in [AllCols -> Int]
        /\ way' \in [AllCols -> AllCols] /\ j0' \in AllCols
    BY <1>0, <1>2, <1>3 DEF TypeOK
  <2> QED BY <1>7, <2>1, <2>2, <2>3 DEF TypeOK
<1>9. PotentialInv'
  <2>1. \A r \in Cols : u'[r] >= 0 /\ \A j \in Cols : u'[r] + v'[j] <= cost'[r][j]
    BY <1>0, <1>3 DEF PotentialInv
  <2>2. ASSUME NEW j \in Cols PROVE IF p'[j] = 0 THEN v'[j] = 0 ELSE Tight(p[j], j)'
    <3>1. CASE j = j0
      <4>1. u'[p[j1]] + v'[j0] = cost'[p[j1]][j0]
        BY <1>2, <1>3 DEF Tight
      <4>2. p'[j0] = p[j1] /\ p[j1] # 0
        BY <1>2, <1>5
      <4>3. u'[p'[j]] + v'[j] = cost'[p'[j]][j] /\ p'[j] # 0
        BY <3>1, <4>1, <4>2
      <4> QED BY <4>3 DEF Tight
    <3>2. CASE j # j0
      <4>1. IF p[j] = 0 THEN v[j] = 0 ELSE Tight(p[j], j)
        BY <1>0, <3>2 DEF PotentialInv, Hole
      <4>2. p'[j] = p[j]
        BY <1>0, <1>5, <3>2
      <4> QED BY <1>3, <4>1, <4>2 DEF Tight
    <3> QED BY <3>1, <3>2
  <2> QED BY <2>1, <2>2 DEF PotentialInv
<1>10. /\ \A j \in AllCols \ {j0} : p[j] \in 1 .. i \cup {0}
       /\ \A r \in 1 .. i : \E j \in AllCols \ {j0} : p[j] = r
       /\ \A j, k \in AllCols \ {j0} : p[j] = p[k] /\ p[j] # 0 => j = k
       /\ p[0] = i
  BY <1>0 DEF FlipInv, Assigned
<1>11. CASE j1 # 0
  <2> HIDE DEF AllCols, Cols
  <2>1. /\ pc' = "flip" /\ i' = i /\ used' = used /\ j0' = j1
        /\ \A j \in AllCols \ {j0} : p'[j] = p[j]
    BY <1>0, <1>3, <1>5, <1>11
  <2>2. Assigned(AllCols \ {j1}, 1 .. i)'
    <3>1. \A j \in AllCols \ {j1} : p'[j] \in 1 .. i \cup {0}
      BY <1>2, <1>5, <1>10, <2>1
    <3>2. \A r \in 1 .. i : \E j \in AllCols \ {j1} : p'[j] = r
      <4>1. TAKE r \in 1 .. i
      <4>2. PICK j \in AllCols \ {j0} : p[j] = r
        BY <1>10
      <4>3. CASE j = j1
        BY <1>2, <1>5, <4>2, <4>3
      <4>4. CASE j # j1
        BY <2>1, <4>2, <4>4
      <4> QED BY <4>3, <4>4
    <3>3. \A j, k \in AllCols \ {j1} : p'[j] = p'[k] /\ p'[j] # 0 => j = k
      BY <1>2, <1>5, <1>10, <2>1
    <3> QED BY <1>3, <2>1, <3>1, <3>2, <3>3 DEF Assigned
  <2>3. j1 \in Cols /\ p'[0] = i /\ \A j \in used : p'[j] # 0
    BY <1>0, <1>2, <1>5, <1>10, <1>11, <2>1 DEF FlipInv, TypeOK
  <2>4. Tree(rank, {j0} \cup {j \in used : rank[j] < rank[j0]})'
    <3>1. ASSUME NEW j \in ({j1} \cup {k \in used : rank[k] < rank[j1]}) \ {0}
          PROVE  way'[j] \in used' /\ rank[way'[j]] < rank[j] /\ Tight(p[way[j]], j)'
      <4>1. j \in used /\ j \in AllCols /\ rank[j] <= rank[j1] /\ rank[j] \in Nat /\ rank[j0] \in Nat
        BY <1>0, <1>1, <1>2, <3>1 DEF TypeOK
      <4>2. rank[j] < rank[j0]
        BY <1>2, <4>1
      <4>3. way[j] \in used /\ rank[way[j]] < rank[j] /\ Tight(p[way[j]], j)
        BY <1>1, <3>1, <4>1, <4>2 DEF Tree
      <4>4. way[j] \in AllCols /\ way[j] # j0
        <5>1. way[j] \in AllCols
          BY <1>0, <4>3 DEF TypeOK
        <5> QED BY <1>1, <4>1, <4>2, <4>3, <5>1
      <4>5. p'[way[j]] = p[way[j]]
        BY <2>1, <4>4
      <4>6. Tight(p[way[j]], j)'
        BY <1>3, <4>3, <4>5 DEF Tight
      <4> QED BY <1>3, <2>1, <4>3, <4>6
    <3> QED BY <2>1, <3>1 DEF Tree
  <2>5. \E f \in [AllCols -> Nat] : Tree(f, {j0} \cup {j \in used : f[j] < f[j0]})'
    BY <2>4
  <2>6. FlipInv'
    <3>1. Assigned(AllCols \ {j0}, 1 .. i)'
      BY <2>1, <2>2 DEF Assigned
    <3>2. j0' \in Cols /\ p'[0] = i' /\ \A j \in used' : p'[j] # 0
      BY <2>1, <2>3
    <3> QED BY <2>5, <3>1, <3>2 DEF FlipInv
  <2> QED BY <1>8, <1>9, <2>1, <2>6 DEF IInv
<1>12. ASSUME j1 = 0
       PROVE  /\ p'[j0] = i /\ \A j \in AllCols \ {0, j0} : p'[j] \in 0 .. i - 1
              /\ \A r \in 1 .. i : \E j \in Cols : p'[j] = r
              /\ \A j, k \in Cols : p'[j] = p'[k] /\ p'[j] # 0 => j = k
  <2> HIDE DEF AllCols, Cols
  <2>1. p'[j0] = i
    BY <1>5, <1>10, <1>12
  <2>2. ASSUME NEW j \in AllCols \ {0, j0} PROVE p'[j] = p[j] /\ p'[j] # i /\ p'[j] \in 0 .. i - 1
    <3>1. p'[j] = p[j] /\ p[j] \in 1 .. i \cup {0}
      BY <1>5, <1>10
    <3>2. p[j] # p[0]
      BY <1>0, <1>2, <1>10
    <3> QED BY <1>0, <1>10, <3>1, <3>2
  <2>3. \A r \in 1 .. i : \E j \in Cols : p'[j] = r
    <3>1. TAKE r \in 1 .. i
    <3>2. PICK j \in AllCols \ {j0} : p[j] = r
      BY <1>10
    <3>3. CASE j = 0
      BY <1>2, <1>10, <2>1, <3>2, <3>3
    <3>4. CASE j # 0
      BY <1>0, <2>2, <3>2, <3>4
    <3> QED BY <3>3, <3>4
  <2>4. \A j, k \in Cols : p'[j] = p'[k] /\ p'[j] # 0 => j = k
    BY <1>0, <1>10, <2>1, <2>2
  <2> QED BY <2>1, <2>2, <2>3, <2>4
<1>13. CASE j1 = 0 /\ i < N
  <2> HIDE DEF AllCols, Cols
  <2>1. /\ pc' = "search" /\ i' = i + 1 /\ used' = {} /\ j0' = 0 /\ p'[0] = i + 1
        /\ minv' = [x \in AllCols |-> Infinity]
    BY <1>3, <1>5, <1>13
  <2>2. Assigned(AllCols, 1 .. i)'
    <3>1. \A j \in AllCols : p'[j] \in 1 .. i + 1 \cup {0} /\ (j # 0 => p'[j] # i + 1)
      BY <1>0, <1>12, <1>13, <2>1
    <3>2. \A r \in 1 .. i + 1 : \E j \in AllCols : p'[j] = r
      BY <1>0, <1>12, <1>13, <2>1
    <3>3. \A j, k \in AllCols : p'[j] = p'[k] /\ p'[j] # 0 => j = k
      BY <1>0, <1>12, <1>13, <2>1, <3>1
    <3> QED BY <2>1, <3>1, <3>2, <3>3 DEF Assigned
  <2>3. \E f \in [AllCols -> Nat] :
          /\ Tree(f, used \cup {j0})'
          /\ \A j \in (used \cup {j0})' : f[j] <= Cardinality(used')
    <3> DEFINE f == [x \in AllCols |-> 0]
    <3>1. f \in [AllCols -> Nat] /\ f[0] = 0
      BY <1>0
    <3>2. Tree(f, used \cup {j0})'
      BY <2>1 DEF Tree
    <3>3. \A j \in (used \cup {j0})' : f[j] <= Cardinality(used')
      BY <2>1, <3>1, FS_EmptySet
    <3> HIDE DEF f
    <3> QED BY <3>1, <3>2, <3>3
  <2>4. MinvInv'
    BY <1>0, <2>1 DEF MinvInv
  <2>5. j0' \notin used' /\ \A j \in used' \cup {j0'} : p'[j] # 0
    BY <1>0, <2>1
  <2>6. SearchInv'
    BY <2>1, <2>2, <2>3, <2>4, <2>5 DEF SearchInv
  <2> QED BY <1>8, <1>9, <2>1, <2>6 DEF IInv
<1>14. CASE j1 = 0 /\ ~ (i < N)
  <2>1. pc' = "done" /\ i = N /\ Cols = 1 .. i
    BY <1>0, <1>3, <1>14 DEF Cols
  <2>2. \A j \in Cols : p'[j] \in Cols \cup {0}
    BY <1>0, <1>6
  <2>3. /\ \A r \in Cols : \E j \in Cols : p'[j] = r
        /\ \A j, k \in Cols : p'[j] = p'[k] /\ p'[j] # 0 => j = k
    <3> HIDE DEF AllCols, Cols
    <3> QED BY <1>12, <1>14, <2>1
  <2>4. Assigned(Cols, Cols)'
    <3> HIDE DEF AllCols, Cols
    <3> QED BY <2>2, <2>3 DEF Assigned
  <2> QED BY <1>8, <1>9, <2>1, <2>4 DEF IInv
<1> QED BY <1>11, <1>13, <1>14

(* The potentials stay below the costs and the tree stays tight.            *)
THEOREM Inductive == Spec => []IInv
<1>1. Init => IInv
  BY InitEstablishes
<1>2. IInv /\ [Next]_vars => IInv'
  <2>1. CASE Search
    BY <2>1, SearchPreserves
  <2>2. CASE Flip
    BY <2>2, FlipPreserves
  <2>3. CASE UNCHANGED vars
    <3>1. /\ cost' = cost /\ i' = i /\ j0' = j0 /\ u' = u /\ v' = v /\ p' = p /\ way' = way
          /\ minv' = minv /\ used' = used /\ pc' = pc
      BY <2>3 DEF vars
    <3>2. TypeOK => TypeOK'
      BY <3>1 DEF TypeOK
    <3>3. PotentialInv => PotentialInv'
      BY <3>1 DEF PotentialInv, Hole, Tight
    <3>4. SearchInv => SearchInv'
      <4>1. MinvInv => MinvInv'
        BY <3>1 DEF MinvInv, ReducedCost
      <4>2. Assigned(AllCols, 1 .. i) => Assigned(AllCols, 1 .. i)'
        BY <3>1 DEF Assigned
      <4>3. \A f : Tree(f, used \cup {j0}) => Tree(f, used \cup {j0})'
        BY <3>1 DEF Tree, Tight
      <4> QED BY <3>1, <4>1, <4>2, <4>3 DEF SearchInv
    <3>5. FlipInv => FlipInv'
      BY <3>1 DEF FlipInv, Assigned, Tree, Tight
    <3>6. Assigned(Cols, Cols) => Assigned(Cols, Cols)'
      BY <3>1 DEF Assigned
    <3> QED BY <3>1, <3>2, <3>3, <3>4, <3>5, <3>6 DEF IInv
  <2> QED BY <2>1, <2>2, <2>3 DEF Next
<1> QED BY <1>1, <1>2, PTL DEF Spec

-----------------------------------------------------------------------------
(* A bijection has the sum of the potentials of the columns it reaches.     *)
LEMMA InjectionIsOnto ==
  ASSUME NEW f \in [Cols -> Cols], \A r, s \in Cols : f[r] = f[s] => r = s
  PROVE  {f[r] : r \in Cols} = Cols
<1> DEFINE image == {f[r] : r \in Cols}
<1>1. image \subseteq Cols /\ IsFiniteSet(Cols)
  BY Sizes
<1>2. IsFiniteSet(image)
  BY <1>1, FS_Subset
<1>3. f \in Injection(Cols, image)
  <2>1. f \in [Cols -> image]
    OBVIOUS
  <2> HIDE DEF image
  <2> QED BY <2>1 DEF Injection, IsInjective
<1>4. Cardinality(Cols) <= Cardinality(image)
  <2> HIDE DEF image
  <2> QED BY <1>1, <1>2, <1>3, FS_Injection
<1>5. Cardinality(image) <= Cardinality(Cols) /\ (Cardinality(image) = Cardinality(Cols) => image = Cols)
  <2> HIDE DEF image
  <2> QED BY <1>1, FS_Subset
<1>6. Cardinality(image) \in Nat /\ Cardinality(Cols) \in Nat
  <2> HIDE DEF image
  <2> QED BY <1>1, <1>2, FS_CardinalityType
<1> QED BY <1>4, <1>5, <1>6

(* An assignment whose every entry is its two potentials and some more.     *)
LEMMA CostAndPotentials ==
  ASSUME TypeOK, NEW f \in [Cols -> Cols], \A r, s \in Cols : f[r] = f[s] => r = s,
         NEW h, \A r \in Cols : h[r] = u[r] + v[f[r]]
  PROVE  /\ \A r \in Cols : h[r] \in Int /\ cost[r][f[r]] \in Int
         /\ SumFunctionOnSet(h, Cols) = SumFunctionOnSet(u, Cols) + SumFunctionOnSet(v, Cols)
<1> DEFINE g == [r \in Cols |-> v[f[r]]]
<1>0. IsFiniteSet(Cols)
  BY Sizes
<1>1. \A r \in Cols : u[r] \in Int /\ v[r] \in Int /\ f[r] \in Cols
  BY Sizes DEF TypeOK
<1>2. \A r \in Cols : g[r] = v[f[r]] /\ g[r] \in Int /\ v[f[r]] \in Int
  BY <1>1
<1>3. \A r \in Cols : u[r] \in Int /\ g[r] \in Int /\ h[r] = u[r] + g[r]
  BY <1>1, <1>2
<1>4. \A r \in Cols : cost[r][f[r]] \in Nat
  BY <1>1, CostsAreNatural
<1> HIDE DEF g
<1>5. SumFunctionOnSet(h, Cols) = SumFunctionOnSet(u, Cols) + SumFunctionOnSet(g, Cols)
  BY <1>0, <1>3, SumPlus
<1>6. SumFunctionOnSet(g, Cols) = SumFunctionOnSet(v, {f[r] : r \in Cols})
  <2>1. \A x, y \in Cols : f[x] = f[y] => x = y
    OBVIOUS
  <2>2. /\ \A x \in Cols : v[f[x]] \in Int
        /\ \A x \in Cols : g[x] = v[f[x]]
    BY <1>2
  <2> QED BY <1>0, <2>1, <2>2, SumReindex
<1>7. {f[r] : r \in Cols} = Cols
  BY InjectionIsOnto
<1>8. \A r \in Cols : h[r] \in Int /\ cost[r][f[r]] \in Int
  BY <1>3, <1>4
<1> QED BY <1>5, <1>6, <1>7, <1>8

(* solve_hungarian: the columns get every row once, and no assignment of    *)
(* rows to columns costs less, whatever the size and the entries.           *)
THEOREM AssignmentIsOptimal == Spec => []AssignmentOptimal
<1>1. ASSUME IInv PROVE AssignmentOptimal
  <2>1. SUFFICES ASSUME pc = "done"
                 PROVE  /\ {p[j] : j \in Cols} = Cols
                        /\ \A f \in {g \in [Cols -> Cols] : IsInjective(g)} :
                              CostOf(Result) <= CostOf(f)
    BY DEF AssignmentOptimal
  <2>2. TypeOK /\ PotentialInv /\ Assigned(Cols, Cols) /\ Hole = {} /\ 0 \notin Cols
    BY <1>1, <2>1, Sizes DEF IInv, Hole
  <2>3. /\ \A j \in Cols : p[j] \in Cols \cup {0}
        /\ \A r \in Cols : \E j \in Cols : p[j] = r
        /\ \A j, k \in Cols : p[j] = p[k] /\ p[j] # 0 => j = k
    BY <2>2 DEF Assigned
  <2>4. ASSUME NEW r \in Cols PROVE Result[r] \in Cols /\ p[Result[r]] = r
    BY <2>3 DEF Result
  <2>5. /\ Result \in [Cols -> Cols]
        /\ \A r, s \in Cols : Result[r] = Result[s] => r = s
    <3>1. Result = [r \in Cols |-> Result[r]]
      BY DEF Result
    <3>2. Result \in [Cols -> Cols]
      BY <2>4, <3>1
    <3> QED BY <2>4, <3>2
  <2>6. {Result[r] : r \in Cols} = Cols
    BY <2>5, InjectionIsOnto
  <2>7. \A j \in Cols : p[j] \in Cols
    <3>1. TAKE j \in Cols
    <3>2. PICK r \in Cols : Result[r] = j
      BY <2>6
    <3> QED BY <2>4, <3>2
  <2>8. {p[j] : j \in Cols} = Cols
    BY <2>3, <2>7
  <2>9. ASSUME NEW r \in Cols PROVE cost[r][Result[r]] = u[r] + v[Result[r]]
    <3>1. p[Result[r]] = r /\ Result[r] \in Cols /\ r # 0
      BY <2>2, <2>4
    <3>2. Tight(p[Result[r]], Result[r])
      BY <2>2, <3>1 DEF PotentialInv
    <3> QED BY <3>1, <3>2 DEF Tight
  <2>10. ASSUME NEW f \in [Cols -> Cols], IsInjective(f)
         PROVE  CostOf(Result) <= CostOf(f)
    <3> DEFINE least == [r \in Cols |-> u[r] + v[Result[r]]]
               below == [r \in Cols |-> u[r] + v[f[r]]]
               paid == [r \in Cols |-> cost[r][Result[r]]]
               other == [r \in Cols |-> cost[r][f[r]]]
    <3>1. \A r, s \in Cols : f[r] = f[s] => r = s
      BY <2>10 DEF IsInjective
    <3>2. \A r \in Cols : /\ least[r] = u[r] + v[Result[r]] /\ below[r] = u[r] + v[f[r]]
                          /\ paid[r] = cost[r][Result[r]] /\ other[r] = cost[r][f[r]]
      OBVIOUS
    <3>3. CostOf(Result) = SumFunctionOnSet(paid, Cols) /\ CostOf(f) = SumFunctionOnSet(other, Cols)
      BY DEF CostOf
    <3> HIDE DEF least, below, paid, other
    <3>4. /\ \A r \in Cols : least[r] \in Int /\ cost[r][Result[r]] \in Int
          /\ SumFunctionOnSet(least, Cols) = SumFunctionOnSet(u, Cols) + SumFunctionOnSet(v, Cols)
      BY <2>2, <2>5, <3>2, CostAndPotentials
    <3>5. /\ \A r \in Cols : below[r] \in Int /\ cost[r][f[r]] \in Int
          /\ SumFunctionOnSet(below, Cols) = SumFunctionOnSet(u, Cols) + SumFunctionOnSet(v, Cols)
      BY <2>2, <2>10, <3>1, <3>2, CostAndPotentials
    <3>6. \A r \in Cols : paid[r] \in Int /\ paid[r] = least[r]
      BY <2>9, <3>2, <3>4
    <3>7. \A r \in Cols : below[r] \in Int /\ other[r] \in Int /\ below[r] <= other[r]
      BY <2>2, <3>2, <3>5 DEF PotentialInv
    <3>8. SumFunctionOnSet(paid, Cols) = SumFunctionOnSet(least, Cols)
      BY <3>6, Sizes, SumAgree
    <3>9. SumFunctionOnSet(below, Cols) <= SumFunctionOnSet(other, Cols)
      BY <3>7, Sizes, SumMonotone
    <3> QED BY <3>3, <3>4, <3>5, <3>8, <3>9
  <2> QED BY <2>8, <2>10
<1> QED BY <1>1, Inductive, PTL

-----------------------------------------------------------------------------
(* HeavyEdge: pairs are made once and stay.                                 *)
NumVertices == Cardinality(Vertex)
Position == 1 .. NumVertices

HeavyTypeOK ==
  /\ rating \in RatingFunctions \cup {"uniform"}
  /\ order \in [Position -> Vertex] /\ IsInjective(order)
  /\ visited \in 0 .. NumVertices + 1
  /\ partner \in [Vertex -> Vertex]

(* A pair is made by one of its vertices when that is visited.              *)
Joined(s, h) == \E j \in 1 .. h : order[j] \in {s, partner[s]}
PairInv == \A s \in Vertex :
  /\ partner[partner[s]] = s
  /\ Matched(partner, s) =>
       partner[s] \in Eligible(s) /\ \E j \in Position : j <= visited /\ order[j] \in {s, partner[s]}

(* What is known of a vertex that has been visited.                         *)
VisitInv(h) ==
  LET s == order[h] IN
  IF Matched(partner, s)
  THEN (\A j \in 1 .. h - 1 : order[j] \notin {s, partner[s]}) =>
         \A x \in Eligible(s) :
           Better(RatingOf(rating, s, x), RatingOf(rating, s, partner[s]))
             => Matched(partner, x) /\ Joined(x, h - 1)
  ELSE \A x \in Eligible(s) : Matched(partner, x)

HeavyInv ==
  /\ HeavyTypeOK /\ PairInv
  /\ \A h \in Position : h <= visited => VisitInv(h)
  /\ visited > NumVertices => coarse = Translation(partner)

-----------------------------------------------------------------------------
(* The graph: a vertex is eligible for those that are eligible for it.      *)
LEMMA NumVerticesNat == NumVertices \in Nat /\ IsFiniteSet(Vertex)
BY GraphAssumption, FS_CardinalityType DEF NumVertices

LEMMA EligibleIsMutual ==
  ASSUME NEW s \in Vertex, NEW t \in Eligible(s)
  PROVE  t \in Vertex /\ t # s /\ t \in Adj(s) /\ P[s] = P[t] /\ s \in Eligible(t)
<1>1. t \in Vertex /\ EdgeWeight[s][t] > 0 /\ P[s] = P[t] /\ FitTogether(s, t)
  BY DEF Eligible, Adj
<1>2. EdgeWeight[s][t] = EdgeWeight[t][s] /\ EdgeWeight[s][s] = 0
  BY <1>1, GraphAssumption
<1>3. VertexWeight[s] + VertexWeight[t] = VertexWeight[t] + VertexWeight[s]
  BY <1>1, GraphAssumption
<1>4. FitTogether(t, s)
  BY <1>1, <1>3 DEF FitTogether
<1> QED BY <1>1, <1>2, <1>4 DEF Eligible, Adj

-----------------------------------------------------------------------------
(* Ratings are fractions with a positive numerator, and being better is the *)
(* order of fractions: what is not better than one is not better than a     *)
(* better one.                                                              *)
LEMMA DegreeCovers ==
  ASSUME NEW s \in Vertex, NEW t \in Adj(s)
  PROVE  Degree(s) \in Nat /\ EdgeWeight[s][t] <= Degree(s)
<1> DEFINE f == EdgeWeight[s]
<1>1. IsFiniteSet(Adj(s))
  BY GraphAssumption, FS_Subset DEF Adj
<1>2. \A x \in Adj(s) : f[x] \in Nat
  BY GraphAssumption DEF Adj
<1>3. IsFiniteSet(Adj(s) \ {t})
  BY <1>1, FS_Subset
<1> HIDE DEF f
<1>4. SumFunctionOnSet(f, Adj(s)) \in Nat /\ SumFunctionOnSet(f, Adj(s) \ {t}) \in Nat
  BY <1>1, <1>2, <1>3, SumNat
<1>5. SumFunctionOnSet(f, Adj(s)) = f[t] + SumFunctionOnSet(f, Adj(s) \ {t})
  BY <1>1, <1>2, SumRemove
<1>6. f[t] <= SumFunctionOnSet(f, Adj(s))
  BY <1>2, <1>4, <1>5
<1> QED BY <1>4, <1>6 DEF Degree, f

Fraction == {r \in Nat \X Nat : r[1] > 0}

LEMMA RatingIsFraction ==
  ASSUME NEW s \in Vertex, NEW t \in Adj(s), rating \in RatingFunctions \cup {"uniform"}
  PROVE  RatingOf(rating, s, t) \in Fraction
<1> DEFINE ew == EdgeWeight[s][t]
           uw == VertexWeight[s]
           vw == VertexWeight[t]
<1>1. t \in Vertex /\ s \in Adj(t)
  BY GraphAssumption DEF Adj
<1>2. ew \in Nat /\ ew > 0 /\ uw \in Nat /\ vw \in Nat
  BY <1>1, GraphAssumption DEF Adj
<1>3. Degree(s) \in Nat /\ Degree(t) \in Nat /\ ew <= Degree(s) /\ ew <= Degree(t)
  BY <1>1, DegreeCovers, GraphAssumption
<1>4. /\ uw + vw \in Nat /\ uw * vw \in Nat /\ ew * ew \in Nat /\ ew * ew > 0
      /\ Degree(s) + Degree(t) - 2 * ew \in Nat
  <2> HIDE DEF ew, uw, vw
  <2>1. uw * vw \in Nat /\ ew * ew \in Nat /\ ew * ew > 0
    BY <1>2
  <2> QED BY <1>2, <1>3, <2>1
<1>5. RatingOf(rating, s, t) \in {<<ew, 1>>, <<ew, uw + vw>>, <<ew, uw * vw>>,
        <<ew * ew, uw * vw>>, <<ew, Degree(s) + Degree(t) - 2 * ew>>, <<1, 1>>}
  BY DEF RatingOf, RatingFunctions
<1> HIDE DEF ew, uw, vw
<1> QED BY <1>2, <1>4, <1>5 DEF Fraction

LEMMA NotBetterTransitive ==
  ASSUME NEW x \in Fraction, NEW m \in Fraction, NEW a \in Fraction,
         ~ Better(x, m), Better(a, m)
  PROVE  ~ Better(x, a)
<1>1. PICK n1 \in Nat, d1 \in Nat : n1 = x[1] /\ d1 = x[2]
  BY DEF Fraction
<1>2. PICK n2 \in Nat, d2 \in Nat : n2 = m[1] /\ d2 = m[2]
  BY DEF Fraction
<1>3. PICK n3 \in Nat, d3 \in Nat : n3 = a[1] /\ d3 = a[2]
  BY DEF Fraction
<1>4. n1 * d2 <= n2 * d1 /\ n3 * d2 > n2 * d3
  BY <1>1, <1>2, <1>3 DEF Better
<1>5. d2 > 0
  <2>1. n2 * d3 >= 0
    OBVIOUS
  <2>2. SUFFICES ASSUME d2 = 0 PROVE FALSE
    OBVIOUS
  <2>3. n3 * d2 = 0
    BY <2>2
  <2> QED BY <1>4, <2>1, <2>3
<1>6. (n1 * d3) * d2 <= (n3 * d1) * d2
  <2>1. (n1 * d2) * d3 <= (n2 * d1) * d3
    BY <1>4
  <2>2. (n2 * d3) * d1 <= (n3 * d2) * d1
    BY <1>4
  <2>3. /\ (n1 * d2) * d3 = (n1 * d3) * d2 /\ (n2 * d1) * d3 = (n2 * d3) * d1
        /\ (n3 * d2) * d1 = (n3 * d1) * d2
    OBVIOUS
  <2> QED BY <2>1, <2>2, <2>3
<1>7. n1 * d3 <= n3 * d1
  <2> DEFINE l == n1 * d3
             r == n3 * d1
  <2>1. l \in Nat /\ r \in Nat /\ l * d2 <= r * d2
    BY <1>6
  <2> HIDE DEF l, r
  <2>2. l <= r
    BY <1>5, <2>1
  <2> QED BY <2>2 DEF l, r
<1> QED BY <1>1, <1>3, <1>7 DEF Better

LEMMA BetterIrreflexive == ASSUME NEW x \in Fraction PROVE ~ Better(x, x)
<1>1. PICK n \in Nat, d \in Nat : n = x[1] /\ d = x[2]
  BY DEF Fraction
<1>2. ~ (n * d > n * d)
  OBVIOUS
<1> QED BY <1>1, <1>2 DEF Better

(* So a vertex with an open neighbour chooses one that no other one beats.  *)
LEMMA BestIsBest ==
  ASSUME NEW s \in Vertex, NEW open \in SUBSET Adj(s), open # {},
         rating \in RatingFunctions \cup {"uniform"}
  PROVE  /\ Best(s, open) \in open
         /\ \A x \in open : ~ Better(RatingOf(rating, s, x), RatingOf(rating, s, Best(s, open)))
<1> DEFINE R(x) == RatingOf(rating, s, x)
           Unbeaten(T, x) == \A y \in T : ~ Better(R(y), R(x))
           Q == {T \in SUBSET open : T = {} \/ \E x \in T : Unbeaten(T, x)}
<1>1. IsFiniteSet(open) /\ open \subseteq Int
  BY GraphAssumption, FS_Subset DEF Adj
<1>2. \A x \in open : R(x) \in Fraction
  BY RatingIsFraction
<1> HIDE DEF R
<1>3. {} \in Q
  OBVIOUS
<1>4. ASSUME NEW T \in SUBSET open, NEW a \in open \ T, T \in Q PROVE T \cup {a} \in Q
  <2>1. CASE T = {}
    <3>1. Unbeaten(T \cup {a}, a)
      BY <1>2, <2>1, BetterIrreflexive
    <3> QED BY <2>1, <3>1
  <2>2. CASE T # {}
    <3>1. PICK m \in T : Unbeaten(T, m)
      BY <1>4, <2>2
    <3>2. CASE Better(R(a), R(m))
      <4>1. \A x \in T : ~ Better(R(x), R(a))
        BY <1>2, <3>1, <3>2, NotBetterTransitive
      <4>2. Unbeaten(T \cup {a}, a)
        BY <1>2, <4>1, BetterIrreflexive
      <4> QED BY <4>2
    <3>3. CASE ~ Better(R(a), R(m))
      <4>1. Unbeaten(T \cup {a}, m)
        BY <3>1, <3>3
      <4> QED BY <4>1
    <3> QED BY <3>2, <3>3
  <2> QED BY <2>1, <2>2
<1> HIDE DEF Q
<1>5. open \in Q
  BY <1>1, <1>3, <1>4, SubsetInduction
<1> DEFINE top == {t \in open : Unbeaten(open, t)}
<1>6. top # {} /\ top \subseteq open
  BY <1>5 DEF Q
<1>7. IsFiniteSet(top) /\ top \subseteq Int
  BY <1>1, <1>6, FS_Subset
<1>8. Best(s, open) = Min(top)
  BY <1>6 DEF Best, R
<1>9. Min(top) \in top
  <2> HIDE DEF top
  <2> QED BY <1>6, <1>7, SmallestExists
<1> QED BY <1>8, <1>9 DEF R

-----------------------------------------------------------------------------
LEMMA OrderIsSequence ==
  ASSUME HeavyTypeOK
  PROVE  /\ Len(order) = NumVertices
         /\ \A s \in Vertex : \E h \in Position : order[h] = s
<1>1. NumVertices \in Nat /\ IsFiniteSet(Vertex)
  BY NumVerticesNat
<1>2. order \in [Position -> Vertex] /\ order \in [1 .. NumVertices -> Vertex]
  BY DEF HeavyTypeOK, Position
<1>3. order \in Seq(Vertex) /\ DOMAIN order = 1 .. NumVertices
  BY <1>1, <1>2, SeqDef
<1>4. Len(order) = NumVertices
  BY <1>1, <1>3, LenProperties
<1>5. IsFiniteSet(Position) /\ Cardinality(Position) = Cardinality(Vertex)
  <2>1. 1 \in Int /\ NumVertices \in Int
    BY <1>1
  <2> QED BY <1>1, <2>1, FS_Interval DEF Position, NumVertices
<1>6. order \in Injection(Position, Vertex)
  BY <1>2 DEF Injection, HeavyTypeOK
<1>7. order \in Surjection(Position, Vertex)
  BY <1>1, <1>5, <1>6, FS_Injection
<1> QED BY <1>4, <1>7 DEF Surjection

LEMMA HeavyInitEstablishes == ASSUME InitHeavy PROVE HeavyInv
<1>1. order \in [1 .. Cardinality(Vertex) -> Vertex] /\ IsInjective(order)
  BY DEF InitHeavy
<1>2. HeavyTypeOK
  BY <1>1, NumVerticesNat DEF InitHeavy, HeavyTypeOK, Position, NumVertices
<1>3. PairInv
  BY DEF InitHeavy, PairInv, Matched
<1>4. ~ (visited > NumVertices) /\ \A h \in Position : ~ (h <= visited)
  BY NumVerticesNat DEF InitHeavy, Position
<1> QED BY <1>2, <1>3, <1>4 DEF HeavyInv

(* A visit takes an open neighbour that has not been visited, as the        *)
(* invariant shows: otherwise that one would have taken this vertex or a    *)
(* matched one.                                                             *)
LEMMA VisitPreserves == ASSUME HeavyInv, Visit PROVE HeavyInv'
<1>0. HeavyTypeOK /\ PairInv /\ NumVertices \in Nat /\ Len(order) = NumVertices
  BY OrderIsSequence, NumVerticesNat DEF HeavyInv
<1>k. PICK k \in Position : k = visited + 1
  BY <1>0 DEF Visit, HeavyTypeOK, Position
<1> DEFINE s == order[k]
           open == {t \in Eligible(s) : ~ Matched(partner, t)}
           t == BestNeighbour(s)
<1>1. /\ k \in Position /\ visited' = k /\ visited \in Nat /\ visited = k - 1 /\ k \in Nat
      /\ partner' = IF Matched(partner, s) THEN partner ELSE Paired(partner, s, t)
      /\ rating' = rating /\ order' = order /\ coarse' = coarse
  BY <1>0, <1>k DEF Visit, HeavyTypeOK, Position
<1>2. s \in Vertex /\ order \in [Position -> Vertex] /\ IsInjective(order)
  BY <1>0, <1>1 DEF HeavyTypeOK
<1>3. open \subseteq Adj(s) /\ \A x \in open : x \in Vertex /\ x # s /\ ~ Matched(partner, x)
  BY <1>2, EligibleIsMutual
<1>4. \A x : Eligible(x)' = Eligible(x)
  BY <1>1 DEF Eligible, FitTogether
<1>5. \A h \in Position : h <= visited => VisitInv(h)
  BY DEF HeavyInv
<1>6. ~ (visited' > NumVertices)
  BY <1>0, <1>1 DEF Position
<1>7. \A h \in Position : h <= visited' => h <= visited \/ h = k
  BY <1>1 DEF Position
<1>8. ASSUME Matched(partner, s) \/ open = {} PROVE HeavyInv'
  <2>1. partner' = partner
    <3>1. CASE Matched(partner, s)
      BY <1>1, <3>1
    <3>2. CASE ~ Matched(partner, s) /\ open = {}
      <4>1. t = s
        BY <3>2 DEF BestNeighbour, Best
      <4>2. partner' = [partner EXCEPT ![s] = s, ![s] = s] /\ partner[s] = s
        BY <1>1, <3>2, <4>1 DEF Paired, Matched
      <4> QED BY <1>0, <1>2, <4>2 DEF HeavyTypeOK
    <3> QED BY <1>8, <3>1, <3>2
  <2>2. HeavyTypeOK'
    BY <1>0, <1>1, <2>1 DEF HeavyTypeOK, Position
  <2>3. PairInv'
    BY <1>0, <1>1, <1>4, <2>1 DEF PairInv, HeavyTypeOK, Position
  <2>4. ASSUME NEW h \in Position, h <= visited PROVE VisitInv(h)'
    BY <1>1, <1>4, <1>5, <2>1, <2>4 DEF VisitInv, Joined
  <2>5. VisitInv(k)'
    <3>1. CASE ~ Matched(partner, s)
      <4>1. \A x \in Eligible(s) : Matched(partner, x)
        BY <1>8, <3>1
      <4> QED BY <1>1, <1>4, <2>1, <3>1, <4>1 DEF VisitInv
    <3>2. CASE Matched(partner, s)
      <4>1. PICK j \in Position : j <= visited /\ order[j] \in {s, partner[s]}
        <5>1. PICK j \in Position : j <= visited /\ order[j] \in {s, partner[s]}
          BY <1>0, <1>2, <3>2 DEF PairInv
        <5> QED BY <5>1
      <4>2. j \in 1 .. k - 1
        BY <1>1, <4>1 DEF Position
      <4> QED BY <1>1, <2>1, <3>2, <4>1, <4>2 DEF VisitInv
    <3> QED BY <3>1, <3>2
  <2> QED BY <1>6, <1>7, <2>2, <2>3, <2>4, <2>5 DEF HeavyInv
<1>9. ASSUME ~ Matched(partner, s), open # {} PROVE HeavyInv'
  <2>1. t \in open /\ \A x \in open : ~ Better(RatingOf(rating, s, x), RatingOf(rating, s, t))
    <3>1. open \in SUBSET Adj(s) /\ rating \in RatingFunctions \cup {"uniform"}
      BY <1>0, <1>3 DEF HeavyTypeOK
    <3>2. t = Best(s, open)
      BY DEF BestNeighbour
    <3> HIDE DEF open, t, s
    <3> QED BY <1>2, <1>9, <3>1, <3>2, BestIsBest
  <2>2. /\ t \in Vertex /\ t # s /\ t \in Eligible(s) /\ s \in Eligible(t)
        /\ partner[s] = s /\ partner[t] = t
    BY <1>2, <1>3, <1>9, <2>1, EligibleIsMutual DEF Matched
  <2>3. partner' = [partner EXCEPT ![s] = t, ![t] = s]
    BY <1>1, <1>9 DEF Paired
  <2> HIDE DEF t, s
  <2>4. /\ partner' \in [Vertex -> Vertex] /\ partner'[s] = t /\ partner'[t] = s
        /\ \A x \in Vertex \ {s, t} : partner'[x] = partner[x]
    BY <1>0, <1>2, <2>2, <2>3 DEF HeavyTypeOK
  <2>5. \A x \in Vertex : Matched(partner, x) => partner'[x] = partner[x] /\ Matched(partner', x)
    BY <2>2, <2>4 DEF Matched
  <2>6. HeavyTypeOK'
    BY <1>0, <1>1, <2>4 DEF HeavyTypeOK, Position
  <2>7. PairInv'
    <3>1. ASSUME NEW x \in Vertex \ {s, t}
          PROVE  /\ partner'[partner'[x]] = x
                 /\ Matched(partner', x) =>
                      /\ partner'[x] \in Eligible(x)
                      /\ \E j \in Position : j <= visited' /\ order[j] \in {x, partner'[x]}
      <4>1. partner[partner[x]] = x /\ partner[x] \in Vertex
        BY <1>0 DEF PairInv, HeavyTypeOK
      <4>2. partner[x] \in Vertex \ {s, t}
        BY <2>2, <4>1
      <4>3. Matched(partner', x) => Matched(partner, x)
        BY <2>4 DEF Matched
      <4>4. \A j \in Position : j <= visited => j <= visited'
        BY <1>1 DEF Position
      <4> QED BY <1>0, <2>4, <4>1, <4>2, <4>3, <4>4 DEF PairInv
    <3>2. order[k] = s /\ k <= visited'
      BY <1>1 DEF s
    <3>3. \A x \in {s, t} : /\ partner'[partner'[x]] = x
                            /\ partner'[x] \in Eligible(x)
                            /\ \E j \in Position : j <= visited' /\ order[j] \in {x, partner'[x]}
      BY <1>1, <2>2, <2>4, <3>2
    <3> QED BY <1>1, <1>4, <3>1, <3>3 DEF PairInv
  <2>8. ASSUME NEW h \in Position, h <= visited PROVE order[h] \in Vertex \ {s, t}
    <3>1. order[h] \in Vertex /\ order[h] # s
      BY <1>1, <1>2, <2>8 DEF s, IsInjective, Position
    <3>2. ~ Matched(partner, s) /\ ~ Matched(partner, t)
      BY <2>2 DEF Matched
    <3>3. order[h] # t
      BY <1>5, <2>2, <2>8, <3>2 DEF VisitInv
    <3> QED BY <3>1, <3>3
  <2>9. ASSUME NEW x \in Vertex, NEW h, Joined(x, h), Matched(partner, x) PROVE Joined(x, h)'
    BY <1>1, <2>5, <2>9 DEF Joined
  <2>10. ASSUME NEW h \in Position, h <= visited PROVE VisitInv(h)'
    <3> DEFINE w == order[h]
    <3>1. w \in Vertex \ {s, t} /\ partner'[w] = partner[w] /\ order'[h] = w
      BY <1>1, <2>4, <2>8, <2>10
    <3>2. Eligible(w) \subseteq Vertex
      BY DEF Eligible, Adj
    <3>3. Matched(partner', w) <=> Matched(partner, w)
      BY <3>1 DEF Matched
    <3>4. CASE Matched(partner, w)
      <4> SUFFICES ASSUME \A j \in 1 .. h - 1 : order[j] \notin {w, partner[w]},
                          NEW x \in Eligible(w),
                          Better(RatingOf(rating, w, x), RatingOf(rating, w, partner[w]))
                   PROVE  Matched(partner', x) /\ Joined(x, h - 1)'
        BY <1>1, <1>4, <3>1, <3>3, <3>4 DEF VisitInv
      <4>1. Matched(partner, x) /\ Joined(x, h - 1)
        BY <1>5, <2>10, <3>4 DEF VisitInv
      <4> QED BY <2>5, <2>9, <3>2, <4>1
    <3>5. CASE ~ Matched(partner, w)
      <4>1. \A x \in Eligible(w) : Matched(partner, x)
        BY <1>5, <2>10, <3>5 DEF VisitInv
      <4>2. \A x \in Eligible(w) : Matched(partner', x)
        BY <2>5, <3>2, <4>1
      <4> QED BY <1>1, <1>4, <3>1, <3>3, <3>5, <4>2 DEF VisitInv
    <3> QED BY <3>4, <3>5
  <2>11. VisitInv(k)'
    <3>1. order'[k] = s /\ partner'[s] = t /\ Matched(partner', s)
      BY <1>1, <2>2, <2>4 DEF s, Matched
    <3> SUFFICES ASSUME NEW x \in Eligible(s),
                        Better(RatingOf(rating, s, x), RatingOf(rating, s, t))
                 PROVE  Matched(partner', x) /\ Joined(x, k - 1)'
      BY <1>1, <1>4, <3>1 DEF VisitInv
    <3>2. x \in Vertex /\ Matched(partner, x)
      BY <2>1 DEF Eligible, Adj
    <3>3. PICK j \in Position : j <= visited /\ order[j] \in {x, partner[x]}
      BY <1>0, <3>2 DEF PairInv
    <3>4. j \in 1 .. k - 1
      BY <1>1, <3>3 DEF Position
    <3>5. Joined(x, k - 1)
      BY <3>3, <3>4 DEF Joined
    <3> QED BY <2>5, <2>9, <3>2, <3>5
  <2> QED BY <1>6, <1>7, <2>6, <2>7, <2>10, <2>11 DEF HeavyInv
<1> QED BY <1>8, <1>9

LEMMA FinalizePreserves == ASSUME HeavyInv, Finalize PROVE HeavyInv'
<1>1. NumVertices \in Nat /\ Len(order) = NumVertices /\ HeavyTypeOK
  BY OrderIsSequence, NumVerticesNat DEF HeavyInv
<1>2. /\ visited = NumVertices /\ visited' = visited + 1 /\ coarse' = Translation(partner)
      /\ rating' = rating /\ order' = order /\ partner' = partner
  BY <1>1 DEF Finalize
<1>3. HeavyTypeOK'
  BY <1>1, <1>2 DEF HeavyTypeOK
<1>4. \A x : Eligible(x)' = Eligible(x)
  BY <1>2 DEF Eligible, FitTogether
<1>5. \A j \in Position : j <= visited' <=> j <= visited
  BY <1>1, <1>2 DEF Position
<1>6. PairInv'
  BY <1>2, <1>4, <1>5 DEF HeavyInv, PairInv
<1>7. ASSUME NEW h \in Position, h <= visited' PROVE VisitInv(h)'
  <2>1. VisitInv(h)
    BY <1>5, <1>7 DEF HeavyInv
  <2> QED BY <1>2, <1>4, <2>1 DEF VisitInv, Joined
<1> QED BY <1>2, <1>3, <1>6, <1>7 DEF HeavyInv

(* Every reachable state satisfies the inductive invariant.                 *)
THEOREM HeavyInductive == SpecHeavy => []HeavyInv
<1>1. InitHeavy => HeavyInv
  BY HeavyInitEstablishes
<1>2. HeavyInv /\ [NextHeavy]_heavyVars => HeavyInv'
  <2>1. ASSUME HeavyInv, UNCHANGED heavyVars PROVE HeavyInv'
    <3>1. /\ rating' = rating /\ order' = order /\ visited' = visited
          /\ partner' = partner /\ coarse' = coarse
      BY <2>1 DEF heavyVars
    <3>2. \A x : Eligible(x)' = Eligible(x)
      BY <3>1 DEF Eligible, FitTogether
    <3>3. HeavyTypeOK' /\ PairInv'
      BY <2>1, <3>1, <3>2 DEF HeavyInv, HeavyTypeOK, PairInv
    <3>4. \A h \in Position : h <= visited' => VisitInv(h)'
      BY <2>1, <3>1, <3>2 DEF HeavyInv, VisitInv, Joined
    <3> QED BY <2>1, <3>1, <3>3, <3>4 DEF HeavyInv
  <2> QED BY <2>1, VisitPreserves, FinalizePreserves DEF NextHeavy
<1> QED BY <1>1, <1>2, PTL DEF SpecHeavy

-----------------------------------------------------------------------------
(* Whatever the order of the visits: of two vertices that may be matched    *)
(* with each other one is matched in the end, and a vertex that takes       *)
(* another one passes over a better one only when that one was taken first. *)
THEOREM NoEdgePassedOver == SpecHeavy => []PassedOverWereTaken
<1>1. ASSUME HeavyInv PROVE PassedOverWereTaken
  <2>1. /\ HeavyTypeOK /\ PairInv /\ Len(order) = NumVertices /\ NumVertices \in Nat /\ visited \in Nat
        /\ \A s \in Vertex : \E h \in Position : order[h] = s
    BY <1>1, OrderIsSequence, NumVerticesNat DEF HeavyInv, HeavyTypeOK
  <2>2. \A h \in Position : h <= visited => VisitInv(h)
    BY <1>1 DEF HeavyInv
  <2>3. ASSUME visited >= Len(order), NEW s \in Vertex, NEW t \in Eligible(s)
        PROVE  Matched(partner, s) \/ Matched(partner, t)
    <3>1. PICK h \in Position : order[h] = s
      BY <2>1
    <3>2. h <= visited
      BY <2>1, <2>3 DEF Position
    <3> QED BY <2>2, <3>1, <3>2 DEF VisitInv
  <2> DEFINE S(s) == {h \in 1 .. Len(order) : order[h] \in {s, partner[s]}}
  <2>4. ASSUME NEW s, NEW h \in S(s) PROVE JoinedAt(s) \in S(s) /\ JoinedAt(s) <= h
    <3>1. S(s) \subseteq Position /\ S(s) # {} /\ S(s) \subseteq Int
      BY <2>1 DEF Position
    <3>2. IsFiniteSet(Position)
      BY <2>1, FS_Interval DEF Position
    <3>3. IsFiniteSet(S(s))
      BY <3>1, <3>2, FS_Subset
    <3>4. JoinedAt(s) = Min(S(s))
      BY DEF JoinedAt
    <3> HIDE DEF S
    <3> QED BY <3>1, <3>3, <3>4, SmallestExists
  <2>5. ASSUME NEW h \in 1 .. Min({visited, Len(order)}) PROVE h \in Position /\ h <= visited /\ h \in Nat
    <3>1. Min({visited, Len(order)}) \in {visited, Len(order)}
          /\ \A x \in {visited, Len(order)} : Min({visited, Len(order)}) <= x
      <4>1. IsFiniteSet({visited, Len(order)})
        <5>1. IsFiniteSet({visited}) /\ {visited, Len(order)} = {visited} \cup {Len(order)}
          BY FS_Singleton
        <5> QED BY <5>1, FS_AddElement
      <4>2. {visited, Len(order)} \subseteq Int /\ {visited, Len(order)} # {}
        BY <2>1
      <4> QED BY <4>1, <4>2, SmallestExists
    <3> QED BY <2>1, <3>1 DEF Position
  <2>6. ASSUME NEW h \in 1 .. Min({visited, Len(order)}), NEW s, s = order[h],
               Matched(partner, s), JoinedAt(s) = h,
               NEW x \in Eligible(s),
               Better(RatingOf(rating, s, x), RatingOf(rating, s, partner[s]))
        PROVE  Matched(partner, x) /\ JoinedAt(x) < h
    <3>1. h \in Position /\ h <= visited /\ h \in Nat
      BY <2>5
    <3>2. \A j \in 1 .. h - 1 : order[j] \notin {s, partner[s]}
      <4>1. ASSUME NEW j \in 1 .. h - 1, order[j] \in {s, partner[s]} PROVE FALSE
        <5>1. j \in S(s) /\ j < h
          BY <2>1, <3>1, <4>1 DEF Position
        <5> QED BY <2>4, <2>6, <3>1, <5>1
      <4> QED BY <4>1
    <3>3. Matched(partner, x) /\ Joined(x, h - 1)
      BY <2>2, <2>6, <3>1, <3>2 DEF VisitInv
    <3>4. PICK j \in 1 .. h - 1 : order[j] \in {x, partner[x]}
      BY <3>3 DEF Joined
    <3>5. j \in S(x) /\ j < h
      BY <2>1, <3>1, <3>4 DEF Position
    <3>6. JoinedAt(x) \in S(x) /\ JoinedAt(x) <= j
      BY <2>4, <3>5
    <3> QED BY <3>1, <3>3, <3>5, <3>6
  <2> QED BY <2>3, <2>6 DEF PassedOverWereTaken
<1> QED BY <1>1, HeavyInductive, PTL

(* The translation of the matching gives two vertices the same number only  *)
(* when they are a pair, which lies within one block.                       *)
THEOREM PairsAreContracted == SpecHeavy => []PairsContract
<1>1. ASSUME HeavyInv PROVE PairsContract
  <2> DEFINE m == partner
             first == {s \in Vertex : s <= m[s]}
             owners(x) == {s \in first : x \in {s, m[s]}}
             rank == [c \in first |-> Cardinality(Below(first, c))]
  <2> SUFFICES ASSUME visited > Len(order), NEW s \in Vertex, NEW t \in Vertex,
                      coarse[s] = coarse[t], s # t
               PROVE  partner[s] = t /\ partner[t] = s /\ P[s] = P[t]
    BY DEF PairsContract
  <2>1. coarse = Translation(m) /\ m \in [Vertex -> Vertex] /\ \A x \in Vertex : m[m[x]] = x
    BY <1>1, OrderIsSequence DEF HeavyInv, HeavyTypeOK, PairInv
  <2>2. Vertex \subseteq Int /\ IsFiniteSet(Vertex) /\ first \subseteq Vertex
        /\ \A x : owners(x) \subseteq first
    BY GraphAssumption
  <2>3. IsFiniteSet(first) /\ first \subseteq Int
    BY <2>2, FS_Subset
  <2>4. ASSUME NEW x \in Vertex
        PROVE  Max(owners(x)) \in owners(x) /\ coarse[x] = rank[Max(owners(x))]
    <3>1. x \in Int /\ m[x] \in Vertex /\ m[x] \in Int
      BY <2>1, <2>2
    <3>2. owners(x) # {}
      <4>1. CASE x <= m[x]
        BY <4>1
      <4>2. CASE m[x] <= x
        <5>1. m[x] \in first /\ x \in {m[x], m[m[x]]}
          BY <2>1, <3>1, <4>2
        <5> QED BY <5>1
      <4> QED BY <3>1, <4>1, <4>2
    <3>3. IsFiniteSet(owners(x)) /\ owners(x) \subseteq Int
      BY <2>2, <2>3, FS_Subset
    <3>4. Max(owners(x)) \in owners(x)
      <4> HIDE DEF owners
      <4> QED BY <3>2, <3>3, LargestExists
    <3>5. coarse[x] = Cardinality({y \in first : y < Max(owners(x))})
      BY <2>1, <3>2 DEF Translation
    <3>6. rank[Max(owners(x))] = Cardinality({y \in first : y < Max(owners(x))})
      BY <2>2, <3>4 DEF Below
    <3> QED BY <3>4, <3>5, <3>6
  <2>5. rank = [c \in first |-> rank[c]] /\ \A c \in first : rank[c] = Cardinality(Below(first, c))
    OBVIOUS
  <2>6. PICK a \in first : a = Max(owners(s)) /\ s \in {a, m[a]} /\ coarse[s] = rank[a]
    BY <2>2, <2>4
  <2>7. PICK b \in first : b = Max(owners(t)) /\ t \in {b, m[b]} /\ coarse[t] = rank[b]
    BY <2>2, <2>4
  <2>8. \A c, d \in first : rank[c] = rank[d] => c = d
    <3> HIDE DEF first, rank
    <3> QED BY <2>3, <2>5, RanksAreDense
  <2> HIDE DEF rank
  <2>9. a = b
    BY <2>6, <2>7, <2>8
  <2>10. m[s] = t /\ m[t] = s
    BY <2>1, <2>2, <2>6, <2>7, <2>9
  <2>11. m[s] \in Eligible(s)
    BY <1>1, <2>10 DEF HeavyInv, PairInv, Matched
  <2> QED BY <2>10, <2>11 DEF Eligible
<1> QED BY <1>1, HeavyInductive, PTL
=============================================================================
