----------------------- MODULE BlockStructuresProofs ------------------------
(***************************************************************************)
(* Proofs about the four structures of a partition: after any moves block  *)
(* weights, boundary lists, block connections and quotient graph are what  *)
(* they would be if they were computed from the partition, for every graph *)
(* and every number of blocks.                                             *)
(*                                                                         *)
(* An invariant is given for each of them, by what it represents: PmInv for*)
(* p_manager, BvInv for the boundary, BcInv for block_conn and QInv for the*)
(* quotient graph, whose linked lists are related to sequences of records. *)
(* Most of the work is about the loops over the neighbours of the vertex   *)
(* that moves: During and Amid say how far such a loop has come, and the   *)
(* folds of the model are followed along the set of the indices visited.   *)
(*                                                                         *)
(* Two parts follow that refinements need besides: distances in a machine  *)
(* hierarchy, and the pairs that find_matching finds in a quotient graph.  *)
(***************************************************************************)
EXTENDS BlockStructures, Distance3, SetTheorems, SequenceTheorems

-----------------------------------------------------------------------------
(* Sets in ascending order, neighbourhoods and p_manager.                   *)

(* A set of integers in ascending order.                                    *)
LEMMA AscendingLists ==
  ASSUME NEW S, S \subseteq Int, IsFiniteSet(S)
  PROVE  /\ Cardinality(S) \in Nat
         /\ Ascending(S) \in Seq(S)
         /\ Len(Ascending(S)) = Cardinality(S)
         /\ DOMAIN Ascending(S) = 1 .. Cardinality(S)
         /\ \A i, j \in 1 .. Cardinality(S) : Ascending(S)[i] = Ascending(S)[j] => i = j
         /\ \A x \in S : \E i \in 1 .. Cardinality(S) : Ascending(S)[i] = x
<1> DEFINE n == Cardinality(S)
           rank == [c \in S |-> Cardinality(Below(S, c))]
           A == Ascending(S)
<1>1. n \in Nat
  BY FS_CardinalityType
<1>2. rank = [c \in S |-> rank[c]] /\ \A c \in S : rank[c] = Cardinality(Below(S, c))
  OBVIOUS
<1>3. A = [i \in 1 .. n |-> CHOOSE x \in S : Cardinality(Below(S, x)) = i - 1]
  BY DEF Ascending, Below
<1>4. A = [i \in 1 .. n |-> CHOOSE x \in S : rank[x] = i - 1]
  BY <1>2, <1>3
<1> HIDE DEF rank, A
<1>5. /\ \A a, b \in S : rank[a] = rank[b] => a = b
      /\ \A c \in S : rank[c] \in 0 .. n - 1
      /\ \A k \in 0 .. n - 1 : \E c \in S : rank[c] = k
  BY <1>2, RanksAreDense
<1> HIDE DEF n
<1>6. ASSUME NEW i \in 1 .. n PROVE A[i] \in S /\ rank[A[i]] = i - 1
  <2>1. i - 1 \in 0 .. n - 1
    BY <1>1
  <2> QED BY <1>4, <1>5, <2>1
<1>7. A \in [1 .. n -> S] /\ DOMAIN A = 1 .. n
  BY <1>4, <1>6
<1>8. A \in Seq(S) /\ Len(A) = n
  BY <1>1, <1>7
<1>9. \A i, j \in 1 .. n : A[i] = A[j] => i = j
  <2> SUFFICES ASSUME NEW i \in 1 .. n, NEW j \in 1 .. n, A[i] = A[j] PROVE i = j
    OBVIOUS
  <2>1. i - 1 = j - 1
    BY <1>6
  <2> QED BY <1>1, <2>1
<1>10. ASSUME NEW x \in S PROVE \E i \in 1 .. n : A[i] = x
  <2>1. rank[x] + 1 \in 1 .. n /\ (rank[x] + 1) - 1 = rank[x]
    BY <1>1, <1>5
  <2>2. rank[A[rank[x] + 1]] = rank[x] /\ A[rank[x] + 1] \in S
    BY <1>6, <2>1
  <2> QED BY <1>5, <2>1, <2>2
<1> QED BY <1>1, <1>7, <1>8, <1>9, <1>10 DEF A, n

(* Neighbours are finitely many, mutual, and joined by positive weights.    *)
LEMMA Neighbourhoods ==
  ASSUME NEW u \in Vertex
  PROVE  /\ Adj(u) \subseteq Vertex /\ Adj(u) \subseteq Int /\ IsFiniteSet(Adj(u))
         /\ Cardinality(Adj(u)) \in Nat
         /\ u \notin Adj(u)
         /\ \A v \in Adj(u) : u \in Adj(v) /\ EdgeWeight[u][v] \in Nat \ {0}
                              /\ EdgeWeight[v][u] = EdgeWeight[u][v]
         /\ \A v \in Vertex : EdgeWeight[u][v] \in Nat
         /\ \A v \in Vertex : v \in Adj(u) <=> u \in Adj(v)
<1>1. Adj(u) \subseteq Vertex
  BY DEF Adj
<1>2. IsFiniteSet(Adj(u))
  BY <1>1, GraphAssumption, FS_Subset
<1>3. Cardinality(Adj(u)) \in Nat
  BY <1>2, FS_CardinalityType
<1>4. \A v \in Vertex : EdgeWeight[u][v] \in Nat /\ EdgeWeight[v][u] = EdgeWeight[u][v]
  BY GraphAssumption
<1>5. u \notin Adj(u)
  BY GraphAssumption DEF Adj
<1>6. \A v \in Vertex : v \in Adj(u) <=> u \in Adj(v)
  BY <1>4 DEF Adj
<1>7. \A v \in Adj(u) : EdgeWeight[u][v] \in Nat \ {0}
  BY <1>4 DEF Adj
<1>8. Adj(u) \subseteq Int
  BY <1>1, GraphAssumption
<1> HIDE DEF Adj
<1> QED BY <1>1, <1>2, <1>3, <1>4, <1>5, <1>6, <1>7, <1>8

(* The adjacency order of a vertex lists each neighbour once.               *)
LEMMA AdjacencyOrder ==
  ASSUME NEW u \in Vertex
  PROVE  /\ AdjOrder[u] \in Seq(Adj(u))
         /\ Len(AdjOrder[u]) = Cardinality(Adj(u))
         /\ Len(AdjOrder[u]) \in Nat
         /\ DOMAIN AdjOrder[u] = 1 .. Len(AdjOrder[u])
         /\ \A i \in 1 .. Len(AdjOrder[u]) : AdjOrder[u][i] \in Adj(u)
         /\ \A i, j \in 1 .. Len(AdjOrder[u]) : AdjOrder[u][i] = AdjOrder[u][j] => i = j
         /\ \A x \in Adj(u) : \E i \in 1 .. Len(AdjOrder[u]) : AdjOrder[u][i] = x
<1>1. AdjOrder[u] = Ascending(Adj(u))
  BY DEF AdjOrder
<1> DEFINE A == AdjOrder[u]
           S == Adj(u)
<1>2. /\ Cardinality(S) \in Nat
      /\ A \in Seq(S)
      /\ Len(A) = Cardinality(S)
      /\ DOMAIN A = 1 .. Cardinality(S)
      /\ \A i, j \in 1 .. Cardinality(S) : A[i] = A[j] => i = j
      /\ \A x \in S : \E i \in 1 .. Cardinality(S) : A[i] = x
  BY <1>1, Neighbourhoods, AscendingLists
<1> QED BY <1>2

-----------------------------------------------------------------------------
(* Block weights.                                                           *)
LEMMA WeightIsSum ==
  ASSUME NEW p, NEW b
  PROVE  BlockWeight(p, b) = SumFunctionOnSet(VertexWeight, Members(p, b))
BY DEF BlockWeight, MapThenSumSet, SumFunctionOnSet, FoldFunctionOnSet, MapThenFoldSet

(* Blocks are finite, and their weights are numbers.                        *)
LEMMA MembersFinite ==
  ASSUME NEW p, NEW b
  PROVE  Members(p, b) \subseteq Vertex /\ IsFiniteSet(Members(p, b))
         /\ Cardinality(Members(p, b)) \in Nat /\ BlockWeight(p, b) \in Nat
<1>1. Members(p, b) \subseteq Vertex
  BY DEF Members
<1>2. IsFiniteSet(Members(p, b))
  BY <1>1, GraphAssumption, FS_Subset
<1>3. \A u \in Members(p, b) : VertexWeight[u] \in Nat
  BY <1>1, GraphAssumption
<1> HIDE DEF Members
<1>4. SumFunctionOnSet(VertexWeight, Members(p, b)) \in Nat
  BY <1>2, <1>3, SumNat
<1> QED BY <1>1, <1>2, <1>4, WeightIsSum, FS_CardinalityType

(* A move takes u from the members of one block to those of another.        *)
Moved(p, u, new) == [p EXCEPT ![u] = new]

(* A move takes a vertex out of one block and puts it into another.         *)
LEMMA MembersMoved ==
  ASSUME NEW p \in [Vertex -> Block], NEW u \in Vertex, NEW new \in Block, p[u] # new
  PROVE  /\ Moved(p, u, new) \in [Vertex -> Block]
         /\ Moved(p, u, new)[u] = new
         /\ \A v \in Vertex \ {u} : Moved(p, u, new)[v] = p[v]
         /\ u \in Members(p, p[u]) /\ u \notin Members(p, new)
         /\ Members(Moved(p, u, new), p[u]) = Members(p, p[u]) \ {u}
         /\ Members(Moved(p, u, new), new) = Members(p, new) \cup {u}
         /\ \A b \in Block : b # p[u] /\ b # new => Members(Moved(p, u, new), b) = Members(p, b)
BY DEF Members, Moved

(* What a move does to the weights and sizes of the blocks.                 *)
LEMMA WeightsMoved ==
  ASSUME NEW p \in [Vertex -> Block], NEW u \in Vertex, NEW new \in Block, p[u] # new
  PROVE  LET m == Moved(p, u, new) IN
         /\ BlockWeight(m, p[u]) = BlockWeight(p, p[u]) - VertexWeight[u]
         /\ BlockWeight(m, new) = BlockWeight(p, new) + VertexWeight[u]
         /\ \A b \in Block : b # p[u] /\ b # new => BlockWeight(m, b) = BlockWeight(p, b)
         /\ Cardinality(Members(m, p[u])) = Cardinality(Members(p, p[u])) - 1
         /\ Cardinality(Members(m, new)) = Cardinality(Members(p, new)) + 1
         /\ \A b \in Block : b # p[u] /\ b # new =>
              Cardinality(Members(m, b)) = Cardinality(Members(p, b))
<1> DEFINE m == Moved(p, u, new)
           A == Members(p, p[u])
           B == Members(p, new)
           A2 == Members(m, p[u])
           B2 == Members(m, new)
<1>1. /\ u \in A /\ u \notin B /\ A2 = A \ {u} /\ B2 = B \cup {u}
      /\ \A b \in Block : b # p[u] /\ b # new => Members(m, b) = Members(p, b)
  BY MembersMoved
<1>2. /\ IsFiniteSet(A) /\ IsFiniteSet(B) /\ Cardinality(A) \in Nat /\ Cardinality(B) \in Nat
      /\ A \subseteq Vertex /\ B \subseteq Vertex
  BY MembersFinite
<1>3. \A x \in Vertex : VertexWeight[x] \in Int
  BY GraphAssumption
<1>4. /\ BlockWeight(p, p[u]) = SumFunctionOnSet(VertexWeight, A)
      /\ BlockWeight(p, new) = SumFunctionOnSet(VertexWeight, B)
      /\ BlockWeight(m, p[u]) = SumFunctionOnSet(VertexWeight, A2)
      /\ BlockWeight(m, new) = SumFunctionOnSet(VertexWeight, B2)
      /\ BlockWeight(m, p[u]) \in Nat /\ BlockWeight(p, new) \in Nat
  BY WeightIsSum, MembersFinite
<1>5. \A b \in Block : b # p[u] /\ b # new =>
        BlockWeight(m, b) = BlockWeight(p, b) /\ Cardinality(Members(m, b)) = Cardinality(Members(p, b))
  BY <1>1, WeightIsSum
<1> HIDE DEF A, B, A2, B2, m
<1>6. SumFunctionOnSet(VertexWeight, A) = VertexWeight[u] + SumFunctionOnSet(VertexWeight, A \ {u})
  BY <1>1, <1>2, <1>3, SumRemove
<1>7. SumFunctionOnSet(VertexWeight, B \cup {u}) = VertexWeight[u] + SumFunctionOnSet(VertexWeight, B)
  BY <1>1, <1>2, <1>3, SumAdd
<1>8. /\ SumFunctionOnSet(VertexWeight, A \ {u}) = SumFunctionOnSet(VertexWeight, A2)
      /\ SumFunctionOnSet(VertexWeight, B \cup {u}) = SumFunctionOnSet(VertexWeight, B2)
  BY <1>1, Zenon
<1>9. BlockWeight(m, p[u]) = BlockWeight(p, p[u]) - VertexWeight[u]
  BY <1>3, <1>4, <1>6, <1>8
<1>10. BlockWeight(m, new) = BlockWeight(p, new) + VertexWeight[u]
  BY <1>3, <1>4, <1>7, <1>8
<1>11. Cardinality(A \ {u}) = Cardinality(A) - 1 /\ Cardinality(B \cup {u}) = Cardinality(B) + 1
  BY <1>1, <1>2, FS_RemoveElement, FS_AddElement
<1>12. Cardinality(A2) = Cardinality(A) - 1 /\ Cardinality(B2) = Cardinality(B) + 1
  <2>1. Cardinality(A2) = Cardinality(A \ {u}) /\ Cardinality(B2) = Cardinality(B \cup {u})
    BY <1>1, Zenon
  <2> QED BY <1>11, <2>1
<1> QED BY <1>5, <1>9, <1>10, <1>12 DEF A, B, A2, B2, m

(* What partition_manager.h counts for the partition p.                     *)
PmInv(p, w, n) ==
  /\ p \in [Vertex -> Block] /\ w \in [Block -> Nat] /\ n \in [Block -> Nat]
  /\ \A b \in Block : w[b] = BlockWeight(p, b) /\ n[b] = Cardinality(Members(p, b))

(* reset_weights and the loop after it count what there is.                 *)
LEMMA PmFromScratch ==
  ASSUME NEW p \in [Vertex -> Block], PmRecalculated(p)
  PROVE  PmInv(partition, bweights, nVertices) /\ partition = p
<1>1. \A b \in Block : BlockWeight(p, b) \in Nat /\ Cardinality(Members(p, b)) \in Nat
  BY MembersFinite
<1> QED BY <1>1 DEF PmInv, PmRecalculated

(* p_manager.move keeps weights and sizes right.                            *)
LEMMA PmMoveKeeps ==
  ASSUME PmInv(partition, bweights, nVertices),
         NEW u \in Vertex, NEW new \in Block, partition[u] # new, PmMove(u, partition[u], new)
  PROVE  /\ PmInv(partition', bweights', nVertices')
         /\ partition' = Moved(partition, u, new)
         /\ bweights'[new] = bweights[new] + VertexWeight[u]
         /\ bweights'[partition[u]] = bweights[partition[u]] - VertexWeight[u]
         /\ \A b \in Block : b # partition[u] /\ b # new => bweights'[b] = bweights[b]
<1> DEFINE p == partition
           old == partition[u]
           m == Moved(p, u, new)
<1>1. p \in [Vertex -> Block] /\ old \in Block /\ bweights \in [Block -> Nat]
      /\ nVertices \in [Block -> Nat]
      /\ \A b \in Block : bweights[b] = BlockWeight(p, b) /\ nVertices[b] = Cardinality(Members(p, b))
  BY DEF PmInv
<1>2. /\ partition' = m
      /\ nVertices' = [nVertices EXCEPT ![old] = @ - 1, ![new] = @ + 1]
      /\ bweights' = [bweights EXCEPT ![old] = @ - VertexWeight[u], ![new] = @ + VertexWeight[u]]
  BY DEF PmMove, Moved
<1>3. m \in [Vertex -> Block]
  BY <1>1, MembersMoved
<1>4. /\ BlockWeight(m, old) = BlockWeight(p, old) - VertexWeight[u]
      /\ BlockWeight(m, new) = BlockWeight(p, new) + VertexWeight[u]
      /\ \A b \in Block : b # old /\ b # new => BlockWeight(m, b) = BlockWeight(p, b)
      /\ Cardinality(Members(m, old)) = Cardinality(Members(p, old)) - 1
      /\ Cardinality(Members(m, new)) = Cardinality(Members(p, new)) + 1
      /\ \A b \in Block : b # old /\ b # new =>
           Cardinality(Members(m, b)) = Cardinality(Members(p, b))
  BY <1>1, WeightsMoved
<1>5. \A b \in Block : BlockWeight(m, b) \in Nat /\ Cardinality(Members(m, b)) \in Nat
  BY MembersFinite
<1>6. \A b \in Block : bweights'[b] = IF b = old THEN bweights[old] - VertexWeight[u]
                                      ELSE IF b = new THEN bweights[new] + VertexWeight[u]
                                      ELSE bweights[b]
  BY <1>1, <1>2
<1>7. \A b \in Block : nVertices'[b] = IF b = old THEN nVertices[old] - 1
                                       ELSE IF b = new THEN nVertices[new] + 1
                                       ELSE nVertices[b]
  BY <1>1, <1>2
<1>8. bweights' = [b \in Block |-> bweights'[b]] /\ nVertices' = [b \in Block |-> nVertices'[b]]
  BY <1>1, <1>2
<1> HIDE DEF p, old, m
<1>9. \A b \in Block : bweights'[b] = BlockWeight(m, b) /\ nVertices'[b] = Cardinality(Members(m, b))
  BY <1>1, <1>4, <1>6, <1>7
<1>10. bweights' \in [Block -> Nat] /\ nVertices' \in [Block -> Nat]
  BY <1>5, <1>8, <1>9
<1>11. PmInv(m, bweights', nVertices')
  BY <1>3, <1>9, <1>10 DEF PmInv
<1>12. /\ bweights'[new] = bweights[new] + VertexWeight[u]
       /\ bweights'[old] = bweights[old] - VertexWeight[u]
       /\ \A b \in Block : b # old /\ b # new => bweights'[b] = bweights[b]
  <2>1. old # new
    BY DEF old
  <2> QED BY <1>1, <1>6, <2>1
<1> QED BY <1>2, <1>11, <1>12 DEF p, old, m

-----------------------------------------------------------------------------
(* block_conn: slots that represent the connections of a vertex.            *)

(* The slots of a vertex as a weight per block.                             *)
Entries == [id : Block, w : Nat \ {0}]

Represents(c, W) ==
  /\ c \in Seq(Entries)
  /\ W \in [Block -> Nat]
  /\ \A i, j \in DOMAIN c : c[i].id = c[j].id => i = j
  /\ \A i \in DOMAIN c : c[i].w = W[c[i].id]
  /\ \A b \in Block : W[b] > 0 => \E i \in DOMAIN c : c[i].id = b

(* The slot of a block holds its weight, and there is none without weight.  *)
LEMMA SlotFound ==
  ASSUME NEW c, NEW W, Represents(c, W), NEW b \in Block
  PROVE  /\ Slot(c, b) \in 0 .. Len(c)
         /\ Slot(c, b) = 0 <=> W[b] = 0
         /\ Slot(c, b) # 0 => /\ Slot(c, b) \in DOMAIN c
                              /\ c[Slot(c, b)] = [id |-> b, w |-> W[b]]
         /\ \A i \in DOMAIN c : c[i].id = b => i = Slot(c, b)
<1> DEFINE I == {i \in 1 .. Len(c) : c[i].id = b}
<1>1. c \in Seq(Entries) /\ Len(c) \in Nat /\ DOMAIN c = 1 .. Len(c)
  BY DEF Represents
<1>2. Slot(c, b) = IF I # {} THEN Min(I) ELSE 0
  BY DEF Slot, SelectInSeq
<1>3. \A i, j \in I : i = j
  BY <1>1 DEF Represents
<1>4. \A i \in I : c[i] = [id |-> b, w |-> W[b]] /\ W[b] # 0
  <2>1. \A i \in I : c[i] \in Entries /\ c[i].id = b /\ c[i].w = W[b]
    BY <1>1 DEF Represents
  <2> QED BY <2>1 DEF Entries
<1>5. W[b] \in Nat /\ (W[b] > 0 => I # {})
  BY <1>1 DEF Represents
<1>6. \A i \in I : Min(I) = i
  <2> SUFFICES ASSUME NEW i \in I PROVE Min(I) = i
    OBVIOUS
  <2>1. I = {i} /\ i \in Int
    BY <1>3
  <2> HIDE DEF I
  <2>2. Min({i}) = i
    BY <2>1 DEF Min
  <2>3. Min(I) = Min({i})
    BY <2>1, Zenon
  <2> QED BY <2>2, <2>3
<1>7. CASE I = {}
  BY <1>1, <1>2, <1>5, <1>7
<1>8. ASSUME NEW i \in I PROVE Slot(c, b) = i /\ i \in DOMAIN c /\ i # 0
  BY <1>1, <1>2, <1>6
<1>9. CASE I # {}
  <2>1. PICK i \in I : TRUE
    BY <1>9
  <2>2. Slot(c, b) = i /\ i \in DOMAIN c /\ i # 0 /\ i \in 0 .. Len(c)
    BY <1>1, <1>8
  <2>3. \A j \in DOMAIN c : c[j].id = b => j = i
    BY <1>1, <1>3
  <2> QED BY <1>4, <2>2, <2>3
<1> QED BY <1>7, <1>9

(* An entry whose weight is overwritten.                                    *)
LEMMA EntrySet ==
  ASSUME NEW c, NEW W, Represents(c, W), NEW b \in Block, W[b] > 0, NEW w \in Nat \ {0}
  PROVE  Represents([c EXCEPT ![Slot(c, b)] = [id |-> b, w |-> w]], [W EXCEPT ![b] = w])
<1> DEFINE n == Len(c)
           V == [W EXCEPT ![b] = w]
           s == Slot(c, b)
           d == [c EXCEPT ![s] = [id |-> b, w |-> w]]
<1>1. /\ c \in Seq(Entries) /\ n \in Nat /\ DOMAIN c = 1 .. n /\ W \in [Block -> Nat]
      /\ \A i \in 1 .. n : c[i] \in Entries
      /\ \A i, j \in 1 .. n : c[i].id = c[j].id => i = j
      /\ \A i \in 1 .. n : c[i].w = W[c[i].id]
      /\ \A x \in Block : W[x] > 0 => \E i \in 1 .. n : c[i].id = x
  BY DEF Represents
<1>2. /\ s \in 1 .. n /\ c[s] = [id |-> b, w |-> W[b]]
      /\ \A i \in 1 .. n : c[i].id = b => i = s
  BY <1>1, SlotFound
<1>3. /\ V \in [Block -> Nat] /\ V[b] = w
      /\ \A x \in Block : x # b => V[x] = W[x]
  BY <1>1
<1>4. [id |-> b, w |-> w] \in Entries
  BY DEF Entries
<1>5. /\ d \in Seq(Entries) /\ DOMAIN d = 1 .. n
      /\ \A i \in 1 .. n : i # s => d[i] = c[i]
      /\ d[s] = [id |-> b, w |-> w]
  BY <1>1, <1>2, <1>4
<1> HIDE DEF n, V, d, s
<1>6. \A i \in 1 .. n : d[i].id = c[i].id /\ c[i].id \in Block /\ (i # s => c[i].id # b)
  BY <1>1, <1>2, <1>5 DEF Entries
<1>7. ASSUME NEW i \in 1 .. n PROVE d[i].w = V[d[i].id]
  <2>1. CASE i = s
    BY <1>3, <1>5, <2>1
  <2>2. CASE i # s
    <3>1. d[i] = c[i] /\ c[i].id \in Block /\ c[i].id # b
      BY <1>5, <1>6, <2>2
    <3>2. c[i].w = W[c[i].id]
      BY <1>1
    <3> QED BY <1>3, <3>1, <3>2
  <2> QED BY <2>1, <2>2
<1>8. ASSUME NEW x \in Block, V[x] > 0 PROVE \E i \in 1 .. n : d[i].id = x
  <2>1. CASE x = b
    BY <1>2, <1>5, <2>1
  <2>2. CASE x # b
    <3>1. PICK i \in 1 .. n : c[i].id = x
      BY <1>1, <1>3, <1>8, <2>2
    <3> QED BY <1>6, <3>1
  <2> QED BY <2>1, <2>2
<1>9. \A i, j \in DOMAIN d : d[i].id = d[j].id => i = j
  BY <1>1, <1>5, <1>6
<1>10. /\ \A i \in DOMAIN d : d[i].w = V[d[i].id]
       /\ \A x \in Block : V[x] > 0 => \E i \in DOMAIN d : d[i].id = x
  BY <1>5, <1>7, <1>8
<1>11. Represents(d, V)
  BY <1>3, <1>5, <1>9, <1>10 DEF Represents
<1> QED BY <1>11 DEF d, V, s

(* add_connection adds to the weight of one block.                          *)
LEMMA BcAddAdds ==
  ASSUME NEW c, NEW W, Represents(c, W), NEW b \in Block, NEW w \in Nat \ {0}
  PROVE  Represents(BcAdd(c, b, w), [W EXCEPT ![b] = @ + w])
<1> DEFINE n == Len(c)
           V == [W EXCEPT ![b] = @ + w]
           d == BcAdd(c, b, w)
           s == Slot(c, b)
<1>1. /\ c \in Seq(Entries) /\ n \in Nat /\ DOMAIN c = 1 .. n /\ W \in [Block -> Nat]
      /\ \A i \in 1 .. n : c[i] \in Entries
      /\ \A i, j \in 1 .. n : c[i].id = c[j].id => i = j
      /\ \A i \in 1 .. n : c[i].w = W[c[i].id]
      /\ \A x \in Block : W[x] > 0 => \E i \in 1 .. n : c[i].id = x
  BY DEF Represents
<1>2. /\ s \in 0 .. n
      /\ s = 0 <=> W[b] = 0
      /\ s # 0 => s \in 1 .. n /\ c[s] = [id |-> b, w |-> W[b]]
      /\ \A i \in 1 .. n : c[i].id = b => i = s
  BY <1>1, SlotFound
<1>3. V \in [Block -> Nat] /\ V[b] = W[b] + w /\ \A x \in Block : x # b => V[x] = W[x]
  BY <1>1
<1>4. d = IF s = 0 THEN Append(c, [id |-> b, w |-> w]) ELSE [c EXCEPT ![s].w = @ + w]
  BY DEF BcAdd
<1> HIDE DEF n, V, d, s
<1>5. CASE s = 0
  <2>1. d = Append(c, [id |-> b, w |-> w]) /\ W[b] = 0 /\ V[b] = w
    BY <1>1, <1>2, <1>3, <1>4, <1>5
  <2>2. [id |-> b, w |-> w] \in Entries
    BY DEF Entries
  <2>3. /\ d \in Seq(Entries) /\ DOMAIN d = 1 .. n + 1
        /\ \A i \in 1 .. n : d[i] = c[i]
        /\ d[n + 1] = [id |-> b, w |-> w]
    BY <1>1, <2>1, <2>2 DEF n
  <2>4. \A i \in 1 .. n : c[i].id # b /\ c[i].id \in Block
    BY <1>1, <1>2, <1>5 DEF Entries
  <2>5. ASSUME NEW i \in 1 .. n + 1, NEW j \in 1 .. n + 1, d[i].id = d[j].id PROVE i = j
    BY <1>1, <2>3, <2>4, <2>5
  <2>6. ASSUME NEW i \in 1 .. n + 1 PROVE d[i].w = V[d[i].id]
    <3>1. CASE i \in 1 .. n
      BY <1>1, <1>3, <2>3, <2>4, <3>1
    <3>2. CASE i = n + 1
      BY <2>1, <2>3, <3>2
    <3> QED BY <1>1, <3>1, <3>2
  <2>7. ASSUME NEW x \in Block, V[x] > 0 PROVE \E i \in 1 .. n + 1 : d[i].id = x
    <3>1. CASE x = b
      <4>1. n + 1 \in 1 .. n + 1 /\ d[n + 1].id = b
        BY <1>1, <2>3
      <4> QED BY <3>1, <4>1
    <3>2. CASE x # b
      <4>1. PICK i \in 1 .. n : c[i].id = x
        BY <1>1, <1>3, <2>7, <3>2
      <4>2. i \in 1 .. n + 1 /\ d[i].id = x
        BY <1>1, <2>3, <4>1
      <4> QED BY <4>2
    <3> QED BY <3>1, <3>2
  <2>8. /\ \A i, j \in DOMAIN d : d[i].id = d[j].id => i = j
        /\ \A i \in DOMAIN d : d[i].w = V[d[i].id]
        /\ \A x \in Block : V[x] > 0 => \E i \in DOMAIN d : d[i].id = x
    BY <2>3, <2>5, <2>6, <2>7
  <2> QED BY <1>3, <2>3, <2>8 DEF Represents, d, V
<1>6. CASE s # 0
  <2>1. s \in 1 .. n /\ c[s] = [id |-> b, w |-> W[b]]
    BY <1>2, <1>6
  <2>2. d = [c EXCEPT ![s] = [id |-> b, w |-> W[b] + w]]
    <3>1. d = [c EXCEPT ![s] = [c[s] EXCEPT !.w = @ + w]]
      BY <1>4, <1>6
    <3>2. [c[s] EXCEPT !.w = @ + w] = [id |-> b, w |-> W[b] + w]
      BY <2>1
    <3> QED BY <3>1, <3>2
  <2>3. W[b] > 0 /\ W[b] + w \in Nat \ {0} /\ V = [W EXCEPT ![b] = W[b] + w]
    BY <1>1, <1>2, <1>6 DEF V
  <2>4. Represents(d, V)
    BY <2>2, <2>3, EntrySet DEF s
  <2> QED BY <2>4 DEF d, V
<1> QED BY <1>5, <1>6

(* The last two cases of update: the emptied entry is overwritten, by the   *)
(* entry of another block or by the last entry.                             *)
LEMMA EntryReplaced ==
  ASSUME NEW c, NEW W, Represents(c, W), NEW old \in Block, NEW new \in Block, old # new,
         W[old] > 0, W[new] = 0
  PROVE  Represents([c EXCEPT ![Slot(c, old)] = [id |-> new, w |-> W[old]]],
                    [W EXCEPT ![old] = 0, ![new] = W[old]])
<1> DEFINE n == Len(c)
           V == [W EXCEPT ![old] = 0, ![new] = W[old]]
           o == Slot(c, old)
           d == [c EXCEPT ![o] = [id |-> new, w |-> W[old]]]
<1>1. /\ c \in Seq(Entries) /\ n \in Nat /\ DOMAIN c = 1 .. n /\ W \in [Block -> Nat]
      /\ \A i \in 1 .. n : c[i] \in Entries
      /\ \A i, j \in 1 .. n : c[i].id = c[j].id => i = j
      /\ \A i \in 1 .. n : c[i].w = W[c[i].id]
      /\ \A x \in Block : W[x] > 0 => \E i \in 1 .. n : c[i].id = x
  BY DEF Represents
<1>2. /\ o \in 1 .. n /\ c[o] = [id |-> old, w |-> W[old]]
      /\ \A i \in 1 .. n : c[i].id = old => i = o
  BY <1>1, SlotFound
<1>3. /\ V \in [Block -> Nat] /\ V[old] = 0 /\ V[new] = W[old]
      /\ \A x \in Block : x # old /\ x # new => V[x] = W[x]
  BY <1>1
<1>4. [id |-> new, w |-> W[old]] \in Entries
  BY <1>1 DEF Entries
<1>5. \A i \in 1 .. n : c[i].id \in Block /\ c[i].id # new
  <2>1. \A i \in 1 .. n : c[i].id \in Block /\ c[i].w # 0
    BY <1>1 DEF Entries
  <2> QED BY <1>1, <2>1
<1>6. /\ d \in Seq(Entries) /\ DOMAIN d = 1 .. n
      /\ \A i \in 1 .. n : i # o => d[i] = c[i]
      /\ d[o] = [id |-> new, w |-> W[old]]
  BY <1>1, <1>2, <1>4
<1> HIDE DEF n, V, d, o
<1>7. \A i, j \in 1 .. n : d[i].id = d[j].id => i = j
  BY <1>1, <1>2, <1>5, <1>6
<1>8. ASSUME NEW i \in 1 .. n PROVE d[i].w = V[d[i].id]
  <2>1. CASE i = o
    BY <1>3, <1>6, <2>1
  <2>2. CASE i # o
    BY <1>1, <1>2, <1>3, <1>5, <1>6, <2>2
  <2> QED BY <2>1, <2>2
<1>9. ASSUME NEW x \in Block, V[x] > 0 PROVE \E i \in 1 .. n : d[i].id = x
  <2>1. CASE x = new
    BY <1>2, <1>6, <2>1
  <2>2. CASE x # new
    <3>1. x # old
      BY <1>3, <1>9
    <3>2. W[x] > 0
      BY <1>3, <1>9, <2>2, <3>1
    <3>3. PICK i \in 1 .. n : c[i].id = x
      BY <1>1, <3>2
    <3>4. i # o
      BY <1>2, <3>1, <3>3
    <3> QED BY <1>6, <3>3, <3>4
  <2> QED BY <2>1, <2>2
<1>10. /\ \A i, j \in DOMAIN d : d[i].id = d[j].id => i = j
       /\ \A i \in DOMAIN d : d[i].w = V[d[i].id]
       /\ \A x \in Block : V[x] > 0 => \E i \in DOMAIN d : d[i].id = x
  BY <1>6, <1>7, <1>8, <1>9
<1>11. Represents(d, V)
  BY <1>3, <1>6, <1>10 DEF Represents
<1> QED BY <1>11 DEF d, V, o

(* The last entry overwrites one that is dropped.                           *)
LEMMA EntryDropped ==
  ASSUME NEW c, NEW W, Represents(c, W), NEW old \in Block, W[old] > 0
  PROVE  Represents(Front([c EXCEPT ![Slot(c, old)] = Last(c)]), [W EXCEPT ![old] = 0])
<1> DEFINE n == Len(c)
           V == [W EXCEPT ![old] = 0]
           o == Slot(c, old)
           e == [c EXCEPT ![o] = Last(c)]
           d == Front(e)
<1>1. /\ c \in Seq(Entries) /\ n \in Nat /\ DOMAIN c = 1 .. n /\ W \in [Block -> Nat]
      /\ \A i \in 1 .. n : c[i] \in Entries
      /\ \A i, j \in 1 .. n : c[i].id = c[j].id => i = j
      /\ \A i \in 1 .. n : c[i].w = W[c[i].id]
      /\ \A x \in Block : W[x] > 0 => \E i \in 1 .. n : c[i].id = x
  BY DEF Represents
<1>2. /\ o \in 1 .. n /\ c[o] = [id |-> old, w |-> W[old]]
      /\ \A i \in 1 .. n : c[i].id = old => i = o
  BY <1>1, SlotFound
<1>3. V \in [Block -> Nat] /\ V[old] = 0 /\ \A x \in Block : x # old => V[x] = W[x]
  BY <1>1
<1>4. Last(c) = c[n] /\ c[n] \in Entries /\ n \in 1 .. n
  BY <1>1, <1>2 DEF Last
<1>5. /\ e \in Seq(Entries) /\ Len(e) = n
      /\ \A i \in 1 .. n : e[i] = IF i = o THEN c[n] ELSE c[i]
  BY <1>1, <1>2, <1>4
<1>6. \A i \in 1 .. n : c[i].id \in Block
  BY <1>1 DEF Entries
<1> HIDE DEF o, e
<1>7. d = SubSeq(e, 1, n - 1)
  BY <1>5 DEF Front
<1>8. /\ d \in Seq(Entries) /\ DOMAIN d = 1 .. n - 1
      /\ \A i \in 1 .. n - 1 : d[i] = e[i]
  BY <1>1, <1>2, <1>5, <1>7
<1> HIDE DEF n, V, d
<1>9. \A i \in 1 .. n - 1 : d[i] = IF i = o THEN c[n] ELSE c[i]
  BY <1>1, <1>5, <1>8
<1>10. \A i, j \in 1 .. n - 1 : d[i].id = d[j].id => i = j
  BY <1>1, <1>2, <1>4, <1>9
<1>11. \A i \in 1 .. n - 1 : d[i].id # old
  BY <1>1, <1>2, <1>4, <1>9
<1>12. ASSUME NEW i \in 1 .. n - 1 PROVE d[i].w = V[d[i].id]
  <2>1. PICK j \in 1 .. n : d[i] = c[j]
    BY <1>1, <1>4, <1>9
  <2>2. c[j].id # old /\ c[j].id \in Block /\ c[j].w = W[c[j].id]
    BY <1>1, <1>6, <1>11, <2>1
  <2> QED BY <1>3, <2>1, <2>2
<1>13. ASSUME NEW x \in Block, V[x] > 0 PROVE \E i \in 1 .. n - 1 : d[i].id = x
  <2>1. x # old
    BY <1>3, <1>13
  <2>2. W[x] > 0
    BY <1>3, <1>13, <2>1
  <2>3. PICK i \in 1 .. n : c[i].id = x
    BY <1>1, <2>2
  <2>4. i # o
    BY <1>2, <2>1, <2>3
  <2>5. CASE i = n
    <3>1. o \in 1 .. n - 1
      BY <1>1, <1>2, <2>4, <2>5
    <3> QED BY <1>9, <2>3, <2>5, <3>1
  <2>6. CASE i # n
    <3>1. i \in 1 .. n - 1
      BY <1>1, <2>6
    <3> QED BY <1>9, <2>3, <2>4, <3>1
  <2> QED BY <2>5, <2>6
<1>14. /\ \A i, j \in DOMAIN d : d[i].id = d[j].id => i = j
       /\ \A i \in DOMAIN d : d[i].w = V[d[i].id]
       /\ \A x \in Block : V[x] > 0 => \E i \in DOMAIN d : d[i].id = x
  BY <1>8, <1>10, <1>12, <1>13
<1>15. Represents(d, V)
  BY <1>3, <1>8, <1>14 DEF Represents
<1> QED BY <1>15 DEF d, V, o, e

(* update_connection shifts weight from one block to another.               *)
LEMMA BcUpdateMoves ==
  ASSUME NEW c, NEW W, Represents(c, W), NEW old \in Block, NEW new \in Block, old # new,
         NEW w \in Nat \ {0}, w <= W[old]
  PROVE  Represents(BcUpdate(c, old, new, w), [W EXCEPT ![old] = @ - w, ![new] = @ + w])
<1> DEFINE o == Slot(c, old)
           n == Slot(c, new)
           left == W[old] - w
           V == [W EXCEPT ![old] = @ - w, ![new] = @ + w]
           R == BcUpdate(c, old, new, w)
<1>1. W \in [Block -> Nat] /\ W[old] \in Nat /\ W[new] \in Nat /\ W[old] > 0 /\ left \in Nat
  BY DEF Represents
<1>2. /\ o # 0 /\ o \in DOMAIN c /\ c[o] = [id |-> old, w |-> W[old]]
      /\ n = 0 <=> W[new] = 0
      /\ n # 0 => n \in DOMAIN c /\ c[n] = [id |-> new, w |-> W[new]]
  BY <1>1, SlotFound
<1>3. c[o].w - w = left
  BY <1>2
<1>4. /\ left # 0 => R = BcAdd([c EXCEPT ![o].w = left], new, w)
      /\ left = 0 /\ n = 0 => R = [c EXCEPT ![o] = [id |-> new, w |-> w]]
      /\ left = 0 /\ n # 0 => LET d == [c EXCEPT ![n].w = @ + w]
                              IN  R = Front([d EXCEPT ![o] = Last(d)])
  BY <1>2, <1>3 DEF BcUpdate
<1>5. V \in [Block -> Int] /\ V[old] = left /\ V[new] = W[new] + w
      /\ \A x \in Block : x # old /\ x # new => V[x] = W[x]
  BY <1>1
<1>6. CASE left # 0
  <2> DEFINE d == [c EXCEPT ![o].w = left]
             U == [W EXCEPT ![old] = left]
  <2>1. d = [c EXCEPT ![o] = [id |-> old, w |-> left]]
    <3>1. d = [c EXCEPT ![o] = [c[o] EXCEPT !.w = left]]
      OBVIOUS
    <3>2. [c[o] EXCEPT !.w = left] = [id |-> old, w |-> left]
      BY <1>2
    <3> QED BY <3>1, <3>2
  <2>2. left \in Nat \ {0}
    BY <1>1, <1>6
  <2>3. Represents(d, U)
    BY <1>1, <2>1, <2>2, EntrySet
  <2>4. Represents(BcAdd(d, new, w), [U EXCEPT ![new] = @ + w])
    BY <2>3, BcAddAdds
  <2>5. [U EXCEPT ![new] = @ + w] = V
    BY <1>1
  <2> QED BY <1>4, <1>6, <2>4, <2>5
<1>7. CASE left = 0 /\ n = 0
  <2>1. W[new] = 0 /\ w = W[old]
    BY <1>1, <1>2, <1>7
  <2>2. Represents([c EXCEPT ![o] = [id |-> new, w |-> W[old]]],
                   [W EXCEPT ![old] = 0, ![new] = W[old]])
    BY <1>1, <2>1, EntryReplaced
  <2>3. [W EXCEPT ![old] = 0, ![new] = W[old]] = V
    <3>1. W[old] - w = 0 /\ W[new] + w = W[old]
      BY <1>1, <1>7, <2>1
    <3> QED BY <3>1
  <2> QED BY <1>4, <1>7, <2>1, <2>2, <2>3
<1>8. CASE left = 0 /\ n # 0
  <2> DEFINE d == [c EXCEPT ![n].w = @ + w]
             U == [W EXCEPT ![new] = @ + w]
  <2>1. d = BcAdd(c, new, w)
    BY <1>8 DEF BcAdd
  <2>2. Represents(d, U)
    <3>1. Represents(BcAdd(c, new, w), U)
      BY BcAddAdds
    <3> HIDE DEF d, U
    <3> QED BY <2>1, <3>1
  <2>3. d = [c EXCEPT ![n] = [id |-> new, w |-> W[new] + w]]
    <3>1. d = [c EXCEPT ![n] = [c[n] EXCEPT !.w = @ + w]]
      OBVIOUS
    <3>2. [c[n] EXCEPT !.w = @ + w] = [id |-> new, w |-> W[new] + w]
      BY <1>2, <1>8
    <3> QED BY <3>1, <3>2
  <2> HIDE DEF d, U
  <2>4. o \in DOMAIN d /\ d[o].id = old
    <3>1. o # n
      BY <1>2, <1>8
    <3> HIDE DEF o, n
    <3>2. o \in DOMAIN d /\ d[o] = c[o]
      BY <1>2, <2>3, <3>1
    <3> QED BY <1>2, <3>2
  <2>5. Slot(d, old) = o
    BY <2>2, <2>4, SlotFound
  <2>6. U[old] = W[old] /\ U[old] > 0
    BY <1>1 DEF U
  <2>7. Represents(Front([d EXCEPT ![o] = Last(d)]), [U EXCEPT ![old] = 0])
    BY <2>2, <2>5, <2>6, EntryDropped
  <2>8. [U EXCEPT ![old] = 0] = V
    BY <1>1, <1>8 DEF U
  <2>9. R = Front([d EXCEPT ![o] = Last(d)])
    BY <1>4, <1>8 DEF d
  <2> QED BY <2>7, <2>8, <2>9
<1> HIDE DEF o, n, left
<1> QED BY <1>6, <1>7, <1>8

(* A set enumerated once each by the numbers up to n has n elements.        *)
LEMMA EnumeratedSize ==
  ASSUME NEW n \in Nat, NEW f, \A i, j \in 1 .. n : f[i] = f[j] => i = j
  PROVE  IsFiniteSet({f[i] : i \in 1 .. n}) /\ Cardinality({f[i] : i \in 1 .. n}) = n
<1> DEFINE S == {f[i] : i \in 1 .. n}
           g == [i \in 1 .. n |-> f[i]]
<1>1. g \in Bijection(1 .. n, S)
  BY DEF Bijection, Injection, Surjection, IsInjective
<1>2. ExistsBijection(1 .. n, S)
  BY <1>1 DEF ExistsBijection
<1> HIDE DEF S
<1>3. IsFiniteSet(S) /\ Cardinality(S) = n
  BY <1>2, FS_NatBijection, FS_CountingElements
<1> QED BY <1>3 DEF S

(* What it says that slots represent the weights W.                         *)
LEMMA EntriesRepresented ==
  ASSUME NEW c, NEW W, Represents(c, W)
  PROVE  /\ c \in Seq(Entries) /\ Len(c) \in Nat /\ DOMAIN c = 1 .. Len(c)
         /\ \A i \in 1 .. Len(c) : c[i] \in Entries
         /\ \A i, j \in 1 .. Len(c) : c[i].id = c[j].id => i = j
         /\ \A i \in 1 .. Len(c) : c[i].w = W[c[i].id]
         /\ \A x \in Block : W[x] > 0 => \E i \in 1 .. Len(c) : c[i].id = x
BY DEF Represents

-----------------------------------------------------------------------------
(* The weight of the edges of a vertex into a block.                        *)
Into(p, u, b) == Adj(u) \cap Members(p, b)

(* The connection to a block is the sum over the neighbours in it.          *)
LEMMA ConnIsSum ==
  ASSUME NEW p, NEW u \in Vertex, NEW b
  PROVE  /\ ConnWeight(p, u, b) = SumFunctionOnSet(EdgeWeight[u], Into(p, u, b))
         /\ Into(p, u, b) \subseteq Adj(u) /\ IsFiniteSet(Into(p, u, b))
         /\ \A v \in Into(p, u, b) : EdgeWeight[u][v] \in Nat \ {0}
         /\ ConnWeight(p, u, b) \in Nat
<1>1. ConnWeight(p, u, b) = SumFunctionOnSet(EdgeWeight[u], Into(p, u, b))
  BY DEF ConnWeight, MapThenSumSet, SumFunctionOnSet, FoldFunctionOnSet, MapThenFoldSet, Into
<1>2. Into(p, u, b) \in SUBSET Adj(u)
  BY DEF Into
<1>3. IsFiniteSet(Into(p, u, b))
  BY <1>2, Neighbourhoods, FS_Subset
<1>4. \A v \in Into(p, u, b) : EdgeWeight[u][v] \in Nat \ {0}
  BY <1>2, Neighbourhoods
<1>5. SumFunctionOnSet(EdgeWeight[u], Into(p, u, b)) \in Nat
  BY <1>3, <1>4, SumNat
<1> QED BY <1>1, <1>2, <1>3, <1>4, <1>5

(* A sum of positive numbers is zero over the empty set only.               *)
LEMMA SumPositive ==
  ASSUME NEW S, IsFiniteSet(S), NEW f, \A x \in S : f[x] \in Nat \ {0}
  PROVE  SumFunctionOnSet(f, S) \in Nat /\ (SumFunctionOnSet(f, S) > 0 <=> S # {})
<1>1. SumFunctionOnSet(f, S) \in Nat
  BY SumNat
<1>2. CASE S = {}
  BY <1>2, SumEmpty
<1>3. CASE S # {}
  <2>1. PICK a \in S : TRUE
    BY <1>3
  <2>2. IsFiniteSet(S \ {a})
    BY FS_Subset
  <2>3. SumFunctionOnSet(f, S) = f[a] + SumFunctionOnSet(f, S \ {a})
    BY SumRemove
  <2>4. SumFunctionOnSet(f, S \ {a}) \in Nat
    BY <2>2, SumNat
  <2> QED BY <1>1, <1>3, <2>3, <2>4
<1> QED BY <1>1, <1>2, <1>3

(* A vertex is connected to the blocks of its neighbours.                   *)
LEMMA ConnPositive ==
  ASSUME NEW p \in [Vertex -> Block], NEW u \in Vertex, NEW b
  PROVE  (ConnWeight(p, u, b) > 0) <=> (\E v \in Adj(u) : p[v] = b)
<1>1. (ConnWeight(p, u, b) > 0) <=> Into(p, u, b) # {}
  BY ConnIsSum, SumPositive
<1>2. Into(p, u, b) # {} <=> \E v \in Adj(u) : p[v] = b
  BY Neighbourhoods DEF Into, Members
<1> QED BY <1>1, <1>2

(* A move of u changes the connections of its neighbours to two blocks.     *)
LEMMA ConnMoved ==
  ASSUME NEW p \in [Vertex -> Block], NEW u \in Vertex, NEW new \in Block, p[u] # new,
         NEW v \in Vertex
  PROVE  LET m == Moved(p, u, new) IN
         /\ v \in Adj(u) =>
              /\ ConnWeight(m, v, p[u]) = ConnWeight(p, v, p[u]) - EdgeWeight[u][v]
              /\ EdgeWeight[u][v] <= ConnWeight(p, v, p[u])
              /\ ConnWeight(m, v, new) = ConnWeight(p, v, new) + EdgeWeight[u][v]
              /\ \A b \in Block : b # p[u] /\ b # new => ConnWeight(m, v, b) = ConnWeight(p, v, b)
         /\ v \notin Adj(u) => \A b \in Block : ConnWeight(m, v, b) = ConnWeight(p, v, b)
<1> DEFINE m == Moved(p, u, new)
           w == EdgeWeight[v]
<1>0. /\ m[u] = new /\ \A x \in Vertex \ {u} : m[x] = p[x]
      /\ p[u] \in Block /\ Adj(v) \subseteq Vertex
  BY MembersMoved, Neighbourhoods
<1>1. /\ u \in Members(p, p[u]) /\ u \notin Members(p, new)
      /\ Members(m, p[u]) = Members(p, p[u]) \ {u}
      /\ Members(m, new) = Members(p, new) \cup {u}
      /\ \A b \in Block : b # p[u] /\ b # new => Members(m, b) = Members(p, b)
  BY DEF Members, Moved
<1>2. v \in Adj(u) <=> u \in Adj(v)
  BY Neighbourhoods
<1>3. \A c, b : /\ ConnWeight(c, v, b) = SumFunctionOnSet(w, Into(c, v, b))
                /\ ConnWeight(c, v, b) \in Nat /\ IsFiniteSet(Into(c, v, b))
                /\ \A x \in Into(c, v, b) : w[x] \in Nat \ {0}
  BY ConnIsSum
<1> HIDE DEF m
<1>4. \A b \in Block : (b # p[u] /\ b # new) \/ v \notin Adj(u) => Into(m, v, b) = Into(p, v, b)
  <2> SUFFICES ASSUME NEW b \in Block, (b # p[u] /\ b # new) \/ v \notin Adj(u)
               PROVE  Into(m, v, b) = Into(p, v, b)
    OBVIOUS
  <2>1. CASE b # p[u] /\ b # new
    BY <1>1, <2>1 DEF Into
  <2>2. CASE v \notin Adj(u)
    <3>1. u \notin Adj(v)
      BY <1>2, <2>2
    <3> QED BY <1>0, <3>1 DEF Into, Members
  <2> QED BY <2>1, <2>2
<1>5. \A b \in Block : (b # p[u] /\ b # new) \/ v \notin Adj(u) =>
         ConnWeight(m, v, b) = ConnWeight(p, v, b)
  BY <1>3, <1>4
<1>6. ASSUME v \in Adj(u)
      PROVE  /\ ConnWeight(m, v, p[u]) = ConnWeight(p, v, p[u]) - w[u]
             /\ w[u] <= ConnWeight(p, v, p[u])
             /\ ConnWeight(m, v, new) = ConnWeight(p, v, new) + w[u]
  <2>1. u \in Adj(v)
    BY <1>2, <1>6
  <2>2. /\ u \in Into(p, v, p[u]) /\ Into(m, v, p[u]) = Into(p, v, p[u]) \ {u}
        /\ u \notin Into(p, v, new) /\ Into(m, v, new) = Into(p, v, new) \cup {u}
    BY <1>1, <2>1 DEF Into
  <2>3. w[u] \in Nat
    BY <1>3, <2>2
  <2>4. SumFunctionOnSet(w, Into(p, v, p[u])) = w[u] + SumFunctionOnSet(w, Into(p, v, p[u]) \ {u})
    BY <1>3, <2>2, SumRemove
  <2>5. SumFunctionOnSet(w, Into(p, v, new) \cup {u}) = w[u] + SumFunctionOnSet(w, Into(p, v, new))
    <3>1. IsFiniteSet(Into(p, v, new)) /\ u \notin Into(p, v, new)
      BY <1>3, <2>2
    <3>2. \A x \in Into(p, v, new) \cup {u} : w[x] \in Int
      BY <1>3, <2>3
    <3> HIDE DEF w
    <3> QED BY <3>1, <3>2, SumAdd
  <2>6. /\ SumFunctionOnSet(w, Into(p, v, p[u]) \ {u}) = SumFunctionOnSet(w, Into(m, v, p[u]))
        /\ SumFunctionOnSet(w, Into(p, v, new) \cup {u}) = SumFunctionOnSet(w, Into(m, v, new))
    BY <2>2, Zenon
  <2>7. ConnWeight(p, v, p[u]) = w[u] + ConnWeight(m, v, p[u])
    BY <1>3, <2>4, <2>6
  <2>8. ConnWeight(m, v, new) = w[u] + ConnWeight(p, v, new)
    BY <1>3, <2>5, <2>6
  <2>9. /\ ConnWeight(p, v, p[u]) \in Nat /\ ConnWeight(m, v, p[u]) \in Nat
        /\ ConnWeight(p, v, new) \in Nat
    BY <1>3
  <2> QED BY <2>3, <2>7, <2>8, <2>9
<1>7. w[u] = EdgeWeight[u][v]
  BY GraphAssumption
<1> QED BY <1>5, <1>6, <1>7 DEF m

-----------------------------------------------------------------------------
(* The slots of u are right for the partition p.                            *)
Conns(p, u) == [b \in Block |-> ConnWeight(p, u, b)]

BcInv(p, c) == \A u \in Vertex : Represents(c[u], Conns(p, u))

(* block_conn.move keeps the connections right.                             *)
LEMMA BcMoveKeeps ==
  ASSUME NEW p \in [Vertex -> Block], BcInv(p, conn),
         NEW u \in Vertex, NEW new \in Block, p[u] # new, BcMove(u, p[u], new)
  PROVE  BcInv(Moved(p, u, new), conn')
<1> DEFINE old == p[u]
           m == Moved(p, u, new)
<1> SUFFICES ASSUME NEW v \in Vertex PROVE Represents(conn'[v], Conns(m, v))
  BY DEF BcInv
<1>1. old \in Block
  OBVIOUS
<1>2. Represents(conn[v], Conns(p, v))
  BY DEF BcInv
<1>3. CASE v \in Adj(u)
  <2> DEFINE w == EdgeWeight[u][v]
             W == Conns(p, v)
  <2>1. /\ ConnWeight(m, v, old) = ConnWeight(p, v, old) - w
        /\ w <= ConnWeight(p, v, old)
        /\ ConnWeight(m, v, new) = ConnWeight(p, v, new) + w
        /\ \A b \in Block : b # old /\ b # new => ConnWeight(m, v, b) = ConnWeight(p, v, b)
    BY <1>3, ConnMoved
  <2>2. w \in Nat \ {0}
    BY <1>3, Neighbourhoods
  <2>3. w <= W[old]
    BY <1>1, <2>1 DEF Conns
  <2>4. Represents(BcUpdate(conn[v], old, new, w), [W EXCEPT ![old] = @ - w, ![new] = @ + w])
    BY <1>1, <1>2, <2>2, <2>3, BcUpdateMoves
  <2>5. conn'[v] = BcUpdate(conn[v], old, new, w)
    BY <1>3 DEF BcMove
  <2> HIDE DEF w, m, old
  <2>6. [W EXCEPT ![old] = @ - w, ![new] = @ + w] = Conns(m, v)
    <3>1. old # new
      BY DEF old
    <3> QED BY <1>1, <2>1, <3>1 DEF Conns
  <2> QED BY <2>4, <2>5, <2>6
<1>4. CASE v \notin Adj(u)
  <2>1. \A b \in Block : ConnWeight(m, v, b) = ConnWeight(p, v, b)
    BY <1>4, ConnMoved
  <2>2. Conns(m, v) = Conns(p, v)
    BY <2>1 DEF Conns
  <2>3. conn'[v] = conn[v]
    BY <1>4 DEF BcMove
  <2> QED BY <1>2, <2>2, <2>3
<1> QED BY <1>3, <1>4

(* What CorrectBlockConn says, and the type of conn, follow.                *)
LEMMA BcInvSuffices ==
  ASSUME NEW p \in [Vertex -> Block], p = partition, BcInv(p, conn),
         conn = [v \in Vertex |-> conn[v]]
  PROVE  CorrectBlockConn /\ BcTypeOK
<1>1. BcTypeOK
  BY DEF BcTypeOK, BcInv, Represents, Entries
<1>2. ASSUME NEW u \in Vertex
      PROVE  /\ Len(conn[u]) <= SlotsOf(u)
             /\ {conn[u][i].id : i \in DOMAIN conn[u]} = ConnectedBlocks(p, u)
             /\ Len(conn[u]) = Cardinality(ConnectedBlocks(p, u))
             /\ \A i \in DOMAIN conn[u] : conn[u][i].w = ConnWeight(p, u, conn[u][i].id)
  <2> DEFINE c == conn[u]
             n == Len(c)
             C == ConnectedBlocks(p, u)
             ids == [i \in 1 .. n |-> c[i].id]
  <2>0. Represents(c, Conns(p, u))
    BY DEF BcInv
  <2>1. /\ c \in Seq(Entries) /\ n \in Nat /\ DOMAIN c = 1 .. n
        /\ \A i \in 1 .. n : c[i] \in Entries
        /\ \A i, j \in 1 .. n : c[i].id = c[j].id => i = j
        /\ \A i \in 1 .. n : c[i].w = Conns(p, u)[c[i].id]
        /\ \A x \in Block : Conns(p, u)[x] > 0 => \E i \in 1 .. n : c[i].id = x
    BY <2>0, EntriesRepresented
  <2>2. \A i \in 1 .. n : c[i].id \in Block /\ c[i].w \in Nat \ {0}
    BY <2>1 DEF Entries
  <2>3. \A b \in Block : Conns(p, u)[b] = ConnWeight(p, u, b)
    BY DEF Conns
  <2>4. \A i \in 1 .. n : c[i].w = ConnWeight(p, u, c[i].id)
    BY <2>1, <2>2, <2>3
  <2>5. C \subseteq Block /\ \A b \in Block : b \in C <=> ConnWeight(p, u, b) > 0
    <3>1. C \subseteq Block
      BY Neighbourhoods DEF ConnectedBlocks
    <3>2. \A b \in Block : b \in C <=> \E v \in Adj(u) : p[v] = b
      BY DEF ConnectedBlocks
    <3> QED BY <3>1, <3>2, ConnPositive
  <2> HIDE DEF c, n, C
  <2>6. {c[i].id : i \in 1 .. n} = C
    <3>1. ASSUME NEW i \in 1 .. n PROVE c[i].id \in C
      <4>1. ConnWeight(p, u, c[i].id) > 0
        BY <2>2, <2>4
      <4> QED BY <2>2, <2>5, <4>1
    <3>2. ASSUME NEW b \in C PROVE \E i \in 1 .. n : c[i].id = b
      BY <2>1, <2>3, <2>5
    <3> QED BY <3>1, <3>2
  <2>7. {ids[i] : i \in 1 .. n} = C
    BY <2>6
  <2>8. \A i, j \in 1 .. n : ids[i] = ids[j] => i = j
    BY <2>1
  <2> HIDE DEF ids
  <2>9. Cardinality(C) = n
    <3>0. n \in Nat
      BY <2>1
    <3>1. Cardinality({ids[i] : i \in 1 .. n}) = n
      BY <2>8, <3>0, EnumeratedSize
    <3>2. Cardinality({ids[i] : i \in 1 .. n}) = Cardinality(C)
      BY <2>7, Zenon
    <3> QED BY <3>1, <3>2
  <2>10. n <= SlotsOf(u)
    <3>1. Cardinality(C) <= Cardinality(Block)
      BY <2>5, GraphAssumption, FS_Subset
    <3>2. Cardinality(C) <= Cardinality(Adj(u))
      <4> DEFINE f == [v \in Adj(u) |-> p[v]]
      <4>1. f \in Surjection(Adj(u), C)
        BY DEF Surjection, C, ConnectedBlocks
      <4> QED BY <4>1, Neighbourhoods, FS_Surjection
    <3> QED BY <2>9, <3>1, <3>2 DEF SlotsOf
  <2> QED BY <2>1, <2>4, <2>6, <2>9, <2>10 DEF c, n, C
<1> QED BY <1>1, <1>2 DEF CorrectBlockConn

-----------------------------------------------------------------------------
(* Loops over listings, and block_conn computed from the partition.         *)

(* A sequence that lists a set, each element once, and the elements at a    *)
(* set of indices: those that a fold over the sequence has visited.         *)
IsListing(l, S) ==
  /\ l \in Seq(S)
  /\ \A i, j \in 1 .. Len(l) : l[i] = l[j] => i = j
  /\ \A x \in S : \E i \in 1 .. Len(l) : l[i] = x

Visited(l, s) == {l[i] : i \in s}
LastVisited(l, s) == l[Max(s)]

(* All vertices and all neighbours are visited, each once.                  *)
LEMMA Listings ==
  /\ IsListing(AllVertices, Vertex)
  /\ \A u \in Vertex : IsListing(AdjOrder[u], Adj(u))
<1>1. \A u \in Vertex : IsListing(AdjOrder[u], Adj(u))
  BY AdjacencyOrder DEF IsListing
<1>2. Vertex \subseteq Int /\ IsFiniteSet(Vertex)
  BY GraphAssumption
<1>3. /\ Cardinality(Vertex) \in Nat
      /\ AllVertices \in Seq(Vertex)
      /\ Len(AllVertices) = Cardinality(Vertex)
      /\ \A i, j \in 1 .. Cardinality(Vertex) : AllVertices[i] = AllVertices[j] => i = j
      /\ \A x \in Vertex : \E i \in 1 .. Cardinality(Vertex) : AllVertices[i] = x
  BY <1>2, AscendingLists DEF AllVertices
<1> QED BY <1>1, <1>3 DEF IsListing

(* The folds below go through the indices of a listing; s stands for those  *)
(* done.                                                                    *)
LEMMA VisitOrder ==
  ASSUME NEW l, NEW S, IsListing(l, S)
  PROVE  /\ Len(l) \in Nat /\ DOMAIN l = 1 .. Len(l)
         /\ Indices(Len(l)) = SUBSET (DOMAIN l)
         /\ {} \in Indices(Len(l)) /\ DOMAIN l \in Indices(Len(l))
         /\ Visited(l, {}) = {} /\ Visited(l, DOMAIN l) = S
         /\ \A s \in Indices(Len(l)) : Visited(l, s) \subseteq S
         /\ \A s \in Indices(Len(l)) : s # {} =>
              /\ Earlier(s) \in Indices(Len(l))
              /\ LastVisited(l, s) \in S
              /\ LastVisited(l, s) \notin Visited(l, Earlier(s))
              /\ Visited(l, s) = Visited(l, Earlier(s)) \cup {LastVisited(l, s)}
<1> DEFINE n == Len(l)
<1>1. /\ l \in Seq(S) /\ n \in Nat /\ DOMAIN l = 1 .. n
      /\ \A i \in 1 .. n : l[i] \in S
      /\ \A i, j \in 1 .. n : l[i] = l[j] => i = j
      /\ \A x \in S : \E i \in 1 .. n : l[i] = x
  BY DEF IsListing
<1> HIDE DEF n
<1>2. Indices(n) = SUBSET (1 .. n)
  BY DEF Indices
<1>3. \A s \in Indices(n) : Visited(l, s) \subseteq S
  BY <1>1, <1>2 DEF Visited
<1>4. Visited(l, {}) = {}
  BY DEF Visited
<1>5. Visited(l, 1 .. n) = S
  BY <1>1 DEF Visited
<1>6. ASSUME NEW s \in Indices(n), s # {}
      PROVE  /\ Earlier(s) \in Indices(n)
             /\ LastVisited(l, s) \in S
             /\ LastVisited(l, s) \notin Visited(l, Earlier(s))
             /\ Visited(l, s) = Visited(l, Earlier(s)) \cup {LastVisited(l, s)}
  <2>1. Max(s) \in s /\ Max(s) \in 1 .. n /\ Earlier(s) \in Indices(n)
    BY <1>1, <1>6, LastIndex
  <2>2. LastVisited(l, s) \in S
    BY <1>1, <2>1 DEF LastVisited
  <2>3. Visited(l, s) = Visited(l, Earlier(s)) \cup {LastVisited(l, s)}
    BY <2>1 DEF Visited, Earlier, LastVisited
  <2>4. LastVisited(l, s) \notin Visited(l, Earlier(s))
    BY <1>1, <1>2, <2>1 DEF Visited, Earlier, LastVisited
  <2> QED BY <2>1, <2>2, <2>3, <2>4
<1> QED BY <1>1, <1>2, <1>3, <1>4, <1>5, <1>6 DEF n

-----------------------------------------------------------------------------
(* The slots computed from scratch.                                         *)
LEMMA SlotsFromScratch ==
  ASSUME NEW p \in [Vertex -> Block], NEW u \in Vertex
  PROVE  Represents(FoldLeft(LAMBDA c, v : BcAdd(c, p[v], EdgeWeight[u][v]), <<>>, AdjOrder[u]),
                    Conns(p, u))
<1> DEFINE l == AdjOrder[u]
           n == Len(l)
           dom == DOMAIN l
           A(h) == [s \in SUBSET dom |->
                      IF s = {} THEN <<>>
                      ELSE BcAdd(h[s \ {Max(s)}], p[l[Max(s)]],
                                 EdgeWeight[u][l[Max(s)]])]
           iter == CHOOSE h : h = A(h)
           So(s) == [b \in Block |->
                       SumFunctionOnSet(EdgeWeight[u], Visited(l, s) \cap Members(p, b))]
           X == [s \in Indices(n) |-> {c \in Seq(Entries) : Represents(c, So(s))}]
           Body == [s \in Indices(n) |-> [c \in X[Earlier(s)] |->
                      BcAdd(c, p[LastVisited(l, s)], EdgeWeight[u][LastVisited(l, s)])]]
<1>0. FoldLeft(LAMBDA c, v : BcAdd(c, p[v], EdgeWeight[u][v]), <<>>, AdjOrder[u]) = iter[dom]
  BY DEF FoldLeft, MapThenFoldSet
<1>1. /\ n \in Nat /\ dom = 1 .. n
      /\ Indices(n) = SUBSET dom /\ {} \in Indices(n) /\ dom \in Indices(n)
      /\ Visited(l, {}) = {} /\ Visited(l, dom) = Adj(u)
      /\ \A s \in Indices(n) : Visited(l, s) \subseteq Adj(u)
      /\ \A s \in Indices(n) : s # {} =>
           /\ Earlier(s) \in Indices(n)
           /\ LastVisited(l, s) \in Adj(u)
           /\ LastVisited(l, s) \notin Visited(l, Earlier(s))
           /\ Visited(l, s) = Visited(l, Earlier(s)) \cup {LastVisited(l, s)}
  BY Listings, VisitOrder
<1> HIDE DEF n, dom, l
<1>3. /\ Adj(u) \subseteq Vertex /\ IsFiniteSet(Adj(u))
      /\ \A v \in Adj(u) : EdgeWeight[u][v] \in Nat \ {0}
  BY Neighbourhoods
<1>4. Represents(<<>>, So({}))
  <2>1. \A b \in Block : So({})[b] = 0
    <3> SUFFICES ASSUME NEW b \in Block
                 PROVE  SumFunctionOnSet(EdgeWeight[u], Visited(l, {}) \cap Members(p, b)) = 0
      OBVIOUS
    <3>1. Visited(l, {}) \cap Members(p, b) = {}
      BY <1>1
    <3>2. SumFunctionOnSet(EdgeWeight[u], Visited(l, {}) \cap Members(p, b))
            = SumFunctionOnSet(EdgeWeight[u], {})
      BY <3>1, Zenon
    <3> QED BY <3>2, SumEmpty
  <2>2. So({}) \in [Block -> Nat]
    BY <2>1
  <2> HIDE DEF So
  <2> QED BY <2>1, <2>2 DEF Represents
<1>5. ASSUME NEW s \in Indices(n), s # {}, NEW c, Represents(c, So(Earlier(s)))
      PROVE  Represents(BcAdd(c, p[LastVisited(l, s)], EdgeWeight[u][LastVisited(l, s)]), So(s))
  <2> DEFINE v == LastVisited(l, s)
             E == Visited(l, Earlier(s))
             W == So(Earlier(s))
             w == EdgeWeight[u][v]
  <2>1. /\ v \in Adj(u) /\ v \in Vertex /\ v \notin E /\ Visited(l, s) = E \cup {v} /\ p[v] \in Block
        /\ E \subseteq Adj(u) /\ w \in Nat \ {0}
    BY <1>1, <1>3, <1>5
  <2>2. Represents(BcAdd(c, p[v], w), [W EXCEPT ![p[v]] = @ + w])
    BY <1>5, <2>1, BcAddAdds
  <2>3. \A b \in Block : /\ W[b] = SumFunctionOnSet(EdgeWeight[u], E \cap Members(p, b))
                         /\ So(s)[b] = SumFunctionOnSet(EdgeWeight[u], Visited(l, s) \cap Members(p, b))
    OBVIOUS
  <2>4. So(s) = [b \in Block |-> So(s)[b]] /\ W \in [Block -> Nat]
    BY <1>5 DEF Represents
  <2> HIDE DEF v, E, W, w, So
  <2>5. ASSUME NEW b \in Block PROVE So(s)[b] = IF b = p[v] THEN W[b] + w ELSE W[b]
    <3> DEFINE S == E \cap Members(p, b)
               T == Visited(l, s) \cap Members(p, b)
    <3>1. S \in SUBSET Adj(u)
      BY <2>1
    <3>2. IsFiniteSet(S) /\ v \notin S /\ \A x \in S \cup {v} : EdgeWeight[u][x] \in Int
      <4>1. IsFiniteSet(S)
        BY <1>3, <3>1, FS_Subset
      <4>2. \A x \in S \cup {v} : EdgeWeight[u][x] \in Int
        BY <1>3, <2>1, <3>1
      <4> QED BY <2>1, <4>1, <4>2
    <3>3. CASE b = p[v]
      <4>1. T = S \cup {v}
        BY <2>1, <3>3 DEF Members
      <4>2. SumFunctionOnSet(EdgeWeight[u], S \cup {v})
              = EdgeWeight[u][v] + SumFunctionOnSet(EdgeWeight[u], S)
        <5> HIDE DEF S
        <5> QED BY <3>2, SumAdd
      <4>3. SumFunctionOnSet(EdgeWeight[u], T) = SumFunctionOnSet(EdgeWeight[u], S \cup {v})
        BY <4>1, Zenon
      <4>4. w = EdgeWeight[u][v] /\ w \in Nat /\ W[b] \in Nat
        BY <2>1, <2>4 DEF w
      <4> QED BY <2>3, <3>3, <4>2, <4>3, <4>4
    <3>4. CASE b # p[v]
      <4>1. T = S
        BY <2>1, <3>4 DEF Members
      <4>2. SumFunctionOnSet(EdgeWeight[u], T) = SumFunctionOnSet(EdgeWeight[u], S)
        BY <4>1, Zenon
      <4> QED BY <2>3, <3>4, <4>2
    <3> QED BY <3>3, <3>4
  <2>6. So(s) = [W EXCEPT ![p[v]] = @ + w]
    BY <2>1, <2>4, <2>5
  <2> QED BY <2>2, <2>6 DEF v, w
<1> HIDE DEF So
<1>6. StaysIn(X, Body, <<>>, n)
  <2>1. <<>> \in X[{}]
    BY <1>1, <1>4
  <2>2. ASSUME NEW s \in Indices(n), s # {}, NEW c \in X[Earlier(s)] PROVE Body[s][c] \in X[s]
    <3>1. Earlier(s) \in Indices(n) /\ Represents(c, So(Earlier(s)))
      BY <1>1, <2>2
    <3>2. Body[s][c] = BcAdd(c, p[LastVisited(l, s)], EdgeWeight[u][LastVisited(l, s)])
      OBVIOUS
    <3>3. Represents(Body[s][c], So(s))
      BY SMTT(40), <1>5, <2>2, <3>1, <3>2
    <3>4. Body[s][c] \in Seq(Entries)
      BY <3>3 DEF Represents
    <3> HIDE DEF Body
    <3> QED BY <3>3, <3>4
  <2> QED BY <2>1, <2>2 DEF StaysIn
<1>7. PICK g : IsFold(g, Body, <<>>, n)
  BY <1>1, FoldExists
<1>8. \A s \in Indices(n) : g[s] \in X[s]
  <2> HIDE DEF X, Body
  <2> QED BY <1>1, <1>6, <1>7, FoldReaches
<1>9. g = A(g)
  <2>1. ASSUME NEW s \in Indices(n), s # {}
        PROVE  g[s] = BcAdd(g[s \ {Max(s)}], p[l[Max(s)]],
                            EdgeWeight[u][l[Max(s)]])
    <3>1. g[s] = Body[s][g[Earlier(s)]]
      BY <1>7, <2>1 DEF IsFold
    <3>2. g[Earlier(s)] \in X[Earlier(s)]
      BY <1>1, <1>8, <2>1
    <3> HIDE DEF X
    <3>3. g[s] = BcAdd(g[Earlier(s)], p[LastVisited(l, s)], EdgeWeight[u][LastVisited(l, s)])
      BY <3>1, <3>2
    <3> QED BY <3>3 DEF Earlier, LastVisited
  <2>2. g = [s \in Indices(n) |-> g[s]] /\ g[{}] = <<>>
    BY <1>7 DEF IsFold
  <2>3. \A s \in Indices(n) : g[s] = IF s = {} THEN <<>>
                      ELSE BcAdd(g[s \ {Max(s)}], p[l[Max(s)]],
                                 EdgeWeight[u][l[Max(s)]])
    BY <2>1, <2>2
  <2> QED BY <1>1, <2>2, <2>3
<1>10. iter = A(iter)
  BY <1>9
<1> HIDE DEF iter
<1>11. iter[{}] = <<>>
  BY <1>1, <1>10
<1>12. \A s \in Indices(n) : s # {} =>
         iter[s] = BcAdd(iter[Earlier(s)], p[LastVisited(l, s)], EdgeWeight[u][LastVisited(l, s)])
  BY <1>1, <1>10 DEF Earlier, LastVisited
<1> DEFINE Q == {s \in Indices(n) : Represents(iter[s], So(s))}
<1>13. {} \in Q
  BY <1>1, <1>4, <1>11
<1>14. ASSUME NEW s \in Indices(n), s # {}, Earlier(s) \in Q PROVE s \in Q
  BY <1>5, <1>12, <1>14
<1>15. \A s \in Indices(n) : s \in Q
  <2> HIDE DEF Q
  <2> QED BY <1>1, <1>13, <1>14, IndexInduction
<1>16. Represents(iter[dom], So(dom))
  BY <1>1, <1>15
<1>17. So(dom) = Conns(p, u)
  <2>1. \A b \in Block : SumFunctionOnSet(EdgeWeight[u], Visited(l, dom) \cap Members(p, b))
                         = ConnWeight(p, u, b)
    <3> SUFFICES ASSUME NEW b \in Block
                 PROVE  SumFunctionOnSet(EdgeWeight[u], Visited(l, dom) \cap Members(p, b))
                          = ConnWeight(p, u, b)
      OBVIOUS
    <3>1. Visited(l, dom) \cap Members(p, b) = Into(p, u, b)
      BY <1>1 DEF Into
    <3> QED BY <3>1, ConnIsSum
  <2> QED BY <2>1 DEF So, Conns
<1> QED BY <1>0, <1>16, <1>17

(* The connections are right when they are computed.                        *)
LEMMA BcFromScratchRight ==
  ASSUME NEW p \in [Vertex -> Block]
  PROVE  BcInv(p, BcFromScratch(p))
<1> SUFFICES ASSUME NEW u \in Vertex PROVE Represents(BcFromScratch(p)[u], Conns(p, u))
  BY DEF BcInv
<1> DEFINE c == FoldLeft(LAMBDA d, v : BcAdd(d, p[v], EdgeWeight[u][v]), <<>>, AdjOrder[u])
<1>1. BcFromScratch(p)[u] = c
  BY DEF BcFromScratch
<1>2. Represents(c, Conns(p, u))
  BY SlotsFromScratch
<1> QED BY <1>1, <1>2

-----------------------------------------------------------------------------
(* The communication cost.                                                  *)
LEMMA DistancesSymmetric ==
  ASSUME NEW a \in Block, NEW b \in Block
  PROVE  D[a][b] = D[b][a] /\ D[a][b] \in Nat
<1>1. {i \in DOMAIN Hierarchy : DetermineLoc(Hierarchy, a)[i] # DetermineLoc(Hierarchy, b)[i]}
        = {i \in DOMAIN Hierarchy : DetermineLoc(Hierarchy, b)[i] # DetermineLoc(Hierarchy, a)[i]}
  OBVIOUS
<1>2. MatrixLevel(Hierarchy, a, b) = MatrixLevel(Hierarchy, b, a)
  BY <1>1, Zenon DEF MatrixLevel
<1>3. MatrixDistance(Hierarchy, Distances, a, b) = MatrixDistance(Hierarchy, Distances, b, a)
  BY <1>2 DEF MatrixDistance
<1> QED BY <1>3, OracleAssumption

(* What one edge, seen from x, costs, and all edges of x.                   *)
Cell(p, x) == [v \in Vertex |-> EdgeWeight[x][v] * D[p[x]][p[v]]]
Row(p) == [x \in Vertex |-> SumFunctionOnSet(Cell(p, x), Vertex)]

(* One row of the sum that is the communication cost.                       *)
LEMMA RowIsSum ==
  ASSUME NEW p \in [Vertex -> Block], NEW x \in Vertex
  PROVE  /\ MapThenSumSet(LAMBDA v : EdgeWeight[x][v] * D[p[x]][p[v]], Adj(x)) = Row(p)[x]
         /\ Row(p)[x] \in Int
         /\ \A v \in Vertex : Cell(p, x)[v] \in Int
<1> DEFINE S == Adj(x)
           f == Cell(p, x)
           A(h) == [s \in SUBSET S |-> IF s = {} THEN 0 ELSE f[Pick(s)] + h[s \ {Pick(s)}]]
           B(h) == [s \in SUBSET S |-> IF s = {} THEN 0
                      ELSE EdgeWeight[x][Pick(s)] * D[p[x]][p[Pick(s)]] + h[s \ {Pick(s)}]]
<1>1. SumFunctionOnSet(f, S) = (CHOOSE h : h = A(h))[S]
  BY DEF SumFunctionOnSet, FoldFunctionOnSet, MapThenFoldSet, Pick
<1>2. MapThenSumSet(LAMBDA v : EdgeWeight[x][v] * D[p[x]][p[v]], S) = (CHOOSE h : h = B(h))[S]
  BY DEF MapThenSumSet, MapThenFoldSet, Pick
<1>3. \A s \in SUBSET S : s # {} => Pick(s) \in s
  BY DEF Pick
<1>4. S \subseteq Vertex
  BY Neighbourhoods
<1>5. \A h : A(h) = B(h)
  BY <1>3, <1>4 DEF Cell
<1> HIDE DEF A, B
<1>6. (CHOOSE h : h = A(h)) = (CHOOSE h : h = B(h))
  BY <1>5
<1>7. MapThenSumSet(LAMBDA v : EdgeWeight[x][v] * D[p[x]][p[v]], S) = SumFunctionOnSet(f, S)
  BY <1>1, <1>2, <1>6
<1>8. \A v \in Vertex : EdgeWeight[x][v] \in Nat /\ D[p[x]][p[v]] \in Nat
  BY Neighbourhoods, DistancesSymmetric
<1>9. \A v \in Vertex : f[v] \in Int
  BY <1>8 DEF Cell
<1>10. \A v \in Vertex \ S : f[v] = 0
  <2>1. \A v \in Vertex \ S : EdgeWeight[x][v] = 0
    BY <1>8 DEF Adj
  <2> QED BY <1>8, <2>1 DEF Cell
<1>11. SumFunctionOnSet(f, Vertex) = SumFunctionOnSet(f, S) /\ SumFunctionOnSet(f, Vertex) \in Int
  <2>1. S \in SUBSET Vertex /\ IsFiniteSet(Vertex)
    BY <1>4, GraphAssumption
  <2> HIDE DEF f, S
  <2> QED BY <1>9, <1>10, <2>1, SumRestrict, SumType
<1> QED BY <1>7, <1>9, <1>11 DEF Row

(* get_qap adds up the rows.                                                *)
LEMMA QapIsSum ==
  ASSUME NEW p \in [Vertex -> Block]
  PROVE  Qap(p) = SumFunctionOnSet(Row(p), Vertex)
<1> DEFINE n == Len(AllVertices)
           R(x) == MapThenSumSet(LAMBDA v : EdgeWeight[x][v] * D[p[x]][p[v]], Adj(x))
           A(h) == [i \in 0 .. n |-> IF i = 0 THEN 0 ELSE h[i - 1] + R(AllVertices[i])]
           iter == CHOOSE h : h = A(h)
           First(i) == {AllVertices[j] : j \in 1 .. i}
           g == [i \in 0 .. n |-> SumFunctionOnSet(Row(p), First(i))]
<1>1. Qap(p) = iter[n]
  BY DEF Qap
<1>2. /\ n \in Nat
      /\ \A i \in 1 .. n : AllVertices[i] \in Vertex
      /\ \A i, j \in 1 .. n : AllVertices[i] = AllVertices[j] => i = j
      /\ \A x \in Vertex : \E i \in 1 .. n : AllVertices[i] = x
  <2>1. Vertex \subseteq Int /\ IsFiniteSet(Vertex)
    BY GraphAssumption
  <2>2. /\ Cardinality(Vertex) \in Nat
        /\ AllVertices \in Seq(Vertex)
        /\ Len(AllVertices) = Cardinality(Vertex)
        /\ \A i, j \in 1 .. Cardinality(Vertex) : AllVertices[i] = AllVertices[j] => i = j
        /\ \A x \in Vertex : \E i \in 1 .. Cardinality(Vertex) : AllVertices[i] = x
    BY <2>1, AscendingLists DEF AllVertices
  <2> QED BY <2>2
<1> HIDE DEF n, R
<1>3. \A x \in Vertex : R(x) = Row(p)[x] /\ Row(p)[x] \in Int
  BY RowIsSum DEF R
<1>4. \A i \in 0 .. n : First(i) \in SUBSET Vertex /\ IsFiniteSet(First(i))
  <2>1. \A i \in 0 .. n : First(i) \in SUBSET Vertex
    BY <1>2
  <2> HIDE DEF First
  <2> QED BY <2>1, GraphAssumption, FS_Subset
<1>5. ASSUME NEW i \in 1 .. n
      PROVE  SumFunctionOnSet(Row(p), First(i))
               = SumFunctionOnSet(Row(p), First(i - 1)) + R(AllVertices[i])
  <2> DEFINE x == AllVertices[i]
  <2>1. x \in Vertex /\ First(i) = First(i - 1) \cup {x} /\ x \notin First(i - 1) /\ i - 1 \in 0 .. n
    BY <1>2
  <2>2. /\ \A y \in First(i - 1) \cup {x} : Row(p)[y] \in Int
        /\ IsFiniteSet(First(i - 1)) /\ SumFunctionOnSet(Row(p), First(i - 1)) \in Int
    BY <1>3, <1>4, <2>1, SumType
  <2> HIDE DEF First, x
  <2>3. SumFunctionOnSet(Row(p), First(i - 1) \cup {x}) = Row(p)[x] + SumFunctionOnSet(Row(p), First(i - 1))
    BY <2>1, <2>2, SumAdd
  <2>4. SumFunctionOnSet(Row(p), First(i)) = SumFunctionOnSet(Row(p), First(i - 1) \cup {x})
    BY <2>1, Zenon
  <2>5. Row(p)[x] = R(x) /\ Row(p)[x] \in Int
    BY <1>3, <2>1
  <2>6. SumFunctionOnSet(Row(p), First(i)) = SumFunctionOnSet(Row(p), First(i - 1)) + R(x)
    BY <2>2, <2>3, <2>4, <2>5
  <2> QED BY <2>6 DEF x
<1>6. First(0) = {}
  BY <1>2
<1>7. SumFunctionOnSet(Row(p), First(0)) = 0
  <2>1. SumFunctionOnSet(Row(p), First(0)) = SumFunctionOnSet(Row(p), {})
    BY <1>6, Zenon
  <2> QED BY <2>1, SumEmpty
<1>8. First(n) = Vertex
  BY <1>2
<1> HIDE DEF First
<1>9. g = A(g)
  <2>1. \A i \in 0 .. n : g[i] = IF i = 0 THEN 0 ELSE g[i - 1] + R(AllVertices[i])
    <3> SUFFICES ASSUME NEW i \in 0 .. n
                 PROVE  g[i] = IF i = 0 THEN 0 ELSE g[i - 1] + R(AllVertices[i])
      OBVIOUS
    <3>1. CASE i = 0
      BY <1>7, <3>1
    <3>2. CASE i # 0
      <4>1. i \in 1 .. n /\ i - 1 \in 0 .. n
        BY <1>2, <3>2
      <4> QED BY <1>5, <3>2, <4>1
    <3> QED BY <3>1, <3>2
  <2> QED BY <2>1
<1>10. iter = A(iter)
  BY <1>9
<1> HIDE DEF iter
<1>11. \A i \in 0 .. n : iter[i] = IF i = 0 THEN 0 ELSE iter[i - 1] + R(AllVertices[i])
  BY <1>10
<1> DEFINE Q == {i \in Nat : i <= n => iter[i] = SumFunctionOnSet(Row(p), First(i))}
<1>12. 0 \in Q
  BY <1>2, <1>7, <1>11
<1>13. ASSUME NEW i \in Nat, i \in Q PROVE i + 1 \in Q
  <2> SUFFICES ASSUME i + 1 <= n PROVE iter[i + 1] = SumFunctionOnSet(Row(p), First(i + 1))
    OBVIOUS
  <2>1. i + 1 \in 1 .. n /\ i + 1 \in 0 .. n /\ i + 1 # 0 /\ (i + 1) - 1 = i /\ i <= n
    BY <1>2
  <2>2. iter[i + 1] = iter[i] + R(AllVertices[i + 1])
    BY <1>11, <2>1
  <2>3. iter[i] = SumFunctionOnSet(Row(p), First(i))
    BY <1>13, <2>1
  <2>4. SumFunctionOnSet(Row(p), First(i + 1)) = SumFunctionOnSet(Row(p), First(i)) + R(AllVertices[i + 1])
    BY <1>5, <2>1
  <2> QED BY <2>2, <2>3, <2>4
<1>14. \A i \in Nat : i \in Q
  <2> HIDE DEF Q
  <2> QED BY <1>12, <1>13, NatSetInduction
<1>15. iter[n] = SumFunctionOnSet(Row(p), First(n))
  BY <1>2, <1>14
<1> QED BY <1>1, <1>8, <1>15

-----------------------------------------------------------------------------
(* The communication cost, and its fall when a vertex moves.                *)

(* By how much the edges of u get cheaper when u moves to new.              *)
EdgeGain(p, u, new) == [v \in Vertex |-> EdgeWeight[u][v] * (D[p[v]][p[u]] - D[p[v]][new])]
CostFall(p, u, new) == SumFunctionOnSet(EdgeGain(p, u, new), Vertex)

(* The fall of the cost is an integer.                                      *)
LEMMA CostFallType ==
  ASSUME NEW p \in [Vertex -> Block], NEW u \in Vertex, NEW new \in Block
  PROVE  CostFall(p, u, new) \in Int /\ \A v \in Vertex : EdgeGain(p, u, new)[v] \in Int
<1>1. \A v \in Vertex : EdgeWeight[u][v] \in Int /\ D[p[v]][p[u]] \in Int /\ D[p[v]][new] \in Int
  BY Neighbourhoods, DistancesSymmetric
<1>2. \A v \in Vertex : EdgeGain(p, u, new)[v] \in Int
  BY <1>1 DEF EdgeGain
<1> HIDE DEF EdgeGain
<1> QED BY <1>2, GraphAssumption, SumType DEF CostFall

(* The cost of the whole mapping falls by twice as much: get_qap counts     *)
(* every edge from both of its ends.                                        *)
LEMMA QapMoved ==
  ASSUME NEW p \in [Vertex -> Block], NEW u \in Vertex, NEW new \in Block, p[u] # new
  PROVE  Qap(Moved(p, u, new)) = Qap(p) - 2 * CostFall(p, u, new)
<1> DEFINE m == Moved(p, u, new)
           old == p[u]
           g == EdgeGain(p, u, new)
           G == CostFall(p, u, new)
           r == Row(p)
           t == Row(m)
           minus == [x \in Vertex |-> (-1) * g[x]]
           both == [x \in Vertex |-> r[x] + minus[x]]
<1>1. /\ m \in [Vertex -> Block] /\ m[u] = new /\ old \in Block /\ old # new
      /\ \A v \in Vertex \ {u} : m[v] = p[v]
  BY MembersMoved
<1>2. G \in Int /\ \A v \in Vertex : g[v] \in Int
  BY CostFallType
<1>3. /\ \A x \in Vertex : r[x] \in Int /\ t[x] \in Int
      /\ \A x, v \in Vertex : Cell(p, x)[v] \in Int /\ Cell(m, x)[v] \in Int
  BY <1>1, RowIsSum
<1>4. IsFiniteSet(Vertex)
  BY GraphAssumption
<1>5. /\ \A a, b \in Block : D[a][b] = D[b][a] /\ D[a][b] \in Nat
      /\ \A x, y \in Vertex : EdgeWeight[x][y] \in Nat /\ EdgeWeight[x][y] = EdgeWeight[y][x]
      /\ EdgeWeight[u][u] = 0
      /\ \A v \in Vertex : p[v] \in Block
  <2>1. \A x, y \in Vertex : EdgeWeight[x][y] \in Nat
    BY GraphAssumption
  <2> QED BY <2>1, DistancesSymmetric, GraphAssumption
<1>6. \A v \in Vertex : g[v] = EdgeWeight[u][v] * (D[p[v]][old] - D[p[v]][new])
  BY DEF EdgeGain
<1>7. /\ \A x, v \in Vertex : Cell(p, x)[v] = EdgeWeight[x][v] * D[p[x]][p[v]]
      /\ \A x, v \in Vertex : Cell(m, x)[v] = EdgeWeight[x][v] * D[m[x]][m[v]]
  BY DEF Cell
<1>8. /\ \A x \in Vertex : r[x] = SumFunctionOnSet(Cell(p, x), Vertex)
      /\ \A x \in Vertex : t[x] = SumFunctionOnSet(Cell(m, x), Vertex)
  BY DEF Row
<1>9. G = SumFunctionOnSet(g, Vertex)
  BY DEF CostFall
<1>10. \A x \in Vertex : minus[x] = (-1) * g[x]
  OBVIOUS
<1>11. \A x \in Vertex : both[x] = r[x] + minus[x]
  OBVIOUS
<1> HIDE DEF m, old, g, G, r, t, minus, both
<1>12. SumFunctionOnSet(minus, Vertex) = (-1) * G
  BY <1>2, <1>4, <1>9, <1>10, SumScale
<1>13. \A x \in Vertex : minus[x] \in Int
  BY <1>2, <1>10
<1>14. SumFunctionOnSet(both, Vertex) = SumFunctionOnSet(r, Vertex) + SumFunctionOnSet(minus, Vertex)
  BY <1>3, <1>4, <1>11, <1>13, SumPlus
(* The row of u itself.                                                     *)
<1>15. t[u] = r[u] - G
  <2> DEFINE a == Cell(p, u)
             b == Cell(m, u)
  <2>1. \A v \in Vertex : b[v] = a[v] + minus[v]
    <3> SUFFICES ASSUME NEW v \in Vertex PROVE b[v] = a[v] + minus[v]
      OBVIOUS
    <3>1. CASE v = u
      <4>1. EdgeWeight[u][v] = 0
        BY <1>5, <3>1
      <4>2. D[m[u]][m[v]] \in Int /\ D[p[u]][p[v]] \in Int /\ D[p[v]][old] - D[p[v]][new] \in Int
        BY <1>1, <1>5
      <4>3. b[v] = 0 /\ a[v] = 0 /\ g[v] = 0
        BY <1>6, <1>7, <4>1, <4>2
      <4> QED BY <1>10, <4>3
    <3>2. CASE v # u
      <4> DEFINE w == EdgeWeight[u][v]
                 d == D[p[v]][old]
                 e == D[p[v]][new]
      <4>1. w \in Int /\ d \in Int /\ e \in Int
        BY <1>1, <1>5
      <4>2. a[v] = w * d
        BY <1>1, <1>5, <1>7 DEF old
      <4>3. b[v] = w * e
        BY <1>1, <1>5, <1>7, <3>2
      <4>4. minus[v] = (-1) * (w * (d - e))
        BY <1>6, <1>10
      <4> HIDE DEF w, d, e
      <4>5. w * (d - e) = w * d - w * e /\ w * d \in Int /\ w * e \in Int
        BY <4>1
      <4> HIDE DEF a, b
      <4> QED BY <4>2, <4>3, <4>4, <4>5
    <3> QED BY <3>1, <3>2
  <2>2. \A v \in Vertex : a[v] \in Int
    BY <1>3
  <2>3. r[u] = SumFunctionOnSet(a, Vertex) /\ t[u] = SumFunctionOnSet(b, Vertex)
    BY <1>8
  <2> HIDE DEF a, b
  <2>4. SumFunctionOnSet(b, Vertex) = SumFunctionOnSet(a, Vertex) + SumFunctionOnSet(minus, Vertex)
    BY <1>4, <1>13, <2>1, <2>2, SumPlus
  <2> QED BY <1>2, <1>3, <1>12, <2>3, <2>4
(* The row of any other vertex changes in the column of u only.             *)
<1>16. ASSUME NEW x \in Vertex \ {u} PROVE t[x] = both[x]
  <2> DEFINE a == Cell(p, x)
             b == Cell(m, x)
  <2>1. \A v \in Vertex \ {u} : a[v] = b[v]
    BY <1>1, <1>7
  <2>2. \A v \in Vertex : a[v] \in Int /\ b[v] \in Int
    BY <1>3
  <2>3. r[x] = SumFunctionOnSet(a, Vertex) /\ t[x] = SumFunctionOnSet(b, Vertex)
    BY <1>8
  <2>4. b[u] = a[u] + minus[x]
    <3> DEFINE w == EdgeWeight[u][x]
               d == D[p[x]][old]
               e == D[p[x]][new]
    <3>1. w \in Int /\ d \in Int /\ e \in Int /\ EdgeWeight[x][u] = w
      BY <1>1, <1>5
    <3>2. a[u] = w * d
      BY <1>7, <3>1 DEF old
    <3>3. b[u] = w * e
      BY <1>1, <1>7, <3>1
    <3>4. minus[x] = (-1) * (w * (d - e))
      BY <1>6, <1>10
    <3> HIDE DEF w, d, e
    <3>5. w * (d - e) = w * d - w * e /\ w * d \in Int /\ w * e \in Int
      BY <3>1
    <3> HIDE DEF a, b
    <3> QED BY <3>2, <3>3, <3>4, <3>5
  <2> HIDE DEF a, b
  <2>5. SumFunctionOnSet(b, Vertex) = SumFunctionOnSet(a, Vertex) - a[u] + b[u]
    BY <1>4, <2>1, <2>2, SumUpdate
  <2> QED BY <1>3, <1>11, <1>13, <2>2, <2>3, <2>4, <2>5
<1>17. \A x \in Vertex : both[x] \in Int
  BY <1>3, <1>11, <1>13
<1>18. SumFunctionOnSet(t, Vertex) = SumFunctionOnSet(both, Vertex) - both[u] + t[u]
  BY <1>3, <1>4, <1>16, <1>17, SumUpdate
<1>19. minus[u] = 0
  <2>1. D[p[u]][old] - D[p[u]][new] \in Int
    BY <1>1, <1>5
  <2>2. g[u] = 0
    BY <1>5, <1>6, <2>1
  <2> QED BY <1>10, <2>2
<1>20. SumFunctionOnSet(r, Vertex) \in Int
  BY <1>3, <1>4, SumType
<1>21. SumFunctionOnSet(t, Vertex) = SumFunctionOnSet(r, Vertex) - 2 * G
  BY <1>2, <1>3, <1>11, <1>12, <1>14, <1>15, <1>18, <1>19, <1>20
<1>22. Qap(p) = SumFunctionOnSet(r, Vertex) /\ Qap(m) = SumFunctionOnSet(t, Vertex)
  BY <1>1, QapIsSum DEF r, t
<1> QED BY <1>21, <1>22 DEF m, G

(* get_u_qap_delta_t computes just that from the slots of u.                *)
LEMMA GainFromSlots ==
  ASSUME NEW p \in [Vertex -> Block], NEW u \in Vertex, Represents(conn[u], Conns(p, u)),
         NEW new \in Block
  PROVE  QapDelta(u, p[u], new) = CostFall(p, u, new)
<1> DEFINE c == conn[u]
           n == Len(c)
           old == p[u]
           g == EdgeGain(p, u, new)
           A(h) == [i \in 0 .. n |-> IF i = 0 THEN 0
                      ELSE h[i - 1] + (D[c[i].id][old] - D[c[i].id][new]) * c[i].w]
           iter == CHOOSE h : h = A(h)
           Met(i) == {v \in Adj(u) : \E j \in 1 .. i : p[v] = c[j].id}
           s == [i \in 0 .. n |-> SumFunctionOnSet(g, Met(i))]
<1>1. QapDelta(u, p[u], new) = iter[n]
  BY DEF QapDelta
<1>2. /\ n \in Nat
      /\ \A i \in 1 .. n : c[i] \in Entries
      /\ \A i, j \in 1 .. n : c[i].id = c[j].id => i = j
      /\ \A i \in 1 .. n : c[i].w = Conns(p, u)[c[i].id]
      /\ \A x \in Block : Conns(p, u)[x] > 0 => \E i \in 1 .. n : c[i].id = x
  BY EntriesRepresented
<1>3. \A i \in 1 .. n : c[i].id \in Block /\ c[i].w = ConnWeight(p, u, c[i].id)
  BY <1>2 DEF Entries, Conns
<1>4. \A v \in Adj(u) : \E i \in 1 .. n : p[v] = c[i].id
  <2> SUFFICES ASSUME NEW v \in Adj(u) PROVE \E i \in 1 .. n : p[v] = c[i].id
    OBVIOUS
  <2>1. p[v] \in Block
    BY Neighbourhoods
  <2>2. ConnWeight(p, u, p[v]) > 0
    BY <2>1, ConnPositive
  <2> QED BY <1>2, <2>1, <2>2 DEF Conns
<1>5. \A v \in Vertex : g[v] \in Int /\ g[v] = EdgeWeight[u][v] * (D[p[v]][old] - D[p[v]][new])
  BY CostFallType DEF EdgeGain
<1>6. Adj(u) \subseteq Vertex /\ IsFiniteSet(Adj(u)) /\ old \in Block
  BY Neighbourhoods
<1>7. CostFall(p, u, new) = SumFunctionOnSet(g, Vertex)
  BY DEF CostFall
<1> HIDE DEF c, n, g, old
<1>8. \A i \in 0 .. n : Met(i) \in SUBSET Adj(u) /\ Met(i) \subseteq Vertex
  BY <1>6
<1>9. Met(0) = {} /\ Met(n) = Adj(u)
  BY <1>2, <1>4
<1>10. ASSUME NEW i \in 1 .. n
       PROVE  SumFunctionOnSet(g, Met(i))
                = SumFunctionOnSet(g, Met(i - 1)) + (D[c[i].id][old] - D[c[i].id][new]) * c[i].w
  <2> DEFINE b == c[i].id
             d == D[b][old] - D[b][new]
             I == Into(p, u, b)
  <2>1. i - 1 \in 0 .. n /\ i \in 0 .. n /\ b \in Block
    BY <1>2, <1>3
  <2>2. d \in Int
    BY <1>6, <2>1, DistancesSymmetric
  <2>3. Met(i) = Met(i - 1) \cup I
    <3>1. \A v \in Adj(u) : v \in I <=> p[v] = b
      BY <1>6 DEF Into, Members
    <3>2. I \subseteq Adj(u)
      BY DEF Into
    <3> HIDE DEF I
    <3>3. \A v \in Adj(u) : (\E j \in 1 .. i : p[v] = c[j].id)
                              <=> (\E j \in 1 .. i - 1 : p[v] = c[j].id) \/ p[v] = b
      <4>1. 1 .. i = (1 .. i - 1) \cup {i}
        BY <1>2
      <4> QED BY <4>1
    <3> QED BY <3>1, <3>2, <3>3
  <2>4. Met(i - 1) \cap I = {}
    <3> SUFFICES ASSUME NEW v \in I, NEW j \in 1 .. i - 1, p[v] = c[j].id PROVE FALSE
      OBVIOUS
    <3>1. p[v] = c[i].id
      BY DEF Into, Members
    <3>2. j \in 1 .. n /\ j # i
      BY <1>2
    <3> QED BY <1>2, <3>1, <3>2
  <2>5. /\ ConnWeight(p, u, b) = SumFunctionOnSet(EdgeWeight[u], I)
        /\ I \subseteq Adj(u) /\ IsFiniteSet(I)
        /\ \A v \in I : EdgeWeight[u][v] \in Nat \ {0}
        /\ ConnWeight(p, u, b) \in Nat
    BY ConnIsSum
  <2>6. \A v \in I : g[v] = d * EdgeWeight[u][v]
    <3> SUFFICES ASSUME NEW v \in I PROVE g[v] = d * EdgeWeight[u][v]
      OBVIOUS
    <3>1. v \in Vertex /\ p[v] = b
      BY DEF Into, Members
    <3>2. g[v] = EdgeWeight[u][v] * d /\ EdgeWeight[u][v] \in Int
      BY <1>5, <2>5, <3>1
    <3> HIDE DEF d
    <3> QED BY <2>2, <3>2
  <2> HIDE DEF I, d
  <2>7. SumFunctionOnSet(g, I) = d * SumFunctionOnSet(EdgeWeight[u], I)
    BY <2>2, <2>5, <2>6, SumScale
  <2>8. IsFiniteSet(Met(i - 1))
    BY <1>6, <1>8, <2>1, FS_Subset
  <2>9. SumFunctionOnSet(g, Met(i - 1) \cup I) = SumFunctionOnSet(g, Met(i - 1)) + SumFunctionOnSet(g, I)
    <3>1. \A v \in Met(i - 1) \cup I : g[v] \in Int
      BY <1>5, <1>6, <2>5
    <3> HIDE DEF Met
    <3> QED BY <2>4, <2>5, <2>8, <3>1, SumUnion
  <2>10. SumFunctionOnSet(g, Met(i)) = SumFunctionOnSet(g, Met(i - 1) \cup I)
    BY <2>3, Zenon
  <2>11. SumFunctionOnSet(g, I) = d * c[i].w
    BY <1>3, <2>5, <2>7
  <2> QED BY <2>9, <2>10, <2>11 DEF d
<1>11. SumFunctionOnSet(g, Met(0)) = 0
  <2>1. SumFunctionOnSet(g, Met(0)) = SumFunctionOnSet(g, {})
    BY <1>9, Zenon
  <2> QED BY <2>1, SumEmpty
<1> HIDE DEF Met
<1>12. s = A(s)
  <2>1. \A i \in 0 .. n : s[i] = IF i = 0 THEN 0
                      ELSE s[i - 1] + (D[c[i].id][old] - D[c[i].id][new]) * c[i].w
    <3> SUFFICES ASSUME NEW i \in 0 .. n
                 PROVE  s[i] = IF i = 0 THEN 0
                      ELSE s[i - 1] + (D[c[i].id][old] - D[c[i].id][new]) * c[i].w
      OBVIOUS
    <3>1. CASE i = 0
      BY <1>11, <3>1
    <3>2. CASE i # 0
      <4>1. i \in 1 .. n /\ i - 1 \in 0 .. n
        BY <1>2, <3>2
      <4> QED BY <1>10, <3>2, <4>1
    <3> QED BY <3>1, <3>2
  <2> QED BY <2>1
<1>13. iter = A(iter)
  BY <1>12
<1> HIDE DEF iter
<1>14. \A i \in 0 .. n : iter[i] = IF i = 0 THEN 0
                      ELSE iter[i - 1] + (D[c[i].id][old] - D[c[i].id][new]) * c[i].w
  BY <1>13
<1> DEFINE Q == {i \in Nat : i <= n => iter[i] = SumFunctionOnSet(g, Met(i))}
<1>15. 0 \in Q
  BY <1>2, <1>11, <1>14
<1>16. ASSUME NEW i \in Nat, i \in Q PROVE i + 1 \in Q
  <2> SUFFICES ASSUME i + 1 <= n PROVE iter[i + 1] = SumFunctionOnSet(g, Met(i + 1))
    OBVIOUS
  <2>1. i + 1 \in 1 .. n /\ i + 1 \in 0 .. n /\ i + 1 # 0 /\ (i + 1) - 1 = i /\ i <= n
    BY <1>2
  <2> DEFINE step == (D[c[i + 1].id][old] - D[c[i + 1].id][new]) * c[i + 1].w
  <2>2. iter[i + 1] = iter[i] + step
    BY <1>14, <2>1
  <2>3. iter[i] = SumFunctionOnSet(g, Met(i))
    BY <1>16, <2>1
  <2>4. SumFunctionOnSet(g, Met(i + 1)) = SumFunctionOnSet(g, Met(i)) + step
    BY <1>10, <2>1
  <2> QED BY <2>2, <2>3, <2>4
<1>17. \A i \in Nat : i \in Q
  <2> HIDE DEF Q
  <2> QED BY <1>15, <1>16, NatSetInduction
<1>18. iter[n] = SumFunctionOnSet(g, Met(n))
  BY <1>2, <1>17
<1>19. SumFunctionOnSet(g, Met(n)) = SumFunctionOnSet(g, Vertex)
  <2>1. \A v \in Vertex \ Adj(u) : g[v] = 0
    <3> SUFFICES ASSUME NEW v \in Vertex \ Adj(u) PROVE g[v] = 0
      OBVIOUS
    <3>1. EdgeWeight[u][v] = 0
      <4>1. EdgeWeight[u][v] \in Nat
        BY Neighbourhoods
      <4> QED BY <4>1 DEF Adj
    <3>2. D[p[v]][old] - D[p[v]][new] \in Int
      BY <1>6, DistancesSymmetric
    <3> QED BY <1>5, <3>1, <3>2
  <2>2. SumFunctionOnSet(g, Vertex) = SumFunctionOnSet(g, Adj(u))
    BY <1>5, <1>6, <2>1, GraphAssumption, SumRestrict
  <2>3. SumFunctionOnSet(g, Met(n)) = SumFunctionOnSet(g, Adj(u))
    BY <1>9, Zenon
  <2> QED BY <2>2, <2>3
<1> QED BY <1>1, <1>7, <1>18, <1>19 DEF g

-----------------------------------------------------------------------------
(* The boundary.                                                            *)

(* Into(p, u, b) are the neighbours of u in b.                              *)
LEMMA CutDegreeCounts ==
  ASSUME NEW p \in [Vertex -> Block], NEW u \in Vertex
  PROVE  /\ CutDegree(p, u) = Cardinality(Adj(u)) - Cardinality(Into(p, u, p[u]))
         /\ CutDegree(p, u) \in Nat
         /\ Cardinality(Adj(u)) \in Nat
         /\ \A b \in Block : Cardinality(Into(p, u, b)) \in Nat /\ IsFiniteSet(Into(p, u, b))
<1> DEFINE A == Adj(u)
           I == Into(p, u, p[u])
           C == {v \in Adj(u) : p[v] # p[u]}
<1>1. IsFiniteSet(A) /\ A \subseteq Vertex
  BY Neighbourhoods
<1>2. C = A \ I /\ A \cap I = I
  BY <1>1 DEF Into, Members
<1>3. CutDegree(p, u) = Cardinality(A \ I)
  <2>1. CutDegree(p, u) = Cardinality(C)
    BY DEF CutDegree
  <2> QED BY <1>2, <2>1, Zenon
<1>4. \A b \in Block : Cardinality(Into(p, u, b)) \in Nat /\ IsFiniteSet(Into(p, u, b))
  BY ConnIsSum, FS_CardinalityType
<1> HIDE DEF A, I, C
<1>5. /\ IsFiniteSet(A \ I)
      /\ Cardinality(A \ I) = Cardinality(A) - Cardinality(A \cap I)
  BY <1>1, FS_Difference
<1>6. Cardinality(A \cap I) = Cardinality(I)
  BY <1>2, Zenon
<1>7. Cardinality(A \ I) \in Nat /\ Cardinality(A) \in Nat
  BY <1>1, <1>5, FS_CardinalityType
<1> QED BY <1>3, <1>4, <1>5, <1>6, <1>7 DEF A, I

(* A move of u changes the cut degrees of its neighbours by one at most,    *)
(* and its own by all of them.                                              *)
LEMMA CutDegreeMoved ==
  ASSUME NEW p \in [Vertex -> Block], NEW u \in Vertex, NEW new \in Block, p[u] # new
  PROVE  LET m == Moved(p, u, new) IN
         /\ \A v \in Adj(u) :
              /\ p[v] = new => CutDegree(m, v) = CutDegree(p, v) - 1
              /\ p[v] = p[u] => CutDegree(m, v) = CutDegree(p, v) + 1
              /\ p[v] # new /\ p[v] # p[u] => CutDegree(m, v) = CutDegree(p, v)
         /\ \A v \in Vertex \ {u} : v \notin Adj(u) => CutDegree(m, v) = CutDegree(p, v)
         /\ CutDegree(m, u) = CutDegree(p, u) + Cardinality(Into(p, u, p[u]))
                                - Cardinality(Into(p, u, new))
<1> DEFINE m == Moved(p, u, new)
           old == p[u]
<1>1. /\ m \in [Vertex -> Block] /\ m[u] = new /\ old \in Block /\ old # new
      /\ \A v \in Vertex \ {u} : m[v] = p[v]
  BY MembersMoved
<1> HIDE DEF m
<1>2. ASSUME NEW v \in Adj(u)
      PROVE  /\ p[v] = new => CutDegree(m, v) = CutDegree(p, v) - 1
             /\ p[v] = old => CutDegree(m, v) = CutDegree(p, v) + 1
             /\ p[v] # new /\ p[v] # old => CutDegree(m, v) = CutDegree(p, v)
  <2> DEFINE A == {x \in Adj(v) : p[x] # p[v]}
             B == {x \in Adj(v) : m[x] # m[v]}
  <2>1. /\ v \in Vertex /\ v # u /\ u \in Adj(v) /\ IsFiniteSet(Adj(v)) /\ Adj(v) \subseteq Vertex
        /\ m[v] = p[v]
    <3>1. v \in Vertex /\ v # u /\ u \in Adj(v)
      BY Neighbourhoods
    <3> QED BY <1>1, <3>1, Neighbourhoods
  <2>2. IsFiniteSet(A) /\ IsFiniteSet(B) /\ Cardinality(A) \in Nat /\ Cardinality(B) \in Nat
    <3>1. A \in SUBSET Adj(v) /\ B \in SUBSET Adj(v)
      OBVIOUS
    <3> HIDE DEF A, B
    <3> QED BY <2>1, <3>1, FS_Subset, FS_CardinalityType
  <2>3. CutDegree(p, v) = Cardinality(A) /\ CutDegree(m, v) = Cardinality(B)
    BY DEF CutDegree
  <2>4. \A x \in Adj(v) : x # u => (x \in A <=> x \in B)
    BY <1>1, <2>1
  <2>5. (u \in A <=> p[v] # old) /\ (u \in B <=> p[v] # new)
    BY <1>1, <2>1
  <2>6. A \subseteq Adj(v) /\ B \subseteq Adj(v)
    OBVIOUS
  <2> HIDE DEF A, B
  <2>7. CASE p[v] = new
    <3>1. B = A \ {u} /\ u \in A
      BY <1>1, <2>4, <2>5, <2>6, <2>7
    <3>2. Cardinality(A \ {u}) = Cardinality(A) - 1
      BY <2>2, <3>1, FS_RemoveElement
    <3>3. Cardinality(B) = Cardinality(A \ {u})
      BY <3>1, Zenon
    <3> QED BY <1>1, <2>3, <2>7, <3>2, <3>3
  <2>8. CASE p[v] = old
    <3>1. B = A \cup {u} /\ u \notin A
      BY <1>1, <2>1, <2>4, <2>5, <2>6, <2>8
    <3>2. Cardinality(A \cup {u}) = Cardinality(A) + 1
      BY <2>2, <3>1, FS_AddElement
    <3>3. Cardinality(B) = Cardinality(A \cup {u})
      BY <3>1, Zenon
    <3> QED BY <1>1, <2>3, <2>8, <3>2, <3>3
  <2>9. CASE p[v] # new /\ p[v] # old
    <3>1. B = A
      BY <2>4, <2>5, <2>6, <2>9
    <3> QED BY <2>3, <2>9, <3>1
  <2> QED BY <2>7, <2>8, <2>9
<1>3. ASSUME NEW v \in Vertex \ {u}, v \notin Adj(u) PROVE CutDegree(m, v) = CutDegree(p, v)
  <2>1. u \notin Adj(v) /\ Adj(v) \subseteq Vertex
    BY <1>3, Neighbourhoods
  <2>2. {x \in Adj(v) : m[x] # m[v]} = {x \in Adj(v) : p[x] # p[v]}
    BY <1>1, <2>1
  <2> QED BY <2>2 DEF CutDegree
<1>4. CutDegree(m, u) = CutDegree(p, u) + Cardinality(Into(p, u, old)) - Cardinality(Into(p, u, new))
  <2>1. /\ CutDegree(p, u) = Cardinality(Adj(u)) - Cardinality(Into(p, u, old))
        /\ CutDegree(m, u) = Cardinality(Adj(u)) - Cardinality(Into(m, u, new))
        /\ Cardinality(Adj(u)) \in Nat
        /\ Cardinality(Into(p, u, old)) \in Nat /\ Cardinality(Into(p, u, new)) \in Nat
    BY <1>1, CutDegreeCounts
  <2>2. Into(m, u, new) = Into(p, u, new)
    <3>1. u \notin Adj(u) /\ Adj(u) \subseteq Vertex
      BY Neighbourhoods
    <3> QED BY <1>1, <3>1 DEF Into, Members
  <2>3. Cardinality(Into(m, u, new)) = Cardinality(Into(p, u, new))
    BY <2>2, Zenon
  <2> QED BY <2>1, <2>3
<1> QED BY <1>2, <1>3, <1>4 DEF m

-----------------------------------------------------------------------------
(* The vectors: S[b] is what the vector of b holds.                         *)
BvStates == [count : [Vertex -> Nat], list : [Block -> Seq(Vertex)], idx : [Vertex -> Nat]]

Listed(s, S) ==
  /\ s \in BvStates
  /\ S \in [Block -> SUBSET Vertex]
  /\ \A a, b \in Block : a # b => S[a] \cap S[b] = {}
  /\ \A b \in Block : /\ ToSet(s.list[b]) = S[b]
                      /\ \A i \in DOMAIN s.list[b] : s.idx[s.list[b][i]] = i

(* A record with two fields replaced.                                       *)
LEMMA TwoFields ==
  ASSUME NEW s \in BvStates, NEW X, NEW Y
  PROVE  [s EXCEPT !.list = X, !.idx = Y] = [count |-> s.count, list |-> X, idx |-> Y]
<1>1. s = [count |-> s.count, list |-> s.list, idx |-> s.idx]
  BY DEF BvStates
<1>2. [s EXCEPT !.list = X, !.idx = Y] = [[s EXCEPT !.list = X] EXCEPT !.idx = Y]
  OBVIOUS
<1>3. ASSUME NEW t, t = [s EXCEPT !.list = X]
      PROVE  t = [count |-> s.count, list |-> X, idx |-> s.idx]
  BY <1>1, <1>3
<1>4. ASSUME NEW t, t = [count |-> s.count, list |-> X, idx |-> s.idx]
      PROVE  [t EXCEPT !.idx = Y] = [count |-> s.count, list |-> X, idx |-> Y]
  BY <1>4
<1>5. [[s EXCEPT !.list = X] EXCEPT !.idx = Y] = [count |-> s.count, list |-> X, idx |-> Y]
  BY <1>1, <1>3, <1>4
<1> QED BY <1>2, <1>5

(* What changes when a count is changed.                                    *)
LEMMA BumpFields ==
  ASSUME NEW s \in BvStates, NEW u \in Vertex, NEW d \in Int
  PROVE  /\ BvBump(s, u, d).count = [s.count EXCEPT ![u] = s.count[u] + d]
         /\ BvBump(s, u, d).list = s.list
         /\ BvBump(s, u, d).idx = s.idx
         /\ BvBump(s, u, d) = [count |-> [s.count EXCEPT ![u] = s.count[u] + d],
                               list |-> s.list, idx |-> s.idx]
<1>1. s = [count |-> s.count, list |-> s.list, idx |-> s.idx]
  BY DEF BvStates
<1> QED BY <1>1 DEF BvBump

(* What changes when a vertex is put into a list.                           *)
LEMMA EmplaceFields ==
  ASSUME NEW s \in BvStates, NEW u \in Vertex, NEW b \in Block
  PROVE  /\ BvEmplace(s, u, b).count = s.count
         /\ BvEmplace(s, u, b).list = [s.list EXCEPT ![b] = Append(s.list[b], u)]
         /\ BvEmplace(s, u, b).idx = [s.idx EXCEPT ![u] = Len(s.list[b]) + 1]
         /\ BvEmplace(s, u, b) = [count |-> s.count,
                                  list |-> [s.list EXCEPT ![b] = Append(s.list[b], u)],
                                  idx |-> [s.idx EXCEPT ![u] = Len(s.list[b]) + 1]]
<1> DEFINE X == [s.list EXCEPT ![b] = Append(s.list[b], u)]
           Y == [s.idx EXCEPT ![u] = Len(s.list[b]) + 1]
<1>1. BvEmplace(s, u, b) = [s EXCEPT !.list = X, !.idx = Y]
  BY DEF BvEmplace
<1> HIDE DEF X, Y
<1>2. BvEmplace(s, u, b) = [count |-> s.count, list |-> X, idx |-> Y]
  BY <1>1, TwoFields
<1>3. /\ BvEmplace(s, u, b).count = s.count
      /\ BvEmplace(s, u, b).list = X
      /\ BvEmplace(s, u, b).idx = Y
  BY <1>2
<1> QED BY <1>2, <1>3 DEF X, Y

(* A vertex that is appended is in the list, at the index that is noted.    *)
LEMMA EmplaceLists ==
  ASSUME NEW s, NEW S, Listed(s, S), NEW u \in Vertex, NEW b \in Block,
         \A a \in Block : u \notin S[a]
  PROVE  Listed(BvEmplace(s, u, b), [S EXCEPT ![b] = S[b] \cup {u}])
<1> DEFINE t == BvEmplace(s, u, b)
           T == [S EXCEPT ![b] = S[b] \cup {u}]
           l == s.list[b]
           n == Len(l)
<1>1. /\ s \in BvStates /\ S \in [Block -> SUBSET Vertex]
      /\ s.list \in [Block -> Seq(Vertex)] /\ s.idx \in [Vertex -> Nat] /\ s.count \in [Vertex -> Nat]
      /\ \A a, c \in Block : a # c => S[a] \cap S[c] = {}
      /\ \A a \in Block : ToSet(s.list[a]) = S[a]
      /\ \A a \in Block : \A i \in DOMAIN s.list[a] : s.idx[s.list[a][i]] = i
  BY DEF Listed, BvStates
<1>2. l \in Seq(Vertex) /\ n \in Nat /\ DOMAIN l = 1 .. n /\ \A i \in 1 .. n : l[i] \in Vertex
  BY <1>1
<1>3. /\ t.list = [s.list EXCEPT ![b] = Append(l, u)]
      /\ t.idx = [s.idx EXCEPT ![u] = n + 1]
      /\ t = [count |-> s.count, list |-> [s.list EXCEPT ![b] = Append(l, u)],
              idx |-> [s.idx EXCEPT ![u] = n + 1]]
  <2>1. s \in BvStates
    BY <1>1
  <2> QED BY <2>1, EmplaceFields
<1> HIDE DEF t, l, n
<1>4. Append(l, u) \in Seq(Vertex)
  BY <1>2
<1>5. t \in BvStates
  BY <1>1, <1>2, <1>3, <1>4 DEF BvStates
<1>6. /\ T \in [Block -> SUBSET Vertex] /\ T[b] = S[b] \cup {u}
      /\ \A a \in Block : a # b => T[a] = S[a]
  BY <1>1
<1>7. /\ DOMAIN Append(l, u) = 1 .. n + 1
      /\ \A i \in 1 .. n : Append(l, u)[i] = l[i]
      /\ Append(l, u)[n + 1] = u
  BY <1>2 DEF n
<1>8. t.list[b] = Append(l, u) /\ \A a \in Block : a # b => t.list[a] = s.list[a]
  BY <1>1, <1>3
<1>9. t.idx[u] = n + 1 /\ \A x \in Vertex : x # u => t.idx[x] = s.idx[x]
  BY <1>1, <1>3
<1> HIDE DEF T
<1>10. \A a, c \in Block : a # c => T[a] \cap T[c] = {}
  <2> SUFFICES ASSUME NEW a \in Block, NEW c \in Block, a # c PROVE T[a] \cap T[c] = {}
    OBVIOUS
  <2>1. S[a] \cap S[c] = {} /\ u \notin S[a] /\ u \notin S[c]
    BY <1>1
  <2>2. T[a] = (IF a = b THEN S[a] \cup {u} ELSE S[a]) /\ T[c] = (IF c = b THEN S[c] \cup {u} ELSE S[c])
    BY <1>6
  <2> QED BY <2>1, <2>2
<1>11. ToSet(t.list[b]) = T[b]
  <2>1. ToSet(Append(l, u)) = ToSet(l) \cup {u}
    <3>1. ToSet(Append(l, u)) = {Append(l, u)[i] : i \in 1 .. n + 1} /\ ToSet(l) = {l[i] : i \in 1 .. n}
      BY <1>2, <1>7 DEF ToSet
    <3>2. 1 .. n + 1 = (1 .. n) \cup {n + 1}
      BY <1>2
    <3> QED BY <1>7, <3>1, <3>2
  <2>2. ToSet(l) = S[b]
    BY <1>1 DEF l
  <2> QED BY <1>6, <1>8, <2>1, <2>2
<1>12. \A i \in DOMAIN t.list[b] : t.idx[t.list[b][i]] = i
  <2> SUFFICES ASSUME NEW i \in 1 .. n + 1 PROVE t.idx[Append(l, u)[i]] = i
    BY <1>7, <1>8
  <2>1. CASE i = n + 1
    BY <1>7, <1>9, <2>1
  <2>2. CASE i # n + 1
    <3>1. i \in 1 .. n /\ Append(l, u)[i] = l[i] /\ l[i] \in Vertex
      BY <1>2, <1>7, <2>2
    <3>2. l[i] \in S[b]
      BY <1>1, <1>2, <3>1 DEF l, ToSet
    <3>3. s.idx[l[i]] = i
      BY <1>1, <1>2, <3>1 DEF l
    <3>4. l[i] # u
      BY <3>2
    <3> QED BY <1>9, <3>1, <3>3, <3>4
  <2> QED BY <2>1, <2>2
<1>13. ASSUME NEW a \in Block, a # b
       PROVE  ToSet(t.list[a]) = T[a] /\ \A i \in DOMAIN t.list[a] : t.idx[t.list[a][i]] = i
  <2>1. t.list[a] = s.list[a] /\ T[a] = S[a]
    BY <1>6, <1>8, <1>13
  <2>2. ASSUME NEW i \in DOMAIN s.list[a] PROVE t.idx[s.list[a][i]] = i
    <3>1. s.list[a][i] \in S[a] /\ s.list[a][i] # u /\ s.list[a][i] \in Vertex
      BY <1>1 DEF ToSet
    <3> QED BY <1>1, <1>9, <3>1
  <2> QED BY <1>1, <2>1, <2>2
<1>14. Listed(t, T)
  BY <1>5, <1>6, <1>10, <1>11, <1>12, <1>13 DEF Listed
<1> QED BY <1>14 DEF t, T

(* A vertex that is removed is overwritten by the last one, whose index is  *)
(* noted.                                                                   *)
LEMMA RemoveLists ==
  ASSUME NEW s, NEW S, Listed(s, S), NEW b \in Block, NEW u \in S[b]
  PROVE  /\ Listed(BvRemove(s, u, b), [S EXCEPT ![b] = S[b] \ {u}])
         /\ BvRemove(s, u, b).count = s.count
<1> DEFINE t == BvRemove(s, u, b)
           T == [S EXCEPT ![b] = S[b] \ {u}]
           l == s.list[b]
           n == Len(l)
           k == s.idx[u]
           last == Last(l)
           e == [l EXCEPT ![k] = last]
           r == Front(e)
<1>1. /\ s \in BvStates /\ S \in [Block -> SUBSET Vertex]
      /\ s.list \in [Block -> Seq(Vertex)] /\ s.idx \in [Vertex -> Nat] /\ s.count \in [Vertex -> Nat]
      /\ \A a, c \in Block : a # c => S[a] \cap S[c] = {}
      /\ \A a \in Block : ToSet(s.list[a]) = S[a]
      /\ \A a \in Block : \A i \in DOMAIN s.list[a] : s.idx[s.list[a][i]] = i
  BY DEF Listed, BvStates
<1>2. l \in Seq(Vertex) /\ n \in Nat /\ DOMAIN l = 1 .. n /\ \A i \in 1 .. n : l[i] \in Vertex
  BY <1>1
<1>3. ToSet(l) = S[b] /\ \A i \in 1 .. n : l[i] \in S[b] /\ s.idx[l[i]] = i
  <2>1. ToSet(l) = S[b] /\ \A i \in DOMAIN l : s.idx[l[i]] = i
    BY <1>1
  <2>2. \A i \in DOMAIN l : l[i] \in ToSet(l)
    BY DEF ToSet
  <2> HIDE DEF l, n
  <2> QED BY <1>2, <2>1, <2>2
<1>4. k \in 1 .. n /\ l[k] = u /\ u \in Vertex
  <2>1. PICK i \in 1 .. n : l[i] = u
    BY <1>2, <1>3 DEF ToSet
  <2> QED BY <1>2, <1>3, <2>1
<1>5. last = l[n] /\ n \in 1 .. n /\ last \in Vertex /\ last \in S[b] /\ s.idx[last] = n
  <2>1. last = l[n]
    BY DEF Last
  <2>2. n \in 1 .. n
    BY <1>2, <1>4
  <2> QED BY <1>2, <1>3, <2>1, <2>2
<1>6. t = [count |-> s.count, list |-> [s.list EXCEPT ![b] = r], idx |-> [s.idx EXCEPT ![last] = k]]
  <2> DEFINE X == [s.list EXCEPT ![b] = r]
             Y == [s.idx EXCEPT ![last] = k]
  <2>1. t = [s EXCEPT !.list = X, !.idx = Y]
    BY DEF BvRemove
  <2>2. s \in BvStates
    BY <1>1
  <2> HIDE DEF X, Y, t
  <2>3. t = [count |-> s.count, list |-> X, idx |-> Y]
    BY <2>1, <2>2, TwoFields
  <2> QED BY <2>3 DEF X, Y
<1>7. /\ e \in Seq(Vertex) /\ Len(e) = n
      /\ \A i \in 1 .. n : e[i] = IF i = k THEN last ELSE l[i]
  BY <1>2, <1>4, <1>5
<1>8. r = SubSeq(e, 1, n - 1)
  BY <1>7 DEF Front
<1> HIDE DEF t, l, n, k, last, e, r, T
<1>9. /\ r \in Seq(Vertex) /\ DOMAIN r = 1 .. n - 1
      /\ \A i \in 1 .. n - 1 : r[i] = IF i = k THEN last ELSE l[i]
  <2>1. n - 1 \in Nat /\ n \in Nat
    BY <1>2, <1>5
  <2>2. r \in Seq(Vertex) /\ DOMAIN r = 1 .. n - 1 /\ \A i \in 1 .. n - 1 : r[i] = e[i]
    BY <1>7, <1>8, <2>1
  <2> QED BY <1>2, <1>7, <2>2
<1>10. t \in BvStates
  BY <1>1, <1>2, <1>4, <1>5, <1>6, <1>9 DEF BvStates
<1>11. /\ T \in [Block -> SUBSET Vertex] /\ T[b] = S[b] \ {u}
       /\ \A a \in Block : a # b => T[a] = S[a]
  BY <1>1 DEF T
<1>12. t.list[b] = r /\ \A a \in Block : a # b => t.list[a] = s.list[a]
  BY <1>1, <1>6
<1>13. t.idx[last] = k /\ \A x \in Vertex : x # last => t.idx[x] = s.idx[x]
  BY <1>1, <1>5, <1>6
<1>14. \A a, c \in Block : a # c => T[a] \cap T[c] = {}
  BY <1>1, <1>11
<1>15. \A i, j \in 1 .. n : l[i] = l[j] => i = j
  BY <1>3
<1>16. ToSet(r) = T[b]
  <2>1. ToSet(r) = {r[i] : i \in 1 .. n - 1} /\ S[b] = {l[i] : i \in 1 .. n}
    BY <1>2, <1>3, <1>9 DEF ToSet
  <2>2. ASSUME NEW i \in 1 .. n - 1 PROVE r[i] \in S[b] /\ r[i] # u
    <3>1. CASE i = k
      <4>1. k # n
        BY <1>2, <3>1
      <4>2. last # u
        BY <1>2, <1>4, <1>5, <1>15, <4>1
      <4> QED BY <1>5, <1>9, <3>1, <4>2
    <3>2. CASE i # k
      <4>1. i \in 1 .. n /\ r[i] = l[i]
        BY <1>2, <1>9, <3>2
      <4> QED BY <1>3, <1>4, <1>15, <3>2, <4>1
    <3> QED BY <3>1, <3>2
  <2>3. ASSUME NEW x \in S[b], x # u PROVE \E i \in 1 .. n - 1 : r[i] = x
    <3>1. PICK i \in 1 .. n : l[i] = x
      BY <2>1
    <3>2. i # k
      BY <1>4, <2>3, <3>1
    <3>3. CASE i = n
      <4>1. k \in 1 .. n - 1 /\ r[k] = last
        BY <1>2, <1>4, <1>9, <3>2, <3>3
      <4> QED BY <1>5, <3>1, <3>3, <4>1
    <3>4. CASE i # n
      <4>1. i \in 1 .. n - 1 /\ r[i] = l[i]
        BY <1>2, <1>9, <3>2, <3>4
      <4> QED BY <3>1, <4>1
    <3> QED BY <3>3, <3>4
  <2>4. T[b] = S[b] \ {u}
    BY <1>11
  <2>5. {r[i] : i \in 1 .. n - 1} = S[b] \ {u}
    BY <2>2, <2>3
  <2> QED BY <2>1, <2>4, <2>5
<1>17. ASSUME NEW i \in 1 .. n - 1 PROVE t.idx[r[i]] = i
  <2>1. CASE i = k
    BY <1>9, <1>13, <2>1
  <2>2. CASE i # k
    <3>1. i \in 1 .. n /\ r[i] = l[i] /\ i # n
      BY <1>2, <1>9, <2>2
    <3>2. l[i] # last /\ l[i] \in Vertex
      BY <1>2, <1>5, <1>15, <3>1
    <3> QED BY <1>3, <1>13, <3>1, <3>2
  <2> QED BY <2>1, <2>2
<1>18. ASSUME NEW a \in Block, a # b
       PROVE  ToSet(t.list[a]) = T[a] /\ \A i \in DOMAIN t.list[a] : t.idx[t.list[a][i]] = i
  <2>1. t.list[a] = s.list[a] /\ T[a] = S[a] /\ S[a] \cap S[b] = {}
    BY <1>1, <1>11, <1>12, <1>18
  <2>2. ASSUME NEW i \in DOMAIN s.list[a] PROVE t.idx[s.list[a][i]] = i
    <3>1. s.list[a][i] \in S[a] /\ s.list[a][i] \in Vertex
      <4>1. ToSet(s.list[a]) = S[a] /\ S[a] \subseteq Vertex
        BY <1>1
      <4>2. s.list[a][i] \in ToSet(s.list[a])
        BY DEF ToSet
      <4> QED BY <4>1, <4>2
    <3>2. s.list[a][i] # last
      BY <1>5, <2>1, <3>1
    <3> QED BY <1>1, <1>13, <3>1, <3>2
  <2> QED BY <1>1, <2>1, <2>2
<1>19. Listed(t, T)
  <2>1. ASSUME NEW a \in Block
        PROVE  ToSet(t.list[a]) = T[a] /\ \A i \in DOMAIN t.list[a] : t.idx[t.list[a][i]] = i
    <3>1. CASE a = b
      BY <1>9, <1>12, <1>14, <1>16, <1>17, <3>1
    <3>2. CASE a # b
      BY <1>18, <3>2
    <3> QED BY <3>1, <3>2
  <2> QED BY <1>10, <1>11, <1>14, <2>1 DEF Listed
<1>20. t.count = s.count
  BY <1>6
<1> QED BY <1>19, <1>20 DEF t, T

(* Listed does not read the counts.                                         *)
LEMMA ListedAlso ==
  ASSUME NEW s, NEW S, Listed(s, S), NEW t \in BvStates, t.list = s.list, t.idx = s.idx
  PROVE  Listed(t, S)
BY DEF Listed

(* A count that stays natural may be changed.                               *)
LEMMA BumpedState ==
  ASSUME NEW s \in BvStates, NEW u \in Vertex, NEW d \in Int, s.count[u] + d \in Nat
  PROVE  /\ BvBump(s, u, d) \in BvStates
         /\ BvBump(s, u, d).count[u] = s.count[u] + d
         /\ \A v \in Vertex : v # u => BvBump(s, u, d).count[v] = s.count[v]
         /\ BvBump(s, u, d).list = s.list /\ BvBump(s, u, d).idx = s.idx
<1> DEFINE t == BvBump(s, u, d)
           c == [s.count EXCEPT ![u] = s.count[u] + d]
<1>1. /\ s.count \in [Vertex -> Nat] /\ s.list \in [Block -> Seq(Vertex)]
      /\ s.idx \in [Vertex -> Nat]
  BY DEF BvStates
<1>2. t = [count |-> c, list |-> s.list, idx |-> s.idx] /\ t.count = c
      /\ t.list = s.list /\ t.idx = s.idx
  BY BumpFields
<1>3. c \in [Vertex -> Nat] /\ c[u] = s.count[u] + d /\ \A v \in Vertex : v # u => c[v] = s.count[v]
  BY <1>1
<1> HIDE DEF c, t
<1>4. t \in BvStates
  BY <1>1, <1>2, <1>3 DEF BvStates
<1> QED BY <1>2, <1>3, <1>4 DEF t

(* Listing a vertex changes no count.                                       *)
LEMMA EmplaceCount ==
  ASSUME NEW s \in BvStates, NEW u \in Vertex, NEW b \in Block
  PROVE  BvEmplace(s, u, b).count = s.count
<1> DEFINE X == [s.list EXCEPT ![b] = Append(s.list[b], u)]
           Y == [s.idx EXCEPT ![u] = Len(s.list[b]) + 1]
<1>1. BvEmplace(s, u, b) = [s EXCEPT !.list = X, !.idx = Y]
  BY DEF BvEmplace
<1> HIDE DEF X, Y
<1>2. BvEmplace(s, u, b) = [count |-> s.count, list |-> X, idx |-> Y]
  BY <1>1, TwoFields
<1> QED BY <1>2

(* The vectors while a move of u is under way: u itself is in none of them. *)
Nearby(p, u, c) == [b \in Block |-> {x \in Members(p, b) \ {u} : c[x] > 0}]

During(p, u, new, P, s) ==
  /\ s \in BvStates
  /\ Listed(s, Nearby(p, u, s.count))
  /\ \A x \in Vertex \ {u} :
       s.count[x] = IF x \in P THEN CutDegree(Moved(p, u, new), x) ELSE CutDegree(p, x)
  /\ s.count[u] = CutDegree(p, u) + Cardinality(P \cap Into(p, u, p[u]))
                    - Cardinality(P \cap Into(p, u, new))

(* The neighbours visited so far, by their blocks, are counted.             *)
LEMMA VisitedCounts ==
  ASSUME NEW p \in [Vertex -> Block], NEW u \in Vertex, NEW new \in Block, p[u] # new,
         NEW P \in SUBSET Adj(u)
  PROVE  /\ Cardinality(P \cap Into(p, u, p[u])) \in Nat
         /\ Cardinality(P \cap Into(p, u, new)) \in Nat
         /\ Cardinality(P \cap Into(p, u, new)) <= CutDegree(p, u)
<1>1. IsFiniteSet(Adj(u)) /\ Adj(u) \subseteq Vertex /\ IsFiniteSet(P)
  BY Neighbourhoods, FS_Subset
<1>2. \A b : Cardinality(P \cap Into(p, u, b)) \in Nat
  <2> SUFFICES ASSUME NEW b PROVE Cardinality(P \cap Into(p, u, b)) \in Nat
    OBVIOUS
  <2>1. P \cap Into(p, u, b) \in SUBSET P
    OBVIOUS
  <2> QED BY <1>1, <2>1, FS_Subset, FS_CardinalityType
<1>3. Cardinality(P \cap Into(p, u, new)) <= CutDegree(p, u)
  <2> DEFINE C == {v \in Adj(u) : p[v] # p[u]}
             A == P \cap Into(p, u, new)
  <2>1. A \in SUBSET C /\ C \in SUBSET Adj(u)
    BY DEF Into, Members
  <2>2. Cardinality(C) = CutDegree(p, u)
    BY DEF CutDegree
  <2> HIDE DEF A, C
  <2>3. IsFiniteSet(C)
    BY <1>1, <2>1, FS_Subset
  <2>4. Cardinality(A) <= Cardinality(C)
    BY <2>1, <2>3, FS_Subset
  <2> QED BY <2>2, <2>4 DEF A
<1> QED BY <1>2, <1>3

(* One more neighbour is visited.                                           *)
LEMMA VisitCounts ==
  ASSUME NEW p \in [Vertex -> Block], NEW u \in Vertex, NEW P \in SUBSET Adj(u),
         NEW v \in Adj(u), v \notin P, NEW b
  PROVE  /\ p[v] = b => Cardinality((P \cup {v}) \cap Into(p, u, b))
                           = Cardinality(P \cap Into(p, u, b)) + 1
         /\ p[v] # b => Cardinality((P \cup {v}) \cap Into(p, u, b))
                           = Cardinality(P \cap Into(p, u, b))
<1> DEFINE A == P \cap Into(p, u, b)
<1>1. IsFiniteSet(P) /\ v \in Vertex
  BY Neighbourhoods, FS_Subset
<1>2. IsFiniteSet(A)
  <2>1. A \in SUBSET P
    OBVIOUS
  <2> HIDE DEF A
  <2> QED BY <1>1, <2>1, FS_Subset
<1>3. v \in Into(p, u, b) <=> p[v] = b
  BY <1>1 DEF Into, Members
<1>4. ASSUME p[v] = b PROVE Cardinality((P \cup {v}) \cap Into(p, u, b)) = Cardinality(A) + 1
  <2>1. (P \cup {v}) \cap Into(p, u, b) = A \cup {v} /\ v \notin A
    BY <1>3, <1>4
  <2>2. Cardinality((P \cup {v}) \cap Into(p, u, b)) = Cardinality(A \cup {v})
    BY <2>1, Zenon
  <2> HIDE DEF A
  <2>3. Cardinality(A \cup {v}) = Cardinality(A) + 1
    BY <1>2, <2>1, FS_AddElement
  <2> QED BY <2>2, <2>3
<1>5. ASSUME p[v] # b PROVE Cardinality((P \cup {v}) \cap Into(p, u, b)) = Cardinality(A)
  <2>1. (P \cup {v}) \cap Into(p, u, b) = A
    BY <1>3, <1>5
  <2> QED BY <2>1, Zenon
<1> QED BY <1>4, <1>5

(* One visit of the loop of boundary_vertex_manager.move.                   *)
LEMMA BoundaryVisit ==
  ASSUME NEW p \in [Vertex -> Block], NEW u \in Vertex, NEW new \in Block,
         p[u] # new, NEW P \in SUBSET Adj(u), NEW v \in Adj(u), v \notin P,
         p[v] = partition[v], NEW s, During(p, u, new, P, s)
  PROVE  During(p, u, new, P \cup {v}, BvVisit(s, u, v, p[u], new))
<1> DEFINE old == p[u]
           m == Moved(p, u, new)
           t == BvVisit(s, u, v, old, new)
           O(R) == Cardinality(R \cap Into(p, u, old))
           N(R) == Cardinality(R \cap Into(p, u, new))
           c == s.count
           S == Nearby(p, u, c)
           near == BvBump(BvBump(s, u, -1), v, -1)
           far == BvBump(BvBump(s, u, 1), v, 1)
<1>1. /\ u \in Vertex /\ v \in Vertex /\ u # v /\ old \in Block /\ m \in [Vertex -> Block]
  BY Neighbourhoods, MembersMoved
<1>2. /\ s \in BvStates /\ Listed(s, S) /\ c \in [Vertex -> Nat]
      /\ \A x \in Vertex \ {u} : c[x] = IF x \in P THEN CutDegree(m, x) ELSE CutDegree(p, x)
      /\ c[u] = CutDegree(p, u) + O(P) - N(P)
  BY DEF During, BvStates
<1>3. /\ O(P) \in Nat /\ N(P) \in Nat
      /\ p[v] = old => O(P \cup {v}) = O(P) + 1
      /\ p[v] # old => O(P \cup {v}) = O(P)
      /\ p[v] = new => N(P \cup {v}) = N(P) + 1
      /\ p[v] # new => N(P \cup {v}) = N(P)
  <2>1. O(P) \in Nat /\ N(P) \in Nat
    BY VisitedCounts
  <2>2. /\ p[v] = old => O(P \cup {v}) = O(P) + 1
        /\ p[v] # old => O(P \cup {v}) = O(P)
    BY VisitCounts
  <2>3. /\ p[v] = new => N(P \cup {v}) = N(P) + 1
        /\ p[v] # new => N(P \cup {v}) = N(P)
    BY VisitCounts
  <2> QED BY <2>1, <2>2, <2>3
<1>4. N(P \cup {v}) <= CutDegree(p, u)
  <2>1. P \cup {v} \in SUBSET Adj(u)
    OBVIOUS
  <2> QED BY <2>1, VisitedCounts
<1>5. /\ CutDegree(p, u) \in Nat /\ CutDegree(p, v) \in Nat /\ CutDegree(m, v) \in Nat
  BY <1>1, CutDegreeCounts
<1>6. /\ p[v] = new => CutDegree(m, v) = CutDegree(p, v) - 1
      /\ p[v] = old => CutDegree(m, v) = CutDegree(p, v) + 1
      /\ p[v] # new /\ p[v] # old => CutDegree(m, v) = CutDegree(p, v)
  BY CutDegreeMoved
<1>7. c[v] = CutDegree(p, v) /\ c[u] \in Nat
  BY <1>1, <1>2
<1>8. \A b \in Block : S[b] = {x \in Members(p, b) \ {u} : c[x] > 0}
  BY DEF Nearby
<1>9. \A b \in Block, d \in Block : p[v] = d => (v \in Members(p, b) <=> b = d)
  BY <1>1 DEF Members
<1> HIDE DEF m, O, N, S, near, far, c
<1>10. ASSUME NEW d \in {-1, 1}, c[u] + d \in Nat, c[v] + d \in Nat, NEW w, w = BvBump(BvBump(s, u, d), v, d)
       PROVE  /\ w \in BvStates /\ Listed(w, S)
              /\ w.count[u] = c[u] + d /\ w.count[v] = c[v] + d
              /\ \A x \in Vertex : x # u /\ x # v => w.count[x] = c[x]
  <2> DEFINE w1 == BvBump(s, u, d)
  <2>1. d \in Int
    BY <1>10
  <2>2. /\ w1 \in BvStates /\ w1.count[u] = c[u] + d
        /\ \A x \in Vertex : x # u => w1.count[x] = c[x]
        /\ w1.list = s.list /\ w1.idx = s.idx
    BY <1>1, <1>2, <1>10, <2>1, BumpedState DEF c
  <2> HIDE DEF w1
  <2>3. w = BvBump(w1, v, d) /\ w1.count[v] + d \in Nat
    BY <1>1, <1>10, <2>2 DEF w1
  <2>4. /\ w \in BvStates /\ w.count[v] = w1.count[v] + d
        /\ \A x \in Vertex : x # v => w.count[x] = w1.count[x]
        /\ w.list = w1.list /\ w.idx = w1.idx
    BY <1>1, <2>1, <2>2, <2>3, BumpedState
  <2>5. Listed(w, S)
    BY <1>2, <2>2, <2>4, ListedAlso
  <2> QED BY <1>1, <2>2, <2>4, <2>5
<1>11. ASSUME NEW w, w \in BvStates, Listed(w, Nearby(p, u, w.count)),
              w.count[u] = CutDegree(p, u) + O(P \cup {v}) - N(P \cup {v}),
              w.count[v] = CutDegree(m, v),
              \A x \in Vertex : x # u /\ x # v => w.count[x] = c[x]
       PROVE  During(p, u, new, P \cup {v}, w)
  <2>1. \A x \in Vertex \ {u} :
          w.count[x] = IF x \in P \cup {v} THEN CutDegree(m, x) ELSE CutDegree(p, x)
    BY <1>2, <1>11
  <2> QED BY <1>11, <2>1 DEF During, m, O, N
<1>12. CASE p[v] = new
  <2>0. near = BvBump(BvBump(s, u, -1), v, -1)
    BY DEF near
  <2>1. t = IF near.count[v] = 0 THEN BvRemove(near, v, new) ELSE near
    BY <1>12 DEF BvVisit, near
  <2> HIDE DEF t
  <2>2. c[u] + -1 \in Nat /\ c[v] + -1 \in Nat
    BY <1>2, <1>3, <1>4, <1>5, <1>6, <1>7, <1>12
  <2>3. /\ near \in BvStates /\ Listed(near, S)
        /\ near.count[u] = c[u] + -1 /\ near.count[v] = c[v] + -1
        /\ \A x \in Vertex : x # u /\ x # v => near.count[x] = c[x]
    <3>1. -1 \in {-1, 1}
      OBVIOUS
    <3> QED BY <1>10, <2>0, <2>2, <3>1
  <2>4. /\ near.count[u] = CutDegree(p, u) + O(P \cup {v}) - N(P \cup {v})
        /\ near.count[v] = CutDegree(m, v)
    BY <1>2, <1>3, <1>5, <1>6, <1>7, <1>12, <2>3
  <2>5. CASE near.count[v] = 0
    <3>1. v \in S[new]
      <4>1. c[v] > 0
        BY <1>5, <1>7, <2>3, <2>5
      <4>2. v \in Members(p, new) \ {u}
        BY <1>1, <1>9, <1>12
      <4> QED BY <1>8, <4>1, <4>2
    <3>2. Listed(t, [S EXCEPT ![new] = S[new] \ {v}]) /\ t.count = near.count
      BY <2>1, <2>3, <2>5, <3>1, RemoveLists
    <3>3. Nearby(p, u, t.count) = [S EXCEPT ![new] = S[new] \ {v}]
      <4>1. S \in [Block -> SUBSET Vertex]
        BY <2>3 DEF Listed
      <4>2. ASSUME NEW b \in Block
            PROVE  {x \in Members(p, b) \ {u} : t.count[x] > 0} = IF b = new THEN S[new] \ {v} ELSE S[b]
        <5>1. \A x \in Members(p, b) \ {u} : x # v => (t.count[x] > 0 <=> c[x] > 0)
          BY <2>3, <3>2 DEF Members
        <5>2. ~ (t.count[v] > 0)
          BY <2>5, <3>2
        <5>3. v \in Members(p, b) <=> b = new
          BY <1>9, <1>12
        <5> QED BY <1>8, <5>1, <5>2, <5>3
      <4> QED BY <4>1, <4>2 DEF Nearby
    <3>4. t \in BvStates /\ Listed(t, Nearby(p, u, t.count))
      BY <3>2, <3>3 DEF Listed
    <3> QED BY <1>11, <2>3, <2>4, <3>2, <3>4 DEF t
  <2>6. CASE near.count[v] # 0
    <3>1. t = near
      BY <2>1, <2>6
    <3>2. Nearby(p, u, near.count) = S
      <4>1. ASSUME NEW b \in Block
            PROVE  {x \in Members(p, b) \ {u} : near.count[x] > 0} = {x \in Members(p, b) \ {u} : c[x] > 0}
        <5>1. \A x \in Members(p, b) \ {u} : x # v => (near.count[x] > 0 <=> c[x] > 0)
          BY <2>3 DEF Members
        <5>2. near.count[v] > 0 /\ c[v] > 0
          BY <1>2, <1>1, <2>2, <2>3, <2>6
        <5> QED BY <5>1, <5>2
      <4> QED BY <4>1 DEF Nearby, S
    <3> QED BY <1>11, <2>3, <2>4, <3>1, <3>2 DEF t
  <2> QED BY <2>5, <2>6 DEF t
<1>13. CASE p[v] = old
  <2>0. far = BvBump(BvBump(s, u, 1), v, 1)
    BY DEF far
  <2>1. t = IF far.count[v] = 1 THEN BvEmplace(far, v, old) ELSE far
    BY <1>13 DEF BvVisit, far
  <2> HIDE DEF t
  <2>2. c[u] + 1 \in Nat /\ c[v] + 1 \in Nat
    BY <1>5, <1>7
  <2>3. /\ far \in BvStates /\ Listed(far, S)
        /\ far.count[u] = c[u] + 1 /\ far.count[v] = c[v] + 1
        /\ \A x \in Vertex : x # u /\ x # v => far.count[x] = c[x]
    <3>1. 1 \in {-1, 1}
      OBVIOUS
    <3> QED BY <1>10, <2>0, <2>2, <3>1
  <2>4. /\ far.count[u] = CutDegree(p, u) + O(P \cup {v}) - N(P \cup {v})
        /\ far.count[v] = CutDegree(m, v)
    BY <1>2, <1>3, <1>5, <1>6, <1>7, <1>13, <2>3
  <2>5. CASE far.count[v] = 1
    <3>1. \A b \in Block : v \notin S[b]
      <4>1. ~ (c[v] > 0)
        BY <1>5, <1>7, <2>3, <2>5
      <4> QED BY <1>8, <4>1
    <3>2. Listed(t, [S EXCEPT ![old] = S[old] \cup {v}]) /\ t.count = far.count
      <4>1. t = BvEmplace(far, v, old)
        BY <2>1, <2>5
      <4>2. BvEmplace(far, v, old).count = far.count
        <5>1. far \in BvStates /\ v \in Vertex /\ old \in Block
          BY <1>1, <2>3
        <5> QED BY <5>1, EmplaceCount
      <4>3. Listed(BvEmplace(far, v, old), [S EXCEPT ![old] = S[old] \cup {v}])
        BY <1>1, <2>3, <3>1, EmplaceLists
      <4> QED BY <4>1, <4>2, <4>3
    <3>3. Nearby(p, u, t.count) = [S EXCEPT ![old] = S[old] \cup {v}]
      <4>1. S \in [Block -> SUBSET Vertex]
        BY <2>3 DEF Listed
      <4>2. ASSUME NEW b \in Block
            PROVE  {x \in Members(p, b) \ {u} : t.count[x] > 0} = IF b = old THEN S[old] \cup {v} ELSE S[b]
        <5>1. \A x \in Members(p, b) \ {u} : x # v => (t.count[x] > 0 <=> c[x] > 0)
          BY <2>3, <3>2 DEF Members
        <5>2. t.count[v] > 0 /\ v # u /\ v \notin S[b]
          BY <1>1, <2>5, <3>1, <3>2
        <5>3. v \in Members(p, b) <=> b = old
          BY <1>1, <1>9, <1>13
        <5> QED BY <1>8, <5>1, <5>2, <5>3
      <4> QED BY <4>1, <4>2 DEF Nearby
    <3>4. t \in BvStates /\ Listed(t, Nearby(p, u, t.count))
      BY <3>2, <3>3 DEF Listed
    <3> QED BY <1>11, <2>3, <2>4, <3>2, <3>4 DEF t
  <2>6. CASE far.count[v] # 1
    <3>1. t = far
      BY <2>1, <2>6
    <3>2. Nearby(p, u, far.count) = S
      <4>1. ASSUME NEW b \in Block
            PROVE  {x \in Members(p, b) \ {u} : far.count[x] > 0} = {x \in Members(p, b) \ {u} : c[x] > 0}
        <5>1. \A x \in Members(p, b) \ {u} : x # v => (far.count[x] > 0 <=> c[x] > 0)
          BY <2>3 DEF Members
        <5>2. far.count[v] > 0 /\ c[v] > 0
          BY <1>2, <1>1, <2>2, <2>3, <2>6
        <5> QED BY <5>1, <5>2
      <4> QED BY <4>1 DEF Nearby, S
    <3> QED BY <1>11, <2>3, <2>4, <3>1, <3>2 DEF t
  <2> QED BY <2>5, <2>6 DEF t
<1>14. CASE p[v] # new /\ p[v] # old
  <2>1. t = s
    BY <1>14 DEF BvVisit
  <2>2. /\ s.count[u] = CutDegree(p, u) + O(P \cup {v}) - N(P \cup {v})
        /\ s.count[v] = CutDegree(m, v)
    BY <1>2, <1>3, <1>5, <1>6, <1>7, <1>14 DEF c
  <2>3. Listed(s, Nearby(p, u, s.count)) /\ s \in BvStates /\ \A x \in Vertex : s.count[x] = c[x]
    BY <1>2 DEF S, c
  <2> HIDE DEF t
  <2>4. During(p, u, new, P \cup {v}, s)
    BY <1>11, <2>2, <2>3
  <2> QED BY <2>1, <2>4 DEF t
<1> QED BY <1>12, <1>13, <1>14

(* The boundary is right for the partition p.                               *)
Boundaries(p) == [b \in Block |-> BoundaryOf(p, b)]

BvInv(p, s) ==
  /\ s \in BvStates
  /\ Listed(s, Boundaries(p))
  /\ \A v \in Vertex : s.count[v] = CutDegree(p, v)

(* Before the loop the vertex is taken out of its list.                     *)
LEMMA BoundaryStart ==
  ASSUME NEW p \in [Vertex -> Block], NEW u \in Vertex, NEW new \in Block, p[u] # new,
         BvInv(p, bv)
  PROVE  During(p, u, new, {}, IF IsBoundary(u) THEN BvRemove(bv, u, p[u]) ELSE bv)
<1> DEFINE old == p[u]
           t == IF IsBoundary(u) THEN BvRemove(bv, u, old) ELSE bv
           S == Boundaries(p)
<1>1. /\ bv \in BvStates /\ Listed(bv, S) /\ old \in Block
      /\ \A v \in Vertex : bv.count[v] = CutDegree(p, v)
  BY DEF BvInv
<1>2. \A b \in Block : S[b] = {x \in Members(p, b) : CutDegree(p, x) > 0}
  BY DEF Boundaries, BoundaryOf
<1>3. S \in [Block -> SUBSET Vertex]
  BY <1>1 DEF Listed
<1>4. \A b \in Block : u \in Members(p, b) <=> b = old
  BY DEF Members
<1>5. \A b \in Block : Members(p, b) \subseteq Vertex
  BY MembersFinite
<1>6. t \in BvStates /\ Listed(t, Nearby(p, u, t.count)) /\ t.count = bv.count
  <2>1. CASE IsBoundary(u)
    <3>1. u \in S[old]
      BY <1>1, <1>2, <1>4, <2>1 DEF IsBoundary
    <3> HIDE DEF S
    <3>2. Listed(t, [S EXCEPT ![old] = S[old] \ {u}]) /\ t.count = bv.count
      BY <1>1, <2>1, <3>1, RemoveLists
    <3>3. ASSUME NEW b \in Block
          PROVE  {x \in Members(p, b) \ {u} : t.count[x] > 0} = IF b = old THEN S[old] \ {u} ELSE S[b]
      <4>1. \A x \in Members(p, b) : t.count[x] = CutDegree(p, x)
        BY <1>1, <1>5, <3>2
      <4> QED BY <1>2, <1>4, <4>1
    <3>4. Nearby(p, u, t.count) = [S EXCEPT ![old] = S[old] \ {u}]
      BY <1>3, <3>3 DEF Nearby
    <3> QED BY <3>2, <3>4 DEF Listed
  <2>2. CASE ~ IsBoundary(u)
    <3>1. t = bv /\ ~ (CutDegree(p, u) > 0)
      BY <1>1, <2>2 DEF IsBoundary
    <3> HIDE DEF t, S
    <3>2. ASSUME NEW b \in Block
          PROVE  {x \in Members(p, b) \ {u} : bv.count[x] > 0} = S[b]
      <4>1. \A x \in Members(p, b) : bv.count[x] = CutDegree(p, x)
        BY <1>1, <1>5
      <4> QED BY <1>2, <3>1, <4>1
    <3>3. Nearby(p, u, bv.count) = S
      BY <1>3, <3>2 DEF Nearby
    <3> QED BY <1>1, <3>1, <3>3
  <2> QED BY <2>1, <2>2
<1> HIDE DEF t
<1>7. /\ {} \cap Into(p, u, old) = {} /\ {} \cap Into(p, u, new) = {} /\ Cardinality({}) = 0
  BY FS_EmptySet
<1>8. Cardinality({} \cap Into(p, u, old)) = 0 /\ Cardinality({} \cap Into(p, u, new)) = 0
  BY <1>7, Zenon
<1>9. t.count[u] = CutDegree(p, u) + Cardinality({} \cap Into(p, u, old))
                     - Cardinality({} \cap Into(p, u, new))
  BY <1>1, <1>6, <1>8, CutDegreeCounts
<1>10. \A x \in Vertex \ {u} :
         t.count[x] = IF x \in {} THEN CutDegree(Moved(p, u, new), x) ELSE CutDegree(p, x)
  BY <1>1, <1>6
<1>11. During(p, u, new, {}, t)
  BY <1>6, <1>9, <1>10 DEF During
<1> QED BY <1>11 DEF t

(* After the loop the vertex is put into its new list if it is still on the *)
(* boundary.                                                                *)
LEMMA BoundaryEnd ==
  ASSUME NEW p \in [Vertex -> Block], NEW u \in Vertex, NEW new \in Block, p[u] # new,
         NEW s, During(p, u, new, Adj(u), s)
  PROVE  BvInv(Moved(p, u, new), IF s.count[u] > 0 THEN BvEmplace(s, u, new) ELSE s)
<1> DEFINE m == Moved(p, u, new)
           t == IF s.count[u] > 0 THEN BvEmplace(s, u, new) ELSE s
           S == Nearby(p, u, s.count)
           T == Boundaries(m)
<1>1. /\ s \in BvStates /\ Listed(s, S)
      /\ \A x \in Vertex \ {u} :
           s.count[x] = IF x \in Adj(u) THEN CutDegree(Moved(p, u, new), x) ELSE CutDegree(p, x)
      /\ s.count[u] = CutDegree(p, u) + Cardinality(Adj(u) \cap Into(p, u, p[u]))
                        - Cardinality(Adj(u) \cap Into(p, u, new))
  BY DEF During
<1>2. Adj(u) \cap Into(p, u, p[u]) = Into(p, u, p[u]) /\ Adj(u) \cap Into(p, u, new) = Into(p, u, new)
  BY DEF Into
<1>3. \A x \in Vertex : s.count[x] = CutDegree(m, x)
  <2>1. s.count[u] = CutDegree(p, u) + Cardinality(Into(p, u, p[u])) - Cardinality(Into(p, u, new))
    BY <1>1, <1>2
  <2>2. s.count[u] = CutDegree(m, u)
    BY <2>1, CutDegreeMoved
  <2>3. \A x \in Vertex \ {u} : x \notin Adj(u) => CutDegree(m, x) = CutDegree(p, x)
    BY CutDegreeMoved
  <2> QED BY <1>1, <2>2, <2>3
<1>4. /\ m \in [Vertex -> Block] /\ m[u] = new /\ \A v \in Vertex \ {u} : m[v] = p[v]
  BY MembersMoved
<1> HIDE DEF m
<1>5. \A b \in Block : S[b] = {x \in Members(p, b) \ {u} : CutDegree(m, x) > 0}
  BY <1>3 DEF Nearby, Members
<1>6. \A b \in Block : T[b] = {x \in Members(m, b) : CutDegree(m, x) > 0}
  BY DEF Boundaries, BoundaryOf
<1>7. \A b \in Block : Members(m, b) \ {u} = Members(p, b) \ {u} /\ (u \in Members(m, b) <=> b = new)
  BY <1>4 DEF Members
<1>8. S \in [Block -> SUBSET Vertex] /\ T = [b \in Block |-> T[b]]
  BY <1>1 DEF Listed, Boundaries
<1> HIDE DEF S, T
<1>9. CASE s.count[u] > 0
  <2>1. CutDegree(m, u) > 0 /\ \A b \in Block : u \notin S[b]
    BY <1>3, <1>5, <1>9
  <2>2. T = [S EXCEPT ![new] = S[new] \cup {u}]
    <3>1. \A b \in Block : T[b] = IF b = new THEN S[new] \cup {u} ELSE S[b]
      <4> SUFFICES ASSUME NEW b \in Block PROVE T[b] = IF b = new THEN S[b] \cup {u} ELSE S[b]
        OBVIOUS
      <4>1. \A x : x # u => (x \in Members(m, b) <=> x \in Members(p, b))
        BY <1>7
      <4>2. \A x : x \in T[b] <=> x \in Members(m, b) /\ CutDegree(m, x) > 0
        BY <1>6
      <4>3. \A x : x \in S[b] <=> x \in Members(p, b) /\ x # u /\ CutDegree(m, x) > 0
        BY <1>5
      <4>4. u \in Members(m, b) <=> b = new
        BY <1>7
      <4> QED BY <2>1, <4>1, <4>2, <4>3, <4>4
    <3> QED BY <1>8, <3>1
  <2>3. t = BvEmplace(s, u, new) /\ t.count = s.count
    BY <1>1, <1>9, EmplaceCount
  <2>4. Listed(BvEmplace(s, u, new), [S EXCEPT ![new] = S[new] \cup {u}])
    BY <1>1, <2>1, EmplaceLists
  <2> HIDE DEF t
  <2>5. Listed(t, T)
    BY <2>2, <2>3, <2>4
  <2>6. BvInv(m, t)
    BY <1>3, <2>3, <2>5 DEF BvInv, Listed, T
  <2> QED BY <2>6 DEF t, m
<1>10. CASE ~ (s.count[u] > 0)
  <2>1. ~ (CutDegree(m, u) > 0)
    BY <1>3, <1>10
  <2>2. T = S
    <3>1. \A b \in Block : T[b] = S[b]
      BY <1>5, <1>6, <1>7, <2>1
    <3> QED BY <1>8, <3>1
  <2>3. t = s
    BY <1>10
  <2>4. BvInv(m, s)
    BY <1>1, <1>3, <2>2 DEF BvInv, T
  <2> QED BY <2>3, <2>4 DEF m
<1> QED BY <1>9, <1>10

(* boundary_vertex_manager.move keeps counts and lists right.               *)
LEMMA BvMoveKeeps ==
  ASSUME NEW p \in [Vertex -> Block], BvInv(p, bv), NEW u \in Vertex, NEW new \in Block,
         p[u] # new, \A v \in Adj(u) : p[v] = partition[v], BvMove(u, p[u], new)
  PROVE  BvInv(Moved(p, u, new), bv')
<1> DEFINE old == p[u]
           start == IF IsBoundary(u) THEN BvRemove(bv, u, old) ELSE bv
           l == AdjOrder[u]
           n == Len(l)
           dom == DOMAIN l
           A(h) == [s \in SUBSET dom |->
                      IF s = {} THEN start
                      ELSE BvVisit(h[s \ {Max(s)}], u, l[Max(s)], old, new)]
           iter == CHOOSE h : h = A(h)
           moved == FoldLeft(LAMBDA s, v : BvVisit(s, u, v, old, new), start, AdjOrder[u])
           X == [s \in Indices(n) |-> {c \in BvStates : During(p, u, new, Visited(l, s), c)}]
           Body == [s \in Indices(n) |-> [c \in X[Earlier(s)] |->
                      BvVisit(c, u, LastVisited(l, s), old, new)]]
<1>0. moved = iter[dom]
  BY DEF FoldLeft, MapThenFoldSet
<1>a. bv' = IF moved.count[u] > 0 THEN BvEmplace(moved, u, new) ELSE moved
  BY DEF BvMove
<1> HIDE DEF moved
<1>1. /\ n \in Nat /\ dom = 1 .. n
      /\ Indices(n) = SUBSET dom /\ {} \in Indices(n) /\ dom \in Indices(n)
      /\ Visited(l, {}) = {} /\ Visited(l, dom) = Adj(u)
      /\ \A s \in Indices(n) : Visited(l, s) \subseteq Adj(u)
      /\ \A s \in Indices(n) : s # {} =>
           /\ Earlier(s) \in Indices(n)
           /\ LastVisited(l, s) \in Adj(u)
           /\ LastVisited(l, s) \notin Visited(l, Earlier(s))
           /\ Visited(l, s) = Visited(l, Earlier(s)) \cup {LastVisited(l, s)}
  BY Listings, VisitOrder
<1> HIDE DEF n, dom, l
<1>4. During(p, u, new, {}, start)
  BY BoundaryStart
<1> HIDE DEF start
<1>5. ASSUME NEW s \in Indices(n), s # {}, NEW c, During(p, u, new, Visited(l, Earlier(s)), c)
      PROVE  During(p, u, new, Visited(l, s), BvVisit(c, u, LastVisited(l, s), old, new))
  <2> DEFINE v == LastVisited(l, s)
             E == Visited(l, Earlier(s))
  <2>1. /\ v \in Adj(u) /\ v \notin E /\ Visited(l, s) = E \cup {v} /\ E \in SUBSET Adj(u)
        /\ p[v] = partition[v] /\ During(p, u, new, E, c)
    BY <1>1, <1>5
  <2> HIDE DEF v, E
  <2>2. During(p, u, new, E \cup {v}, BvVisit(c, u, v, p[u], new))
    BY <2>1, BoundaryVisit
  <2> QED BY <2>1, <2>2 DEF v
<1>6. StaysIn(X, Body, start, n)
  <2>1. start \in X[{}]
    BY <1>1, <1>4 DEF During
  <2>2. ASSUME NEW s \in Indices(n), s # {}, NEW c \in X[Earlier(s)] PROVE Body[s][c] \in X[s]
    <3>1. Earlier(s) \in Indices(n) /\ During(p, u, new, Visited(l, Earlier(s)), c)
      BY <1>1, <2>2
    <3>2. Body[s][c] = BvVisit(c, u, LastVisited(l, s), old, new)
      OBVIOUS
    <3>3. During(p, u, new, Visited(l, s), Body[s][c])
      BY SMTT(40), <1>5, <2>2, <3>1, <3>2
    <3>4. Body[s][c] \in BvStates
      BY <3>3 DEF During
    <3> HIDE DEF Body
    <3> QED BY <3>3, <3>4
  <2> QED BY <2>1, <2>2 DEF StaysIn
<1>7. PICK g : IsFold(g, Body, start, n)
  BY <1>1, FoldExists
<1>8. \A s \in Indices(n) : g[s] \in X[s]
  <2> HIDE DEF X, Body
  <2> QED BY <1>1, <1>6, <1>7, FoldReaches
<1>9. g = A(g)
  <2>1. ASSUME NEW s \in Indices(n), s # {}
        PROVE  g[s] = BvVisit(g[s \ {Max(s)}], u, l[Max(s)], old, new)
    <3>1. g[s] = Body[s][g[Earlier(s)]]
      BY <1>7, <2>1 DEF IsFold
    <3>2. g[Earlier(s)] \in X[Earlier(s)]
      BY <1>1, <1>8, <2>1
    <3> HIDE DEF X
    <3>3. g[s] = BvVisit(g[Earlier(s)], u, LastVisited(l, s), old, new)
      BY <3>1, <3>2
    <3> QED BY <3>3 DEF Earlier, LastVisited
  <2>2. g = [s \in Indices(n) |-> g[s]] /\ g[{}] = start
    BY <1>7 DEF IsFold
  <2>3. \A s \in Indices(n) : g[s] = IF s = {} THEN start
                      ELSE BvVisit(g[s \ {Max(s)}], u, l[Max(s)], old, new)
    BY <2>1, <2>2
  <2> QED BY <1>1, <2>2, <2>3
<1>10. iter = A(iter)
  BY <1>9
<1> HIDE DEF iter
<1>11. iter[{}] = start
  BY <1>1, <1>10
<1>12. \A s \in Indices(n) : s # {} =>
         iter[s] = BvVisit(iter[Earlier(s)], u, LastVisited(l, s), old, new)
  BY <1>1, <1>10 DEF Earlier, LastVisited
<1> DEFINE Q == {s \in Indices(n) : During(p, u, new, Visited(l, s), iter[s])}
<1>13. {} \in Q
  BY <1>1, <1>4, <1>11
<1>14. ASSUME NEW s \in Indices(n), s # {}, Earlier(s) \in Q PROVE s \in Q
  BY <1>5, <1>12, <1>14
<1>15. \A s \in Indices(n) : s \in Q
  <2> HIDE DEF Q
  <2> QED BY <1>1, <1>13, <1>14, IndexInduction
<1>16. During(p, u, new, Adj(u), moved)
  BY <1>0, <1>1, <1>15
<1> QED BY <1>16, <1>a, BoundaryEnd

(* The invariant implies what the assertions of the code check.             *)
LEMMA BvInvSuffices ==
  ASSUME NEW p, p = partition, BvInv(p, bv)
  PROVE  CorrectBoundary /\ BvTypeOK
<1>1. /\ Listed(bv, Boundaries(p)) /\ bv \in BvStates
      /\ \A v \in Vertex : bv.count[v] = CutDegree(p, v)
  BY DEF BvInv
<1>2. BvTypeOK
  BY <1>1 DEF BvTypeOK, BvStates
<1>3. \A b \in Block : Boundaries(p)[b] = BoundaryOf(p, b)
  BY DEF Boundaries
<1>4. \A b \in Block : /\ ToSet(bv.list[b]) = BoundaryOf(p, b)
                       /\ \A i \in DOMAIN bv.list[b] : bv.idx[bv.list[b][i]] = i
  BY <1>1, <1>3 DEF Listed
<1> QED BY <1>1, <1>2, <1>4 DEF CorrectBoundary

(* The boundary vertices in P are listed.                                   *)
ListedUpTo(p, P, s) ==
  /\ s \in BvStates
  /\ Listed(s, [b \in Block |-> BoundaryOf(p, b) \cap P])
  /\ \A v \in Vertex : s.count[v] = IF v \in P THEN CutDegree(p, v) ELSE 0

(* The first pass starts with empty lists.                                  *)
LEMMA NoneListed == ASSUME NEW p \in [Vertex -> Block] PROVE ListedUpTo(p, {}, BvEmpty)
<1> DEFINE S == [b \in Block |-> BoundaryOf(p, b) \cap {}]
<1>1. <<>> \in Seq(Vertex) /\ ToSet(<<>>) = {} /\ DOMAIN <<>> = {}
  BY DEF ToSet
<1>2. /\ BvEmpty \in BvStates
      /\ \A v \in Vertex : BvEmpty.count[v] = 0
      /\ \A b \in Block : BvEmpty.list[b] = <<>>
  BY <1>1 DEF BvEmpty, BvStates
<1>3. S = [b \in Block |-> {}]
  OBVIOUS
<1> HIDE DEF S
<1>4. Listed(BvEmpty, S)
  BY <1>1, <1>2, <1>3 DEF Listed
<1> QED BY <1>2, <1>4 DEF ListedUpTo, S

(* One vertex of the first pass.                                            *)
LEMMA ListOne ==
  ASSUME NEW p \in [Vertex -> Block], NEW P \in SUBSET Vertex, NEW u \in Vertex, u \notin P,
         NEW s, ListedUpTo(p, P, s)
  PROVE  ListedUpTo(p, P \cup {u},
           IF CutDegree(p, u) = 0 THEN s
           ELSE BvEmplace(BvBump(s, u, CutDegree(p, u)), u, p[u]))
<1> DEFINE d == CutDegree(p, u)
           w == BvBump(s, u, d)
           t == IF d = 0 THEN s ELSE BvEmplace(w, u, p[u])
           S == [b \in Block |-> BoundaryOf(p, b) \cap P]
           T == [b \in Block |-> BoundaryOf(p, b) \cap (P \cup {u})]
<1>1. /\ s \in BvStates /\ Listed(s, S) /\ p[u] \in Block
      /\ \A v \in Vertex : s.count[v] = IF v \in P THEN CutDegree(p, v) ELSE 0
  BY DEF ListedUpTo
<1>2. d \in Nat
  BY CutDegreeCounts
<1>3. \A b \in Block : u \in BoundaryOf(p, b) <=> b = p[u] /\ d # 0
  BY <1>2 DEF BoundaryOf, Members
<1>4. S \in [Block -> SUBSET Vertex] /\ T = [b \in Block |-> T[b]]
  BY <1>1 DEF Listed
<1>5. /\ \A b \in Block : S[b] = BoundaryOf(p, b) \cap P
      /\ \A b \in Block : T[b] = BoundaryOf(p, b) \cap (P \cup {u})
  OBVIOUS
<1> HIDE DEF S, T, d
<1>6. CASE d = 0
  <2>1. T = S
    <3>1. ASSUME NEW b \in Block PROVE T[b] = S[b]
      <4>1. u \notin BoundaryOf(p, b)
        BY <1>3, <1>6
      <4>2. S[b] = BoundaryOf(p, b) \cap P /\ T[b] = BoundaryOf(p, b) \cap (P \cup {u})
        BY <1>5
      <4> QED BY <4>1, <4>2
    <3> QED BY <1>4, <3>1
  <2>2. ListedUpTo(p, P \cup {u}, s)
    <3>1. \A v \in Vertex : s.count[v] = IF v \in P \cup {u} THEN CutDegree(p, v) ELSE 0
      BY <1>1, <1>6 DEF d
    <3>2. Listed(s, T)
      BY <1>1, <2>1
    <3> QED BY <1>1, <3>1, <3>2 DEF ListedUpTo, T
  <2> QED BY <1>6, <2>2 DEF d
<1>7. CASE d # 0
  <2>1. s.count[u] = 0 /\ d \in Int /\ s.count[u] + d \in Nat
    BY <1>1, <1>2
  <2>2. /\ w \in BvStates /\ w.count[u] = s.count[u] + d
        /\ \A v \in Vertex : v # u => w.count[v] = s.count[v]
        /\ w.list = s.list /\ w.idx = s.idx
    BY <1>1, <2>1, BumpedState
  <2> HIDE DEF w
  <2>3. Listed(w, S)
    BY <1>1, <2>2, ListedAlso
  <2>4. \A b \in Block : u \notin S[b]
    BY <1>5
  <2>5. Listed(BvEmplace(w, u, p[u]), [S EXCEPT ![p[u]] = S[p[u]] \cup {u}])
    BY <1>1, <2>3, <2>4, EmplaceLists
  <2>6. BvEmplace(w, u, p[u]).count = w.count
    BY <1>1, <2>2, EmplaceCount
  <2>7. T = [S EXCEPT ![p[u]] = S[p[u]] \cup {u}]
    <3>1. \A b \in Block : T[b] = IF b = p[u] THEN S[p[u]] \cup {u} ELSE S[b]
      <4> SUFFICES ASSUME NEW b \in Block PROVE T[b] = IF b = p[u] THEN S[b] \cup {u} ELSE S[b]
        OBVIOUS
      <4>1. u \in BoundaryOf(p, b) <=> b = p[u]
        BY <1>3, <1>7
      <4>2. S[b] = BoundaryOf(p, b) \cap P /\ T[b] = BoundaryOf(p, b) \cap (P \cup {u})
        BY <1>5
      <4> QED BY <4>1, <4>2
    <3> QED BY <1>4, <3>1
  <2>8. \A v \in Vertex : w.count[v] = IF v \in P \cup {u} THEN CutDegree(p, v) ELSE 0
    BY <1>1, <1>2, <2>1, <2>2 DEF d
  <2>9. ASSUME NEW e, e = BvEmplace(w, u, p[u]) PROVE ListedUpTo(p, P \cup {u}, e)
    <3>1. Listed(e, T) /\ e.count = w.count
      BY <2>5, <2>6, <2>7, <2>9
    <3> QED BY <2>8, <3>1 DEF ListedUpTo, Listed, T
  <2> QED BY <1>7, <2>9 DEF w, d
<1> QED BY <1>6, <1>7

(* Counts and lists are right when they are computed.                       *)
LEMMA BvFromScratchRight ==
  ASSUME NEW p \in [Vertex -> Block]
  PROVE  BvInv(p, BvFromScratch(p))
<1> DEFINE l == AllVertices
           n == Len(l)
           dom == DOMAIN l
           Step(c, u) == IF CutDegree(p, u) = 0 THEN c
                         ELSE BvEmplace(BvBump(c, u, CutDegree(p, u)), u, p[u])
           A(h) == [s \in SUBSET dom |->
                      IF s = {} THEN BvEmpty ELSE Step(h[s \ {Max(s)}], l[Max(s)])]
           iter == CHOOSE h : h = A(h)
           X == [s \in Indices(n) |-> {c \in BvStates : ListedUpTo(p, Visited(l, s), c)}]
           Body == [s \in Indices(n) |-> [c \in X[Earlier(s)] |-> Step(c, LastVisited(l, s))]]
<1>0. BvFromScratch(p) = iter[dom]
  BY DEF BvFromScratch, FoldLeft, MapThenFoldSet
<1>1. /\ n \in Nat /\ dom = 1 .. n
      /\ Indices(n) = SUBSET dom /\ {} \in Indices(n) /\ dom \in Indices(n)
      /\ Visited(l, {}) = {} /\ Visited(l, dom) = Vertex
      /\ \A s \in Indices(n) : Visited(l, s) \subseteq Vertex
      /\ \A s \in Indices(n) : s # {} =>
           /\ Earlier(s) \in Indices(n)
           /\ LastVisited(l, s) \in Vertex
           /\ LastVisited(l, s) \notin Visited(l, Earlier(s))
           /\ Visited(l, s) = Visited(l, Earlier(s)) \cup {LastVisited(l, s)}
  BY Listings, VisitOrder
<1> HIDE DEF n, dom, l
<1>4. ListedUpTo(p, {}, BvEmpty)
  BY NoneListed
<1>5. ASSUME NEW s \in Indices(n), s # {}, NEW c, ListedUpTo(p, Visited(l, Earlier(s)), c)
      PROVE  ListedUpTo(p, Visited(l, s), Step(c, LastVisited(l, s)))
  <2> DEFINE v == LastVisited(l, s)
             E == Visited(l, Earlier(s))
  <2>1. /\ v \in Vertex /\ v \notin E /\ Visited(l, s) = E \cup {v} /\ E \in SUBSET Vertex
        /\ ListedUpTo(p, E, c)
    BY <1>1, <1>5
  <2> HIDE DEF v, E
  <2>2. ListedUpTo(p, E \cup {v}, Step(c, v))
    BY <2>1, ListOne
  <2> HIDE DEF Step
  <2> QED BY <2>1, <2>2 DEF v
<1> HIDE DEF Step
<1>6. StaysIn(X, Body, BvEmpty, n)
  <2>1. BvEmpty \in X[{}]
    <3>1. BvEmpty \in BvStates
      BY <1>4 DEF ListedUpTo
    <3>2. X[{}] = {c \in BvStates : ListedUpTo(p, Visited(l, {}), c)}
      BY <1>1
    <3>3. ListedUpTo(p, Visited(l, {}), BvEmpty)
      BY <1>1, <1>4
    <3> QED BY <3>1, <3>2, <3>3
  <2>2. ASSUME NEW s \in Indices(n), s # {}, NEW c \in X[Earlier(s)] PROVE Body[s][c] \in X[s]
    <3>1. Earlier(s) \in Indices(n) /\ ListedUpTo(p, Visited(l, Earlier(s)), c)
      BY <1>1, <2>2
    <3>2. Body[s][c] = Step(c, LastVisited(l, s))
      OBVIOUS
    <3>3. ListedUpTo(p, Visited(l, s), Body[s][c])
      BY <1>5, <2>2, <3>1, <3>2
    <3>4. Body[s][c] \in BvStates
      BY <3>3 DEF ListedUpTo
    <3> HIDE DEF Body
    <3> QED BY <3>3, <3>4
  <2> QED BY <2>1, <2>2 DEF StaysIn
<1>7. PICK g : IsFold(g, Body, BvEmpty, n)
  BY <1>1, FoldExists
<1>8. \A s \in Indices(n) : g[s] \in X[s]
  <2> HIDE DEF X, Body
  <2> QED BY <1>1, <1>6, <1>7, FoldReaches
<1>9. g = A(g)
  <2>1. ASSUME NEW s \in Indices(n), s # {}
        PROVE  g[s] = Step(g[s \ {Max(s)}], l[Max(s)])
    <3>1. g[s] = Body[s][g[Earlier(s)]]
      BY <1>7, <2>1 DEF IsFold
    <3>2. g[Earlier(s)] \in X[Earlier(s)]
      BY <1>1, <1>8, <2>1
    <3> HIDE DEF X
    <3>3. g[s] = Step(g[Earlier(s)], LastVisited(l, s))
      BY <3>1, <3>2
    <3> QED BY <3>3 DEF Earlier, LastVisited
  <2>2. g = [s \in Indices(n) |-> g[s]] /\ g[{}] = BvEmpty
    BY <1>7 DEF IsFold
  <2>3. \A s \in Indices(n) : g[s] = IF s = {} THEN BvEmpty
                      ELSE Step(g[s \ {Max(s)}], l[Max(s)])
    BY <2>1, <2>2
  <2> QED BY <1>1, <2>2, <2>3
<1>10. iter = A(iter)
  BY <1>9
<1> HIDE DEF iter
<1>11. iter[{}] = BvEmpty
  BY <1>1, <1>10
<1>12. \A s \in Indices(n) : s # {} => iter[s] = Step(iter[Earlier(s)], LastVisited(l, s))
  BY <1>1, <1>10 DEF Earlier, LastVisited
<1> DEFINE Q == {s \in Indices(n) : ListedUpTo(p, Visited(l, s), iter[s])}
<1>13. {} \in Q
  BY <1>1, <1>4, <1>11
<1>14. ASSUME NEW s \in Indices(n), s # {}, Earlier(s) \in Q PROVE s \in Q
  BY <1>5, <1>12, <1>14
<1>15. \A s \in Indices(n) : s \in Q
  <2> HIDE DEF Q
  <2> QED BY <1>1, <1>13, <1>14, IndexInduction
<1>16. ListedUpTo(p, Vertex, iter[dom])
  BY <1>1, <1>15
<1>17. [b \in Block |-> BoundaryOf(p, b) \cap Vertex] = Boundaries(p)
  BY DEF Boundaries, BoundaryOf, Members
<1> QED BY <1>0, <1>16, <1>17 DEF ListedUpTo, BvInv

-----------------------------------------------------------------------------
(* The quotient graph: linked lists, and the weights of its records.        *)

(* The records and lists of the quotient graph, and the assignments of      *)
(* QLinkAt and QUnlinkAt one at a time.                                     *)
QPointers == QEdge \cup {NoEdge}
QStates == [weight : [QEdge -> Nat], head : [Block -> QPointers],
            prev : [QEdge -> [Block -> QPointers]], next : [QEdge -> [Block -> QPointers]]]

PrevOnly(t, s, f, x, v) ==
  /\ t \in QStates /\ t.weight = s.weight /\ t.head = s.head /\ t.next = s.next
  /\ \A h \in QEdge, y \in Block : t.prev[h][y] = IF h = f /\ y = x THEN v ELSE s.prev[h][y]
NextOnly(t, s, f, x, v) ==
  /\ t \in QStates /\ t.weight = s.weight /\ t.head = s.head /\ t.prev = s.prev
  /\ \A h \in QEdge, y \in Block : t.next[h][y] = IF h = f /\ y = x THEN v ELSE s.next[h][y]
HeadOnly(t, s, x, v) ==
  /\ t \in QStates /\ t.weight = s.weight /\ t.prev = s.prev /\ t.next = s.next
  /\ \A y \in Block : t.head[y] = IF y = x THEN v ELSE s.head[y]

(* The fields of a quotient graph.                                          *)
LEMMA QFields ==
  ASSUME NEW s \in QStates
  PROVE  /\ s.weight \in [QEdge -> Nat] /\ s.head \in [Block -> QPointers]
         /\ s.prev \in [QEdge -> [Block -> QPointers]] /\ s.next \in [QEdge -> [Block -> QPointers]]
BY DEF QStates

(* A quotient graph is made of its fields.                                  *)
LEMMA QRecord ==
  ASSUME NEW s \in QStates
  PROVE  s = [weight |-> s.weight, head |-> s.head, prev |-> s.prev, next |-> s.next]
BY DEF QStates

(* Setting one pointer.                                                     *)
LEMMA PointerSet ==
  ASSUME NEW g \in [QEdge -> [Block -> QPointers]], NEW f \in QEdge, NEW x \in Block,
         NEW v \in QPointers
  PROVE  /\ [g EXCEPT ![f][x] = v] \in [QEdge -> [Block -> QPointers]]
         /\ \A h \in QEdge, y \in Block :
              [g EXCEPT ![f][x] = v][h][y] = IF h = f /\ y = x THEN v ELSE g[h][y]
OBVIOUS

(* Setting a prev pointer changes nothing else.                             *)
LEMMA PrevSet ==
  ASSUME NEW s \in QStates, NEW f \in QEdge, NEW x \in Block, NEW v \in QPointers
  PROVE  PrevOnly(QSetPrev(s, f, x, v), s, f, x, v)
<1> DEFINE t == QSetPrev(s, f, x, v)
           g == [s.prev EXCEPT ![f][x] = v]
<1>1. t = [s EXCEPT !.prev = g]
  BY DEF QSetPrev
<1>2. /\ s.weight \in [QEdge -> Nat] /\ s.head \in [Block -> QPointers]
      /\ s.prev \in [QEdge -> [Block -> QPointers]] /\ s.next \in [QEdge -> [Block -> QPointers]]
  BY QFields
<1>3. /\ g \in [QEdge -> [Block -> QPointers]]
      /\ \A h \in QEdge, y \in Block : g[h][y] = IF h = f /\ y = x THEN v ELSE s.prev[h][y]
  BY <1>2, PointerSet
<1> HIDE DEF g, t
<1>4. t = [weight |-> s.weight, head |-> s.head, prev |-> g, next |-> s.next]
  BY <1>1, QRecord
<1>5. t.weight = s.weight /\ t.head = s.head /\ t.prev = g /\ t.next = s.next
  BY <1>4
<1>6. t \in QStates
  BY <1>2, <1>3, <1>4 DEF QStates
<1>7. \A h \in QEdge, y \in Block : t.prev[h][y] = IF h = f /\ y = x THEN v ELSE s.prev[h][y]
  BY <1>3, <1>5
<1> QED BY <1>5, <1>6, <1>7 DEF PrevOnly, t

(* Setting a next pointer changes nothing else.                             *)
LEMMA NextSet ==
  ASSUME NEW s \in QStates, NEW f \in QEdge, NEW x \in Block, NEW v \in QPointers
  PROVE  NextOnly(QSetNext(s, f, x, v), s, f, x, v)
<1> DEFINE t == QSetNext(s, f, x, v)
           g == [s.next EXCEPT ![f][x] = v]
<1>1. t = [s EXCEPT !.next = g]
  BY DEF QSetNext
<1>2. /\ s.weight \in [QEdge -> Nat] /\ s.head \in [Block -> QPointers]
      /\ s.prev \in [QEdge -> [Block -> QPointers]] /\ s.next \in [QEdge -> [Block -> QPointers]]
  BY QFields
<1>3. /\ g \in [QEdge -> [Block -> QPointers]]
      /\ \A h \in QEdge, y \in Block : g[h][y] = IF h = f /\ y = x THEN v ELSE s.next[h][y]
  BY <1>2, PointerSet
<1> HIDE DEF g, t
<1>4. t = [weight |-> s.weight, head |-> s.head, prev |-> s.prev, next |-> g]
  BY <1>1, QRecord
<1>5. t.weight = s.weight /\ t.head = s.head /\ t.prev = s.prev /\ t.next = g
  BY <1>4
<1>6. t \in QStates
  BY <1>2, <1>3, <1>4 DEF QStates
<1>7. \A h \in QEdge, y \in Block : t.next[h][y] = IF h = f /\ y = x THEN v ELSE s.next[h][y]
  BY <1>3, <1>5
<1> QED BY <1>5, <1>6, <1>7 DEF NextOnly, t

(* Setting a head changes nothing else.                                     *)
LEMMA HeadSet ==
  ASSUME NEW s \in QStates, NEW x \in Block, NEW v \in QPointers
  PROVE  HeadOnly(QSetHead(s, x, v), s, x, v)
<1> DEFINE t == QSetHead(s, x, v)
           g == [s.head EXCEPT ![x] = v]
<1>1. t = [s EXCEPT !.head = g]
  BY DEF QSetHead
<1>2. /\ s.weight \in [QEdge -> Nat] /\ s.head \in [Block -> QPointers]
      /\ s.prev \in [QEdge -> [Block -> QPointers]] /\ s.next \in [QEdge -> [Block -> QPointers]]
  BY QFields
<1>3. g \in [Block -> QPointers] /\ \A y \in Block : g[y] = IF y = x THEN v ELSE s.head[y]
  BY <1>2
<1> HIDE DEF g, t
<1>4. t = [weight |-> s.weight, head |-> g, prev |-> s.prev, next |-> s.next]
  BY <1>1, QRecord
<1>5. t.weight = s.weight /\ t.head = g /\ t.prev = s.prev /\ t.next = s.next
  BY <1>4
<1>6. t \in QStates
  BY <1>2, <1>3, <1>4 DEF QStates
<1>7. \A y \in Block : t.head[y] = IF y = x THEN v ELSE s.head[y]
  BY <1>3, <1>5
<1> QED BY <1>5, <1>6, <1>7 DEF HeadOnly, t

(* What QLinkAt and QUnlinkAt leave behind.                                 *)
Linking(t, s, e, x, o) ==
  /\ t \in QStates /\ t.weight = s.weight
  /\ \A y \in Block : t.head[y] = IF y = x THEN e ELSE s.head[y]
  /\ \A h \in QEdge, y \in Block :
       t.next[h][y] = IF h = e /\ y = x THEN o ELSE s.next[h][y]
  /\ \A h \in QEdge, y \in Block :
       t.prev[h][y] = IF h = e /\ y = x THEN NoEdge
                      ELSE IF h = o /\ y = x THEN e ELSE s.prev[h][y]

Unlinking(t, s, e, x, p, n) ==
  /\ t \in QStates /\ t.weight = s.weight
  /\ \A y \in Block : t.head[y] = IF y = x /\ p = NoEdge THEN n ELSE s.head[y]
  /\ \A h \in QEdge, y \in Block :
       t.next[h][y] = IF h = e /\ y = x THEN NoEdge
                      ELSE IF h = p /\ y = x THEN n ELSE s.next[h][y]
  /\ \A h \in QEdge, y \in Block :
       t.prev[h][y] = IF h = e /\ y = x THEN NoEdge
                      ELSE IF h = n /\ y = x THEN p ELSE s.prev[h][y]

(* The pointers that linking a record sets.                                 *)
LEMMA LinkFields ==
  ASSUME NEW s \in QStates, NEW e \in QEdge, NEW x \in Block
  PROVE  Linking(QLinkAt(s, e, x), s, e, x, s.head[x])
<1> DEFINE o == s.head[x]
           s1 == IF o = NoEdge THEN s ELSE QSetPrev(s, o, x, e)
           s2 == QSetPrev(s1, e, x, NoEdge)
           s3 == QSetNext(s2, e, x, o)
           s4 == QSetHead(s3, x, e)
<1>3. QLinkAt(s, e, x) = s4
  BY DEF QLinkAt
<1>2. o \in QPointers /\ e \in QPointers /\ NoEdge \in QPointers /\ (o # NoEdge => o \in QEdge)
  BY QFields DEF QPointers
<1> HIDE DEF o, s1
<1>4. /\ s1 \in QStates /\ s1.weight = s.weight /\ s1.head = s.head /\ s1.next = s.next
      /\ \A h \in QEdge, y \in Block :
           s1.prev[h][y] = IF h = o /\ y = x THEN e ELSE s.prev[h][y]
  <2>1. CASE o = NoEdge
    BY <2>1, NoEdgeAssumption DEF s1
  <2>2. CASE o # NoEdge
    <3>1. s1 = QSetPrev(s, o, x, e) /\ o \in QEdge
      BY <1>2, <2>2 DEF s1
    <3>2. PrevOnly(s1, s, o, x, e)
      BY <1>2, <3>1, PrevSet
    <3> QED BY <3>2 DEF PrevOnly
  <2> QED BY <2>1, <2>2
<1>5. PrevOnly(s2, s1, e, x, NoEdge) /\ s2 \in QStates
  <2>1. PrevOnly(s2, s1, e, x, NoEdge)
    BY <1>2, <1>4, PrevSet
  <2> QED BY <2>1 DEF PrevOnly
<1> HIDE DEF s2
<1>6. NextOnly(s3, s2, e, x, o) /\ s3 \in QStates
  <2>1. NextOnly(s3, s2, e, x, o)
    BY <1>2, <1>5, NextSet
  <2> QED BY <2>1 DEF NextOnly
<1> HIDE DEF s3
<1>7. HeadOnly(s4, s3, x, e)
  BY <1>2, <1>6, HeadSet
<1> HIDE DEF s4
<1>8. Linking(s4, s, e, x, o)
  BY <1>4, <1>5, <1>6, <1>7 DEF PrevOnly, NextOnly, HeadOnly, Linking
<1> QED BY <1>3, <1>8 DEF o

(* The pointers that unlinking a record sets.                               *)
LEMMA UnlinkFields ==
  ASSUME NEW s \in QStates, NEW e \in QEdge, NEW x \in Block
  PROVE  Unlinking(QUnlinkAt(s, e, x), s, e, x, s.prev[e][x], s.next[e][x])
<1> DEFINE p == s.prev[e][x]
           n == s.next[e][x]
           s1 == IF p = NoEdge THEN QSetHead(s, x, n) ELSE QSetNext(s, p, x, n)
           s2 == IF n = NoEdge THEN s1 ELSE QSetPrev(s1, n, x, p)
           s3 == QSetPrev(s2, e, x, NoEdge)
           s4 == QSetNext(s3, e, x, NoEdge)
<1>1. QUnlinkAt(s, e, x) = s4
  BY DEF QUnlinkAt
<1>2. /\ p \in QPointers /\ n \in QPointers /\ NoEdge \in QPointers
      /\ (p # NoEdge => p \in QEdge) /\ (n # NoEdge => n \in QEdge)
  BY QFields DEF QPointers
<1> HIDE DEF p, n, s1
<1>4. /\ s1 \in QStates /\ s1.weight = s.weight /\ s1.prev = s.prev
      /\ \A y \in Block : s1.head[y] = IF y = x /\ p = NoEdge THEN n ELSE s.head[y]
      /\ \A h \in QEdge, y \in Block :
           s1.next[h][y] = IF h = p /\ y = x THEN n ELSE s.next[h][y]
  <2>1. CASE p = NoEdge
    <3>1. s1 = QSetHead(s, x, n)
      BY <2>1 DEF s1
    <3>2. HeadOnly(s1, s, x, n)
      BY <1>2, <3>1, HeadSet
    <3> QED BY <2>1, <3>2, NoEdgeAssumption DEF HeadOnly
  <2>2. CASE p # NoEdge
    <3>1. s1 = QSetNext(s, p, x, n) /\ p \in QEdge
      BY <1>2, <2>2 DEF s1
    <3>2. NextOnly(s1, s, p, x, n)
      BY <1>2, <3>1, NextSet
    <3> QED BY <2>2, <3>2 DEF NextOnly
  <2> QED BY <2>1, <2>2
<1> HIDE DEF s2
<1>5. /\ s2 \in QStates /\ s2.weight = s1.weight /\ s2.head = s1.head /\ s2.next = s1.next
      /\ \A h \in QEdge, y \in Block :
           s2.prev[h][y] = IF h = n /\ y = x THEN p ELSE s1.prev[h][y]
  <2>1. CASE n = NoEdge
    BY <1>4, <2>1, NoEdgeAssumption DEF s2
  <2>2. CASE n # NoEdge
    <3>1. s2 = QSetPrev(s1, n, x, p) /\ n \in QEdge
      BY <1>2, <2>2 DEF s2
    <3>2. PrevOnly(s2, s1, n, x, p)
      BY <1>2, <1>4, <3>1, PrevSet
    <3> QED BY <3>2 DEF PrevOnly
  <2> QED BY <2>1, <2>2
<1>6. PrevOnly(s3, s2, e, x, NoEdge) /\ s3 \in QStates
  <2>1. PrevOnly(s3, s2, e, x, NoEdge)
    BY <1>2, <1>5, PrevSet
  <2> QED BY <2>1 DEF PrevOnly
<1> HIDE DEF s3
<1>7. NextOnly(s4, s3, e, x, NoEdge)
  BY <1>2, <1>6, NextSet
<1> HIDE DEF s4
<1>8. Unlinking(s4, s, e, x, p, n)
  BY <1>4, <1>5, <1>6, <1>7 DEF PrevOnly, NextOnly, Unlinking
<1> QED BY <1>1, <1>8 DEF p, n

(* L is the list of x: the records in S, threaded from the head.            *)
Chain(s, x, L, S) ==
  /\ L \in Seq(QEdge)
  /\ \A i, j \in 1 .. Len(L) : L[i] = L[j] => i = j
  /\ \A f \in QEdge : f \in S <=> \E i \in 1 .. Len(L) : L[i] = f
  /\ s.head[x] = IF Len(L) = 0 THEN NoEdge ELSE L[1]
  /\ \A i \in 1 .. Len(L) : s.next[L[i]][x] = IF i < Len(L) THEN L[i + 1] ELSE NoEdge
  /\ \A i \in 1 .. Len(L) : s.prev[L[i]][x] = IF i > 1 THEN L[i - 1] ELSE NoEdge

Threaded(s, S) ==
  /\ s \in QStates
  /\ S \in [Block -> SUBSET QEdge]
  /\ \A x \in Block : \E L : Chain(s, x, L, S[x])

(* What is left of a list when its k-th element is taken out.               *)
Without(L, k) == [i \in 1 .. Len(L) - 1 |-> IF i < k THEN L[i] ELSE L[i + 1]]

(* A record that is linked is the first of its chain.                       *)
LEMMA LinkChain ==
  ASSUME NEW s \in QStates, NEW x \in Block, NEW L, NEW S \in SUBSET QEdge, Chain(s, x, L, S),
         NEW e \in QEdge, e \notin S, NEW t, Linking(t, s, e, x, s.head[x])
  PROVE  Chain(t, x, <<e>> \o L, S \cup {e})
<1> DEFINE n == Len(L)
           M == <<e>> \o L
           o == s.head[x]
<1>1. /\ L \in Seq(QEdge) /\ n \in Nat
      /\ \A i, j \in 1 .. n : L[i] = L[j] => i = j
      /\ \A i \in 1 .. n : L[i] \in QEdge
      /\ \A f \in QEdge : f \in S <=> \E i \in 1 .. n : L[i] = f
      /\ o = IF n = 0 THEN NoEdge ELSE L[1]
      /\ \A i \in 1 .. n : s.next[L[i]][x] = IF i < n THEN L[i + 1] ELSE NoEdge
      /\ \A i \in 1 .. n : s.prev[L[i]][x] = IF i > 1 THEN L[i - 1] ELSE NoEdge
  BY DEF Chain
<1>2. /\ t.head[x] = e
      /\ \A h \in QEdge : t.next[h][x] = IF h = e THEN o ELSE s.next[h][x]
      /\ \A h \in QEdge : t.prev[h][x] = IF h = e THEN NoEdge ELSE IF h = o THEN e ELSE s.prev[h][x]
  BY DEF Linking
<1> HIDE DEF n, o
<1>3. /\ M \in Seq(QEdge) /\ Len(M) = n + 1 /\ M[1] = e
      /\ \A i \in 2 .. n + 1 : M[i] = L[i - 1]
  BY <1>1 DEF n
<1> HIDE DEF M
<1>4. \A i \in 1 .. n : L[i] # e
  BY <1>1
<1>5. \A i \in 1 .. n + 1 : i = 1 \/ (i \in 2 .. n + 1 /\ i - 1 \in 1 .. n)
  BY <1>1
<1>6. \A i, j \in 1 .. n + 1 : M[i] = M[j] => i = j
  <2> SUFFICES ASSUME NEW i \in 1 .. n + 1, NEW j \in 1 .. n + 1, M[i] = M[j] PROVE i = j
    OBVIOUS
  <2>1. CASE i = 1
    BY <1>3, <1>4, <1>5, <2>1
  <2>2. CASE j = 1
    BY <1>3, <1>4, <1>5, <2>2
  <2>3. CASE i # 1 /\ j # 1
    <3>1. i - 1 \in 1 .. n /\ j - 1 \in 1 .. n /\ L[i - 1] = L[j - 1]
      BY <1>3, <1>5, <2>3
    <3>2. i - 1 = j - 1
      BY <1>1, <3>1
    <3> QED BY <1>1, <3>2
  <2> QED BY <2>1, <2>2, <2>3
<1>7. \A f \in QEdge : f \in S \cup {e} <=> \E i \in 1 .. n + 1 : M[i] = f
  <2> SUFFICES ASSUME NEW f \in QEdge
               PROVE  f \in S \cup {e} <=> \E i \in 1 .. n + 1 : M[i] = f
    OBVIOUS
  <2>1. ASSUME f \in S PROVE \E i \in 1 .. n + 1 : M[i] = f
    <3>1. PICK i \in 1 .. n : L[i] = f
      BY <1>1, <2>1
    <3>2. i + 1 \in 2 .. n + 1 /\ (i + 1) - 1 = i
      BY <1>1
    <3>3. M[i + 1] = f /\ i + 1 \in 1 .. n + 1
      BY <1>1, <1>3, <3>1, <3>2
    <3> QED BY <3>3
  <2>2. ASSUME f = e PROVE \E i \in 1 .. n + 1 : M[i] = f
    BY <1>1, <1>3, <2>2
  <2>3. ASSUME NEW i \in 1 .. n + 1, M[i] = f PROVE f \in S \cup {e}
    BY <1>1, <1>3, <1>5, <2>3
  <2> QED BY <2>1, <2>2, <2>3
<1>8. \A i \in 1 .. n + 1 : t.next[M[i]][x] = IF i < n + 1 THEN M[i + 1] ELSE NoEdge
  <2> SUFFICES ASSUME NEW i \in 1 .. n + 1
               PROVE  t.next[M[i]][x] = IF i < n + 1 THEN M[i + 1] ELSE NoEdge
    OBVIOUS
  <2>1. CASE i = 1
    <3>1. t.next[M[i]][x] = o
      BY <1>2, <1>3, <2>1
    <3>2. n # 0 => M[2] = L[1]
      BY <1>1, <1>3
    <3> QED BY <1>1, <2>1, <3>1, <3>2
  <2>2. CASE i # 1
    <3>1. i \in 2 .. n + 1 /\ i - 1 \in 1 .. n /\ M[i] = L[i - 1]
      BY <1>3, <1>5, <2>2
    <3>2. t.next[M[i]][x] = s.next[L[i - 1]][x]
      BY <1>1, <1>2, <1>4, <3>1
    <3>3. s.next[L[i - 1]][x] = IF i - 1 < n THEN L[(i - 1) + 1] ELSE NoEdge
      BY <1>1, <3>1
    <3>4. i < n + 1 => M[i + 1] = L[(i - 1) + 1]
      BY <1>1, <1>3, <3>1
    <3> QED BY <1>1, <3>1, <3>2, <3>3, <3>4
  <2> QED BY <2>1, <2>2
<1>9. \A i \in 1 .. n + 1 : t.prev[M[i]][x] = IF i > 1 THEN M[i - 1] ELSE NoEdge
  <2> SUFFICES ASSUME NEW i \in 1 .. n + 1
               PROVE  t.prev[M[i]][x] = IF i > 1 THEN M[i - 1] ELSE NoEdge
    OBVIOUS
  <2>1. CASE i = 1
    BY <1>2, <1>3, <2>1
  <2>2. CASE i # 1
    <3>1. i \in 2 .. n + 1 /\ i - 1 \in 1 .. n /\ M[i] = L[i - 1]
      BY <1>3, <1>5, <2>2
    <3>2. t.prev[M[i]][x] = IF L[i - 1] = o THEN e ELSE s.prev[L[i - 1]][x]
      BY <1>1, <1>2, <1>4, <3>1
    <3>3. CASE i = 2
      <4>1. L[i - 1] = o
        BY <1>1, <3>1, <3>3
      <4> QED BY <1>3, <3>2, <3>3, <4>1
    <3>4. CASE i # 2
      <4>1. L[i - 1] # o
        BY <1>1, <3>1, <3>4
      <4>2. s.prev[L[i - 1]][x] = L[(i - 1) - 1]
        BY <1>1, <3>1, <3>4
      <4>3. M[i - 1] = L[(i - 1) - 1]
        BY <1>3, <3>1, <3>4
      <4> QED BY <3>1, <3>2, <4>1, <4>2, <4>3
    <3> QED BY <3>3, <3>4
  <2> QED BY <2>1, <2>2
<1>10. t.head[x] = IF Len(M) = 0 THEN NoEdge ELSE M[1]
  BY <1>1, <1>2, <1>3
<1>11. Chain(t, x, M, S \cup {e})
  BY <1>3, <1>6, <1>7, <1>8, <1>9, <1>10 DEF Chain
<1> QED BY <1>11 DEF M

(* Unlinking takes one record out of its chain and keeps the order of the   *)
(* others.                                                                  *)
LEMMA UnlinkChain ==
  ASSUME NEW s \in QStates, NEW x \in Block, NEW L, NEW S \in SUBSET QEdge, Chain(s, x, L, S),
         NEW k \in 1 .. Len(L),
         NEW t, Unlinking(t, s, L[k], x, s.prev[L[k]][x], s.next[L[k]][x])
  PROVE  Chain(t, x, Without(L, k), S \ {L[k]})
<1> DEFINE n == Len(L)
           M == Without(L, k)
           e == L[k]
           p == s.prev[e][x]
           o == s.next[e][x]
<1>1. /\ L \in Seq(QEdge) /\ n \in Nat /\ k \in 1 .. n
      /\ \A i, j \in 1 .. n : L[i] = L[j] => i = j
      /\ \A i \in 1 .. n : L[i] \in QEdge
      /\ \A f \in QEdge : f \in S <=> \E i \in 1 .. n : L[i] = f
      /\ s.head[x] = IF n = 0 THEN NoEdge ELSE L[1]
      /\ \A i \in 1 .. n : s.next[L[i]][x] = IF i < n THEN L[i + 1] ELSE NoEdge
      /\ \A i \in 1 .. n : s.prev[L[i]][x] = IF i > 1 THEN L[i - 1] ELSE NoEdge
  BY DEF Chain
<1>2. /\ t.head[x] = IF p = NoEdge THEN o ELSE s.head[x]
      /\ \A h \in QEdge : t.next[h][x] = IF h = e THEN NoEdge ELSE IF h = p THEN o ELSE s.next[h][x]
      /\ \A h \in QEdge : t.prev[h][x] = IF h = e THEN NoEdge ELSE IF h = o THEN p ELSE s.prev[h][x]
  BY DEF Unlinking
<1>3. /\ p = IF k > 1 THEN L[k - 1] ELSE NoEdge
      /\ o = IF k < n THEN L[k + 1] ELSE NoEdge
      /\ e = L[k]
  BY <1>1
<1> HIDE DEF n, p, o, e
<1>4. n - 1 \in Nat /\ \A i \in 1 .. n - 1 : i \in 1 .. n /\ i + 1 \in 1 .. n
  BY <1>1
<1>5. /\ M \in Seq(QEdge) /\ Len(M) = n - 1
      /\ \A i \in 1 .. n - 1 : M[i] = IF i < k THEN L[i] ELSE L[i + 1]
  <2>1. M = [i \in 1 .. n - 1 |-> IF i < k THEN L[i] ELSE L[i + 1]]
    BY DEF Without, n
  <2>2. \A i \in 1 .. n - 1 : (IF i < k THEN L[i] ELSE L[i + 1]) \in QEdge
    BY <1>1, <1>4
  <2> HIDE DEF M
  <2>3. M \in [1 .. n - 1 -> QEdge]
    BY <2>1, <2>2
  <2> QED BY <1>4, <2>1, <2>3
<1> HIDE DEF M
(* Where the i-th element of M stands in L.                                 *)
<1> DEFINE at(i) == IF i < k THEN i ELSE i + 1
<1>6. /\ \A i \in 1 .. n - 1 : at(i) \in 1 .. n /\ at(i) # k /\ M[i] = L[at(i)]
      /\ \A i, j \in 1 .. n - 1 : at(i) = at(j) => i = j
      /\ \A j \in 1 .. n : j # k => \E i \in 1 .. n - 1 : at(i) = j
  <2>1. \A i \in 1 .. n - 1 : at(i) \in 1 .. n /\ at(i) # k /\ M[i] = L[at(i)]
    BY <1>1, <1>4, <1>5
  <2>2. \A i, j \in 1 .. n - 1 : at(i) = at(j) => i = j
    BY <1>1, <1>4
  <2>3. ASSUME NEW j \in 1 .. n, j # k PROVE \E i \in 1 .. n - 1 : at(i) = j
    <3>1. CASE j < k
      <4>1. j \in 1 .. n - 1 /\ at(j) = j
        BY <1>1, <2>3, <3>1
      <4> HIDE DEF at
      <4> QED BY <4>1
    <3>2. CASE ~ (j < k)
      <4>1. j - 1 \in 1 .. n - 1 /\ at(j - 1) = j
        BY <1>1, <2>3, <3>2
      <4> HIDE DEF at
      <4> QED BY <4>1
    <3> QED BY <3>1, <3>2
  <2> QED BY <2>1, <2>2, <2>3
<1>7. \A i, j \in 1 .. n - 1 : M[i] = M[j] => i = j
  <2> HIDE DEF at
  <2> SUFFICES ASSUME NEW i \in 1 .. n - 1, NEW j \in 1 .. n - 1, M[i] = M[j] PROVE i = j
    OBVIOUS
  <2>1. L[at(i)] = L[at(j)] /\ at(i) \in 1 .. n /\ at(j) \in 1 .. n
    BY <1>6
  <2>2. at(i) = at(j)
    BY <1>1, <2>1
  <2> QED BY <1>6, <2>2
<1>8. \A i \in 1 .. n - 1 : M[i] # e /\ M[i] \in QEdge
  <2> HIDE DEF at
  <2> QED BY <1>1, <1>3, <1>6
<1>9. \A f \in QEdge : f \in S \ {e} <=> \E i \in 1 .. n - 1 : M[i] = f
  <2> SUFFICES ASSUME NEW f \in QEdge
               PROVE  f \in S \ {e} <=> \E i \in 1 .. n - 1 : M[i] = f
    OBVIOUS
  <2> HIDE DEF at
  <2>1. ASSUME f \in S \ {e} PROVE \E i \in 1 .. n - 1 : M[i] = f
    <3>1. PICK j \in 1 .. n : L[j] = f
      BY <1>1, <2>1
    <3>2. j # k
      BY <1>3, <2>1, <3>1
    <3> QED BY <1>6, <3>1, <3>2
  <2>2. ASSUME NEW i \in 1 .. n - 1, M[i] = f PROVE f \in S \ {e}
    BY <1>1, <1>6, <1>8, <2>2
  <2> QED BY <2>1, <2>2
<1>10. \A i \in 1 .. n - 1 : t.next[M[i]][x] = IF i < n - 1 THEN M[i + 1] ELSE NoEdge
  <2> SUFFICES ASSUME NEW i \in 1 .. n - 1
               PROVE  t.next[M[i]][x] = IF i < n - 1 THEN M[i + 1] ELSE NoEdge
    OBVIOUS
  <2>1. t.next[M[i]][x] = IF M[i] = p THEN o ELSE s.next[M[i]][x]
    BY <1>2, <1>8
  <2>2. CASE i = k - 1
    <3>1. M[i] = L[k - 1] /\ p = L[k - 1]
      BY SMTT(40), <1>1, <1>3, <1>5, <2>2
    <3>2. k < n /\ i < n - 1 => M[i + 1] = L[k + 1]
      BY <1>1, <1>5, <2>2
    <3> QED BY <1>1, <1>3, <2>1, <2>2, <3>1, <3>2
  <2>3. CASE i # k - 1
    <3>1. M[i] = L[at(i)] /\ at(i) \in 1 .. n /\ at(i) # k - 1
      BY <1>1, <1>6, <2>3
    <3>2. M[i] # p
      <4>1. CASE k > 1
        <5>1. k - 1 \in 1 .. n /\ p = L[k - 1]
          BY <1>1, <1>3, <4>1
        <5> HIDE DEF at
        <5> QED BY <1>1, <3>1, <5>1
      <4>2. CASE ~ (k > 1)
        BY <1>3, <1>8, <4>2, NoEdgeAssumption
      <4> QED BY <4>1, <4>2
    <3>3. s.next[M[i]][x] = IF at(i) < n THEN L[at(i) + 1] ELSE NoEdge
      BY <1>1, <3>1
    <3>4. i < n - 1 => at(i + 1) = at(i) + 1 /\ M[i + 1] = L[at(i + 1)]
      BY <1>1, <1>6, <2>3
    <3>5. at(i) < n <=> i < n - 1
      BY <1>1, <2>3
    <3> HIDE DEF at
    <3> QED BY <2>1, <3>2, <3>3, <3>4, <3>5
  <2> QED BY <2>2, <2>3
<1>11. \A i \in 1 .. n - 1 : t.prev[M[i]][x] = IF i > 1 THEN M[i - 1] ELSE NoEdge
  <2> SUFFICES ASSUME NEW i \in 1 .. n - 1
               PROVE  t.prev[M[i]][x] = IF i > 1 THEN M[i - 1] ELSE NoEdge
    OBVIOUS
  <2>1. t.prev[M[i]][x] = IF M[i] = o THEN p ELSE s.prev[M[i]][x]
    BY <1>2, <1>8
  <2>2. CASE i = k
    <3>1. M[i] = L[k + 1] /\ o = L[k + 1]
      BY <1>1, <1>3, <1>5, <2>2
    <3>2. k > 1 => M[i - 1] = L[k - 1]
      BY <1>1, <1>5, <2>2
    <3> QED BY <1>1, <1>3, <2>1, <2>2, <3>1, <3>2
  <2>3. CASE i # k
    <3>1. M[i] = L[at(i)] /\ at(i) \in 1 .. n /\ at(i) # k + 1
      BY <1>1, <1>6, <2>3
    <3>2. M[i] # o
      <4>1. CASE k < n
        <5>1. k + 1 \in 1 .. n /\ o = L[k + 1]
          BY <1>1, <1>3, <4>1
        <5> HIDE DEF at
        <5> QED BY <1>1, <3>1, <5>1
      <4>2. CASE ~ (k < n)
        BY <1>3, <1>8, <4>2, NoEdgeAssumption
      <4> QED BY <4>1, <4>2
    <3>3. s.prev[M[i]][x] = IF at(i) > 1 THEN L[at(i) - 1] ELSE NoEdge
      BY <1>1, <3>1
    <3>4. i > 1 => at(i - 1) = at(i) - 1 /\ M[i - 1] = L[at(i - 1)]
      <4> SUFFICES ASSUME i > 1 PROVE at(i - 1) = at(i) - 1 /\ M[i - 1] = L[at(i - 1)]
        OBVIOUS
      <4>1. i - 1 \in 1 .. n - 1
        BY <1>1
      <4>2. at(i - 1) = at(i) - 1
        BY <1>1, <2>3
      <4>3. M[i - 1] = L[at(i - 1)]
        BY <1>6, <4>1
      <4> QED BY <4>2, <4>3
    <3>5. at(i) > 1 <=> i > 1
      BY <1>1, <2>3
    <3> HIDE DEF at
    <3> QED BY <2>1, <3>2, <3>3, <3>4, <3>5
  <2> QED BY <2>2, <2>3
<1>12. t.head[x] = IF Len(M) = 0 THEN NoEdge ELSE M[1]
  <2>1. CASE k = 1
    <3>1. t.head[x] = o
      BY <1>2, <1>3, <2>1
    <3>2. n > 1 => M[1] = L[2]
      BY <1>1, <1>5, <2>1
    <3> QED BY <1>1, <1>3, <1>5, <2>1, <3>1, <3>2
  <2>2. CASE k # 1
    <3>1. p = L[k - 1] /\ k - 1 \in 1 .. n
      BY <1>1, <1>3, <2>2
    <3>2. p # NoEdge
      BY <1>1, <3>1, NoEdgeAssumption
    <3>3. t.head[x] = L[1] /\ M[1] = L[1] /\ n - 1 # 0
      BY <1>1, <1>2, <1>5, <2>2, <3>2
    <3> QED BY <1>5, <3>3
  <2> QED BY <2>1, <2>2
<1>13. Chain(t, x, M, S \ {e})
  BY <1>5, <1>7, <1>9, <1>10, <1>11, <1>12 DEF Chain
<1> QED BY <1>13 DEF M, e

(* Linking at one block leaves the lists of the others alone.               *)
LEMMA LinkThreads ==
  ASSUME NEW s, NEW S, Threaded(s, S), NEW e \in QEdge, NEW x \in Block, e \notin S[x]
  PROVE  /\ Threaded(QLinkAt(s, e, x), [S EXCEPT ![x] = S[x] \cup {e}])
         /\ QLinkAt(s, e, x).weight = s.weight
<1> DEFINE t == QLinkAt(s, e, x)
           T == [S EXCEPT ![x] = S[x] \cup {e}]
<1>1. s \in QStates /\ S \in [Block -> SUBSET QEdge] /\ \A y \in Block : \E L : Chain(s, y, L, S[y])
  BY DEF Threaded
<1>2. Linking(t, s, e, x, s.head[x])
  BY <1>1, LinkFields
<1> HIDE DEF t
<1>3. t \in QStates /\ t.weight = s.weight
  BY <1>2 DEF Linking
<1>4. /\ T \in [Block -> SUBSET QEdge] /\ T[x] = S[x] \cup {e}
      /\ \A y \in Block : y # x => T[y] = S[y]
  BY <1>1
<1> HIDE DEF T
<1>5. ASSUME NEW y \in Block PROVE \E L : Chain(t, y, L, T[y])
  <2>1. PICK L : Chain(s, y, L, S[y])
    BY <1>1
  <2>2. CASE y = x
    <3>1. Chain(s, x, L, S[x]) /\ S[x] \in SUBSET QEdge
      BY <1>1, <2>1, <2>2
    <3>2. Chain(t, x, <<e>> \o L, S[x] \cup {e})
      BY <1>1, <1>2, <3>1, LinkChain
    <3> QED BY <1>4, <2>2, <3>2
  <2>3. CASE y # x
    <3>1. /\ t.head[y] = s.head[y]
          /\ \A h \in QEdge : t.next[h][y] = s.next[h][y] /\ t.prev[h][y] = s.prev[h][y]
      BY <1>2, <2>3 DEF Linking
    <3>2. \A i \in 1 .. Len(L) : L[i] \in QEdge
      BY <2>1 DEF Chain
    <3>3. Chain(t, y, L, S[y])
      BY <2>1, <3>1, <3>2 DEF Chain
    <3> QED BY <1>4, <2>3, <3>3
  <2> QED BY <2>2, <2>3
<1>6. Threaded(t, T)
  BY <1>3, <1>4, <1>5 DEF Threaded
<1> QED BY <1>3, <1>6 DEF t, T

(* Unlinking at one block leaves the lists of the others alone.             *)
LEMMA UnlinkThreads ==
  ASSUME NEW s, NEW S, Threaded(s, S), NEW x \in Block, NEW e \in S[x]
  PROVE  /\ Threaded(QUnlinkAt(s, e, x), [S EXCEPT ![x] = S[x] \ {e}])
         /\ QUnlinkAt(s, e, x).weight = s.weight
<1> DEFINE t == QUnlinkAt(s, e, x)
           T == [S EXCEPT ![x] = S[x] \ {e}]
<1>1. s \in QStates /\ S \in [Block -> SUBSET QEdge] /\ \A y \in Block : \E L : Chain(s, y, L, S[y])
  BY DEF Threaded
<1>2. Unlinking(t, s, e, x, s.prev[e][x], s.next[e][x])
  BY <1>1, UnlinkFields
<1> HIDE DEF t
<1>3. t \in QStates /\ t.weight = s.weight
  BY <1>2 DEF Unlinking
<1>4. /\ T \in [Block -> SUBSET QEdge] /\ T[x] = S[x] \ {e}
      /\ \A y \in Block : y # x => T[y] = S[y]
  BY <1>1
<1> HIDE DEF T
<1>5. ASSUME NEW y \in Block PROVE \E L : Chain(t, y, L, T[y])
  <2>1. PICK L : Chain(s, y, L, S[y])
    BY <1>1
  <2>2. CASE y = x
    <3>1. Chain(s, x, L, S[x]) /\ S[x] \in SUBSET QEdge
      BY <1>1, <2>1, <2>2
    <3>2. PICK k \in 1 .. Len(L) : L[k] = e
      BY <1>1, <3>1 DEF Chain
    <3>3. Unlinking(t, s, L[k], x, s.prev[L[k]][x], s.next[L[k]][x])
      BY <1>2, <3>2
    <3>4. Chain(t, x, Without(L, k), S[x] \ {L[k]})
      BY <1>1, <3>1, <3>3, UnlinkChain
    <3> QED BY <1>4, <2>2, <3>2, <3>4
  <2>3. CASE y # x
    <3>1. /\ t.head[y] = s.head[y]
          /\ \A h \in QEdge : t.next[h][y] = s.next[h][y] /\ t.prev[h][y] = s.prev[h][y]
      BY <1>2, <2>3 DEF Unlinking
    <3>2. \A i \in 1 .. Len(L) : L[i] \in QEdge
      BY <2>1 DEF Chain
    <3>3. Chain(t, y, L, S[y])
      BY <2>1, <3>1, <3>2 DEF Chain
    <3> QED BY <1>4, <2>3, <3>3
  <2> QED BY <2>2, <2>3
<1>6. Threaded(t, T)
  BY <1>3, <1>4, <1>5 DEF Threaded
<1> QED BY <1>3, <1>6 DEF t, T

-----------------------------------------------------------------------------
(* Sums over two sets can be taken in either order.                         *)
SumOfSums(f, S, T) == SumFunctionOnSet([x \in S |-> SumFunctionOnSet(f[x], T)], S)

(* A sum of sums, row by row.                                               *)
LEMMA SumOfSumsAdd ==
  ASSUME NEW S, IsFiniteSet(S), NEW T, IsFiniteSet(T), NEW a, a \notin S, NEW f,
         \A x \in S \cup {a}, y \in T : f[x][y] \in Int
  PROVE  /\ SumOfSums(f, S \cup {a}, T) = SumFunctionOnSet(f[a], T) + SumOfSums(f, S, T)
         /\ SumOfSums(f, S, T) \in Int /\ SumOfSums(f, {}, T) = 0
<1> DEFINE g == [x \in S \cup {a} |-> SumFunctionOnSet(f[x], T)]
           h == [x \in S |-> SumFunctionOnSet(f[x], T)]
<1>1. \A x \in S \cup {a} : SumFunctionOnSet(f[x], T) \in Int
  <2> SUFFICES ASSUME NEW x \in S \cup {a} PROVE SumFunctionOnSet(f[x], T) \in Int
    OBVIOUS
  <2>1. \A y \in T : f[x][y] \in Int
    OBVIOUS
  <2> QED BY <2>1, SumType
<1>2. \A x \in S \cup {a} : g[x] \in Int /\ g[x] = SumFunctionOnSet(f[x], T)
  BY <1>1
<1>3. \A x \in S : h[x] \in Int /\ h[x] = g[x]
  BY <1>1
<1> HIDE DEF g, h
<1>4. SumFunctionOnSet(g, S \cup {a}) = g[a] + SumFunctionOnSet(g, S)
  BY <1>2, SumAdd
<1>5. SumFunctionOnSet(h, S) = SumFunctionOnSet(g, S) /\ SumFunctionOnSet(h, S) \in Int
  BY <1>3, SumAgree, SumType
<1>6. SumOfSums(f, S \cup {a}, T) = SumFunctionOnSet(g, S \cup {a})
  BY DEF SumOfSums, g
<1>7. SumOfSums(f, S, T) = SumFunctionOnSet(h, S)
  BY DEF SumOfSums, h
<1>8. SumOfSums(f, {}, T) = 0
  BY SumEmpty DEF SumOfSums
<1> QED BY <1>2, <1>4, <1>5, <1>6, <1>7, <1>8

(* Rows first or columns first, the sum is the same.                        *)
LEMMA SumExchange ==
  ASSUME NEW S, IsFiniteSet(S), NEW T, IsFiniteSet(T), NEW f, NEW g,
         \A x \in S, y \in T : f[x][y] \in Int /\ f[x][y] = g[y][x]
  PROVE  SumOfSums(f, S, T) = SumOfSums(g, T, S)
<1> DEFINE Q == {U \in SUBSET S : SumOfSums(f, U, T) = SumOfSums(g, T, U)}
<1>1. {} \in Q
  <2>1. SumOfSums(f, {}, T) = 0
    BY SumEmpty DEF SumOfSums
  <2>2. \A y \in T : [x \in T |-> SumFunctionOnSet(g[x], {})][y] = 0
    BY SumEmpty
  <2>3. SumOfSums(g, T, {}) = 0
    BY <2>2, SumZero DEF SumOfSums
  <2> QED BY <2>1, <2>3
<1>2. ASSUME NEW U \in SUBSET S, NEW a \in S \ U, U \in Q PROVE U \cup {a} \in Q
  <2> DEFINE h == [y \in T |-> SumFunctionOnSet(g[y], U)]
             k == [y \in T |-> SumFunctionOnSet(g[y], U \cup {a})]
  <2>1. IsFiniteSet(U) /\ U \cup {a} \in SUBSET S /\ a \notin U
    BY FS_Subset
  <2>2. \A x \in U \cup {a}, y \in T : f[x][y] \in Int
    OBVIOUS
  <2>3. SumOfSums(f, U \cup {a}, T) = SumFunctionOnSet(f[a], T) + SumOfSums(f, U, T)
        /\ SumOfSums(f, U, T) \in Int
    BY <2>1, <2>2, SumOfSumsAdd
  <2>4. \A y \in T : h[y] \in Int /\ f[a][y] \in Int /\ k[y] = f[a][y] + h[y]
    <3> SUFFICES ASSUME NEW y \in T
                 PROVE  h[y] \in Int /\ f[a][y] \in Int /\ k[y] = f[a][y] + h[y]
      OBVIOUS
    <3>1. \A x \in U \cup {a} : g[y][x] \in Int /\ g[y][x] = f[x][y]
      OBVIOUS
    <3>2. SumFunctionOnSet(g[y], U \cup {a}) = g[y][a] + SumFunctionOnSet(g[y], U)
      BY <2>1, <3>1, SumAdd
    <3>3. SumFunctionOnSet(g[y], U) \in Int
      BY <2>1, <3>1, SumType
    <3> QED BY <3>1, <3>2, <3>3
  <2>5. SumOfSums(g, T, U) = SumFunctionOnSet(h, T) /\ SumOfSums(g, T, U \cup {a}) = SumFunctionOnSet(k, T)
    BY DEF SumOfSums
  <2> HIDE DEF h, k
  <2>6. SumFunctionOnSet(k, T) = SumFunctionOnSet(f[a], T) + SumFunctionOnSet(h, T)
    BY <2>4, SumPlus
  <2>7. SumFunctionOnSet(f[a], T) \in Int /\ SumFunctionOnSet(h, T) \in Int
    BY <2>4, SumType
  <2>8. SumOfSums(f, U, T) = SumOfSums(g, T, U)
    BY <1>2
  <2>9. SumOfSums(f, U \cup {a}, T) = SumOfSums(g, T, U \cup {a})
    BY <2>3, <2>5, <2>6, <2>7, <2>8
  <2> QED BY <2>1, <2>9
<1> HIDE DEF Q
<1>3. S \in Q
  BY <1>1, <1>2, SubsetInduction
<1> QED BY <1>3 DEF Q

-----------------------------------------------------------------------------
(* The weight of the edges between two sets of vertices.                    *)
Between(S, T) == SumOfSums(EdgeWeight, S, T)

(* The weight between two sets is symmetric and adds up.                    *)
LEMMA BetweenSets ==
  ASSUME NEW S \in SUBSET Vertex, NEW T \in SUBSET Vertex
  PROVE  /\ Between(S, T) = Between(T, S) /\ Between(S, T) \in Nat
         /\ \A u \in Vertex \ S : Between(S \cup {u}, T) = SumFunctionOnSet(EdgeWeight[u], T) + Between(S, T)
<1>1. IsFiniteSet(S) /\ IsFiniteSet(T)
  BY GraphAssumption, FS_Subset
<1>2. \A x \in Vertex, y \in Vertex :
        EdgeWeight[x][y] \in Nat /\ EdgeWeight[x][y] \in Int /\ EdgeWeight[x][y] = EdgeWeight[y][x]
  BY GraphAssumption
<1>3. Between(S, T) = Between(T, S)
  <2>1. \A x \in S, y \in T : EdgeWeight[x][y] \in Int /\ EdgeWeight[x][y] = EdgeWeight[y][x]
    BY <1>2
  <2> QED BY <1>1, <2>1, SumExchange DEF Between
<1>4. Between(S, T) \in Nat
  <2> DEFINE h == [x \in S |-> SumFunctionOnSet(EdgeWeight[x], T)]
  <2>1. \A x \in S : h[x] \in Nat
    <3> SUFFICES ASSUME NEW x \in S PROVE SumFunctionOnSet(EdgeWeight[x], T) \in Nat
      OBVIOUS
    <3>1. \A y \in T : EdgeWeight[x][y] \in Nat
      BY <1>2
    <3> QED BY <1>1, <3>1, SumNat
  <2> HIDE DEF h
  <2>2. SumFunctionOnSet(h, S) \in Nat
    BY <1>1, <2>1, SumNat
  <2> QED BY <2>2 DEF Between, SumOfSums, h
<1>5. ASSUME NEW u \in Vertex \ S
      PROVE  Between(S \cup {u}, T) = SumFunctionOnSet(EdgeWeight[u], T) + Between(S, T)
  <2> DEFINE f == EdgeWeight
  <2>1. \A x \in S \cup {u}, y \in T : f[x][y] \in Int
    BY <1>2
  <2>2. u \notin S
    OBVIOUS
  <2> HIDE DEF f
  <2>3. /\ SumOfSums(f, S \cup {u}, T) = SumFunctionOnSet(f[u], T) + SumOfSums(f, S, T)
        /\ SumOfSums(f, S, T) \in Int /\ SumOfSums(f, {}, T) = 0
    BY <1>1, <2>1, <2>2, SumOfSumsAdd
  <2> QED BY <2>3 DEF Between, f
<1> QED BY <1>3, <1>4, <1>5

(* The connection to a block is also a sum over its members.                *)
LEMMA ConnIsSumOverMembers ==
  ASSUME NEW p, NEW u \in Vertex, NEW b
  PROVE  ConnWeight(p, u, b) = SumFunctionOnSet(EdgeWeight[u], Members(p, b))
<1>1. IsFiniteSet(Members(p, b)) /\ Members(p, b) \subseteq Vertex
  BY MembersFinite
<1>2. Into(p, u, b) \in SUBSET Members(p, b)
  BY DEF Into
<1>3. \A v \in Members(p, b) : EdgeWeight[u][v] \in Int
  BY <1>1, Neighbourhoods
<1>4. \A v \in Members(p, b) \ Into(p, u, b) : EdgeWeight[u][v] = 0
  <2> SUFFICES ASSUME NEW v \in Members(p, b) \ Into(p, u, b) PROVE EdgeWeight[u][v] = 0
    OBVIOUS
  <2>1. v \in Vertex /\ v \notin Adj(u)
    BY <1>1 DEF Into
  <2>2. EdgeWeight[u][v] \in Nat
    BY <2>1, Neighbourhoods
  <2> QED BY <2>1, <2>2 DEF Adj
<1>5. SumFunctionOnSet(EdgeWeight[u], Members(p, b)) = SumFunctionOnSet(EdgeWeight[u], Into(p, u, b))
  BY <1>1, <1>2, <1>3, <1>4, SumRestrict
<1> QED BY <1>5, ConnIsSum

(* The weight of a quotient edge is that between the two blocks.            *)
LEMMA QuotientIsBetween ==
  ASSUME NEW p, NEW a, NEW b
  PROVE  /\ QuotientWeight(p, a, b) = Between(Members(p, a), Members(p, b))
         /\ QuotientWeight(p, a, b) \in Nat
         /\ QuotientWeight(p, a, b) = QuotientWeight(p, b, a)
<1> DEFINE h(x, y) == [u \in Members(p, x) |-> ConnWeight(p, u, y)]
           k(x, y) == [u \in Members(p, x) |-> SumFunctionOnSet(EdgeWeight[u], Members(p, y))]
<1>1. Members(p, a) \in SUBSET Vertex /\ Members(p, b) \in SUBSET Vertex
  BY MembersFinite
<1>2. ASSUME NEW x, NEW y PROVE QuotientWeight(p, x, y) = Between(Members(p, x), Members(p, y))
  <2>1. IsFiniteSet(Members(p, x)) /\ Members(p, x) \subseteq Vertex
    BY MembersFinite
  <2>2. QuotientWeight(p, x, y) = SumFunctionOnSet(h(x, y), Members(p, x))
    <3>1. \A u \in Members(p, x) : h(x, y)[u] = ConnWeight(p, u, y)
      OBVIOUS
    <3> QED BY DEF QuotientWeight, MapThenSumSet, SumFunctionOnSet, FoldFunctionOnSet, MapThenFoldSet
  <2>3. h(x, y) = k(x, y)
    BY <2>1, ConnIsSumOverMembers
  <2> QED BY <2>2, <2>3 DEF Between, SumOfSums
<1>3. Between(Members(p, a), Members(p, b)) = Between(Members(p, b), Members(p, a))
      /\ Between(Members(p, a), Members(p, b)) \in Nat
  BY <1>1, BetweenSets
<1> QED BY <1>2, <1>3

(* What a move changes in the weights between blocks.                       *)
LEMMA QuotientMoved ==
  ASSUME NEW p \in [Vertex -> Block], NEW u \in Vertex, NEW new \in Block, p[u] # new
  PROVE  LET m == Moved(p, u, new) IN
         /\ \A a, b \in Block \ {p[u], new} : QuotientWeight(m, a, b) = QuotientWeight(p, a, b)
         /\ \A c \in Block \ {p[u], new} :
              /\ QuotientWeight(p, p[u], c) = ConnWeight(p, u, c) + QuotientWeight(m, p[u], c)
              /\ QuotientWeight(m, new, c) = ConnWeight(p, u, c) + QuotientWeight(p, new, c)
         /\ QuotientWeight(m, p[u], new) + ConnWeight(p, u, new)
              = QuotientWeight(p, p[u], new) + ConnWeight(p, u, p[u])
         /\ ConnWeight(p, u, new) <= QuotientWeight(p, p[u], new)
<1> DEFINE m == Moved(p, u, new)
           o == p[u]
           R == Members(p, o) \ {u}
           N == Members(p, new)
           w == EdgeWeight[u]
<1>1. /\ Members(p, o) = R \cup {u} /\ Members(m, o) = R /\ Members(m, new) = N \cup {u}
      /\ \A b \in Block : b # o /\ b # new => Members(m, b) = Members(p, b)
      /\ o \in Block
  BY MembersMoved
<1>2. /\ R \in SUBSET Vertex /\ N \in SUBSET Vertex /\ u \in Vertex \ R /\ u \in Vertex \ N
      /\ N \cup {u} \in SUBSET Vertex /\ R \cup {u} \in SUBSET Vertex
      /\ \A b \in Block : Members(p, b) \in SUBSET Vertex
  BY DEF Members
<1>3. \A c, a, b : QuotientWeight(c, a, b) = Between(Members(c, a), Members(c, b))
                   /\ QuotientWeight(c, a, b) \in Nat
  BY QuotientIsBetween
<1>4. \A b : ConnWeight(p, u, b) = SumFunctionOnSet(w, Members(p, b)) /\ ConnWeight(p, u, b) \in Nat
  BY ConnIsSumOverMembers, ConnIsSum
<1> HIDE DEF m, R, N, o, w
<1>5. \A a, b \in Block \ {o, new} : QuotientWeight(m, a, b) = QuotientWeight(p, a, b)
  BY <1>1, <1>3
<1>6. ASSUME NEW T \in SUBSET Vertex
      PROVE  /\ Between(R \cup {u}, T) = SumFunctionOnSet(w, T) + Between(R, T)
             /\ Between(N \cup {u}, T) = SumFunctionOnSet(w, T) + Between(N, T)
             /\ Between(R, T) \in Nat /\ Between(T, R) = Between(R, T)
             /\ Between(N \cup {u}, T) = Between(T, N \cup {u})
  BY <1>2, BetweenSets DEF w
<1>7. ASSUME NEW c \in Block \ {o, new}
      PROVE  /\ QuotientWeight(p, o, c) = ConnWeight(p, u, c) + QuotientWeight(m, o, c)
             /\ QuotientWeight(m, new, c) = ConnWeight(p, u, c) + QuotientWeight(p, new, c)
  <2>1. Members(m, c) = Members(p, c) /\ Members(p, c) \in SUBSET Vertex
    BY <1>1, <1>2
  <2>2. /\ QuotientWeight(p, o, c) = Between(R \cup {u}, Members(p, c))
        /\ QuotientWeight(m, o, c) = Between(R, Members(p, c))
        /\ QuotientWeight(m, new, c) = Between(N \cup {u}, Members(p, c))
        /\ QuotientWeight(p, new, c) = Between(N, Members(p, c))
    <3>1. N = Members(p, new)
      BY DEF N
    <3> QED BY <1>1, <1>3, <2>1, <3>1
  <2> QED BY <1>4, <1>6, <2>1, <2>2
<1>8. /\ QuotientWeight(m, o, new) + ConnWeight(p, u, new)
           = QuotientWeight(p, o, new) + ConnWeight(p, u, o)
      /\ ConnWeight(p, u, new) <= QuotientWeight(p, o, new)
  <2>0. N = Members(p, new)
    BY DEF N
  <2>1. QuotientWeight(p, o, new) = Between(R \cup {u}, N) /\ QuotientWeight(m, o, new) = Between(R, N \cup {u})
    BY <1>1, <1>3, <2>0
  <2>2. Between(R \cup {u}, N) = ConnWeight(p, u, new) + Between(R, N)
    BY <1>2, <1>4, <1>6, <2>0
  <2>3. Between(R, N \cup {u}) = Between(N \cup {u}, R) /\ Between(N, R) = Between(R, N)
    BY <1>2, <1>6
  <2>4. Between(N \cup {u}, R) = SumFunctionOnSet(w, R) + Between(N, R)
    BY <1>2, <1>6
  <2>5. SumFunctionOnSet(w, R) = ConnWeight(p, u, o)
    <3>1. ConnWeight(p, u, o) = SumFunctionOnSet(w, R \cup {u})
      BY <1>1, <1>4
    <3>2. IsFiniteSet(R) /\ u \notin R
      BY <1>2, GraphAssumption, FS_Subset
    <3>3. \A x \in R \cup {u} : w[x] \in Int
      BY <1>2, GraphAssumption DEF w
    <3>4. SumFunctionOnSet(w, R \cup {u}) = w[u] + SumFunctionOnSet(w, R)
      BY <3>2, <3>3, SumAdd
    <3>5. w[u] = 0
      BY GraphAssumption DEF w
    <3>6. SumFunctionOnSet(w, R) \in Int
      BY <3>2, <3>3, SumType
    <3> QED BY <3>1, <3>4, <3>5, <3>6
  <2>6. Between(R, N) \in Nat /\ ConnWeight(p, u, new) \in Nat /\ ConnWeight(p, u, o) \in Nat
    BY <1>2, <1>4, <1>6
  <2> QED BY <2>1, <2>2, <2>3, <2>4, <2>5, <2>6
<1>9. \A c \in Block \ {o, new} :
         /\ QuotientWeight(p, o, c) = ConnWeight(p, u, c) + QuotientWeight(m, o, c)
         /\ QuotientWeight(m, new, c) = ConnWeight(p, u, c) + QuotientWeight(p, new, c)
  BY <1>7
<1> QED BY <1>5, <1>8, <1>9 DEF m, o

-----------------------------------------------------------------------------
(* The weight that the neighbours in P, seen from block x, bring to the     *)
(* record e.                                                                *)
Sharers(p, x, e, P) == {v \in P : p[v] # x /\ {x, p[v]} = e}
Share(p, u, x, e, P) == SumFunctionOnSet(EdgeWeight[u], Sharers(p, x, e, P))

(* Before the loop a move has changed nothing.                              *)
LEMMA ShareEmpty ==
  ASSUME NEW p, NEW u, NEW x, NEW e
  PROVE  Share(p, u, x, e, {}) = 0
<1>1. Sharers(p, x, e, {}) = {}
  BY DEF Sharers
<1>2. SumFunctionOnSet(EdgeWeight[u], Sharers(p, x, e, {})) = SumFunctionOnSet(EdgeWeight[u], {})
  BY <1>1, Zenon
<1> QED BY <1>2, SumEmpty DEF Share

(* What a move has changed is a number.                                     *)
LEMMA ShareType ==
  ASSUME NEW p, NEW u \in Vertex, NEW x, NEW e, NEW P \in SUBSET Adj(u)
  PROVE  /\ Share(p, u, x, e, P) \in Nat /\ IsFiniteSet(Sharers(p, x, e, P))
         /\ Sharers(p, x, e, P) \subseteq Adj(u)
<1>1. Sharers(p, x, e, P) \in SUBSET Adj(u)
  BY DEF Sharers
<1>2. IsFiniteSet(Sharers(p, x, e, P))
  BY <1>1, Neighbourhoods, FS_Subset
<1>3. \A v \in Sharers(p, x, e, P) : EdgeWeight[u][v] \in Nat
  BY <1>1, Neighbourhoods
<1>4. SumFunctionOnSet(EdgeWeight[u], Sharers(p, x, e, P)) \in Nat
  BY <1>2, <1>3, SumNat
<1> QED BY <1>1, <1>2, <1>4 DEF Share

(* One more neighbour adds its edge to one quotient edge at most.           *)
LEMMA ShareAdd ==
  ASSUME NEW p, NEW u \in Vertex, NEW x, NEW e, NEW P \in SUBSET Adj(u),
         NEW v \in Adj(u), v \notin P
  PROVE  /\ p[v] # x /\ {x, p[v]} = e =>
              Share(p, u, x, e, P \cup {v}) = EdgeWeight[u][v] + Share(p, u, x, e, P)
         /\ p[v] = x \/ {x, p[v]} # e => Share(p, u, x, e, P \cup {v}) = Share(p, u, x, e, P)
<1> DEFINE S == Sharers(p, x, e, P)
<1>1. IsFiniteSet(S) /\ S \in SUBSET Adj(u)
  BY ShareType
<1>2. S \subseteq P
  BY DEF Sharers
<1>3. CASE p[v] # x /\ {x, p[v]} = e
  <2>1. Sharers(p, x, e, P \cup {v}) = S \cup {v}
    BY <1>3 DEF Sharers
  <2> HIDE DEF S
  <2>2. \A y \in S \cup {v} : EdgeWeight[u][y] \in Int
    BY <1>1, Neighbourhoods
  <2>3. v \notin S
    BY <1>2
  <2>4. SumFunctionOnSet(EdgeWeight[u], S \cup {v})
          = EdgeWeight[u][v] + SumFunctionOnSet(EdgeWeight[u], S)
    BY <1>1, <2>2, <2>3, SumAdd
  <2>5. Share(p, u, x, e, P \cup {v}) = SumFunctionOnSet(EdgeWeight[u], S \cup {v})
    BY <2>1, Zenon DEF Share
  <2>6. Share(p, u, x, e, P) = SumFunctionOnSet(EdgeWeight[u], S)
    BY DEF Share, S
  <2> QED BY <1>3, <2>4, <2>5, <2>6
<1>4. CASE ~ (p[v] # x /\ {x, p[v]} = e)
  <2>1. Sharers(p, x, e, P \cup {v}) = Sharers(p, x, e, P)
    BY <1>4 DEF Sharers
  <2>2. Share(p, u, x, e, P \cup {v}) = Share(p, u, x, e, P)
    BY <2>1, Zenon DEF Share
  <2> QED BY <1>4, <2>2
<1> QED BY <1>3, <1>4

(* A move changes quotient edges at two blocks only.                        *)
LEMMA ShareElsewhere ==
  ASSUME NEW p, NEW u, NEW x, NEW e, x \notin e, NEW P
  PROVE  Share(p, u, x, e, P) = 0
<1>1. Sharers(p, x, e, P) = {}
  BY DEF Sharers
<1>2. SumFunctionOnSet(EdgeWeight[u], Sharers(p, x, e, P)) = SumFunctionOnSet(EdgeWeight[u], {})
  BY <1>1, Zenon
<1> QED BY <1>2, SumEmpty DEF Share

(* After the loop it has changed what the vertex is connected with.         *)
LEMMA ShareAll ==
  ASSUME NEW p \in [Vertex -> Block], NEW u \in Vertex, NEW x, NEW c, c # x
  PROVE  /\ Share(p, u, x, {x, c}, Adj(u)) = ConnWeight(p, u, c)
         /\ \A P \in SUBSET Adj(u) : Share(p, u, x, {x, c}, P) <= ConnWeight(p, u, c)
<1>1. Sharers(p, x, {x, c}, Adj(u)) = Into(p, u, c)
  BY Neighbourhoods DEF Sharers, Into, Members
<1>2. ConnWeight(p, u, c) = SumFunctionOnSet(EdgeWeight[u], Into(p, u, c))
      /\ IsFiniteSet(Into(p, u, c)) /\ \A v \in Into(p, u, c) : EdgeWeight[u][v] \in Nat \ {0}
  BY ConnIsSum
<1>3. Share(p, u, x, {x, c}, Adj(u)) = ConnWeight(p, u, c)
  <2>1. SumFunctionOnSet(EdgeWeight[u], Sharers(p, x, {x, c}, Adj(u)))
          = SumFunctionOnSet(EdgeWeight[u], Into(p, u, c))
    BY <1>1, Zenon
  <2> QED BY <1>2, <2>1 DEF Share
<1>4. ASSUME NEW P \in SUBSET Adj(u) PROVE Share(p, u, x, {x, c}, P) <= ConnWeight(p, u, c)
  <2> DEFINE I == Into(p, u, c)
             A == Sharers(p, x, {x, c}, P)
  <2>1. A \in SUBSET I
    BY <1>1 DEF Sharers
  <2>2. Share(p, u, x, {x, c}, P) = SumFunctionOnSet(EdgeWeight[u], A)
    BY DEF Share
  <2> HIDE DEF I, A
  <2>3. IsFiniteSet(A) /\ IsFiniteSet(I \ A) /\ A \cap (I \ A) = {} /\ A \cup (I \ A) = I
    BY <1>2, <2>1, FS_Subset DEF I
  <2>4. /\ \A v \in A \cup (I \ A) : EdgeWeight[u][v] \in Int
        /\ \A v \in A : EdgeWeight[u][v] \in Nat
        /\ \A v \in I \ A : EdgeWeight[u][v] \in Nat
    BY <1>2, <2>3 DEF I
  <2>5. SumFunctionOnSet(EdgeWeight[u], A \cup (I \ A))
          = SumFunctionOnSet(EdgeWeight[u], A) + SumFunctionOnSet(EdgeWeight[u], I \ A)
    BY <2>3, <2>4, SumUnion
  <2>6. SumFunctionOnSet(EdgeWeight[u], A) \in Nat /\ SumFunctionOnSet(EdgeWeight[u], I \ A) \in Nat
    BY <2>3, <2>4, SumNat
  <2>7. SumFunctionOnSet(EdgeWeight[u], A \cup (I \ A)) = SumFunctionOnSet(EdgeWeight[u], I)
    BY <2>3, Zenon
  <2>8. ConnWeight(p, u, c) = SumFunctionOnSet(EdgeWeight[u], I)
    BY <1>2 DEF I
  <2> QED BY <2>2, <2>5, <2>6, <2>7, <2>8
<1> QED BY <1>3, <1>4

-----------------------------------------------------------------------------
(* The records are the unordered pairs of blocks.                           *)
LEMMA Records ==
  /\ \A a, b \in Block : a # b => {a, b} \in QEdge
  /\ \A e \in QEdge : \E a, b \in Block : a # b /\ e = {a, b}
<1>1. ASSUME NEW a \in Block, NEW b \in Block, a # b PROVE {a, b} \in QEdge
  <2>1. Cardinality({a}) = 1 /\ IsFiniteSet({a})
    BY FS_Singleton
  <2>2. Cardinality({a} \cup {b}) = 2
    BY <1>1, <2>1, FS_AddElement
  <2>3. {a} \cup {b} = {a, b}
    OBVIOUS
  <2>4. Cardinality({a, b}) = 2
    BY <2>2, <2>3, Zenon
  <2> QED BY <2>4 DEF QEdge
<1>2. ASSUME NEW e \in QEdge PROVE \E a, b \in Block : a # b /\ e = {a, b}
  <2>1. e \in SUBSET Block /\ Cardinality(e) = 2
    BY DEF QEdge
  <2>2. IsFiniteSet(e)
    BY <2>1, GraphAssumption, FS_Subset
  <2>3. PICK a : a \in e
    BY <2>1, FS_EmptySet
  <2>4. Cardinality(e \ {a}) = 1 /\ IsFiniteSet(e \ {a})
    BY <2>1, <2>2, <2>3, FS_RemoveElement
  <2>5. PICK b : e \ {a} = {b}
    BY <2>4, FS_Singleton
  <2> QED BY <2>1, <2>3, <2>5
<1> QED BY <1>1, <1>2

-----------------------------------------------------------------------------
(* The lists thread the records of positive weight.                         *)
LinksOf(W) == [x \in Block |-> {e \in QEdge : x \in e /\ W[e] > 0}]
Sound(s) == Threaded(s, LinksOf(s.weight))

(* t has the records of s, but e weighs v.                                  *)
Weighs(t, s, e, v) ==
  /\ t \in QStates /\ t.weight[e] = v
  /\ \A f \in QEdge : f # e => t.weight[f] = s.weight[f]

(* Setting the weight of one record.                                        *)
LEMMA WeightSet ==
  ASSUME NEW s \in QStates, NEW e \in QEdge, NEW v \in Nat,
         NEW t, t = [s EXCEPT !.weight[e] = v]
  PROVE  /\ Weighs(t, s, e, v)
         /\ t.head = s.head /\ t.prev = s.prev /\ t.next = s.next
<1> DEFINE g == [s.weight EXCEPT ![e] = v]
<1>1. t = [s EXCEPT !.weight = g]
  OBVIOUS
<1>2. /\ s.weight \in [QEdge -> Nat] /\ s.head \in [Block -> QPointers]
      /\ s.prev \in [QEdge -> [Block -> QPointers]] /\ s.next \in [QEdge -> [Block -> QPointers]]
  BY QFields
<1>3. g \in [QEdge -> Nat] /\ g[e] = v /\ \A f \in QEdge : f # e => g[f] = s.weight[f]
  BY <1>2
<1> HIDE DEF g
<1>4. t = [weight |-> g, head |-> s.head, prev |-> s.prev, next |-> s.next]
  BY <1>1, QRecord
<1>5. t.weight = g /\ t.head = s.head /\ t.prev = s.prev /\ t.next = s.next
  BY <1>4
<1>6. t \in QStates
  BY <1>2, <1>3, <1>4 DEF QStates
<1> QED BY <1>3, <1>5, <1>6 DEF Weighs

(* The lists do not depend on the weights.                                  *)
LEMMA SameThreads ==
  ASSUME NEW s, NEW S, Threaded(s, S), NEW t \in QStates,
         t.head = s.head, t.prev = s.prev, t.next = s.next
  PROVE  Threaded(t, S)
<1>1. S \in [Block -> SUBSET QEdge] /\ \A x \in Block : \E L : Chain(s, x, L, S[x])
  BY DEF Threaded
<1>2. ASSUME NEW x \in Block PROVE \E L : Chain(t, x, L, S[x])
  <2>1. PICK L : Chain(s, x, L, S[x])
    BY <1>1
  <2>2. Chain(t, x, L, S[x])
    BY <2>1 DEF Chain
  <2> QED BY <2>2
<1> QED BY <1>1, <1>2 DEF Threaded

(* add_edge links a record when its weight becomes positive.                *)
LEMMA AddEdgeSound ==
  ASSUME NEW s, Sound(s), NEW a \in Block, NEW b \in Block, a # b, NEW w \in Nat \ {0}
  PROVE  /\ Sound(QAddEdge(s, a, b, w))
         /\ Weighs(QAddEdge(s, a, b, w), s, {a, b}, s.weight[{a, b}] + w)
<1> DEFINE e == {a, b}
           v == s.weight[e] + w
           s1 == [s EXCEPT !.weight[e] = v]
           S == LinksOf(s.weight)
           t1 == QLinkAt(s1, e, a)
           t2 == QLinkAt(t1, e, b)
           S1 == [S EXCEPT ![a] = S[a] \cup {e}]
           S2 == [S1 EXCEPT ![b] = S1[b] \cup {e}]
<1>1. s \in QStates /\ Threaded(s, S) /\ S \in [Block -> SUBSET QEdge]
  BY DEF Sound, Threaded
<1>2. e \in QEdge
  BY Records
<1>3. s.weight \in [QEdge -> Nat] /\ v \in Nat /\ v > 0 /\ s.weight[e] \in Nat
  BY <1>1, <1>2, QFields
<1>4. QAddEdge(s, a, b, w) = IF s.weight[e] <= 0 /\ s1.weight[e] > 0 THEN t2 ELSE s1
  BY DEF QAddEdge
<1>5. /\ Weighs(s1, s, e, v)
      /\ s1.head = s.head /\ s1.prev = s.prev /\ s1.next = s.next
  <2> HIDE DEF e, v
  <2> QED BY <1>1, <1>2, <1>3, WeightSet
<1> HIDE DEF s1, v
<1>6. Threaded(s1, S) /\ s1.weight[e] = v /\ s1.weight[e] > 0
  <2> HIDE DEF S
  <2> QED BY <1>1, <1>3, <1>5, SameThreads DEF Weighs
<1>7. \A x \in Block : S[x] = {f \in QEdge : x \in f /\ s.weight[f] > 0}
  BY DEF LinksOf
<1> HIDE DEF S
<1>8. CASE s.weight[e] <= 0
  <2>1. e \notin S[a] /\ e \notin S[b]
    BY <1>3, <1>7, <1>8
  <2>2. Threaded(t1, S1) /\ t1.weight = s1.weight
    BY <1>2, <1>6, <2>1, LinkThreads
  <2>3. e \notin S1[b]
    BY <1>1, <2>1
  <2> HIDE DEF t1, S1
  <2>4. Threaded(t2, S2) /\ t2.weight = t1.weight
    BY <1>2, <2>2, <2>3, LinkThreads
  <2> HIDE DEF t2
  <2>5. LinksOf(t2.weight) = S2
    <3>1. S2 \in [Block -> SUBSET QEdge] /\ \A x \in Block : S2[x] = IF x \in {a, b} THEN S[x] \cup {e} ELSE S[x]
      BY <1>1, <1>2 DEF S1
    <3>2. \A f \in QEdge : (t2.weight[f] > 0) <=> (s.weight[f] > 0 \/ f = e)
      BY <1>5, <1>6, <2>2, <2>4 DEF Weighs
    <3>3. ASSUME NEW x \in Block PROVE {f \in QEdge : x \in f /\ t2.weight[f] > 0} = S2[x]
      BY <1>2, <1>7, <3>1, <3>2 DEF e
    <3> HIDE DEF S2
    <3> QED BY <3>1, <3>3 DEF LinksOf
  <2>6. Sound(t2)
    BY <2>4, <2>5 DEF Sound
  <2>7. Weighs(t2, s, e, v)
    BY <1>5, <2>2, <2>4 DEF Weighs, Threaded
  <2>8. QAddEdge(s, a, b, w) = t2
    BY <1>4, <1>6, <1>8
  <2> QED BY <2>6, <2>7, <2>8 DEF e, v
<1>9. CASE ~ (s.weight[e] <= 0)
  <2>1. s.weight[e] > 0
    BY <1>3, <1>9
  <2>2. \A f \in QEdge : (s1.weight[f] > 0) <=> (s.weight[f] > 0)
    BY <1>5, <1>6, <2>1 DEF Weighs
  <2>3. LinksOf(s1.weight) = S
    BY <2>2 DEF LinksOf, S
  <2>4. Sound(s1)
    BY <1>6, <2>3 DEF Sound
  <2>5. QAddEdge(s, a, b, w) = s1
    BY <1>4, <1>9
  <2> QED BY <1>5, <2>4, <2>5 DEF e, v
<1> QED BY <1>8, <1>9

(* remove_edge unlinks a record when its weight becomes 0.                  *)
LEMMA RemoveEdgeSound ==
  ASSUME NEW s, Sound(s), NEW a \in Block, NEW b \in Block, a # b, NEW w \in Nat \ {0},
         w <= s.weight[{a, b}]
  PROVE  /\ Sound(QRemoveEdge(s, a, b, w))
         /\ Weighs(QRemoveEdge(s, a, b, w), s, {a, b}, s.weight[{a, b}] - w)
<1> DEFINE e == {a, b}
           v == s.weight[e] - w
           s1 == [s EXCEPT !.weight[e] = v]
           S == LinksOf(s.weight)
           t1 == QUnlinkAt(s1, e, a)
           t2 == QUnlinkAt(t1, e, b)
           S1 == [S EXCEPT ![a] = S[a] \ {e}]
           S2 == [S1 EXCEPT ![b] = S1[b] \ {e}]
<1>1. s \in QStates /\ Threaded(s, S) /\ S \in [Block -> SUBSET QEdge]
  BY DEF Sound, Threaded
<1>2. e \in QEdge
  BY Records
<1>3. s.weight \in [QEdge -> Nat] /\ v \in Nat /\ s.weight[e] \in Nat /\ s.weight[e] > 0
  BY <1>1, <1>2, QFields
<1>4. QRemoveEdge(s, a, b, w) = IF s1.weight[e] = 0 THEN t2 ELSE s1
  BY DEF QRemoveEdge
<1>5. /\ Weighs(s1, s, e, v)
      /\ s1.head = s.head /\ s1.prev = s.prev /\ s1.next = s.next
  <2> HIDE DEF e, v
  <2> QED BY <1>1, <1>2, <1>3, WeightSet
<1> HIDE DEF s1, v
<1>6. Threaded(s1, S) /\ s1.weight[e] = v
  <2> HIDE DEF S
  <2> QED BY <1>1, <1>3, <1>5, SameThreads DEF Weighs
<1>7. \A x \in Block : S[x] = {f \in QEdge : x \in f /\ s.weight[f] > 0}
  BY DEF LinksOf
<1> HIDE DEF S
<1>8. CASE v = 0
  <2>1. e \in S[a] /\ e \in S[b]
    BY <1>2, <1>3, <1>7
  <2>2. Threaded(t1, S1) /\ t1.weight = s1.weight
    BY <1>2, <1>6, <2>1, UnlinkThreads
  <2>3. e \in S1[b]
    BY <1>1, <2>1
  <2> HIDE DEF t1, S1
  <2>4. Threaded(t2, S2) /\ t2.weight = t1.weight
    BY <1>2, <2>2, <2>3, UnlinkThreads
  <2> HIDE DEF t2
  <2>5. LinksOf(t2.weight) = S2
    <3>1. S2 \in [Block -> SUBSET QEdge] /\ \A x \in Block : S2[x] = IF x \in {a, b} THEN S[x] \ {e} ELSE S[x]
      BY <1>1, <1>2 DEF S1
    <3>2. \A f \in QEdge : (t2.weight[f] > 0) <=> (s.weight[f] > 0 /\ f # e)
      <4> SUFFICES ASSUME NEW f \in QEdge
                   PROVE  (t2.weight[f] > 0) <=> (s.weight[f] > 0 /\ f # e)
        OBVIOUS
      <4>1. t2.weight[f] = s1.weight[f] /\ s1.weight[e] = 0
        BY <1>6, <1>8, <2>2, <2>4
      <4>2. f # e => s1.weight[f] = s.weight[f]
        BY <1>5 DEF Weighs
      <4> HIDE DEF e
      <4> QED BY <4>1, <4>2
    <3>3. ASSUME NEW x \in Block PROVE {f \in QEdge : x \in f /\ t2.weight[f] > 0} = S2[x]
      <4>1. S2[x] = IF x \in e THEN S[x] \ {e} ELSE S[x]
        BY <3>1
      <4>2. \A f \in QEdge : f \in S[x] <=> x \in f /\ s.weight[f] > 0
        BY <1>7
      <4>3. S[x] \subseteq QEdge
        BY <1>1
      <4> HIDE DEF e, S2
      <4> QED BY <3>2, <4>1, <4>2, <4>3
    <3> HIDE DEF S2
    <3> QED BY <3>1, <3>3 DEF LinksOf
  <2>6. Sound(t2)
    BY <2>4, <2>5 DEF Sound
  <2>7. Weighs(t2, s, e, v)
    BY <1>5, <2>2, <2>4 DEF Weighs, Threaded
  <2>8. QRemoveEdge(s, a, b, w) = t2
    BY <1>4, <1>6, <1>8
  <2> QED BY <2>6, <2>7, <2>8 DEF e, v
<1>9. CASE v # 0
  <2>1. v > 0
    BY <1>3, <1>9
  <2>2. \A f \in QEdge : (s1.weight[f] > 0) <=> (s.weight[f] > 0)
    BY <1>3, <1>5, <1>6, <2>1 DEF Weighs
  <2>3. LinksOf(s1.weight) = S
    BY <2>2 DEF LinksOf, S
  <2>4. Sound(s1)
    BY <1>6, <2>3 DEF Sound
  <2>5. QRemoveEdge(s, a, b, w) = s1
    BY <1>4, <1>6, <1>9
  <2> QED BY <1>5, <2>4, <2>5 DEF e, v
<1> QED BY <1>8, <1>9

-----------------------------------------------------------------------------
(* The quotient graph is right for the partition p.                         *)
QInv(p, s) ==
  /\ Sound(s)
  /\ \A a, b \in Block : a # b => s.weight[{a, b}] = QuotientWeight(p, a, b)

(* Half way through the neighbours of u: those in P have been visited.      *)
Amid(p, u, new, P, W, s) ==
  /\ Sound(s)
  /\ \A e \in QEdge : s.weight[e] + Share(p, u, p[u], e, P) = W[e] + Share(p, u, new, e, P)

(* One visit of the loop of quotient_graph.move.                            *)
LEMMA AmidVisit ==
  ASSUME NEW p \in [Vertex -> Block], NEW u \in Vertex, NEW new \in Block,
         p[u] # new, NEW W \in [QEdge -> Nat],
         \A a, b \in Block : a # b => W[{a, b}] = QuotientWeight(p, a, b),
         NEW P \in SUBSET Adj(u), NEW v \in Adj(u), v \notin P, p[v] = partition[v],
         NEW s, Amid(p, u, new, P, W, s)
  PROVE  Amid(p, u, new, P \cup {v}, W, QVisit(s, u, v, p[u], new))
<1> DEFINE o == p[u]
           c == p[v]
           w == EdgeWeight[u][v]
           R == P \cup {v}
           So(e) == Share(p, u, o, e, P)
           Sn(e) == Share(p, u, new, e, P)
           To(e) == Share(p, u, o, e, R)
           Tn(e) == Share(p, u, new, e, R)
           s1 == IF partition[v] = o THEN s ELSE QRemoveEdge(s, o, partition[v], w)
           s2 == IF partition[v] = new THEN s1 ELSE QAddEdge(s1, new, partition[v], w)
<1>1. /\ o \in Block /\ c \in Block /\ w \in Nat \ {0} /\ R \in SUBSET Adj(u) /\ v \in Vertex
  BY Neighbourhoods
<1>2. QVisit(s, u, v, p[u], new) = s2
  BY DEF QVisit
<1>3. /\ Sound(s) /\ s \in QStates
      /\ \A e \in QEdge : s.weight[e] + So(e) = W[e] + Sn(e)
  BY DEF Amid, Sound, Threaded
<1>4. ASSUME NEW e \in QEdge
      PROVE  /\ So(e) \in Nat /\ Sn(e) \in Nat /\ s.weight[e] \in Nat /\ W[e] \in Nat
             /\ c # o /\ {o, c} = e => To(e) = w + So(e)
             /\ c = o \/ {o, c} # e => To(e) = So(e)
             /\ c # new /\ {new, c} = e => Tn(e) = w + Sn(e)
             /\ c = new \/ {new, c} # e => Tn(e) = Sn(e)
  <2>1. So(e) \in Nat /\ Sn(e) \in Nat
    BY ShareType
  <2>2. s.weight[e] \in Nat /\ W[e] \in Nat
    BY <1>3, QFields
  <2>3. /\ p[v] # o /\ {o, p[v]} = e =>
              Share(p, u, o, e, P \cup {v}) = EdgeWeight[u][v] + Share(p, u, o, e, P)
        /\ p[v] = o \/ {o, p[v]} # e => Share(p, u, o, e, P \cup {v}) = Share(p, u, o, e, P)
    <3> HIDE DEF o
    <3> QED BY ShareAdd
  <2>4. /\ p[v] # new /\ {new, p[v]} = e =>
              Share(p, u, new, e, P \cup {v}) = EdgeWeight[u][v] + Share(p, u, new, e, P)
        /\ p[v] = new \/ {new, p[v]} # e => Share(p, u, new, e, P \cup {v}) = Share(p, u, new, e, P)
    BY ShareAdd
  <2> QED BY <2>1, <2>2, <2>3, <2>4
<1>5. c # o => w + So({o, c}) <= W[{o, c}]
  <2> SUFFICES ASSUME c # o PROVE w + So({o, c}) <= W[{o, c}]
    OBVIOUS
  <2>1. {o, c} \in QEdge
    BY <1>1, Records
  <2>2. To({o, c}) = w + So({o, c})
    BY <1>4, <2>1
  <2>3. Share(p, u, o, {o, c}, R) <= ConnWeight(p, u, c)
    <3> HIDE DEF o, c, R
    <3> QED BY <1>1, ShareAll
  <2>4. ConnWeight(p, u, c) <= QuotientWeight(p, o, c)
    <3>1. CASE c = new
      BY <3>1, QuotientMoved
    <3>2. CASE c # new
      <4>1. QuotientWeight(p, p[u], c) = ConnWeight(p, u, c) + QuotientWeight(Moved(p, u, new), p[u], c)
        <5> HIDE DEF c
        <5>1. c \in Block \ {p[u], new}
          BY <1>1, <3>2 DEF o
        <5> QED BY <5>1, QuotientMoved
      <4>2. QuotientWeight(Moved(p, u, new), p[u], c) \in Nat /\ ConnWeight(p, u, c) \in Nat
        BY QuotientIsBetween, ConnIsSum
      <4> QED BY <4>1, <4>2
    <3> QED BY <3>1, <3>2
  <2>5. QuotientWeight(p, o, c) = W[{o, c}]
    BY <1>1
  <2>6. QuotientWeight(p, o, c) \in Nat /\ ConnWeight(p, u, c) \in Nat /\ To({o, c}) \in Nat
    BY <1>1, QuotientIsBetween, ConnIsSum, ShareType
  <2> HIDE DEF So, o, c, w
  <2> QED BY <2>2, <2>3, <2>4, <2>5, <2>6
<1>6. /\ Sound(s1) /\ s1 \in QStates
      /\ \A e \in QEdge : s1.weight[e] + To(e) = W[e] + Sn(e)
  <2>1. CASE c = o
    <3>1. s1 = s
      BY <2>1
    <3>2. \A e \in QEdge : To(e) = So(e)
      BY <1>4, <2>1
    <3> HIDE DEF s1, To, So, Sn
    <3> QED BY <1>3, <3>1, <3>2
  <2>2. CASE c # o
    <3>1. s1 = QRemoveEdge(s, o, c, w)
      BY <2>2
    <3>2. {o, c} \in QEdge
      BY <1>1, <2>2, Records
    <3>3. w <= s.weight[{o, c}]
      <4> DEFINE e == {o, c}
      <4>1. /\ So(e) \in Nat /\ Sn(e) \in Nat /\ s.weight[e] \in Nat /\ W[e] \in Nat
            /\ w + So(e) <= W[e] /\ s.weight[e] + So(e) = W[e] + Sn(e)
        BY <1>3, <1>4, <1>5, <2>2, <3>2
      <4> HIDE DEF e, So, Sn, w
      <4>2. w <= s.weight[e]
        BY <1>1, <4>1
      <4> QED BY <4>2 DEF e
    <3> HIDE DEF o, c, w, s1
    <3>4. Sound(s1) /\ Weighs(s1, s, {o, c}, s.weight[{o, c}] - w)
      BY <1>1, <1>3, <2>2, <3>1, <3>3, RemoveEdgeSound
    <3>5. ASSUME NEW e \in QEdge PROVE s1.weight[e] + To(e) = W[e] + Sn(e)
      <4>1. /\ So(e) \in Nat /\ Sn(e) \in Nat /\ s.weight[e] \in Nat /\ W[e] \in Nat
            /\ {o, c} = e => To(e) = w + So(e)
            /\ {o, c} # e => To(e) = So(e)
            /\ s.weight[e] + So(e) = W[e] + Sn(e)
        BY <1>3, <1>4, <2>2
      <4>2. /\ {o, c} = e => s1.weight[e] = s.weight[e] - w
            /\ {o, c} # e => s1.weight[e] = s.weight[e]
        BY <3>4 DEF Weighs
      <4> HIDE DEF So, Sn, To
      <4> QED BY <1>1, <4>1, <4>2
    <3> QED BY <3>4, <3>5 DEF Weighs
  <2> QED BY <2>1, <2>2
<1> HIDE DEF s1
<1>7. /\ Sound(s2)
      /\ \A e \in QEdge : s2.weight[e] + To(e) = W[e] + Tn(e)
  <2>1. CASE c = new
    <3>1. s2 = s1
      BY <2>1
    <3>2. \A e \in QEdge : Tn(e) = Sn(e)
      BY <1>4, <2>1
    <3> HIDE DEF s2, To, Tn, Sn
    <3> QED BY <1>6, <3>1, <3>2
  <2>2. CASE c # new
    <3>1. s2 = QAddEdge(s1, new, c, w)
      BY <2>2
    <3> HIDE DEF o, c, w, s2
    <3>4. Sound(s2) /\ Weighs(s2, s1, {new, c}, s1.weight[{new, c}] + w)
      BY <1>1, <1>6, <2>2, <3>1, AddEdgeSound
    <3>5. ASSUME NEW e \in QEdge PROVE s2.weight[e] + To(e) = W[e] + Tn(e)
      <4>1. /\ To(e) \in Nat /\ Sn(e) \in Nat /\ s1.weight[e] \in Nat /\ W[e] \in Nat
            /\ {new, c} = e => Tn(e) = w + Sn(e)
            /\ {new, c} # e => Tn(e) = Sn(e)
            /\ s1.weight[e] + To(e) = W[e] + Sn(e)
        BY <1>1, <1>4, <1>6, <2>2, QFields, ShareType
      <4>2. /\ {new, c} = e => s2.weight[e] = s1.weight[e] + w
            /\ {new, c} # e => s2.weight[e] = s1.weight[e]
        BY <3>4 DEF Weighs
      <4> HIDE DEF Sn, To, Tn
      <4> QED BY <1>1, <4>1, <4>2
    <3> QED BY <3>4, <3>5
  <2> QED BY <2>1, <2>2
<1> HIDE DEF s2
<1>8. Amid(p, u, new, P \cup {v}, W, s2)
  BY <1>7 DEF Amid
<1> QED BY <1>2, <1>8

(* The invariant of the loop holds before it.                               *)
LEMMA AmidStart ==
  ASSUME NEW p \in [Vertex -> Block], NEW u \in Vertex, NEW new \in Block, NEW s, QInv(p, s)
  PROVE  Amid(p, u, new, {}, s.weight, s)
<1>1. Sound(s) /\ s \in QStates
  BY DEF QInv, Sound, Threaded
<1>2. \A e \in QEdge : s.weight[e] \in Nat
  BY <1>1, QFields
<1>3. \A e \in QEdge : Share(p, u, p[u], e, {}) = 0 /\ Share(p, u, new, e, {}) = 0
  BY ShareEmpty
<1> QED BY <1>1, <1>2, <1>3 DEF Amid

(* After the loop the quotient graph is right for the partition with the    *)
(* move.                                                                    *)
LEMMA AmidEnd ==
  ASSUME NEW p \in [Vertex -> Block], NEW u \in Vertex, NEW new \in Block, p[u] # new,
         NEW W \in [QEdge -> Nat],
         \A a, b \in Block : a # b => W[{a, b}] = QuotientWeight(p, a, b),
         NEW s, Amid(p, u, new, Adj(u), W, s)
  PROVE  QInv(Moved(p, u, new), s)
<1> DEFINE o == p[u]
           m == Moved(p, u, new)
           So(e) == Share(p, u, o, e, Adj(u))
           Sn(e) == Share(p, u, new, e, Adj(u))
           C(c) == ConnWeight(p, u, c)
           X(a, b) == QuotientWeight(p, a, b)
           Y(a, b) == QuotientWeight(m, a, b)
<1>1. /\ o \in Block /\ Sound(s) /\ s \in QStates
      /\ \A e \in QEdge : s.weight[e] + So(e) = W[e] + Sn(e)
      /\ \A e \in QEdge : s.weight[e] \in Nat
  BY QFields DEF Amid, Sound, Threaded
<1>2. /\ \A c \in Block : c # o => So({o, c}) = C(c)
      /\ \A e : o \notin e => So(e) = 0
      /\ \A c \in Block : c # new => Sn({new, c}) = C(c)
      /\ \A e : new \notin e => Sn(e) = 0
  <2> HIDE DEF o
  <2>1. /\ \A c \in Block : c # o => Share(p, u, o, {o, c}, Adj(u)) = ConnWeight(p, u, c)
        /\ \A c \in Block : c # new => Share(p, u, new, {new, c}, Adj(u)) = ConnWeight(p, u, c)
    BY ShareAll
  <2>2. /\ \A e : o \notin e => Share(p, u, o, e, Adj(u)) = 0
        /\ \A e : new \notin e => Share(p, u, new, e, Adj(u)) = 0
    BY ShareElsewhere
  <2> QED BY <2>1, <2>2
<1>3. /\ \A a, b \in Block \ {o, new} : Y(a, b) = X(a, b)
      /\ \A c \in Block \ {o, new} : X(o, c) = C(c) + Y(o, c) /\ Y(new, c) = C(c) + X(new, c)
      /\ Y(o, new) + C(new) = X(o, new) + C(o)
  BY QuotientMoved
<1>4. /\ \A a, b : X(a, b) \in Nat /\ X(a, b) = X(b, a)
      /\ \A a, b : Y(a, b) \in Nat /\ Y(a, b) = Y(b, a)
      /\ \A c : C(c) \in Nat
  BY QuotientIsBetween, ConnIsSum
<1>5. \A a, b \in Block : a # b => {a, b} \in QEdge /\ W[{a, b}] = X(a, b)
  BY Records
<1>6. o # new
  OBVIOUS
<1> HIDE DEF o, m, So, Sn, C, X, Y
<1>7. ASSUME NEW c \in Block \ {o, new}
      PROVE  s.weight[{o, c}] = Y(o, c) /\ s.weight[{new, c}] = Y(new, c)
  <2>1. /\ {o, c} \in QEdge /\ W[{o, c}] = X(o, c)
        /\ {new, c} \in QEdge /\ W[{new, c}] = X(new, c)
    BY <1>1, <1>5
  <2>2. So({o, c}) = C(c) /\ Sn({o, c}) = 0 /\ So({new, c}) = 0 /\ Sn({new, c}) = C(c)
    BY <1>2, <1>6
  <2>3. /\ s.weight[{o, c}] + C(c) = X(o, c) + 0 /\ s.weight[{o, c}] \in Nat
        /\ s.weight[{new, c}] + 0 = X(new, c) + C(c) /\ s.weight[{new, c}] \in Nat
    BY <1>1, <2>1, <2>2
  <2>4. X(o, c) = C(c) + Y(o, c) /\ Y(new, c) = C(c) + X(new, c)
    BY <1>3
  <2> QED BY <1>4, <2>3, <2>4
<1>8. s.weight[{o, new}] = Y(o, new)
  <2>1. {o, new} \in QEdge /\ W[{o, new}] = X(o, new) /\ {o, new} = {new, o}
    BY <1>1, <1>5, <1>6
  <2>2. So({o, new}) = C(new) /\ Sn({o, new}) = C(o)
    BY <1>1, <1>2, <1>6, <2>1
  <2>3. s.weight[{o, new}] + C(new) = X(o, new) + C(o) /\ s.weight[{o, new}] \in Nat
    BY <1>1, <2>1, <2>2
  <2>4. /\ Y(o, new) + C(new) = X(o, new) + C(o)
        /\ Y(o, new) \in Nat /\ X(o, new) \in Nat /\ C(o) \in Nat /\ C(new) \in Nat
    BY <1>3, <1>4
  <2> QED BY <2>3, <2>4
<1>9. ASSUME NEW a \in Block \ {o, new}, NEW b \in Block \ {o, new}, a # b
      PROVE  s.weight[{a, b}] = Y(a, b)
  <2>1. {a, b} \in QEdge /\ W[{a, b}] = X(a, b) /\ o \notin {a, b} /\ new \notin {a, b}
    BY <1>5, <1>9
  <2>2. s.weight[{a, b}] + 0 = X(a, b) + 0 /\ s.weight[{a, b}] \in Nat
    BY <1>1, <1>2, <2>1
  <2> QED BY <1>3, <1>4, <2>2
<1>10. ASSUME NEW a \in Block, NEW b \in Block, a # b PROVE s.weight[{a, b}] = Y(a, b)
  <2>1. {a, b} = {b, a} /\ Y(a, b) = Y(b, a)
    BY <1>4
  <2>2. CASE a = o
    BY <1>7, <1>8, <1>10, <2>2
  <2>3. CASE b = o
    BY <1>7, <1>8, <1>10, <2>1, <2>3
  <2>4. CASE a = new /\ b # o
    BY <1>7, <1>10, <2>4
  <2>5. CASE b = new /\ a # o
    BY <1>7, <1>10, <2>1, <2>5
  <2>6. CASE a \notin {o, new} /\ b \notin {o, new}
    BY <1>9, <1>10, <2>6
  <2> QED BY <2>2, <2>3, <2>4, <2>5, <2>6
<1> QED BY <1>1, <1>10 DEF QInv, Y, m

(* quotient_graph.move keeps weights and lists right.                       *)
LEMMA QMoveKeeps ==
  ASSUME NEW p \in [Vertex -> Block], QInv(p, q), NEW u \in Vertex, NEW new \in Block,
         p[u] # new, \A v \in Adj(u) : p[v] = partition[v]
  PROVE  QInv(Moved(p, u, new), QMoved(u, p[u], new))
<1> DEFINE old == p[u]
           W == q.weight
           start == q
           l == AdjOrder[u]
           n == Len(l)
           dom == DOMAIN l
           A(h) == [s \in SUBSET dom |->
                      IF s = {} THEN start
                      ELSE QVisit(h[s \ {Max(s)}], u, l[Max(s)], old, new)]
           iter == CHOOSE h : h = A(h)
           moved == FoldLeft(LAMBDA s, v : QVisit(s, u, v, old, new), start, l)
           X == [s \in Indices(n) |-> {c \in QStates : Amid(p, u, new, Visited(l, s), W, c)}]
           Body == [s \in Indices(n) |-> [c \in X[Earlier(s)] |->
                      QVisit(c, u, LastVisited(l, s), old, new)]]
<1>0. moved = iter[dom]
  BY DEF FoldLeft, MapThenFoldSet
<1>a. QMoved(u, p[u], new) = moved
  <2>1. QMoved(u, old, new)
          = FoldLeft(LAMBDA s, v : QVisit(s, u, v, old, new), q, SubSeq(l, 1, n))
    BY DEF QMoved, QAfter
  <2>2. SubSeq(l, 1, n) = l
    <3>1. l \in Seq(Adj(u))
      BY AdjacencyOrder
    <3> HIDE DEF l
    <3> QED BY <3>1
  <2> QED BY <2>1, <2>2
<1> HIDE DEF moved
<1>1. /\ n \in Nat /\ dom = 1 .. n
      /\ Indices(n) = SUBSET dom /\ {} \in Indices(n) /\ dom \in Indices(n)
      /\ Visited(l, {}) = {} /\ Visited(l, dom) = Adj(u)
      /\ \A s \in Indices(n) : Visited(l, s) \subseteq Adj(u)
      /\ \A s \in Indices(n) : s # {} =>
           /\ Earlier(s) \in Indices(n)
           /\ LastVisited(l, s) \in Adj(u)
           /\ LastVisited(l, s) \notin Visited(l, Earlier(s))
           /\ Visited(l, s) = Visited(l, Earlier(s)) \cup {LastVisited(l, s)}
  BY Listings, VisitOrder
<1> HIDE DEF n, dom, l
<1>2. /\ W \in [QEdge -> Nat]
      /\ \A a, b \in Block : a # b => W[{a, b}] = QuotientWeight(p, a, b)
  BY QFields DEF QInv, Sound, Threaded
<1>4. Amid(p, u, new, {}, W, start)
  BY AmidStart
<1> HIDE DEF start, W
<1>5. ASSUME NEW s \in Indices(n), s # {}, NEW c, Amid(p, u, new, Visited(l, Earlier(s)), W, c)
      PROVE  Amid(p, u, new, Visited(l, s), W, QVisit(c, u, LastVisited(l, s), old, new))
  <2> DEFINE v == LastVisited(l, s)
             E == Visited(l, Earlier(s))
  <2>1. /\ v \in Adj(u) /\ v \notin E /\ Visited(l, s) = E \cup {v} /\ E \in SUBSET Adj(u)
        /\ p[v] = partition[v] /\ Amid(p, u, new, E, W, c)
    BY <1>1, <1>5
  <2> HIDE DEF v, E
  <2>2. Amid(p, u, new, E \cup {v}, W, QVisit(c, u, v, p[u], new))
    BY <1>2, <2>1, AmidVisit
  <2> QED BY <2>1, <2>2 DEF v
<1>6. StaysIn(X, Body, start, n)
  <2>1. start \in X[{}]
    BY <1>1, <1>4 DEF Amid, Sound, Threaded
  <2>2. ASSUME NEW s \in Indices(n), s # {}, NEW c \in X[Earlier(s)] PROVE Body[s][c] \in X[s]
    <3>1. Earlier(s) \in Indices(n) /\ Amid(p, u, new, Visited(l, Earlier(s)), W, c)
      BY <1>1, <2>2
    <3>2. Body[s][c] = QVisit(c, u, LastVisited(l, s), old, new)
      OBVIOUS
    <3>3. Amid(p, u, new, Visited(l, s), W, Body[s][c])
      BY SMTT(40), <1>5, <2>2, <3>1, <3>2
    <3>4. Body[s][c] \in QStates
      BY <3>3 DEF Amid, Sound, Threaded
    <3> HIDE DEF Body
    <3> QED BY <3>3, <3>4
  <2> QED BY <2>1, <2>2 DEF StaysIn
<1>7. PICK g : IsFold(g, Body, start, n)
  BY <1>1, FoldExists
<1>8. \A s \in Indices(n) : g[s] \in X[s]
  <2> HIDE DEF X, Body
  <2> QED BY <1>1, <1>6, <1>7, FoldReaches
<1>9. g = A(g)
  <2>1. ASSUME NEW s \in Indices(n), s # {}
        PROVE  g[s] = QVisit(g[s \ {Max(s)}], u, l[Max(s)], old, new)
    <3>1. g[s] = Body[s][g[Earlier(s)]]
      BY <1>7, <2>1 DEF IsFold
    <3>2. g[Earlier(s)] \in X[Earlier(s)]
      BY <1>1, <1>8, <2>1
    <3> HIDE DEF X
    <3>3. g[s] = QVisit(g[Earlier(s)], u, LastVisited(l, s), old, new)
      BY <3>1, <3>2
    <3> QED BY <3>3 DEF Earlier, LastVisited
  <2>2. g = [s \in Indices(n) |-> g[s]] /\ g[{}] = start
    BY <1>7 DEF IsFold
  <2>3. \A s \in Indices(n) : g[s] = IF s = {} THEN start
                      ELSE QVisit(g[s \ {Max(s)}], u, l[Max(s)], old, new)
    BY <2>1, <2>2
  <2> QED BY <1>1, <2>2, <2>3
<1>10. iter = A(iter)
  BY <1>9
<1> HIDE DEF iter
<1>11. iter[{}] = start
  BY <1>1, <1>10
<1>12. \A s \in Indices(n) : s # {} =>
         iter[s] = QVisit(iter[Earlier(s)], u, LastVisited(l, s), old, new)
  BY <1>1, <1>10 DEF Earlier, LastVisited
<1> DEFINE Q == {s \in Indices(n) : Amid(p, u, new, Visited(l, s), W, iter[s])}
<1>13. {} \in Q
  BY <1>1, <1>4, <1>11
<1>14. ASSUME NEW s \in Indices(n), s # {}, Earlier(s) \in Q PROVE s \in Q
  BY <1>5, <1>12, <1>14
<1>15. \A s \in Indices(n) : s \in Q
  <2> HIDE DEF Q
  <2> QED BY <1>1, <1>13, <1>14, IndexInduction
<1>16. Amid(p, u, new, Adj(u), W, moved)
  BY <1>0, <1>1, <1>15
<1>17. QInv(Moved(p, u, new), moved)
  BY <1>2, <1>16, AmidEnd
<1> QED BY <1>a, <1>17

-----------------------------------------------------------------------------
(* The quotient graph computed from the partition.                          *)

(* The weight that u brings to the record e when its edges to P are counted *)
(* at their smaller endpoint.                                               *)
SmallerEnd(p, u, e, P) == {v \in P : u < v /\ p[u] # p[v] /\ {p[u], p[v]} = e}
CountOf(p, u, e, P) == SumFunctionOnSet(EdgeWeight[u], SmallerEnd(p, u, e, P))
Counts(p, e) == [u \in Vertex |-> CountOf(p, u, e, Adj(u))]

Counting(p, u, P, W, s) ==
  /\ Sound(s)
  /\ \A e \in QEdge : s.weight[e] = W[e] + CountOf(p, u, e, P)

Counted(p, V, s) ==
  /\ Sound(s)
  /\ \A e \in QEdge : s.weight[e] = SumFunctionOnSet(Counts(p, e), V)

(* What has been counted is a number.                                       *)
LEMMA CountOfType ==
  ASSUME NEW p, NEW u \in Vertex, NEW e, NEW P \in SUBSET Adj(u)
  PROVE  /\ IsFiniteSet(SmallerEnd(p, u, e, P)) /\ SmallerEnd(p, u, e, P) \subseteq P
         /\ CountOf(p, u, e, P) \in Nat
<1>1. SmallerEnd(p, u, e, P) \in SUBSET Adj(u) /\ SmallerEnd(p, u, e, P) \subseteq P
  BY DEF SmallerEnd
<1>2. IsFiniteSet(SmallerEnd(p, u, e, P))
  BY <1>1, Neighbourhoods, FS_Subset
<1>3. \A v \in SmallerEnd(p, u, e, P) : EdgeWeight[u][v] \in Nat
  BY <1>1, Neighbourhoods
<1>4. SumFunctionOnSet(EdgeWeight[u], SmallerEnd(p, u, e, P)) \in Nat
  BY <1>2, <1>3, SumNat
<1> QED BY <1>1, <1>2, <1>4 DEF CountOf

(* Before the loop nothing has been counted.                                *)
LEMMA CountOfEmpty ==
  ASSUME NEW p, NEW u, NEW e
  PROVE  CountOf(p, u, e, {}) = 0
<1>1. SmallerEnd(p, u, e, {}) = {}
  BY DEF SmallerEnd
<1>2. SumFunctionOnSet(EdgeWeight[u], SmallerEnd(p, u, e, {})) = SumFunctionOnSet(EdgeWeight[u], {})
  BY <1>1, Zenon
<1> QED BY <1>2, SumEmpty DEF CountOf

(* One more neighbour, counted at the smaller end of the edge.              *)
LEMMA CountOfAdd ==
  ASSUME NEW p, NEW u \in Vertex, NEW e, NEW P \in SUBSET Adj(u),
         NEW v \in Adj(u), v \notin P
  PROVE  /\ u < v /\ p[u] # p[v] /\ {p[u], p[v]} = e =>
              CountOf(p, u, e, P \cup {v}) = EdgeWeight[u][v] + CountOf(p, u, e, P)
         /\ ~ (u < v) \/ p[u] = p[v] \/ {p[u], p[v]} # e =>
              CountOf(p, u, e, P \cup {v}) = CountOf(p, u, e, P)
<1> DEFINE S == SmallerEnd(p, u, e, P)
<1>1. IsFiniteSet(S) /\ S \subseteq P
  BY CountOfType
<1>3. CASE u < v /\ p[u] # p[v] /\ {p[u], p[v]} = e
  <2>1. SmallerEnd(p, u, e, P \cup {v}) = S \cup {v}
    BY <1>3 DEF SmallerEnd
  <2> HIDE DEF S
  <2>2. \A y \in S \cup {v} : EdgeWeight[u][y] \in Int
    BY <1>1, Neighbourhoods
  <2>3. v \notin S
    BY <1>1
  <2>4. SumFunctionOnSet(EdgeWeight[u], S \cup {v})
          = EdgeWeight[u][v] + SumFunctionOnSet(EdgeWeight[u], S)
    BY <1>1, <2>2, <2>3, SumAdd
  <2>5. CountOf(p, u, e, P \cup {v}) = SumFunctionOnSet(EdgeWeight[u], S \cup {v})
    BY <2>1, Zenon DEF CountOf
  <2>6. CountOf(p, u, e, P) = SumFunctionOnSet(EdgeWeight[u], S)
    BY DEF CountOf, S
  <2> QED BY <1>3, <2>4, <2>5, <2>6
<1>4. CASE ~ (u < v /\ p[u] # p[v] /\ {p[u], p[v]} = e)
  <2>1. SmallerEnd(p, u, e, P \cup {v}) = SmallerEnd(p, u, e, P)
    BY <1>4 DEF SmallerEnd
  <2>2. CountOf(p, u, e, P \cup {v}) = CountOf(p, u, e, P)
    BY <2>1, Zenon DEF CountOf
  <2> QED BY <1>4, <2>2
<1> QED BY <1>3, <1>4

(* One visit of the inner loop of compute_from_scratch.                     *)
LEMMA CountingVisit ==
  ASSUME NEW p \in [Vertex -> Block], NEW u \in Vertex, NEW W \in [QEdge -> Nat],
         NEW P \in SUBSET Adj(u), NEW v \in Adj(u), v \notin P, NEW s, Counting(p, u, P, W, s)
  PROVE  Counting(p, u, P \cup {v}, W, QCountEdge(p, s, u, v))
<1> DEFINE w == EdgeWeight[u][v]
           t == QCountEdge(p, s, u, v)
           a == p[u]
           b == p[v]
           N(e) == CountOf(p, u, e, P)
           M(e) == CountOf(p, u, e, P \cup {v})
<1>1. w \in Nat \ {0} /\ a \in Block /\ b \in Block
  BY Neighbourhoods
<1>2. Sound(s) /\ \A e \in QEdge : s.weight[e] = W[e] + N(e)
  BY DEF Counting
<1>3. \A e \in QEdge : N(e) \in Nat /\ W[e] \in Nat
  BY CountOfType
<1>4. \A e \in QEdge :
        /\ u < v /\ a # b /\ {a, b} = e => M(e) = w + N(e)
        /\ ~ (u < v) \/ a = b \/ {a, b} # e => M(e) = N(e)
  BY CountOfAdd
<1> HIDE DEF M, N, a, b, w, t
<1>5. CASE u < v /\ a # b
  <2>1. t = QAddEdge(s, a, b, w)
    BY <1>5 DEF QCountEdge, t, a, b, w
  <2>2. Sound(t) /\ Weighs(t, s, {a, b}, s.weight[{a, b}] + w)
    BY <1>1, <1>2, <1>5, <2>1, AddEdgeSound
  <2>3. ASSUME NEW e \in QEdge PROVE t.weight[e] = W[e] + M(e)
    <3>1. /\ {a, b} = e => t.weight[e] = s.weight[e] + w
          /\ {a, b} # e => t.weight[e] = s.weight[e]
      BY <2>2 DEF Weighs
    <3>2. /\ {a, b} = e => M(e) = w + N(e)
          /\ {a, b} # e => M(e) = N(e)
          /\ N(e) \in Nat /\ W[e] \in Nat /\ s.weight[e] = W[e] + N(e)
      <4>1. N(e) \in Nat /\ W[e] \in Nat /\ s.weight[e] = W[e] + N(e)
        BY <1>2, <1>3
      <4>2. {a, b} = e => M(e) = w + N(e)
        BY <1>4, <1>5
      <4>3. {a, b} # e => M(e) = N(e)
        BY <1>4, <1>5
      <4> QED BY <4>1, <4>2, <4>3
    <3> QED BY <1>1, <3>1, <3>2
  <2> QED BY <2>2, <2>3 DEF Counting, t, M
<1>6. CASE ~ (u < v /\ a # b)
  <2>1. t = s
    BY <1>6 DEF QCountEdge, t, a, b
  <2>2. \A e \in QEdge : M(e) = N(e)
    BY <1>4, <1>6
  <2>3. Counting(p, u, P \cup {v}, W, s)
    BY <1>2, <2>2 DEF Counting, M
  <2> QED BY <2>1, <2>3 DEF t
<1> QED BY <1>5, <1>6

(* The inner loop counts the edges of one vertex.                           *)
LEMMA CountEdgesSound ==
  ASSUME NEW p \in [Vertex -> Block], NEW u \in Vertex, NEW start, Sound(start)
  PROVE  Counting(p, u, Adj(u), start.weight, QCountEdges(p, start, u))
<1> DEFINE W == start.weight
           l == AdjOrder[u]
           n == Len(l)
           dom == DOMAIN l
           A(h) == [s \in SUBSET dom |->
                      IF s = {} THEN start
                      ELSE QCountEdge(p, h[s \ {Max(s)}], u, l[Max(s)])]
           iter == CHOOSE h : h = A(h)
           X == [s \in Indices(n) |-> {c \in QStates : Counting(p, u, Visited(l, s), W, c)}]
           Body == [s \in Indices(n) |-> [c \in X[Earlier(s)] |->
                      QCountEdge(p, c, u, LastVisited(l, s))]]
<1>0. QCountEdges(p, start, u) = iter[dom]
  BY DEF QCountEdges, FoldLeft, MapThenFoldSet
<1>1. /\ n \in Nat /\ dom = 1 .. n
      /\ Indices(n) = SUBSET dom /\ {} \in Indices(n) /\ dom \in Indices(n)
      /\ Visited(l, {}) = {} /\ Visited(l, dom) = Adj(u)
      /\ \A s \in Indices(n) : Visited(l, s) \subseteq Adj(u)
      /\ \A s \in Indices(n) : s # {} =>
           /\ Earlier(s) \in Indices(n)
           /\ LastVisited(l, s) \in Adj(u)
           /\ LastVisited(l, s) \notin Visited(l, Earlier(s))
           /\ Visited(l, s) = Visited(l, Earlier(s)) \cup {LastVisited(l, s)}
  BY Listings, VisitOrder
<1> HIDE DEF n, dom, l
<1>2. W \in [QEdge -> Nat] /\ start \in QStates
  BY QFields DEF Sound, Threaded
<1>4. Counting(p, u, {}, W, start)
  <2>1. \A e \in QEdge : CountOf(p, u, e, {}) = 0 /\ W[e] \in Nat
    BY <1>2, CountOfEmpty
  <2> QED BY <2>1 DEF Counting
<1> HIDE DEF W
<1>5. ASSUME NEW s \in Indices(n), s # {}, NEW c, Counting(p, u, Visited(l, Earlier(s)), W, c)
      PROVE  Counting(p, u, Visited(l, s), W, QCountEdge(p, c, u, LastVisited(l, s)))
  <2> DEFINE v == LastVisited(l, s)
             E == Visited(l, Earlier(s))
  <2>1. /\ v \in Adj(u) /\ v \notin E /\ Visited(l, s) = E \cup {v} /\ E \in SUBSET Adj(u)
        /\ Counting(p, u, E, W, c)
    BY <1>1, <1>5
  <2> HIDE DEF v, E
  <2>2. Counting(p, u, E \cup {v}, W, QCountEdge(p, c, u, v))
    BY <1>2, <2>1, CountingVisit
  <2> QED BY <2>1, <2>2 DEF v
<1>6. StaysIn(X, Body, start, n)
  <2>1. start \in X[{}]
    BY <1>1, <1>4 DEF Counting, Sound, Threaded
  <2>2. ASSUME NEW s \in Indices(n), s # {}, NEW c \in X[Earlier(s)] PROVE Body[s][c] \in X[s]
    <3>1. Earlier(s) \in Indices(n) /\ Counting(p, u, Visited(l, Earlier(s)), W, c)
      BY <1>1, <2>2
    <3>2. Body[s][c] = QCountEdge(p, c, u, LastVisited(l, s))
      OBVIOUS
    <3>3. Counting(p, u, Visited(l, s), W, Body[s][c])
      BY SMTT(40), <1>5, <2>2, <3>1, <3>2
    <3>4. Body[s][c] \in QStates
      BY <3>3 DEF Counting, Sound, Threaded
    <3> HIDE DEF Body
    <3> QED BY <3>3, <3>4
  <2> QED BY <2>1, <2>2 DEF StaysIn
<1>7. PICK g : IsFold(g, Body, start, n)
  BY <1>1, FoldExists
<1>8. \A s \in Indices(n) : g[s] \in X[s]
  <2> HIDE DEF X, Body
  <2> QED BY <1>1, <1>6, <1>7, FoldReaches
<1>9. g = A(g)
  <2>1. ASSUME NEW s \in Indices(n), s # {}
        PROVE  g[s] = QCountEdge(p, g[s \ {Max(s)}], u, l[Max(s)])
    <3>1. g[s] = Body[s][g[Earlier(s)]]
      BY <1>7, <2>1 DEF IsFold
    <3>2. g[Earlier(s)] \in X[Earlier(s)]
      BY <1>1, <1>8, <2>1
    <3> HIDE DEF X
    <3>3. g[s] = QCountEdge(p, g[Earlier(s)], u, LastVisited(l, s))
      BY <3>1, <3>2
    <3> QED BY <3>3 DEF Earlier, LastVisited
  <2>2. g = [s \in Indices(n) |-> g[s]] /\ g[{}] = start
    BY <1>7 DEF IsFold
  <2>3. \A s \in Indices(n) : g[s] = IF s = {} THEN start
                      ELSE QCountEdge(p, g[s \ {Max(s)}], u, l[Max(s)])
    BY <2>1, <2>2
  <2> QED BY <1>1, <2>2, <2>3
<1>10. iter = A(iter)
  BY <1>9
<1> HIDE DEF iter
<1>11. iter[{}] = start
  BY <1>1, <1>10
<1>12. \A s \in Indices(n) : s # {} =>
         iter[s] = QCountEdge(p, iter[Earlier(s)], u, LastVisited(l, s))
  BY <1>1, <1>10 DEF Earlier, LastVisited
<1> DEFINE Q == {s \in Indices(n) : Counting(p, u, Visited(l, s), W, iter[s])}
<1>13. {} \in Q
  BY <1>1, <1>4, <1>11
<1>14. ASSUME NEW s \in Indices(n), s # {}, Earlier(s) \in Q PROVE s \in Q
  BY <1>5, <1>12, <1>14
<1>15. \A s \in Indices(n) : s \in Q
  <2> HIDE DEF Q
  <2> QED BY <1>1, <1>13, <1>14, IndexInduction
<1>16. Counting(p, u, Adj(u), W, QCountEdges(p, start, u))
  BY <1>0, <1>1, <1>15
<1> QED BY <1>16 DEF W

(* One vertex of the outer loop.                                            *)
LEMMA CountedVisit ==
  ASSUME NEW p \in [Vertex -> Block], NEW V \in SUBSET Vertex, NEW u \in Vertex, u \notin V,
         NEW s, Counted(p, V, s)
  PROVE  Counted(p, V \cup {u}, QCountEdges(p, s, u))
<1> DEFINE t == QCountEdges(p, s, u)
<1>1. Sound(s) /\ \A e \in QEdge : s.weight[e] = SumFunctionOnSet(Counts(p, e), V)
  BY DEF Counted
<1>2. Counting(p, u, Adj(u), s.weight, t)
  BY <1>1, CountEdgesSound
<1> HIDE DEF t
<1>3. Sound(t) /\ \A e \in QEdge : t.weight[e] = s.weight[e] + CountOf(p, u, e, Adj(u))
  BY <1>2 DEF Counting
<1>4. ASSUME NEW e \in QEdge PROVE t.weight[e] = SumFunctionOnSet(Counts(p, e), V \cup {u})
  <2> DEFINE f == Counts(p, e)
  <2>1. \A x \in Vertex : f[x] = CountOf(p, x, e, Adj(x)) /\ f[x] \in Nat
    BY CountOfType DEF Counts
  <2> HIDE DEF f
  <2>2. IsFiniteSet(V) /\ \A x \in V \cup {u} : f[x] \in Int
    <3>1. V \in SUBSET Vertex /\ IsFiniteSet(Vertex)
      BY GraphAssumption
    <3>2. IsFiniteSet(V)
      BY <3>1, FS_Subset
    <3> QED BY <2>1, <3>2
  <2>3. SumFunctionOnSet(f, V \cup {u}) = f[u] + SumFunctionOnSet(f, V)
    BY <2>2, SumAdd
  <2>4. SumFunctionOnSet(f, V) \in Int
    BY <2>2, SumType
  <2>5. s.weight[e] = SumFunctionOnSet(f, V) /\ t.weight[e] = s.weight[e] + f[u] /\ f[u] \in Nat
    BY <1>1, <1>3, <2>1 DEF f
  <2>6. t.weight[e] = SumFunctionOnSet(f, V \cup {u})
    BY <2>3, <2>4, <2>5
  <2> QED BY <2>6 DEF f
<1>5. Counted(p, V \cup {u}, t)
  BY <1>3, <1>4 DEF Counted
<1> QED BY <1>5 DEF t

(* The outer loop starts without records in the lists.                      *)
LEMMA EmptySound ==
  ASSUME NEW p \in [Vertex -> Block]
  PROVE  Counted(p, {}, QEmpty)
<1> DEFINE none == [e \in QEdge |-> [x \in Block |-> NoEdge]]
           zero == [e \in QEdge |-> 0]
           nil == [x \in Block |-> NoEdge]
           s == QEmpty
<1>1. NoEdge \in QPointers
  BY DEF QPointers
<1>2. /\ zero \in [QEdge -> Nat] /\ nil \in [Block -> QPointers]
      /\ none \in [QEdge -> [Block -> QPointers]]
  BY <1>1
<1>3. s = [weight |-> zero, head |-> nil, prev |-> none, next |-> none]
  BY DEF QEmpty
<1>4. s \in QStates
  <2> HIDE DEF zero, nil, none, s
  <2> QED BY <1>2, <1>3 DEF QStates
<1>5. (\A e \in QEdge : s.weight[e] = 0) /\ (\A x \in Block : s.head[x] = NoEdge)
  BY <1>3
<1> HIDE DEF s
<1>6. \A x \in Block : LinksOf(s.weight)[x] = {}
  BY <1>5 DEF LinksOf
<1>7. ASSUME NEW x \in Block PROVE Chain(s, x, <<>>, {})
  BY <1>5 DEF Chain
<1>8. LinksOf(s.weight) \in [Block -> SUBSET QEdge]
  BY DEF LinksOf
<1>9. Sound(s)
  <2>1. \A x \in Block : \E L : Chain(s, x, L, LinksOf(s.weight)[x])
    BY <1>6, <1>7
  <2> QED BY <1>4, <1>8, <2>1 DEF Sound, Threaded
<1>10. Counted(p, {}, s)
  BY <1>5, <1>9, SumEmpty DEF Counted
<1> QED BY <1>10 DEF s

(* It ends with all edges counted.                                          *)
LEMMA CountedFromScratch ==
  ASSUME NEW p \in [Vertex -> Block]
  PROVE  Counted(p, Vertex, QFromScratch(p))
<1> DEFINE start == QEmpty
           l == AllVertices
           n == Len(l)
           dom == DOMAIN l
           A(h) == [s \in SUBSET dom |->
                      IF s = {} THEN start
                      ELSE QCountEdges(p, h[s \ {Max(s)}], l[Max(s)])]
           iter == CHOOSE h : h = A(h)
           X == [s \in Indices(n) |-> {c \in QStates : Counted(p, Visited(l, s), c)}]
           Body == [s \in Indices(n) |-> [c \in X[Earlier(s)] |->
                      QCountEdges(p, c, LastVisited(l, s))]]
<1>0. QFromScratch(p) = iter[dom]
  BY DEF QFromScratch, FoldLeft, MapThenFoldSet
<1>1. /\ n \in Nat /\ dom = 1 .. n
      /\ Indices(n) = SUBSET dom /\ {} \in Indices(n) /\ dom \in Indices(n)
      /\ Visited(l, {}) = {} /\ Visited(l, dom) = Vertex
      /\ \A s \in Indices(n) : Visited(l, s) \subseteq Vertex
      /\ \A s \in Indices(n) : s # {} =>
           /\ Earlier(s) \in Indices(n)
           /\ LastVisited(l, s) \in Vertex
           /\ LastVisited(l, s) \notin Visited(l, Earlier(s))
           /\ Visited(l, s) = Visited(l, Earlier(s)) \cup {LastVisited(l, s)}
  BY Listings, VisitOrder
<1> HIDE DEF n, dom, l
<1>4. Counted(p, {}, start)
  BY EmptySound
<1> HIDE DEF start
<1>5. ASSUME NEW s \in Indices(n), s # {}, NEW c, Counted(p, Visited(l, Earlier(s)), c)
      PROVE  Counted(p, Visited(l, s), QCountEdges(p, c, LastVisited(l, s)))
  <2> DEFINE v == LastVisited(l, s)
             E == Visited(l, Earlier(s))
  <2>1. /\ v \in Vertex /\ v \notin E /\ Visited(l, s) = E \cup {v} /\ E \in SUBSET Vertex
        /\ Counted(p, E, c)
    BY <1>1, <1>5
  <2> HIDE DEF v, E
  <2>2. Counted(p, E \cup {v}, QCountEdges(p, c, v))
    BY <2>1, CountedVisit
  <2> QED BY <2>1, <2>2 DEF v
<1>6. StaysIn(X, Body, start, n)
  <2>1. start \in X[{}]
    BY <1>1, <1>4 DEF Counted, Sound, Threaded
  <2>2. ASSUME NEW s \in Indices(n), s # {}, NEW c \in X[Earlier(s)] PROVE Body[s][c] \in X[s]
    <3>1. Earlier(s) \in Indices(n) /\ Counted(p, Visited(l, Earlier(s)), c)
      BY <1>1, <2>2
    <3>2. Body[s][c] = QCountEdges(p, c, LastVisited(l, s))
      OBVIOUS
    <3>3. Counted(p, Visited(l, s), Body[s][c])
      BY SMTT(40), <1>5, <2>2, <3>1, <3>2
    <3>4. Body[s][c] \in QStates
      BY <3>3 DEF Counted, Sound, Threaded
    <3> HIDE DEF Body
    <3> QED BY <3>3, <3>4
  <2> QED BY <2>1, <2>2 DEF StaysIn
<1>7. PICK g : IsFold(g, Body, start, n)
  BY <1>1, FoldExists
<1>8. \A s \in Indices(n) : g[s] \in X[s]
  <2> HIDE DEF X, Body
  <2> QED BY <1>1, <1>6, <1>7, FoldReaches
<1>9. g = A(g)
  <2>1. ASSUME NEW s \in Indices(n), s # {}
        PROVE  g[s] = QCountEdges(p, g[s \ {Max(s)}], l[Max(s)])
    <3>1. g[s] = Body[s][g[Earlier(s)]]
      BY <1>7, <2>1 DEF IsFold
    <3>2. g[Earlier(s)] \in X[Earlier(s)]
      BY <1>1, <1>8, <2>1
    <3> HIDE DEF X
    <3>3. g[s] = QCountEdges(p, g[Earlier(s)], LastVisited(l, s))
      BY <3>1, <3>2
    <3> QED BY <3>3 DEF Earlier, LastVisited
  <2>2. g = [s \in Indices(n) |-> g[s]] /\ g[{}] = start
    BY <1>7 DEF IsFold
  <2>3. \A s \in Indices(n) : g[s] = IF s = {} THEN start
                      ELSE QCountEdges(p, g[s \ {Max(s)}], l[Max(s)])
    BY <2>1, <2>2
  <2> QED BY <1>1, <2>2, <2>3
<1>10. iter = A(iter)
  BY <1>9
<1> HIDE DEF iter
<1>11. iter[{}] = start
  BY <1>1, <1>10
<1>12. \A s \in Indices(n) : s # {} =>
         iter[s] = QCountEdges(p, iter[Earlier(s)], LastVisited(l, s))
  BY <1>1, <1>10 DEF Earlier, LastVisited
<1> DEFINE Q == {s \in Indices(n) : Counted(p, Visited(l, s), iter[s])}
<1>13. {} \in Q
  BY <1>1, <1>4, <1>11
<1>14. ASSUME NEW s \in Indices(n), s # {}, Earlier(s) \in Q PROVE s \in Q
  BY <1>5, <1>12, <1>14
<1>15. \A s \in Indices(n) : s \in Q
  <2> HIDE DEF Q
  <2> QED BY <1>1, <1>13, <1>14, IndexInduction
<1> QED BY <1>0, <1>1, <1>15

(* Sums of sums of sums.                                                    *)
LEMMA SumOfSumsPlus ==
  ASSUME NEW S, IsFiniteSet(S), NEW T, IsFiniteSet(T), NEW f, NEW g, NEW h,
         \A x \in S, y \in T : f[x][y] \in Int /\ g[x][y] \in Int /\ h[x][y] = f[x][y] + g[x][y]
  PROVE  SumOfSums(h, S, T) = SumOfSums(f, S, T) + SumOfSums(g, S, T)
<1> DEFINE F == [x \in S |-> SumFunctionOnSet(f[x], T)]
           G == [x \in S |-> SumFunctionOnSet(g[x], T)]
           H == [x \in S |-> SumFunctionOnSet(h[x], T)]
<1>1. \A x \in S : F[x] \in Int /\ G[x] \in Int /\ H[x] = F[x] + G[x]
  <2> SUFFICES ASSUME NEW x \in S PROVE F[x] \in Int /\ G[x] \in Int /\ H[x] = F[x] + G[x]
    OBVIOUS
  <2>1. \A y \in T : f[x][y] \in Int /\ g[x][y] \in Int /\ h[x][y] = f[x][y] + g[x][y]
    OBVIOUS
  <2>2. SumFunctionOnSet(f[x], T) \in Int /\ SumFunctionOnSet(g[x], T) \in Int
    BY <2>1, SumType
  <2>3. SumFunctionOnSet(h[x], T) = SumFunctionOnSet(f[x], T) + SumFunctionOnSet(g[x], T)
    BY <2>1, SumPlus
  <2> QED BY <2>2, <2>3
<1>2. /\ SumOfSums(f, S, T) = SumFunctionOnSet(F, S)
      /\ SumOfSums(g, S, T) = SumFunctionOnSet(G, S)
      /\ SumOfSums(h, S, T) = SumFunctionOnSet(H, S)
  BY DEF SumOfSums
<1> HIDE DEF F, G, H
<1>3. SumFunctionOnSet(H, S) = SumFunctionOnSet(F, S) + SumFunctionOnSet(G, S)
  BY <1>1, SumPlus
<1> QED BY <1>2, <1>3

(* The edges between two vertices once in each direction.                   *)
Up == [x \in Vertex |-> [y \in Vertex |-> IF x < y THEN EdgeWeight[x][y] ELSE 0]]
Down == [x \in Vertex |-> [y \in Vertex |-> IF y < x THEN EdgeWeight[x][y] ELSE 0]]

(* What is counted at a vertex is what joins it with the block from below.  *)
LEMMA CountOfMember ==
  ASSUME NEW p \in [Vertex -> Block], NEW x \in Vertex, NEW c, NEW e,
         p[x] # c, e = {p[x], c}
  PROVE  CountOf(p, x, e, Adj(x)) = SumFunctionOnSet(Up[x], Members(p, c))
<1> DEFINE S == SmallerEnd(p, x, e, Adj(x))
           B == Members(p, c)
           w == EdgeWeight[x]
           f == Up[x]
<1>1. S = {y \in Adj(x) : x < y /\ p[y] = c}
  BY DEF SmallerEnd
<1>2. IsFiniteSet(B) /\ B \subseteq Vertex
  BY MembersFinite
<1>3. S \in SUBSET B /\ IsFiniteSet(S)
  <2>1. S \subseteq B
    BY <1>1, Neighbourhoods DEF Members
  <2> QED BY <2>1, CountOfType
<1>4. \A y \in Vertex : f[y] = IF x < y THEN w[y] ELSE 0
  BY DEF Up
<1>5. \A y \in Vertex : w[y] \in Nat
  BY Neighbourhoods
<1>6. \A y \in B : y \in S \/ f[y] = 0
  <2> SUFFICES ASSUME NEW y \in B, y \notin S PROVE f[y] = 0
    OBVIOUS
  <2>1. y \in Vertex /\ p[y] = c
    BY DEF Members
  <2>2. CASE x < y
    <3>1. y \notin Adj(x)
      BY <1>1, <2>1, <2>2
    <3>2. ~ (w[y] > 0)
      BY <2>1, <3>1 DEF Adj
    <3> HIDE DEF w, f
    <3> QED BY <1>4, <1>5, <2>1, <2>2, <3>2
  <2>3. CASE ~ (x < y)
    <3> HIDE DEF w, f
    <3> QED BY <1>4, <2>1, <2>3
  <2> QED BY <2>2, <2>3
<1>7. \A y \in S : x < y
  BY <1>1
<1> HIDE DEF S, B, w, f
<1>8. \A y \in B : f[y] \in Int
  BY <1>2, <1>4, <1>5
<1>9. SumFunctionOnSet(f, B) = SumFunctionOnSet(f, S)
  BY <1>2, <1>3, <1>6, <1>8, SumRestrict
<1>10. \A y \in S : w[y] \in Int /\ w[y] = f[y]
  BY <1>2, <1>3, <1>4, <1>5, <1>7
<1>11. SumFunctionOnSet(w, S) = SumFunctionOnSet(f, S)
  BY <1>3, <1>10, SumAgree
<1> QED BY <1>9, <1>11 DEF CountOf, S, B, w, f

(* Counted at smaller ends, the edges between two blocks are counted once.  *)
LEMMA CountsAreBetween ==
  ASSUME NEW p \in [Vertex -> Block], NEW a \in Block, NEW b \in Block, a # b
  PROVE  SumFunctionOnSet(Counts(p, {a, b}), Vertex) = QuotientWeight(p, a, b)
<1> DEFINE e == {a, b}
           f == Counts(p, e)
           A == Members(p, a)
           B == Members(p, b)
<1>1. /\ IsFiniteSet(A) /\ IsFiniteSet(B) /\ A \subseteq Vertex /\ B \subseteq Vertex
      /\ A \cap B = {} /\ IsFiniteSet(Vertex)
  <2>1. A \cap B = {}
    BY DEF Members
  <2> QED BY <2>1, MembersFinite, GraphAssumption
<1>2. \A x \in Vertex : f[x] = CountOf(p, x, e, Adj(x)) /\ f[x] \in Nat
  BY CountOfType DEF Counts
<1>3. \A x \in Vertex \ (A \cup B) : f[x] = 0
  <2> SUFFICES ASSUME NEW x \in Vertex \ (A \cup B) PROVE f[x] = 0
    OBVIOUS
  <2>1. p[x] # a /\ p[x] # b
    BY DEF Members
  <2>2. SmallerEnd(p, x, e, Adj(x)) = {}
    BY <2>1 DEF SmallerEnd
  <2>3. SumFunctionOnSet(EdgeWeight[x], SmallerEnd(p, x, e, Adj(x))) = SumFunctionOnSet(EdgeWeight[x], {})
    BY <2>2, Zenon
  <2>4. f[x] = CountOf(p, x, e, Adj(x))
    BY <1>2
  <2> HIDE DEF f, e
  <2> QED BY <2>3, <2>4, SumEmpty DEF CountOf
<1>4. /\ \A x \in A : f[x] = SumFunctionOnSet(Up[x], B)
      /\ \A x \in B : f[x] = SumFunctionOnSet(Up[x], A)
  <2>1. ASSUME NEW x \in A PROVE f[x] = SumFunctionOnSet(Up[x], B)
    <3>1. p[x] = a /\ x \in Vertex /\ e = {p[x], b} /\ p[x] # b
      BY DEF Members
    <3>2. CountOf(p, x, e, Adj(x)) = SumFunctionOnSet(Up[x], Members(p, b))
      <4> HIDE DEF e
      <4> QED BY <3>1, CountOfMember
    <3> QED BY <1>2, <3>1, <3>2
  <2>2. ASSUME NEW x \in B PROVE f[x] = SumFunctionOnSet(Up[x], A)
    <3>1. p[x] = b /\ x \in Vertex /\ e = {p[x], a} /\ p[x] # a
      BY DEF Members
    <3>2. CountOf(p, x, e, Adj(x)) = SumFunctionOnSet(Up[x], Members(p, a))
      <4> HIDE DEF e
      <4> QED BY <3>1, CountOfMember
    <3> QED BY <1>2, <3>1, <3>2
  <2> QED BY <2>1, <2>2
<1>5. QuotientWeight(p, a, b) = SumOfSums(EdgeWeight, A, B)
  BY QuotientIsBetween DEF Between
<1> HIDE DEF f, A, B
<1>6. SumFunctionOnSet(f, Vertex) = SumFunctionOnSet(f, A \cup B)
  <2>1. A \cup B \in SUBSET Vertex
    BY <1>1
  <2>2. \A x \in Vertex : f[x] \in Int
    BY <1>2
  <2> HIDE DEF e
  <2> QED BY <1>1, <1>3, <2>1, <2>2, SumRestrict
<1>7. SumFunctionOnSet(f, A \cup B) = SumFunctionOnSet(f, A) + SumFunctionOnSet(f, B)
  <2>1. \A x \in A \cup B : f[x] \in Int
    BY <1>1, <1>2
  <2> QED BY <1>1, <2>1, SumUnion
<1>8. SumFunctionOnSet(f, A) = SumOfSums(Up, A, B)
  <2> DEFINE h == [x \in A |-> SumFunctionOnSet(Up[x], B)]
  <2>1. \A x \in A : f[x] \in Int /\ f[x] = h[x]
    BY <1>1, <1>2, <1>4
  <2> HIDE DEF h
  <2>2. SumFunctionOnSet(f, A) = SumFunctionOnSet(h, A)
    BY <1>1, <2>1, SumAgree
  <2> QED BY <2>2 DEF SumOfSums, h
<1>9. SumFunctionOnSet(f, B) = SumOfSums(Up, B, A)
  <2> DEFINE h == [x \in B |-> SumFunctionOnSet(Up[x], A)]
  <2>1. \A x \in B : f[x] \in Int /\ f[x] = h[x]
    BY <1>1, <1>2, <1>4
  <2> HIDE DEF h
  <2>2. SumFunctionOnSet(f, B) = SumFunctionOnSet(h, B)
    BY <1>1, <2>1, SumAgree
  <2> QED BY <2>2 DEF SumOfSums, h
<1>10. \A x \in Vertex, y \in Vertex : x # y =>
         /\ Up[x][y] \in Int /\ Down[x][y] \in Int
         /\ Up[y][x] = Down[x][y]
         /\ EdgeWeight[x][y] = Up[x][y] + Down[x][y]
  <2> SUFFICES ASSUME NEW x \in Vertex, NEW y \in Vertex, x # y
               PROVE  /\ Up[x][y] \in Int /\ Down[x][y] \in Int
                      /\ Up[y][x] = Down[x][y]
                      /\ EdgeWeight[x][y] = Up[x][y] + Down[x][y]
    OBVIOUS
  <2>1. EdgeWeight[x][y] \in Nat /\ EdgeWeight[y][x] = EdgeWeight[x][y] /\ x \in Int /\ y \in Int
    BY GraphAssumption
  <2>2. /\ Up[x][y] = IF x < y THEN EdgeWeight[x][y] ELSE 0
        /\ Up[y][x] = IF y < x THEN EdgeWeight[y][x] ELSE 0
        /\ Down[x][y] = IF y < x THEN EdgeWeight[x][y] ELSE 0
    BY DEF Up, Down
  <2> QED BY <2>1, <2>2
<1>11. \A x \in A, y \in B : x \in Vertex /\ y \in Vertex /\ x # y
  BY <1>1
<1>12. SumOfSums(Up, B, A) = SumOfSums(Down, A, B)
  <2>1. \A x \in B, y \in A : Up[x][y] \in Int /\ Up[x][y] = Down[y][x]
    BY <1>10, <1>11
  <2> QED BY <1>1, <2>1, SumExchange
<1>13. SumOfSums(EdgeWeight, A, B) = SumOfSums(Up, A, B) + SumOfSums(Down, A, B)
  <2>1. \A x \in A, y \in B : Up[x][y] \in Int /\ Down[x][y] \in Int
                              /\ EdgeWeight[x][y] = Up[x][y] + Down[x][y]
    BY <1>10, <1>11
  <2> QED BY <1>1, <2>1, SumOfSumsPlus
<1> QED BY <1>5, <1>6, <1>7, <1>8, <1>9, <1>12, <1>13 DEF f

(* The quotient graph is right when it is computed.                         *)
LEMMA QFromScratchRight ==
  ASSUME NEW p \in [Vertex -> Block]
  PROVE  QInv(p, QFromScratch(p))
<1> DEFINE s == QFromScratch(p)
<1>1. Counted(p, Vertex, s)
  BY CountedFromScratch
<1> HIDE DEF s
<1>2. Sound(s) /\ \A e \in QEdge : s.weight[e] = SumFunctionOnSet(Counts(p, e), Vertex)
  BY <1>1 DEF Counted
<1>3. ASSUME NEW a \in Block, NEW b \in Block, a # b PROVE s.weight[{a, b}] = QuotientWeight(p, a, b)
  BY <1>2, <1>3, Records, CountsAreBetween
<1>4. QInv(p, s)
  BY <1>2, <1>3 DEF QInv
<1> QED BY <1>4 DEF s

-----------------------------------------------------------------------------
(* What the assertions of the quotient graph read.                          *)

(* A sum of natural numbers is positive when one of them is.                *)
LEMMA SumSomePositive ==
  ASSUME NEW S, IsFiniteSet(S), NEW f, \A x \in S : f[x] \in Nat
  PROVE  (SumFunctionOnSet(f, S) > 0) <=> (\E x \in S : f[x] > 0)
<1>1. ASSUME NEW a \in S, f[a] > 0 PROVE SumFunctionOnSet(f, S) > 0
  <2>1. IsFiniteSet(S \ {a}) /\ \A x \in S : f[x] \in Int
    BY FS_Subset
  <2>2. SumFunctionOnSet(f, S) = f[a] + SumFunctionOnSet(f, S \ {a})
    BY <2>1, SumRemove
  <2>3. SumFunctionOnSet(f, S \ {a}) \in Nat
    BY <2>1, SumNat
  <2> QED BY <1>1, <2>2, <2>3
<1>2. ASSUME \A x \in S : ~ (f[x] > 0) PROVE SumFunctionOnSet(f, S) = 0
  <2>1. \A x \in S : f[x] = 0
    BY <1>2
  <2> QED BY <2>1, SumZero
<1> QED BY <1>1, <1>2

(* Two blocks are neighbours when the weight between them is positive.      *)
LEMMA QuotientPositive ==
  ASSUME NEW p \in [Vertex -> Block], NEW a \in Block, NEW b \in Block, a # b
  PROVE  (QuotientWeight(p, a, b) > 0) <=> b \in QuotientNeighbours(p, a)
<1> DEFINE h == [u \in Members(p, a) |-> ConnWeight(p, u, b)]
<1>1. IsFiniteSet(Members(p, a)) /\ Members(p, a) \subseteq Vertex
  BY MembersFinite
<1>2. QuotientWeight(p, a, b) = SumFunctionOnSet(h, Members(p, a))
  <2>1. \A u \in Members(p, a) : h[u] = ConnWeight(p, u, b)
    OBVIOUS
  <2> QED BY DEF QuotientWeight, MapThenSumSet, SumFunctionOnSet, FoldFunctionOnSet, MapThenFoldSet
<1>3. \A u \in Members(p, a) : h[u] = ConnWeight(p, u, b) /\ h[u] \in Nat
  BY <1>1, ConnIsSum
<1> HIDE DEF h
<1>4. (QuotientWeight(p, a, b) > 0) <=> \E u \in Members(p, a) : h[u] > 0
  BY <1>1, <1>2, <1>3, SumSomePositive
<1>5. \A u \in Members(p, a) : (h[u] > 0) <=> b \in ConnectedBlocks(p, u)
  <2> SUFFICES ASSUME NEW u \in Members(p, a) PROVE (h[u] > 0) <=> b \in ConnectedBlocks(p, u)
    OBVIOUS
  <2>1. (ConnWeight(p, u, b) > 0) <=> (\E v \in Adj(u) : p[v] = b)
    BY <1>1, ConnPositive
  <2>2. b \in ConnectedBlocks(p, u) <=> (\E v \in Adj(u) : p[v] = b)
    BY DEF ConnectedBlocks
  <2> QED BY <1>3, <2>1, <2>2
<1> QED BY <1>4, <1>5 DEF QuotientNeighbours

(* The other end of a record.                                               *)
Other(x, e) == CHOOSE y \in e : y # x

(* A record has two ends.                                                   *)
LEMMA OtherEnd ==
  ASSUME NEW x \in Block, NEW e \in QEdge, x \in e
  PROVE  Other(x, e) \in Block /\ Other(x, e) # x /\ e = {x, Other(x, e)}
<1>1. PICK a \in Block, b \in Block : a # b /\ e = {a, b}
  BY Records
<1>2. \E y \in e : y # x
  BY <1>1
<1>3. Other(x, e) \in e /\ Other(x, e) # x
  BY <1>2 DEF Other
<1> QED BY <1>1, <1>3

(* No block is joined with itself.                                          *)
LEMMA NotARecord ==
  ASSUME NEW a PROVE {a, a} \notin QEdge
<1>1. {a, a} = {a} /\ Cardinality({a}) = 1
  BY FS_Singleton
<1>2. Cardinality({a, a}) = 1
  BY <1>1, Zenon
<1> QED BY <1>2 DEF QEdge

(* Following the list from its head.                                        *)
LEMMA ListFollowed ==
  ASSUME NEW x \in Block, NEW L, NEW S, Chain(q, x, L, S)
  PROVE  /\ DOMAIN QListFrom(x) = 0 .. Cardinality(Block)
         /\ \A i \in 0 .. Cardinality(Block) :
              QListFrom(x)[i] = IF i < Len(L) THEN L[i + 1] ELSE NoEdge
<1> DEFINE C == Cardinality(Block)
           n == Len(L)
           F(a) == [i \in 0 .. C |->
                      IF i = 0 THEN q.head[x]
                      ELSE IF a[i - 1] = NoEdge THEN NoEdge ELSE q.next[a[i - 1]][x]]
           list == CHOOSE a : a = F(a)
           W == [i \in 0 .. C |-> IF i < n THEN L[i + 1] ELSE NoEdge]
<1>1. QListFrom(x) = list
  BY DEF QListFrom
<1>2. C \in Nat
  BY GraphAssumption, FS_CardinalityType
<1>3. /\ L \in Seq(QEdge) /\ n \in Nat
      /\ \A i \in 1 .. n : L[i] \in QEdge
      /\ q.head[x] = IF n = 0 THEN NoEdge ELSE L[1]
      /\ \A i \in 1 .. n : q.next[L[i]][x] = IF i < n THEN L[i + 1] ELSE NoEdge
  <2> HIDE DEF F, list, W, C
  <2>1. /\ L \in Seq(QEdge)
        /\ q.head[x] = IF Len(L) = 0 THEN NoEdge ELSE L[1]
        /\ \A i \in 1 .. Len(L) :
             q.next[L[i]][x] = IF i < Len(L) THEN L[i + 1] ELSE NoEdge
    BY DEF Chain
  <2>2. Len(L) \in Nat
    BY <2>1
  <2>3. \A i \in 1 .. Len(L) : L[i] \in QEdge
    BY <2>1
  <2> QED BY <2>1, <2>2, <2>3
<1> HIDE DEF C, n
<1>4. \A i \in 0 .. C : W[i] = IF i < n THEN L[i + 1] ELSE NoEdge
  OBVIOUS
<1>5. W = F(W)
  <2>1. ASSUME NEW i \in 0 .. C
        PROVE  W[i] = IF i = 0 THEN q.head[x]
                      ELSE IF W[i - 1] = NoEdge THEN NoEdge ELSE q.next[W[i - 1]][x]
    <3> HIDE DEF W
    <3>1. CASE i = 0
      BY <1>2, <1>3, <1>4, <3>1
    <3>2. CASE i # 0 /\ i - 1 < n
      <4>1. i - 1 \in 0 .. C /\ i \in 1 .. n /\ (i - 1) + 1 = i
        BY <1>2, <1>3, <3>2
      <4>2. W[i - 1] = L[i] /\ L[i] # NoEdge
        BY <1>3, <1>4, <3>2, <4>1, NoEdgeAssumption
      <4>3. q.next[L[i]][x] = IF i < n THEN L[i + 1] ELSE NoEdge
        BY <1>3, <4>1
      <4> QED BY <1>4, <3>2, <4>2, <4>3
    <3>3. CASE i # 0 /\ ~ (i - 1 < n)
      <4>1. i - 1 \in 0 .. C /\ ~ (i < n)
        BY <1>2, <1>3, <3>3
      <4>2. W[i - 1] = NoEdge /\ W[i] = NoEdge
        BY <1>4, <3>3, <4>1
      <4> QED BY <3>3, <4>2
    <3> QED BY <3>1, <3>2, <3>3
  <2>2. W = [i \in 0 .. C |-> W[i]]
    BY SMTT(40)
  <2> HIDE DEF W
  <2> QED BY <2>1, <2>2
<1>6. list = F(list)
  <2> HIDE DEF W
  <2> QED BY <1>5
<1> HIDE DEF list
<1>7. DOMAIN list = 0 .. C
  BY <1>6
<1>8. /\ 0 \in 0 .. C => list[0] = q.head[x]
      /\ \A i \in 0 .. C : i # 0 =>
           list[i] = IF list[i - 1] = NoEdge THEN NoEdge ELSE q.next[list[i - 1]][x]
  BY <1>6
<1> DEFINE Q == {m \in Nat : m \in 0 .. C => list[m] = W[m]}
<1> HIDE DEF W
<1>9. 0 \in Q
  BY <1>2, <1>3, <1>4, <1>8
<1>10. ASSUME NEW m \in Nat, m \in Q PROVE m + 1 \in Q
  <2> SUFFICES ASSUME m + 1 \in 0 .. C PROVE list[m + 1] = W[m + 1]
    OBVIOUS
  <2>1. m \in 0 .. C /\ m + 1 # 0 /\ (m + 1) - 1 = m
    BY <1>2
  <2>2. list[m] = W[m]
    BY <1>10, <2>1
  <2>3. list[m + 1] = IF W[m] = NoEdge THEN NoEdge ELSE q.next[W[m]][x]
    BY <1>8, <2>1, <2>2
  <2>4. W[m + 1] = IF W[m] = NoEdge THEN NoEdge ELSE q.next[W[m]][x]
    <3>1. F(W)[m + 1] = IF W[m] = NoEdge THEN NoEdge ELSE q.next[W[m]][x]
      BY <2>1
    <3> HIDE DEF F
    <3> QED BY <1>5, <3>1
  <2> QED BY <2>3, <2>4
<1>11. \A m \in Nat : m \in Q
  <2> HIDE DEF Q
  <2> QED BY <1>9, <1>10, NatSetInduction
<1>12. \A i \in 0 .. C : list[i] = W[i]
  BY <1>2, <1>11
<1> QED BY <1>1, <1>4, <1>7, <1>12 DEF C, n

(* Following a list meets the records of all neighbours, and then its end.  *)
LEMMA ListReached ==
  ASSUME QInv(partition, q), partition \in [Vertex -> Block], NEW x \in Block
  PROVE  LET list == QListFrom(x)
             deg  == Cardinality(QuotientNeighbours(partition, x))
         IN  /\ QNeighbours(x) = QuotientNeighbours(partition, x)
             /\ list[deg] = NoEdge
             /\ \A i \in 1 .. deg - 1 : q.prev[list[i]][x] = list[i - 1]
<1> DEFINE S == LinksOf(q.weight)[x]
           list == QListFrom(x)
           N == QuotientNeighbours(partition, x)
           C == Cardinality(Block)
<1>1. PICK L : Chain(q, x, L, S)
  BY DEF QInv, Sound, Threaded
<1> DEFINE n == Len(L)
           o == [i \in 1 .. n |-> Other(x, L[i])]
<1>2. /\ L \in Seq(QEdge) /\ n \in Nat
      /\ \A i \in 1 .. n : L[i] \in QEdge
      /\ \A i, j \in 1 .. n : L[i] = L[j] => i = j
      /\ \A e \in QEdge : e \in S <=> \E i \in 1 .. n : L[i] = e
      /\ \A i \in 1 .. n : q.prev[L[i]][x] = IF i > 1 THEN L[i - 1] ELSE NoEdge
  BY <1>1 DEF Chain
<1>3. \A e : e \in S <=> e \in QEdge /\ x \in e /\ q.weight[e] > 0
  BY DEF LinksOf
<1>4. /\ DOMAIN list = 0 .. C
      /\ \A i \in 0 .. C : list[i] = IF i < n THEN L[i + 1] ELSE NoEdge
  BY <1>1, ListFollowed
<1>5. C \in Nat /\ IsFiniteSet(Block)
  BY GraphAssumption, FS_CardinalityType
<1>6. /\ \A a, b \in Block : a # b => q.weight[{a, b}] = QuotientWeight(partition, a, b)
      /\ \A b \in Block : b # x => ((q.weight[{x, b}] > 0) <=> b \in N)
      /\ N \subseteq Block /\ x \notin N
  <2>1. \A a, b \in Block : a # b => q.weight[{a, b}] = QuotientWeight(partition, a, b)
    BY DEF QInv
  <2>2. ASSUME NEW b \in Block, b # x PROVE (q.weight[{x, b}] > 0) <=> b \in N
    BY <2>1, <2>2, QuotientPositive
  <2>3. N \subseteq Block /\ x \notin N
    BY DEF QuotientNeighbours
  <2> HIDE DEF N
  <2> QED BY <2>1, <2>2, <2>3
<1> HIDE DEF S, list, N, C, n
<1>7. \A i \in 1 .. n : /\ L[i] \in S /\ L[i] \in QEdge /\ x \in L[i]
                        /\ o[i] = Other(x, L[i])
                        /\ o[i] \in Block /\ o[i] # x /\ L[i] = {x, o[i]}
  BY <1>2, <1>3, OtherEnd
<1> HIDE DEF o
<1>8. \A i, j \in 1 .. n : o[i] = o[j] => i = j
  <2> SUFFICES ASSUME NEW i \in 1 .. n, NEW j \in 1 .. n, o[i] = o[j] PROVE i = j
    OBVIOUS
  <2>1. L[i] = L[j]
    BY <1>7
  <2> QED BY <1>2, <2>1
<1>9. {o[i] : i \in 1 .. n} = N
  <2>1. ASSUME NEW i \in 1 .. n PROVE o[i] \in N
    BY <1>3, <1>6, <1>7
  <2>2. ASSUME NEW b \in N PROVE \E i \in 1 .. n : o[i] = b
    <3>1. b \in Block /\ b # x
      BY <1>6
    <3>2. {x, b} \in S
      BY <1>3, <1>6, <3>1, Records
    <3>3. PICK i \in 1 .. n : L[i] = {x, b}
      BY <1>2, <1>3, <3>2
    <3>4. {x, o[i]} = {x, b} /\ o[i] # x
      BY <1>7, <3>3
    <3>5. o[i] = b
      BY <3>1, <3>4
    <3> QED BY <3>5
  <2> QED BY <2>1, <2>2
<1>10. Cardinality(N) = n
  <2>0. n \in Nat
    BY <1>2
  <2>1. IsFiniteSet({o[i] : i \in 1 .. n}) /\ Cardinality({o[i] : i \in 1 .. n}) = n
    BY <2>0, <1>8, EnumeratedSize
  <2> QED BY <1>9, <2>1, Zenon
<1>11. n <= C
  <2>1. N \in SUBSET Block
    BY <1>6
  <2>2. Cardinality(N) <= Cardinality(Block)
    BY <1>5, <2>1, FS_Subset
  <2> QED BY <1>10, <2>2 DEF C
<1>12. list[n] = NoEdge
  BY <1>2, <1>4, <1>5, <1>11
<1>13. \A i \in 1 .. n - 1 : q.prev[list[i]][x] = list[i - 1]
  <2> SUFFICES ASSUME NEW i \in 1 .. n - 1 PROVE q.prev[list[i]][x] = list[i - 1]
    OBVIOUS
  <2>1. /\ i \in 0 .. C /\ i - 1 \in 0 .. C /\ i < n /\ i - 1 < n
        /\ i + 1 \in 1 .. n /\ (i + 1) - 1 = i /\ (i - 1) + 1 = i
    BY <1>2, <1>5, <1>11
  <2>2. list[i] = L[i + 1] /\ list[i - 1] = L[i]
    BY <1>4, <2>1
  <2>3. q.prev[L[i + 1]][x] = L[i]
    BY <1>2, <2>1
  <2> QED BY <2>2, <2>3
<1>14. {i \in DOMAIN list : list[i] # NoEdge} = 0 .. n - 1
  <2>1. ASSUME NEW i \in 0 .. C PROVE list[i] # NoEdge <=> i < n
    <3>1. CASE i < n
      <4>1. i + 1 \in 1 .. n
        BY <1>2, <1>5, <3>1
      <4>2. L[i + 1] # NoEdge
        BY <1>2, <4>1, NoEdgeAssumption
      <4> QED BY <1>4, <3>1, <4>2
    <3>2. CASE ~ (i < n)
      BY <1>4, <3>2
    <3> QED BY <3>1, <3>2
  <2> QED BY <1>2, <1>4, <1>5, <1>11, <2>1
<1>15. Cardinality({i \in DOMAIN list : list[i] # NoEdge}) = n
  <2>1. Cardinality(0 .. n - 1) = n
    <3>1. n - 1 \in Int /\ 0 \in Int
      BY <1>2
    <3> QED BY <1>2, <3>1, FS_Interval
  <2> QED BY <1>14, <2>1, Zenon
<1>16. QOrder(x) = [i \in 1 .. n |-> CHOOSE y \in list[i - 1] : y # x]
  BY <1>15 DEF QOrder, list
<1>17. \A i \in 1 .. n : (CHOOSE y \in list[i - 1] : y # x) = o[i]
  <2> SUFFICES ASSUME NEW i \in 1 .. n PROVE (CHOOSE y \in list[i - 1] : y # x) = o[i]
    OBVIOUS
  <2>1. i - 1 \in 0 .. C /\ i - 1 < n /\ (i - 1) + 1 = i
    BY <1>2, <1>5, <1>11
  <2>2. list[i - 1] = L[i]
    BY <1>4, <2>1
  <2>3. o[i] = Other(x, L[i])
    BY <1>7
  <2> QED BY <2>2, <2>3 DEF Other
<1>18. QNeighbours(x) = N
  <2>1. QOrder(x) = [i \in 1 .. n |-> o[i]]
    BY <1>16, <1>17
  <2>2. QNeighbours(x) = {o[i] : i \in 1 .. n}
    BY <2>1 DEF QNeighbours, ToSet
  <2> QED BY <1>9, <2>2
<1> QED BY <1>10, <1>12, <1>13, <1>18 DEF list, N

(* The invariant implies what the assertions of the code check.             *)
LEMMA QInvSuffices ==
  ASSUME partition \in [Vertex -> Block], QInv(partition, q), halfEdges \in Int
  PROVE  CorrectQuotientGraph /\ QTypeOK
<1>1. \A e \in QEdge, a, b \in Block : e = {a, b} => q.weight[e] = QuotientWeight(partition, a, b)
  <2> SUFFICES ASSUME NEW e \in QEdge, NEW a \in Block, NEW b \in Block, e = {a, b}
               PROVE  q.weight[e] = QuotientWeight(partition, a, b)
    OBVIOUS
  <2>1. a # b
    BY NotARecord
  <2> QED BY <2>1 DEF QInv
<1>2. CorrectQuotientGraph
  BY <1>1, ListReached DEF CorrectQuotientGraph
<1>3. q \in QStates
  BY DEF QInv, Sound, Threaded
<1>4. QTypeOK
  BY <1>3, QFields DEF QTypeOK, QPointers
<1> QED BY <1>2, <1>4

-----------------------------------------------------------------------------
(* The structures together.                                                 *)

(* The derived structures are right for the partition p; all four are for   *)
(* the partition there is.                                                  *)
Derived(p) ==
  /\ BvInv(p, bv)
  /\ conn = [v \in Vertex |-> conn[v]] /\ BcInv(p, conn)
  /\ QInv(p, q)
  /\ halfEdges \in Int

StructInv == PmInv(partition, bweights, nVertices) /\ Derived(partition)

(* The records that are in the lists are finitely many.                     *)
LEMMA LinkedCounted ==
  ASSUME NEW s
  PROVE  Cardinality(QLinked(s)) \in Nat
<1>1. IsFiniteSet(Block)
  BY GraphAssumption
<1>2. IsFiniteSet(SUBSET Block)
  BY <1>1, FS_SUBSET
<1>3. QLinked(s) \in SUBSET SUBSET Block
  BY DEF QLinked, QEdge
<1>4. IsFiniteSet(QLinked(s))
  BY <1>2, <1>3, FS_Subset
<1> QED BY <1>4, FS_CardinalityType

(* All four structures are right when they are computed.                    *)
LEMMA StructuresFromScratch ==
  ASSUME NEW p \in [Vertex -> Block], StructFromScratch(p)
  PROVE  StructInv
<1>1. PmInv(partition, bweights, nVertices) /\ partition = p
  BY PmFromScratch DEF StructFromScratch
<1>2. BvInv(p, bv)
  BY BvFromScratchRight DEF StructFromScratch
<1>3. conn = BcFromScratch(p) /\ BcInv(p, conn)
  BY BcFromScratchRight DEF StructFromScratch
<1>4. conn = [v \in Vertex |-> conn[v]]
  BY <1>3 DEF BcFromScratch
<1>5. QInv(p, q)
  BY QFromScratchRight DEF StructFromScratch
<1>6. halfEdges \in Int
  BY LinkedCounted DEF StructFromScratch
<1> QED BY <1>1, <1>2, <1>3, <1>4, <1>5, <1>6 DEF StructInv, Derived

(* apply_move keeps them right.                                             *)
LEMMA ApplyMoveKeeps ==
  ASSUME StructInv, NEW u \in Vertex, NEW new \in Block, new # partition[u],
         ApplyMove(u, partition[u], new)
  PROVE  StructInv' /\ partition' = Moved(partition, u, new)
<1> DEFINE p == partition
<1>1. /\ PmInv(partition, bweights, nVertices) /\ p \in [Vertex -> Block]
      /\ BvInv(p, bv) /\ BcInv(p, conn) /\ QInv(p, q) /\ halfEdges \in Int
  BY DEF StructInv, Derived, PmInv
<1>2. /\ BvMove(u, p[u], new) /\ QMove(u, p[u], new)
      /\ BcMove(u, p[u], new) /\ PmMove(u, partition[u], new)
  BY DEF ApplyMove
<1>3. PmInv(partition', bweights', nVertices') /\ partition' = Moved(partition, u, new)
  BY <1>1, <1>2, PmMoveKeeps
<1>4. BvInv(Moved(p, u, new), bv')
  BY <1>1, <1>2, BvMoveKeeps
<1>5. BcInv(Moved(p, u, new), conn')
  BY <1>1, <1>2, BcMoveKeeps
<1>6. conn' = [v \in Vertex |-> conn'[v]]
  BY <1>2 DEF BcMove
<1>7. QInv(Moved(p, u, new), q')
  <2>1. QInv(Moved(p, u, new), QMoved(u, p[u], new))
    BY <1>1, QMoveKeeps
  <2> QED BY <1>2, <2>1 DEF QMove
<1>8. halfEdges' \in Int
  <2>1. QHalfEdgesDelta(q, QMoved(u, p[u], new)) \in Int
    BY LinkedCounted DEF QHalfEdgesDelta
  <2> QED BY <1>1, <1>2, <2>1 DEF QMove
<1> QED BY <1>3, <1>4, <1>5, <1>6, <1>7, <1>8 DEF StructInv, Derived

(* Right structures pass the state assertions of the code.                  *)
LEMMA StructInvSuffices == StructInv => StructuresCorrect
<1> SUFFICES ASSUME StructInv PROVE StructuresCorrect
  OBVIOUS
<1> DEFINE p == partition
<1>1. /\ PmInv(p, bweights, nVertices) /\ p \in [Vertex -> Block]
      /\ BvInv(p, bv) /\ BcInv(p, conn) /\ QInv(partition, q) /\ halfEdges \in Int
      /\ conn = [v \in Vertex |-> conn[v]]
  BY DEF StructInv, Derived, PmInv
<1>2. PmTypeOK /\ CorrectBlockWeights
  BY <1>1 DEF PmInv, PmTypeOK, CorrectBlockWeights
<1>3. CorrectBoundary /\ BvTypeOK
  BY <1>1, BvInvSuffices
<1>4. CorrectBlockConn /\ BcTypeOK
  BY <1>1, BcInvSuffices
<1>5. CorrectQuotientGraph /\ QTypeOK
  BY <1>1, QInvSuffices
<1> QED BY <1>2, <1>3, <1>4, <1>5 DEF StructuresCorrect, StructTypeOK

(* Nothing but the structures is read by StructInv.                         *)
LEMMA StructInvUnchanged == StructInv /\ UNCHANGED structVars => StructInv'
BY DEF StructInv, Derived, structVars, PmInv, BvInv, BcInv, QInv, Sound

(* After any moves whatsoever the four structures are what they would be if *)
(* they were computed from the partition: apply_move loses no update,       *)
(* whatever the graph and the order of the moves.                           *)
THEOREM MovesKeepStructures == StructSpec => []StructuresCorrect
<1>1. StructInit => StructInv
  BY StructuresFromScratch DEF StructInit
<1>2. StructInv /\ [StructNext]_structVars => StructInv'
  <2> SUFFICES ASSUME StructInv, [StructNext]_structVars PROVE StructInv'
    OBVIOUS
  <2>1. CASE StructNext
    BY <2>1, ApplyMoveKeeps DEF StructNext, MoveVertex
  <2>2. CASE UNCHANGED structVars
    BY <2>2, StructInvUnchanged
  <2> QED BY <2>1, <2>2
<1>3. StructInv => StructuresCorrect
  BY StructInvSuffices
<1> QED BY <1>1, <1>2, <1>3, PTL DEF StructSpec

-----------------------------------------------------------------------------
(* Machine hierarchies: the two blocks of a lowest group are equally far    *)
(* from every other block.                                                  *)

(* Products of positive numbers.                                            *)
LEMMA PositiveProduct ==
  ASSUME NEW x \in Nat \ {0}, NEW y \in Nat \ {0}
  PROVE  x * y \in Nat \ {0}
<1> DEFINE Q == {m \in Nat : m * x \in Nat /\ (m # 0 => m * x >= x)}
<1>1. 0 \in Q
  OBVIOUS
<1>2. ASSUME NEW m \in Nat, m \in Q PROVE m + 1 \in Q
  <2>1. (m + 1) * x = m * x + x
    OBVIOUS
  <2> QED BY <1>2, <2>1
<1> HIDE DEF Q
<1>3. y \in Q
  BY <1>1, <1>2, NatSetInduction
<1>4. y * x = x * y
  OBVIOUS
<1> QED BY <1>3, <1>4 DEF Q

(* Products in either order.                                                *)
LEMMA TimesSwap ==
  ASSUME NEW x \in Nat, NEW y \in Nat, NEW z \in Nat
  PROVE  (x * y) * z = (x * z) * y
OBVIOUS

(* The sizes of the groups of a machine, level by level: P[i] elements are  *)
(* in a group of level i, and every size is a multiple of the lowest.       *)
GroupSizes(h, P) ==
  /\ P \in [0 .. Len(h) -> Nat \ {0}]
  /\ P[0] = 1 /\ P[Len(h)] = K(h)
  /\ \A i \in 1 .. Len(h) : P[i] = P[i - 1] * h[i]
  /\ \A i \in 1 .. Len(h) : \E c \in Nat \ {0} : P[i] = c * h[1]

(* The sizes of the groups exist, and all are multiples of the last level.  *)
LEMMA SizesExist ==
  ASSUME NEW h \in Seq(Nat \ {0})
  PROVE  \E P : GroupSizes(h, P)
<1> DEFINE n == Len(h)
           dom == DOMAIN h
           F == Nat \ {0}
           A(f) == [s \in SUBSET dom |-> IF s = {} THEN 1 ELSE f[s \ {Max(s)}] * h[Max(s)]]
           iter == CHOOSE f : f = A(f)
           Body == [s \in Indices(n) |-> [x \in F |-> x * h[Max(s)]]]
           X == [s \in Indices(n) |-> F]
<1>0. K(h) = iter[dom]
  BY DEF K, Product, FoldLeft, MapThenFoldSet
<1>1. n \in Nat /\ dom = 1 .. n /\ \A i \in 1 .. n : h[i] \in F
  OBVIOUS
<1>2. Indices(n) = SUBSET dom /\ {} \in Indices(n)
  BY <1>1 DEF Indices
<1> HIDE DEF n, dom
<1>3. \A s \in Indices(n) : s # {} => Max(s) \in 1 .. n /\ Earlier(s) \in Indices(n)
  BY <1>1, LastIndex
<1>4. \A x, y \in F : x * y \in F
  BY PositiveProduct
<1> HIDE DEF F
<1>5. StaysIn(X, Body, 1, n)
  <2>1. 1 \in F
    BY DEF F
  <2> QED BY <1>1, <1>2, <1>3, <1>4, <2>1 DEF StaysIn
<1>6. PICK g : IsFold(g, Body, 1, n)
  BY <1>1, FoldExists
<1>7. \A s \in Indices(n) : g[s] \in F
  <2>1. \A s \in Indices(n) : g[s] \in X[s]
    <3> HIDE DEF X, Body
    <3> QED BY <1>1, <1>5, <1>6, FoldReaches
  <2> QED BY <2>1
<1>8. g = A(g)
  <2>1. ASSUME NEW s \in Indices(n), s # {} PROVE g[s] = g[s \ {Max(s)}] * h[Max(s)]
    <3>1. g[s] = Body[s][g[Earlier(s)]] /\ g[Earlier(s)] \in F
      BY <1>3, <1>6, <1>7, <2>1 DEF IsFold
    <3> QED BY <3>1 DEF Earlier
  <2>2. g = [s \in Indices(n) |-> g[s]] /\ g[{}] = 1
    BY <1>6 DEF IsFold
  <2>3. \A s \in Indices(n) : g[s] = IF s = {} THEN 1 ELSE g[s \ {Max(s)}] * h[Max(s)]
    BY <2>1, <2>2
  <2> QED BY <1>2, <2>2, <2>3
<1>9. iter = A(iter)
  BY <1>8
<1> HIDE DEF iter
<1> DEFINE P == [i \in 0 .. n |-> iter[1 .. i]]
<1>10. P[0] = 1 /\ P[n] = K(h)
  <2>1. 1 .. 0 = {} /\ 0 \in 0 .. n /\ n \in 0 .. n
    BY <1>1
  <2> QED BY <1>0, <1>1, <1>2, <1>9, <2>1
<1>11. ASSUME NEW i \in 1 .. n PROVE P[i] = P[i - 1] * h[i] /\ i - 1 \in 0 .. n /\ i \in 0 .. n
  <2>1. 1 .. i \in SUBSET dom /\ 1 .. i # {} /\ i - 1 \in 0 .. n /\ i \in 0 .. n
    <3>1. i \in 1 .. i /\ \A x \in 1 .. i : x \in dom
      BY <1>1
    <3>2. i - 1 \in 0 .. n /\ i \in 0 .. n
      BY <1>1
    <3> QED BY <3>1, <3>2
  <2>2. Max(1 .. i) = i
    BY <1>1 DEF Max
  <2>3. (1 .. i) \ {i} = 1 .. (i - 1)
    BY <1>1
  <2>4. iter[1 .. i] = iter[1 .. (i - 1)] * h[i]
    BY <1>9, <2>1, <2>2, <2>3
  <2> QED BY <2>1, <2>4
<1> HIDE DEF P
<1> DEFINE Q == {m \in Nat : m <= n => /\ P[m] \in F
                                       /\ m >= 1 => \E c \in F : P[m] = c * h[1]}
<1>12. 0 \in Q
  BY <1>10 DEF F
<1>13. ASSUME NEW m \in Nat, m \in Q PROVE m + 1 \in Q
  <2> SUFFICES ASSUME m + 1 <= n
               PROVE  P[m + 1] \in F /\ \E c \in F : P[m + 1] = c * h[1]
    OBVIOUS
  <2>1. m + 1 \in 1 .. n /\ m <= n /\ (m + 1) - 1 = m
    BY <1>1
  <2>2. P[m] \in F /\ P[m + 1] = P[m] * h[m + 1] /\ h[m + 1] \in F
    BY <1>1, <1>11, <1>13, <2>1
  <2>3. CASE m = 0
    BY <1>10, <2>2, <2>3 DEF F
  <2>4. CASE m # 0
    <3>1. PICK c \in F : P[m] = c * h[1]
      BY <1>13, <2>1, <2>4
    <3>2. c * h[m + 1] \in F /\ h[1] \in F
      BY <1>1, <1>4, <2>1, <2>2
    <3>3. (c * h[1]) * h[m + 1] = (c * h[m + 1]) * h[1]
      BY <2>2, <3>1, <3>2, TimesSwap DEF F
    <3> QED BY <1>4, <2>2, <3>1, <3>2, <3>3
  <2> QED BY <1>4, <2>2, <2>3, <2>4
<1> HIDE DEF Q
<1>14. \A m \in Nat : m \in Q
  BY <1>12, <1>13, NatSetInduction
<1>15. \A i \in 0 .. n : P[i] \in F
  BY <1>1, <1>14 DEF Q
<1>16. \A i \in 1 .. n : \E c \in F : P[i] = c * h[1]
  BY <1>1, <1>14 DEF Q
<1>17. GroupSizes(h, P)
  <2>1. P = [i \in 0 .. n |-> P[i]]
    BY DEF P
  <2>2. P \in [0 .. n -> F]
    BY <1>15, <2>1
  <2> QED BY <1>10, <1>11, <1>16, <2>2 DEF GroupSizes, F, n
<1> QED BY <1>17

(* determine_loc level by level: R[k] is the range after the k highest      *)
(* levels.                                                                  *)
Narrowed(h, id, R) ==
  /\ R = [k \in 0 .. Len(h) |-> R[k]]
  /\ R[0] = [start |-> 0, end |-> K(h), loc |-> <<>>]
  /\ \A k \in 1 .. Len(h) : R[k] = NarrowTo(R[k - 1], h[Len(h) - k + 1], id)
  /\ R[Len(h)].loc = DetermineLoc(h, id)

(* The fold over the levels, at every set of indices.                       *)
LocFold(l, id, base, n, g) ==
  /\ g = [s \in Indices(n) |-> g[s]]
  /\ g[{}] = base
  /\ \A s \in Indices(n) : s # {} => g[s] = NarrowTo(g[Earlier(s)], l[Max(s)], id)

(* The fold of one level of determine_location has a value at every index.  *)
LEMMA LocFoldExists ==
  ASSUME NEW l, NEW id, NEW base, NEW n \in Nat
  PROVE  \E g : LocFold(l, id, base, n, g)
<1> DEFINE Q == {m \in Nat : \E g : LocFold(l, id, base, m, g)}
<1>1. 0 \in Q
  <2>1. Indices(0) = {{}}
    BY DEF Indices
  <2>2. LocFold(l, id, base, 0, [s \in Indices(0) |-> base])
    BY <2>1 DEF LocFold
  <2> QED BY <2>2
<1>2. ASSUME NEW m \in Nat, m \in Q PROVE m + 1 \in Q
  <2>1. PICK g : LocFold(l, id, base, m, g)
    BY <1>2
  <2> DEFINE k == [s \in Indices(m + 1) |->
                     IF m + 1 \in s THEN NarrowTo(g[s \ {m + 1}], l[m + 1], id) ELSE g[s]]
  <2>2. \A s \in Indices(m + 1) : m + 1 \notin s => s \in Indices(m)
    BY DEF Indices
  <2>3. k[{}] = base
    <3>1. {} \in Indices(m + 1)
      BY DEF Indices
    <3> QED BY <2>1, <3>1 DEF LocFold
  <2>4. ASSUME NEW s \in Indices(m + 1), s # {} PROVE k[s] = NarrowTo(k[Earlier(s)], l[Max(s)], id)
    <3>1. Max(s) \in s /\ Max(s) \in 1 .. m + 1 /\ Earlier(s) \in Indices(m + 1)
          /\ \A i \in s : i <= Max(s)
      BY <2>4, LastIndex
    <3>2. CASE m + 1 \in s
      <4>1. Max(s) = m + 1
        BY <3>1, <3>2
      <4>2. Earlier(s) = s \ {m + 1} /\ m + 1 \notin Earlier(s)
        BY <4>1 DEF Earlier
      <4>3. k[Earlier(s)] = g[s \ {m + 1}]
        BY <3>1, <4>2
      <4>4. k[s] = NarrowTo(g[s \ {m + 1}], l[m + 1], id)
        BY <3>2
      <4> QED BY <4>1, <4>3, <4>4
    <3>3. CASE m + 1 \notin s
      <4>1. s \in Indices(m) /\ m + 1 \notin Earlier(s)
        BY <2>2, <3>3 DEF Earlier
      <4>2. g[s] = NarrowTo(g[Earlier(s)], l[Max(s)], id)
        BY <2>1, <2>4, <4>1 DEF LocFold
      <4>3. k[s] = g[s] /\ k[Earlier(s)] = g[Earlier(s)]
        BY <3>1, <3>3, <4>1
      <4> QED BY <4>2, <4>3
    <3> QED BY <3>2, <3>3
  <2>5. k = [s \in Indices(m + 1) |-> k[s]]
    OBVIOUS
  <2> HIDE DEF k
  <2>6. LocFold(l, id, base, m + 1, k)
    BY <2>3, <2>4, <2>5 DEF LocFold
  <2> QED BY <2>6
<1> HIDE DEF Q
<1>3. \A m \in Nat : m \in Q
  BY <1>1, <1>2, NatSetInduction
<1> QED BY <1>3 DEF Q

(* The ranges of an element exist, from all the elements to it alone.       *)
LEMMA NarrowedExists ==
  ASSUME NEW h \in Seq(Nat \ {0}), NEW id
  PROVE  \E R : Narrowed(h, id, R)
<1> DEFINE n == Len(h)
           l == Reverse(h)
           dom == DOMAIN l
           base == [start |-> 0, end |-> K(h), loc |-> <<>>]
           A(f) == [s \in SUBSET dom |-> IF s = {} THEN base
                                         ELSE NarrowTo(f[s \ {Max(s)}], l[Max(s)], id)]
           iter == CHOOSE f : f = A(f)
<1>0. DetermineLoc(h, id) = iter[dom].loc
  BY DEF DetermineLoc, FoldLeft, MapThenFoldSet
<1>1. n \in Nat /\ dom = 1 .. n /\ \A i \in 1 .. n : l[i] = h[n - i + 1]
  BY DEF Reverse
<1>2. Indices(n) = SUBSET dom /\ {} \in Indices(n)
  BY <1>1 DEF Indices
<1> HIDE DEF n, dom, l, base
<1>3. PICK g : LocFold(l, id, base, n, g)
  BY <1>1, LocFoldExists
<1>4. g = A(g)
  <2>1. g = [s \in Indices(n) |-> g[s]] /\ g[{}] = base
    BY <1>3 DEF LocFold
  <2>2. \A s \in Indices(n) : g[s] = IF s = {} THEN base
                                     ELSE NarrowTo(g[s \ {Max(s)}], l[Max(s)], id)
    BY <1>3, <2>1 DEF LocFold, Earlier
  <2> QED BY <1>2, <2>1, <2>2
<1>5. iter = A(iter)
  BY <1>4
<1> HIDE DEF iter
<1> DEFINE R == [k \in 0 .. n |-> iter[1 .. k]]
<1>6. R[0] = base /\ R[n].loc = DetermineLoc(h, id)
  <2>1. 1 .. 0 = {} /\ 0 \in 0 .. n /\ n \in 0 .. n
    BY <1>1
  <2> QED BY <1>0, <1>1, <1>2, <1>5, <2>1
<1>7. ASSUME NEW k \in 1 .. n PROVE R[k] = NarrowTo(R[k - 1], h[n - k + 1], id)
  <2>1. 1 .. k \in SUBSET dom /\ 1 .. k # {} /\ k - 1 \in 0 .. n /\ k \in 0 .. n
    <3>1. k \in 1 .. k /\ \A x \in 1 .. k : x \in dom
      BY <1>1
    <3>2. k - 1 \in 0 .. n /\ k \in 0 .. n
      BY <1>1
    <3> QED BY <3>1, <3>2
  <2>2. Max(1 .. k) = k
    BY <1>1 DEF Max
  <2>3. (1 .. k) \ {k} = 1 .. (k - 1)
    BY <1>1
  <2>4. iter[1 .. k] = NarrowTo(iter[1 .. (k - 1)], l[k], id)
    BY <1>5, <2>1, <2>2, <2>3
  <2>5. R[k] = iter[1 .. k] /\ R[k - 1] = iter[1 .. (k - 1)]
    BY <2>1
  <2> HIDE DEF R
  <2> QED BY <1>1, <2>4, <2>5
<1>8. R = [k \in 0 .. n |-> R[k]]
  OBVIOUS
<1> HIDE DEF R
<1>9. Narrowed(h, id, R)
  BY <1>6, <1>7, <1>8 DEF Narrowed, n, base
<1> QED BY <1>9

-----------------------------------------------------------------------------
(* One level: the range of w * parts elements is cut into parts of w, and   *)
(* the element lies in one of them.                                         *)
Part(start, w, id, j) == start + j * w <= id /\ id < start + (j + 1) * w

Choice(r, w, parts, id) == CHOOSE i \in 0 .. parts - 1 : Part(r.start, w, id, i)

Stepped(r, w, j) == [start |-> r.start + j * w, end |-> r.start + (j + 1) * w, loc |-> <<j>> \o r.loc]

Holds(r, w, id) ==
  /\ r.start \in Int /\ r.end \in Int /\ r.end = r.start + w
  /\ r.start <= id /\ id < r.end

(* An element of a range lies in one of the equal parts of the range.       *)
LEMMA PartExists ==
  ASSUME NEW start \in Int, NEW w \in Nat \ {0}, NEW parts \in Nat \ {0}, NEW id \in Int,
         start <= id, id < start + w * parts
  PROVE  \E j \in 0 .. parts - 1 : Part(start, w, id, j)
<1> DEFINE Q == {m \in Nat : id < start + m * w => \E j \in 0 .. m - 1 : Part(start, w, id, j)}
<1>1. 0 \in Q
  OBVIOUS
<1>2. ASSUME NEW m \in Nat, m \in Q PROVE m + 1 \in Q
  <2> SUFFICES ASSUME id < start + (m + 1) * w
               PROVE  \E j \in 0 .. (m + 1) - 1 : Part(start, w, id, j)
    OBVIOUS
  <2>1. CASE id < start + m * w
    <3>1. PICK j \in 0 .. m - 1 : Part(start, w, id, j)
      BY <1>2, <2>1
    <3>2. j \in 0 .. (m + 1) - 1
      BY <1>2
    <3> QED BY <3>1, <3>2
  <2>2. CASE ~ id < start + m * w
    <3>1. m * w \in Int
      OBVIOUS
    <3>2. start + m * w <= id
      BY <2>2, <3>1
    <3>3. m \in 0 .. (m + 1) - 1
      OBVIOUS
    <3> QED BY <3>2, <3>3 DEF Part
  <2> QED BY <2>1, <2>2
<1> HIDE DEF Q
<1>3. parts \in Q
  BY <1>1, <1>2, NatSetInduction
<1>4. w * parts = parts * w
  OBVIOUS
<1> QED BY <1>3, <1>4 DEF Q

(* A product divided by one of its factors leaves the other one.            *)
LEMMA ExactQuotient ==
  ASSUME NEW w \in Nat \ {0}, NEW parts \in Nat \ {0}
  PROVE  (w * parts) \div parts = w
<1> DEFINE x == (w * parts) \div parts
           y == (w * parts) % parts
<1>1. w * parts \in Nat
  OBVIOUS
<1>2. x \in Int /\ y \in 0 .. parts - 1 /\ w * parts = parts * x + y
  BY <1>1
<1> HIDE DEF x, y
<1>3. parts * (w - x) = y
  BY <1>2
<1>4. CASE w - x >= 1
  <2>1. parts * (w - x) >= parts
    BY <1>2, <1>4
  <2> QED BY <1>2, <1>3, <2>1
<1>5. CASE w - x <= -1
  <2>1. parts * (w - x) < 0
    BY <1>2, <1>5
  <2> QED BY <1>2, <1>3, <2>1
<1>6. w = x
  BY <1>2, <1>4, <1>5
<1> QED BY <1>6 DEF x

(* NarrowTo takes the range to the part that holds the element.             *)
LEMMA NarrowedTo ==
  ASSUME NEW w \in Nat \ {0}, NEW parts \in Nat \ {0}, NEW id \in Int,
         NEW r, Holds(r, w * parts, id)
  PROVE  /\ Choice(r, w, parts, id) \in Nat
         /\ NarrowTo(r, parts, id) = Stepped(r, w, Choice(r, w, parts, id))
         /\ Holds(NarrowTo(r, parts, id), w, id)
<1> DEFINE j == Choice(r, w, parts, id)
<1>1. r.start \in Int /\ r.end = r.start + w * parts /\ w * parts \in Int
      /\ r.start <= id /\ id < r.start + w * parts
  BY DEF Holds
<1>2. (r.end - r.start) \div parts = w
  <2>1. r.end - r.start = w * parts
    BY <1>1
  <2> QED BY <2>1, ExactQuotient
<1>3. j \in 0 .. parts - 1 /\ Part(r.start, w, id, j)
  <2>1. \E i \in 0 .. parts - 1 : Part(r.start, w, id, i)
    BY <1>1, PartExists
  <2> QED BY <2>1 DEF Choice
<1>4. NarrowTo(r, parts, id) = Stepped(r, w, j)
  BY <1>2 DEF NarrowTo, Part, Choice, Stepped
<1> HIDE DEF j
<1>5. Holds(NarrowTo(r, parts, id), w, id)
  <2>1. j * w \in Int /\ (j + 1) * w = j * w + w
    BY <1>3
  <2> DEFINE x == j * w
             y == (j + 1) * w
             k == NarrowTo(r, parts, id)
  <2>2. k.start = r.start + x /\ k.end = r.start + y /\ r.start + x <= id /\ id < r.start + y
    BY <1>3, <1>4 DEF Part, Stepped
  <2>3. x \in Int /\ y = x + w
    BY <2>1
  <2> HIDE DEF x, y, k
  <2>4. Holds(k, w, id)
    BY <1>1, <2>2, <2>3 DEF Holds
  <2> QED BY <2>4 DEF k
<1> QED BY <1>3, <1>4, <1>5 DEF j

Steps(h, P, id, R, k) ==
  LET w     == P[Len(h) - k]
      parts == h[Len(h) - k + 1]
      j     == Choice(R[k - 1], w, parts, id)
  IN  j \in Nat /\ R[k] = Stepped(R[k - 1], w, j) /\ Holds(R[k], w, id)

(* One level narrows the range to the part that holds the element.          *)
LEMMA RangeStep ==
  ASSUME NEW h \in Seq(Nat \ {0}), NEW P, GroupSizes(h, P), NEW id \in Int,
         NEW R, Narrowed(h, id, R), NEW k \in 1 .. Len(h),
         Holds(R[k - 1], P[Len(h) - (k - 1)], id)
  PROVE  Steps(h, P, id, R, k)
<1> DEFINE n == Len(h)
           i == n - k + 1
           r == R[k - 1]
           w == P[n - k]
           parts == h[i]
<1>1. n \in Nat /\ i \in 1 .. n /\ i - 1 = n - k /\ n - (k - 1) = i /\ n - k \in 0 .. n
      /\ Len(h) - k + 1 = i
  OBVIOUS
<1>2. R[k] = NarrowTo(r, parts, id)
  BY <1>1 DEF Narrowed
<1>3. w \in Nat \ {0} /\ parts \in Nat \ {0}
  <2>1. \A x \in 0 .. n : P[x] \in Nat \ {0}
    BY DEF GroupSizes
  <2> HIDE DEF i
  <2>2. h[i] \in Nat \ {0}
    BY <1>1
  <2> QED BY <1>1, <2>1, <2>2
<1>4. P[i] = w * parts
  <2> HIDE DEF i
  <2>1. P[i] = P[i - 1] * h[i]
    BY <1>1 DEF GroupSizes
  <2> QED BY <1>1, <2>1
<1>5. Holds(r, w * parts, id)
  <2> HIDE DEF i, r, w, parts
  <2>1. Holds(r, P[i], id)
    BY <1>1 DEF r
  <2> QED BY <1>4, <2>1
<1> HIDE DEF i, r, w, parts
<1>6. /\ Choice(r, w, parts, id) \in Nat
      /\ NarrowTo(r, parts, id) = Stepped(r, w, Choice(r, w, parts, id))
      /\ Holds(NarrowTo(r, parts, id), w, id)
  BY <1>3, <1>5, NarrowedTo
<1> QED BY <1>2, <1>6 DEF Steps, i, r, w, parts

(* The coordinates of one range and those of the range before.              *)
IsPrefixed(x, i, l) == x = <<i>> \o l

(* The coordinates of a range are those of the range before, behind one     *)
(* more.                                                                    *)
LEMMA Prefixed ==
  ASSUME NEW l \in Seq(Nat), NEW j \in Nat, NEW x, IsPrefixed(x, j, l)
  PROVE  /\ x \in Seq(Nat) /\ Len(x) = Len(l) + 1
         /\ x[1] = j /\ \A y \in 1 .. Len(l) : x[y + 1] = l[y]
BY DEF IsPrefixed

(* Every range holds the element, the last one nothing else.                *)
InRange(h, P, id, R, k) ==
  Holds(R[k], P[Len(h) - k], id) /\ R[k].loc \in Seq(Nat) /\ Len(R[k].loc) = k

(* Every range of an element is well formed and holds the element.          *)
LEMMA Ranges ==
  ASSUME NEW h \in Seq(Nat \ {0}), NEW P, GroupSizes(h, P), NEW id \in 0 .. K(h) - 1,
         NEW R, Narrowed(h, id, R), NEW n, n = Len(h)
  PROVE  \A k \in 0 .. n : InRange(h, P, id, R, k)
<1> DEFINE Q == {k \in Nat : k <= n => /\ Holds(R[k], P[n - k], id)
                                       /\ R[k].loc \in Seq(Nat) /\ Len(R[k].loc) = k}
<1>1. n \in Nat /\ id \in Int /\ K(h) \in Nat \ {0} /\ id >= 0 /\ id < K(h)
  BY DEF GroupSizes
<1>2. 0 \in Q
  <2>1. R[0] = [start |-> 0, end |-> K(h), loc |-> <<>>] /\ P[n - 0] = K(h)
    BY <1>1 DEF GroupSizes, Narrowed
  <2>2. <<>> \in Seq(Nat) /\ Len(<<>>) = 0
    OBVIOUS
  <2>3. Holds(R[0], P[n - 0], id)
    BY <1>1, <2>1 DEF Holds
  <2>4. R[0].loc = <<>>
    BY <2>1
  <2>5. R[0].loc \in Seq(Nat) /\ Len(R[0].loc) = 0
    BY <2>2, <2>4
  <2> QED BY <2>3, <2>5
<1>3. ASSUME NEW m \in Nat, m \in Q PROVE m + 1 \in Q
  <2> SUFFICES ASSUME m + 1 <= n
               PROVE  /\ Holds(R[m + 1], P[n - (m + 1)], id)
                      /\ R[m + 1].loc \in Seq(Nat) /\ Len(R[m + 1].loc) = m + 1
    OBVIOUS
  <2> DEFINE k == m + 1
             r == R[k - 1]
             w == P[n - k]
             parts == h[n - k + 1]
             j == Choice(r, w, parts, id)
  <2>1. k \in 1 .. n /\ k - 1 = m /\ m <= n
    BY <1>1
  <2>2. Holds(r, P[n - (k - 1)], id) /\ r.loc \in Seq(Nat) /\ Len(r.loc) = m
    BY <1>3, <2>1
  <2>3. j \in Nat /\ R[k] = Stepped(r, w, j) /\ Holds(R[k], P[n - k], id)
    <3>1. Steps(h, P, id, R, k)
      <4> HIDE DEF k
      <4> QED BY <1>1, <2>1, <2>2, RangeStep
    <3> QED BY <3>1 DEF Steps
  <2> HIDE DEF k, r, w, j
  <2>4. R[k].loc = <<j>> \o r.loc
    BY <2>3 DEF Stepped
  <2>5. R[k].loc \in Seq(Nat) /\ Len(R[k].loc) = m + 1
    BY <2>2, <2>3, <2>4, Prefixed DEF IsPrefixed
  <2> QED BY <2>3, <2>5 DEF k
<1> HIDE DEF Q
<1>4. \A m \in Nat : m \in Q
  BY <1>2, <1>3, NatSetInduction
<1>5. ASSUME NEW k \in 0 .. n PROVE InRange(h, P, id, R, k)
  BY <1>1, <1>4 DEF Q, InRange
<1> QED BY <1>5

(* Multiples of d do not tell apart two numbers with the same quotient.     *)
LEMMA MultipleBelow ==
  ASSUME NEW d \in Nat \ {0}, NEW a \in Nat, NEW y \in Int
  PROVE  y * d <= a <=> y <= a \div d
<1> DEFINE x == a \div d
           r == a % d
<1>1. x \in Int /\ r \in 0 .. d - 1 /\ a = d * x + r
  OBVIOUS
<1> HIDE DEF x, r
<1>2. d * (x - y) = d * x - y * d
  BY <1>1
<1>3. CASE y <= x
  <2>1. d * (x - y) >= 0
    BY <1>1, <1>3
  <2> QED BY <1>1, <1>2, <1>3, <2>1 DEF x
<1>4. CASE x - y <= -1
  <2>1. d * (x - y) <= -d
    BY <1>1, <1>4
  <2> QED BY <1>1, <1>2, <1>4, <2>1 DEF x
<1> QED BY <1>1, <1>3, <1>4

(* The elements of a lowest group are found in the same ranges down to it.  *)
LEMMA SameRanges ==
  ASSUME NEW h \in Seq(Nat \ {0}), h # <<>>, NEW P, GroupSizes(h, P),
         NEW a \in 0 .. K(h) - 1, NEW b \in 0 .. K(h) - 1, a \div h[1] = b \div h[1],
         NEW R, Narrowed(h, a, R), NEW S, Narrowed(h, b, S), NEW n, n = Len(h)
  PROVE  \A k \in 0 .. n - 1 : R[k] = S[k]
<1> DEFINE d == h[1]
           Q == {k \in Nat : k <= n - 1 => R[k] = S[k] /\ \E m \in Int : R[k].start = m * d}
<1>1. n \in Nat /\ n >= 1 /\ d \in Nat \ {0} /\ a \in Nat /\ b \in Nat /\ a \in Int /\ b \in Int
  <2>1. n \in Nat /\ n >= 1
    BY EmptySeq
  <2>2. K(h) \in Nat
    BY DEF GroupSizes
  <2> QED BY <2>1, <2>2
<1>2. \A k \in 0 .. n : Holds(R[k], P[n - k], a) /\ Holds(S[k], P[n - k], b)
  <2>1. \A k \in 0 .. n : InRange(h, P, a, R, k)
    BY Ranges
  <2>2. \A k \in 0 .. n : InRange(h, P, b, S, k)
    BY Ranges
  <2> QED BY <2>1, <2>2 DEF InRange
<1>3. 0 \in Q
  <2>1. R[0] = S[0] /\ R[0].start = 0
    BY DEF Narrowed
  <2>2. R[0].start = 0 * d /\ 0 \in Int
    BY <1>1, <2>1
  <2> HIDE DEF d
  <2>3. \E m \in Int : R[0].start = m * d
    BY <2>2
  <2> QED BY <2>1, <2>3
<1>4. ASSUME NEW m \in Nat, m \in Q PROVE m + 1 \in Q
  <2> SUFFICES ASSUME m + 1 <= n - 1
               PROVE  R[m + 1] = S[m + 1] /\ \E y \in Int : R[m + 1].start = y * d
    OBVIOUS
  <2> DEFINE k == m + 1
             r == R[k - 1]
             w == P[n - k]
             parts == h[n - k + 1]
             i == Choice(r, w, parts, a)
             j == Choice(r, w, parts, b)
  <2>1. k \in 1 .. n /\ k - 1 \in 0 .. n /\ k - 1 = m /\ m <= n - 1 /\ n - k \in 1 .. n
    BY <1>1
  <2>2. r = S[k - 1] /\ \E y \in Int : r.start = y * d
    BY <1>4, <2>1
  <2>3. i \in Nat /\ R[k] = Stepped(r, w, i)
    <3>1. Holds(R[k - 1], P[n - (k - 1)], a)
      BY <1>2, <2>1
    <3>2. Steps(h, P, a, R, k)
      <4> HIDE DEF k, r, w, parts, i, j, d
      <4> QED BY <1>1, <2>1, <3>1, RangeStep
    <3> QED BY <3>2 DEF Steps
  <2>4. j \in Nat /\ S[k] = Stepped(r, w, j)
    <3>1. Holds(S[k - 1], P[n - (k - 1)], b)
      BY <1>2, <2>1
    <3>2. /\ Choice(S[k - 1], w, parts, b) \in Nat
          /\ S[k] = Stepped(S[k - 1], w, Choice(S[k - 1], w, parts, b))
      <4>1. Steps(h, P, b, S, k)
        <5> HIDE DEF k, r, w, parts, i, j, d
        <5> QED BY <1>1, <2>1, <3>1, RangeStep
      <4> QED BY <4>1 DEF Steps
    <3> QED BY <2>2, <3>2
  <2>5. PICK y \in Int : r.start = y * d
    BY <2>2
  <2>6. PICK c \in Nat \ {0} : w = c * d
    BY <2>1 DEF GroupSizes
  <2> HIDE DEF k, r, w, parts, d
  <2>7. \A x \in Int : r.start + x * w = (y + x * c) * d /\ y + x * c \in Int
    BY <1>1, <2>5, <2>6
  <2>8. ASSUME NEW x \in Int PROVE r.start + x * w <= a <=> r.start + x * w <= b
    <3>1. r.start + x * w = (y + x * c) * d /\ y + x * c \in Int
      BY <2>7
    <3> DEFINE z == y + x * c
    <3>2. z * d <= a <=> z * d <= b
      <4> HIDE DEF z
      <4> QED BY <1>1, <3>1, MultipleBelow DEF d, z
    <3> QED BY <3>1, <3>2
  <2>9. \A x \in Int : Part(r.start, w, a, x) <=> Part(r.start, w, b, x)
    <3>1. ASSUME NEW x \in Int PROVE Part(r.start, w, a, x) <=> Part(r.start, w, b, x)
      <4>1. x + 1 \in Int /\ r.start + (x + 1) * w \in Int
        <5>1. r.start + (x + 1) * w = (y + (x + 1) * c) * d
          BY <2>7
        <5> QED BY <1>1, <2>6, <5>1
      <4>2. r.start + (x + 1) * w <= a <=> r.start + (x + 1) * w <= b
        BY <2>8, <4>1
      <4>3. r.start + x * w <= a <=> r.start + x * w <= b
        BY <2>8
      <4> DEFINE v == r.start + (x + 1) * w
      <4>4. a < v <=> b < v
        <5> HIDE DEF v
        <5> QED BY <1>1, <4>1, <4>2 DEF v
      <4> QED BY <4>3, <4>4 DEF Part
    <3> QED BY <3>1
  <2>10. i = j
    <3>1. \A x \in 0 .. parts - 1 : x \in Int
      OBVIOUS
    <3>2. \A x \in 0 .. parts - 1 : Part(r.start, w, a, x) <=> Part(r.start, w, b, x)
      BY <2>9, <3>1
    <3> QED BY <3>2 DEF Choice
  <2>11. R[k].start = r.start + i * w
    BY <2>3 DEF Stepped
  <2>12. R[k] = S[k] /\ \E z \in Int : R[k].start = z * d
    <3>1. R[k] = S[k]
      BY <2>3, <2>4, <2>10
    <3>2. i \in Int
      BY <2>3
    <3> HIDE DEF i, j
    <3> QED BY <2>7, <2>11, <3>1, <3>2
  <2> QED BY <2>12 DEF k
<1> HIDE DEF Q
<1>5. \A k \in Nat : k \in Q
  BY <1>3, <1>4, NatSetInduction
<1> QED BY <1>1, <1>5 DEF Q

Extended(h, P, R, k) ==
  /\ R[k - 1].loc \in Seq(Nat) /\ Len(R[k - 1].loc) = k - 1
  /\ \E j \in Nat : /\ IsPrefixed(R[k].loc, j, R[k - 1].loc)
                    /\ R[k] = Stepped(R[k - 1], P[Len(h) - k], j)

(* The coordinates grow by one from every level to the next.                *)
LEMMA LastCoordinate ==
  ASSUME NEW h \in Seq(Nat \ {0}), NEW P, GroupSizes(h, P), NEW id \in 0 .. K(h) - 1,
         NEW R, Narrowed(h, id, R), NEW k \in 1 .. Len(h)
  PROVE  Extended(h, P, R, k)
<1> DEFINE n == Len(h)
<1>1. n \in Nat /\ k - 1 \in 0 .. n /\ id \in Int
  BY DEF GroupSizes
<1>2. InRange(h, P, id, R, k - 1)
  <2>1. \A x \in 0 .. n : InRange(h, P, id, R, x)
    BY Ranges
  <2> QED BY <1>1, <2>1
<1>3. Holds(R[k - 1], P[n - (k - 1)], id) /\ R[k - 1].loc \in Seq(Nat) /\ Len(R[k - 1].loc) = k - 1
  BY <1>2 DEF InRange
<1>4. Steps(h, P, id, R, k)
  BY <1>1, <1>3, RangeStep
<1>5. PICK j \in Nat : R[k] = Stepped(R[k - 1], P[n - k], j)
  BY <1>4 DEF Steps
<1>6. R[k].loc = <<j>> \o R[k - 1].loc
  <2>1. Stepped(R[k - 1], P[n - k], j).loc = <<j>> \o R[k - 1].loc
    BY DEF Stepped
  <2> QED BY <1>5, <2>1
<1> QED BY <1>3, <1>5, <1>6 DEF Extended, IsPrefixed

(* Equal coordinates have equal first and equal other coordinates.          *)
LEMMA SamePrefixed ==
  ASSUME NEW l \in Seq(Nat), NEW m \in Seq(Nat), Len(l) = Len(m), NEW i \in Nat, NEW j \in Nat,
         NEW x, IsPrefixed(x, i, l), IsPrefixed(x, j, m)
  PROVE  i = j /\ l = m
<1>1. x[1] = i /\ \A y \in 1 .. Len(l) : x[y + 1] = l[y]
  BY Prefixed
<1>2. x[1] = j /\ \A y \in 1 .. Len(l) : x[y + 1] = m[y]
  BY Prefixed
<1>3. l = [y \in 1 .. Len(l) |-> l[y]] /\ m = [y \in 1 .. Len(m) |-> m[y]]
  OBVIOUS
<1> QED BY <1>1, <1>2, <1>3

(* Two elements have different coordinates.                                 *)
LEMMA CoordinatesTell ==
  ASSUME NEW h \in Seq(Nat \ {0}), NEW a \in 0 .. K(h) - 1, NEW b \in 0 .. K(h) - 1,
         DetermineLoc(h, a) = DetermineLoc(h, b)
  PROVE  a = b
<1> DEFINE n == Len(h)
<1>1. PICK P : GroupSizes(h, P)
  BY SizesExist
<1>2. PICK R : Narrowed(h, a, R)
  BY NarrowedExists
<1>3. PICK S : Narrowed(h, b, S)
  BY NarrowedExists
<1> DEFINE Q == {k \in Nat : k <= n /\ R[k].loc = S[k].loc => R[k] = S[k]}
<1>4. n \in Nat
  OBVIOUS
<1>5. 0 \in Q
  BY <1>2, <1>3 DEF Narrowed
<1>6. ASSUME NEW m \in Nat, m \in Q PROVE m + 1 \in Q
  <2> SUFFICES ASSUME m + 1 <= n, R[m + 1].loc = S[m + 1].loc PROVE R[m + 1] = S[m + 1]
    OBVIOUS
  <2> DEFINE k == m + 1
  <2>1. k \in 1 .. n /\ k - 1 = m /\ m <= n
    BY <1>4
  <2> HIDE DEF k
  <2>2. Extended(h, P, R, k)
    BY <1>1, <1>2, <2>1, LastCoordinate
  <2>3. Extended(h, P, S, k)
    BY <1>1, <1>3, <2>1, LastCoordinate
  <2>4. PICK i \in Nat : IsPrefixed(R[k].loc, i, R[k - 1].loc) /\ R[k] = Stepped(R[k - 1], P[n - k], i)
    BY <2>2 DEF Extended
  <2>5. PICK j \in Nat : IsPrefixed(S[k].loc, j, S[k - 1].loc) /\ S[k] = Stepped(S[k - 1], P[n - k], j)
    BY <2>3 DEF Extended
  <2>6. /\ R[m].loc \in Seq(Nat) /\ S[m].loc \in Seq(Nat) /\ Len(R[m].loc) = Len(S[m].loc)
        /\ IsPrefixed(R[k].loc, i, R[m].loc) /\ IsPrefixed(R[k].loc, j, S[m].loc)
    BY <2>1, <2>2, <2>3, <2>4, <2>5 DEF Extended, k
  <2>7. i = j /\ R[m].loc = S[m].loc
    <3> DEFINE x == R[k].loc
               l == R[m].loc
               y == S[m].loc
    <3>1. l \in Seq(Nat) /\ y \in Seq(Nat) /\ Len(l) = Len(y)
      BY <2>6
    <3>2. IsPrefixed(x, i, l) /\ IsPrefixed(x, j, y)
      BY <2>6
    <3> HIDE DEF x, l, y
    <3>3. i = j /\ l = y
      BY <3>1, <3>2, SamePrefixed
    <3> QED BY <3>3 DEF l, y
  <2>8. R[m] = S[m]
    BY <1>6, <2>1, <2>7
  <2> QED BY <2>1, <2>4, <2>5, <2>7, <2>8 DEF k
<1> HIDE DEF Q
<1>7. \A k \in Nat : k \in Q
  BY <1>5, <1>6, NatSetInduction
<1>8. R[n].loc = S[n].loc
  BY <1>2, <1>3 DEF Narrowed
<1>9. R[n] = S[n]
  BY <1>4, <1>7, <1>8 DEF Q
<1>10. n \in 0 .. n /\ n - n = 0 /\ P[0] = 1
  BY <1>1, <1>4 DEF GroupSizes
<1> HIDE DEF n
<1>11. Holds(R[n], 1, a)
  BY <1>1, <1>2, <1>10, Ranges DEF n, InRange
<1>12. Holds(S[n], 1, b)
  BY <1>1, <1>3, <1>10, Ranges DEF n, InRange
<1>13. a \in Int /\ b \in Int
  <2>1. K(h) \in Nat
    BY <1>1 DEF GroupSizes
  <2> QED BY <2>1
<1> QED BY <1>9, <1>11, <1>12, <1>13 DEF Holds

(* There is a coordinate for every level.                                   *)
IsCoordinates(h, l) == l = [i \in 1 .. Len(h) |-> l[i]]

(* determine_location gives one coordinate for every level.                 *)
LEMMA Coordinates ==
  ASSUME NEW h \in Seq(Nat \ {0}), NEW a \in 0 .. K(h) - 1
  PROVE  IsCoordinates(h, DetermineLoc(h, a))
<1> DEFINE n == Len(h)
<1>1. PICK P : GroupSizes(h, P)
  BY SizesExist
<1>2. PICK R : Narrowed(h, a, R)
  BY NarrowedExists
<1>3. n \in 0 .. n
  OBVIOUS
<1>4. R[n].loc \in Seq(Nat) /\ Len(R[n].loc) = n
  BY <1>1, <1>2, <1>3, Ranges DEF InRange
<1>5. R[n].loc = [i \in 1 .. n |-> R[n].loc[i]]
  BY <1>4
<1> QED BY <1>2, <1>5 DEF Narrowed, IsCoordinates

(* Two elements of a lowest group differ in the lowest coordinate only.     *)
LEMMA GroupCoordinates ==
  ASSUME NEW h \in Seq(Nat \ {0}), h # <<>>, NEW a \in 0 .. K(h) - 1, NEW b \in 0 .. K(h) - 1,
         LastLevelPair(h, a, b)
  PROVE  \A x \in DOMAIN h : x # 1 => DetermineLoc(h, a)[x] = DetermineLoc(h, b)[x]
<1> DEFINE n == Len(h)
<1>1. PICK P : GroupSizes(h, P)
  BY SizesExist
<1>2. PICK R : Narrowed(h, a, R)
  BY NarrowedExists
<1>3. PICK S : Narrowed(h, b, S)
  BY NarrowedExists
<1>4. n \in Nat /\ n >= 1 /\ n \in 1 .. n /\ n - 1 \in 0 .. n - 1 /\ DOMAIN h = 1 .. n
  BY EmptySeq
<1>5. R[n - 1] = S[n - 1]
  BY <1>1, <1>2, <1>3, <1>4, SameRanges DEF LastLevelPair
<1> HIDE DEF n
<1>6. Extended(h, P, R, n) /\ Extended(h, P, S, n)
  <2>1. Extended(h, P, R, n)
    BY <1>1, <1>2, <1>4, LastCoordinate DEF n
  <2>2. Extended(h, P, S, n)
    BY <1>1, <1>3, <1>4, LastCoordinate DEF n
  <2> QED BY <2>1, <2>2
<1>7. PICK i \in Nat, j \in Nat :
        IsPrefixed(R[n].loc, i, R[n - 1].loc) /\ IsPrefixed(S[n].loc, j, S[n - 1].loc)
  BY <1>6 DEF Extended
<1>8. R[n - 1].loc \in Seq(Nat) /\ Len(R[n - 1].loc) = n - 1
  BY <1>6 DEF Extended
<1> SUFFICES ASSUME NEW x \in 1 .. n, x # 1
             PROVE  DetermineLoc(h, a)[x] = DetermineLoc(h, b)[x]
  BY <1>4
<1>9. x - 1 \in 1 .. n - 1 /\ (x - 1) + 1 = x
  BY <1>4
<1>10. R[n].loc[x] = R[n - 1].loc[x - 1] /\ S[n].loc[x] = R[n - 1].loc[x - 1]
  <2> DEFINE l == R[n - 1].loc
             r == R[n].loc
             s == S[n].loc
             y == x - 1
  <2>1. l \in Seq(Nat) /\ y \in 1 .. Len(l)
    BY <1>8, <1>9
  <2>2. IsPrefixed(r, i, l) /\ IsPrefixed(s, j, l)
    BY <1>5, <1>7
  <2>5. y + 1 = x
    BY <1>9
  <2> HIDE DEF l, r, s, y
  <2>3. r[y + 1] = l[y]
    BY <2>1, <2>2, Prefixed
  <2>4. s[y + 1] = l[y]
    BY <2>1, <2>2, Prefixed
  <2> QED BY <2>3, <2>4, <2>5 DEF l, r, s, y
<1>11. R[n].loc[x] = S[n].loc[x]
  BY <1>10
<1> QED BY <1>2, <1>3, <1>11 DEF Narrowed, n

(* A block is equally far from the blocks of a lowest group it is not in,   *)
(* and from the others of its own.                                          *)
LEMMA LowestGroupsEquidistant ==
  ASSUME NEW a \in Block, NEW b \in Block, a # b, LastLevelPair(Hierarchy, a, b),
         NEW c \in Block \ {a, b}
  PROVE  D[c][a] = D[c][b]
<1> DEFINE h == Hierarchy
           n == Len(h)
           A == DetermineLoc(h, a)
           B == DetermineLoc(h, b)
           C == DetermineLoc(h, c)
           S == {i \in DOMAIN h : C[i] # A[i]}
           T == {i \in DOMAIN h : C[i] # B[i]}
<1>1. /\ h \in Seq(Nat \ {0}) /\ h # <<>>
      /\ a \in 0 .. K(h) - 1 /\ b \in 0 .. K(h) - 1 /\ c \in 0 .. K(h) - 1
  BY OracleAssumption
<1>2. DOMAIN h = 1 .. n /\ n \in Nat /\ 1 \in DOMAIN h
  <2>1. n \in Nat /\ n >= 1 /\ DOMAIN h = 1 .. n
    BY <1>1, EmptySeq
  <2> QED BY <2>1
<1>3. \A i \in DOMAIN h : i # 1 => A[i] = B[i]
  BY <1>1, GroupCoordinates
<1>4. MatrixLevel(h, c, a) = Max(S) /\ MatrixLevel(h, c, b) = Max(T)
  BY DEF MatrixLevel
<1>5. ASSUME NEW x \in 0 .. K(h) - 1, c # x PROVE \E i \in DOMAIN h : C[i] # DetermineLoc(h, x)[i]
  <2>1. DetermineLoc(h, c) # DetermineLoc(h, x)
    BY <1>1, <1>5, CoordinatesTell
  <2>2. IsCoordinates(h, DetermineLoc(h, c)) /\ IsCoordinates(h, DetermineLoc(h, x))
    BY <1>1, <1>5, Coordinates
  <2> QED BY <1>2, <2>1, <2>2 DEF IsCoordinates
<1>6. S # {} /\ T # {}
  BY <1>1, <1>5
<1>7. \A i \in DOMAIN h : i # 1 => (i \in S <=> i \in T)
  BY <1>3
<1>8. S \in SUBSET (1 .. n) /\ T \in SUBSET (1 .. n)
  BY <1>2
<1> HIDE DEF S, T, A, B, C
<1>9. Max(S) = Max(T)
  <2>1. IsFiniteSet(1 .. n)
    BY <1>2, FS_Interval
  <2>2. IsFiniteSet(S) /\ IsFiniteSet(T)
    BY <1>8, <2>1, FS_Subset
  <2>3. S \subseteq Int /\ T \subseteq Int
    BY <1>8
  <2>4. Max(S) \in S /\ \A x \in S : x <= Max(S)
    BY <1>6, <2>2, <2>3, LargestExists
  <2>5. Max(T) \in T /\ \A x \in T : x <= Max(T)
    BY <1>6, <2>2, <2>3, LargestExists
  <2>6. Max(S) \in 1 .. n /\ Max(T) \in 1 .. n
    BY <1>8, <2>4, <2>5
  <2>7. CASE Max(S) # 1 /\ Max(T) # 1
    <3>1. Max(S) \in T /\ Max(T) \in S
      BY <1>2, <1>7, <2>4, <2>5, <2>6, <2>7
    <3> QED BY <2>4, <2>5, <2>6, <3>1
  <2>8. CASE Max(S) = 1
    <3>1. Max(T) # 1 => Max(T) \in S
      BY <1>2, <1>7, <2>5, <2>6
    <3> QED BY <2>4, <2>6, <2>8, <3>1
  <2>9. CASE Max(T) = 1
    <3>1. Max(S) # 1 => Max(S) \in T
      BY <1>2, <1>7, <2>4, <2>6
    <3> QED BY <2>5, <2>6, <2>9, <3>1
  <2> QED BY <2>7, <2>8, <2>9
<1>10. /\ D[c][a] = MatrixDistance(h, Distances, c, a)
       /\ D[c][b] = MatrixDistance(h, Distances, c, b)
  BY OracleAssumption
<1> QED BY <1>4, <1>9, <1>10 DEF MatrixDistance

(* get_u_edge_cut_delta_t computes from the slots of u how much the weight  *)
(* between old and new falls.                                               *)
LEMMA CutFromSlots ==
  ASSUME NEW p \in [Vertex -> Block], NEW u \in Vertex, Represents(conn[u], Conns(p, u)),
         NEW new \in Block, new # p[u]
  PROVE  CutDelta(u, p[u], new) = ConnWeight(p, u, new) - ConnWeight(p, u, p[u])
<1> DEFINE c == conn[u]
           old == p[u]
           S == DOMAIN c
           W == Conns(p, u)
           f(b) == [i \in S |-> IF c[i].id = b THEN c[i].w ELSE 0]
           g == [i \in S |-> IF c[i].id = new THEN c[i].w ELSE IF c[i].id = old THEN - c[i].w ELSE 0]
           minus == [i \in S |-> (-1) * f(old)[i]]
<1>1. /\ old \in Block
      /\ \A i \in S : c[i].id \in Block /\ c[i].w \in Nat /\ c[i].w = W[c[i].id]
      /\ \A i, j \in S : c[i].id = c[j].id => i = j
      /\ \A b \in Block : W[b] > 0 => \E i \in S : c[i].id = b
      /\ \A b \in Block : W[b] = ConnWeight(p, u, b) /\ W[b] \in Nat
  <2>1. \A b \in Block : W[b] = ConnWeight(p, u, b) /\ W[b] \in Nat
    BY ConnIsSum DEF Conns
  <2>2. Represents(c, W) /\ old \in Block
    OBVIOUS
  <2> HIDE DEF c, W, S, old
  <2>3. c \in Seq(Entries) /\ \A i \in S : c[i] \in Entries
    BY <2>2 DEF Represents, S
  <2> QED BY <2>1, <2>2, <2>3 DEF Represents, Entries, S
<1>2. IsFiniteSet(S)
  <2>1. Len(c) \in Nat /\ S = 1 .. Len(c)
    BY DEF Represents
  <2> HIDE DEF c
  <2> QED BY <2>1, FS_Interval
<1>3. CutDelta(u, old, new) = SumFunctionOnSet(g, S)
  BY ZenonT(120) DEF CutDelta, MapThenSumSet, SumFunctionOnSet, FoldFunctionOnSet, MapThenFoldSet
<1> HIDE DEF c, S, W, old, g
<1>4. ASSUME NEW b \in Block
      PROVE  /\ \A i \in S : f(b)[i] \in Int
             /\ SumFunctionOnSet(f(b), S) = W[b]
  <2> DEFINE h == f(b)
  <2>1. \A i \in S : h[i] \in Int /\ h[i] = IF c[i].id = b THEN c[i].w ELSE 0
    BY <1>1
  <2> HIDE DEF h
  <2>2. CASE \E i \in S : c[i].id = b
    <3>1. PICK i \in S : c[i].id = b
      BY <2>2
    <3>2. SumFunctionOnSet(h, S) = h[i] + SumFunctionOnSet(h, S \ {i})
      BY <1>2, <2>1, SumRemove
    <3>3. \A j \in S \ {i} : h[j] = 0
      BY <1>1, <2>1, <3>1
    <3>4. SumFunctionOnSet(h, S \ {i}) = 0
      <4>1. IsFiniteSet(S \ {i})
        BY <1>2, FS_Subset
      <4> QED BY <3>3, <4>1, SumZero
    <3> QED BY <1>1, <2>1, <3>1, <3>2, <3>4 DEF h
  <2>3. CASE \A i \in S : c[i].id # b
    <3>1. SumFunctionOnSet(h, S) = 0
      BY <1>2, <2>1, <2>3, SumZero
    <3>2. W[b] = 0
      BY <1>1, <2>3
    <3> QED BY <2>1, <3>1, <3>2 DEF h
  <2> QED BY <2>2, <2>3
<1>5. \A i \in S : f(new)[i] \in Int /\ f(old)[i] \in Int /\ minus[i] = (-1) * f(old)[i]
                   /\ minus[i] \in Int
  BY <1>1, <1>4
<1>6. \A i \in S : g[i] = f(new)[i] + minus[i]
  BY <1>1 DEF g, old
<1> DEFINE fn == f(new)
           fo == f(old)
<1>7. SumFunctionOnSet(fn, S) = W[new] /\ SumFunctionOnSet(fo, S) = W[old]
  BY <1>1, <1>4
<1>8. \A i \in S : /\ fn[i] \in Int /\ fo[i] \in Int /\ minus[i] \in Int
                   /\ minus[i] = (-1) * fo[i] /\ g[i] = fn[i] + minus[i]
  BY <1>5, <1>6
<1> HIDE DEF fn, fo, minus
<1>9. SumFunctionOnSet(g, S) = SumFunctionOnSet(fn, S) + SumFunctionOnSet(minus, S)
  BY <1>2, <1>8, SumPlus
<1>10. SumFunctionOnSet(minus, S) = (-1) * SumFunctionOnSet(fo, S)
  BY <1>2, <1>8, SumScale
<1> QED BY <1>1, <1>3, <1>7, <1>9, <1>10 DEF old

(* Where the distance to every other block is the same from old and from    *)
(* new, the cost falls as the cut does.                                     *)
LEMMA CutIsCost ==
  ASSUME NEW p \in [Vertex -> Block], NEW u \in Vertex, NEW new \in Block, new # p[u],
         \A b \in Block \ {p[u], new} : D[b][p[u]] = D[b][new],
         D[new][new] = 0, D[p[u]][p[u]] = 0
  PROVE  CostFall(p, u, new)
           = D[p[u]][new] * (ConnWeight(p, u, new) - ConnWeight(p, u, p[u]))
<1> DEFINE old == p[u]
           d == D[old][new]
           g == EdgeGain(p, u, new)
           A == Into(p, u, new)
           B == Into(p, u, old)
           e == EdgeWeight[u]
           plus == [v \in Vertex |-> d * e[v]]
           less == [v \in Vertex |-> (-1) * d * e[v]]
<1>1. /\ old \in Block /\ d \in Int /\ D[new][old] = d /\ d \in Nat
      /\ \A v \in Vertex : e[v] \in Int
  BY DistancesSymmetric, Neighbourhoods
<1>2. /\ A \in SUBSET Vertex /\ B \in SUBSET Vertex /\ IsFiniteSet(A) /\ IsFiniteSet(B)
      /\ A \cap B = {}
  <2>1. A \subseteq Adj(u) /\ B \subseteq Adj(u) /\ IsFiniteSet(A) /\ IsFiniteSet(B)
    BY <1>1, ConnIsSum
  <2>2. A \cap B = {}
    BY DEF Into, Members
  <2>3. Adj(u) \subseteq Vertex
    BY Neighbourhoods
  <2> HIDE DEF A, B
  <2> QED BY <2>1, <2>2, <2>3
<1>3. /\ ConnWeight(p, u, new) = SumFunctionOnSet(e, A)
      /\ ConnWeight(p, u, old) = SumFunctionOnSet(e, B)
      /\ ConnWeight(p, u, new) \in Int /\ ConnWeight(p, u, old) \in Int
  BY <1>1, ConnIsSum
<1>4. \A v \in Vertex : g[v] \in Int /\ g[v] = e[v] * (D[p[v]][old] - D[p[v]][new])
  BY CostFallType DEF EdgeGain
<1>5. \A v \in A : g[v] = d * e[v]
  <2>1. \A v \in A : p[v] = new /\ v \in Vertex
    BY <1>2 DEF Into, Members
  <2>2. \A v \in A : g[v] = e[v] * (d - 0)
    BY <1>1, <1>4, <2>1
  <2> HIDE DEF d, g, A, e
  <2> QED BY <1>1, <2>1, <2>2
<1>6. \A v \in B : g[v] = (-1) * d * e[v]
  <2>1. \A v \in B : p[v] = old /\ v \in Vertex
    BY <1>2 DEF Into, Members
  <2>2. \A v \in B : g[v] = e[v] * (0 - d)
    BY <1>1, <1>4, <2>1
  <2> HIDE DEF d, g, B, e
  <2> QED BY <1>1, <2>1, <2>2
<1>7. ASSUME NEW v \in Vertex, v \notin A \cup B PROVE g[v] = 0
  <2>1. CASE v \in Adj(u)
    <3>1. p[v] \in Block /\ p[v] # old /\ p[v] # new
      BY <1>7, <2>1 DEF Into, Members
    <3>2. D[p[v]][old] = D[p[v]][new] /\ D[p[v]][old] \in Int
      BY <1>1, <3>1, DistancesSymmetric
    <3> QED BY <1>1, <1>4, <3>2
  <2>2. CASE v \notin Adj(u)
    <3>1. e[v] = 0
      BY <2>2, GraphAssumption DEF Adj
    <3>2. D[p[v]][old] \in Int /\ D[p[v]][new] \in Int
      BY <1>1, DistancesSymmetric
    <3> QED BY <1>4, <3>1, <3>2
  <2> QED BY <2>1, <2>2
<1>8. \A v \in Vertex : plus[v] = d * e[v] /\ less[v] = (-1) * d * e[v]
  OBVIOUS
<1>9. CostFall(p, u, new) = SumFunctionOnSet(g, Vertex)
  BY DEF CostFall
<1> HIDE DEF old, d, g, A, B, e, plus, less
<1>10. SumFunctionOnSet(g, Vertex) = SumFunctionOnSet(g, A \cup B)
  <2>1. A \cup B \in SUBSET Vertex /\ \A v \in Vertex \ (A \cup B) : g[v] = 0
    BY <1>2, <1>7
  <2> QED BY <1>4, <2>1, GraphAssumption, SumRestrict
<1>11. SumFunctionOnSet(g, A \cup B) = SumFunctionOnSet(g, A) + SumFunctionOnSet(g, B)
  BY <1>2, <1>4, SumUnion
<1>12. SumFunctionOnSet(g, A) = d * SumFunctionOnSet(e, A)
  BY <1>1, <1>2, <1>5, SumScale
<1>13. SumFunctionOnSet(g, B) = ((-1) * d) * SumFunctionOnSet(e, B)
  <2>1. (-1) * d \in Int /\ \A v \in B : e[v] \in Int /\ g[v] = ((-1) * d) * e[v]
    BY <1>1, <1>2, <1>6
  <2> QED BY <1>2, <2>1, SumScale
<1> DEFINE x == SumFunctionOnSet(e, A)
           y == SumFunctionOnSet(e, B)
<1>14. x \in Int /\ y \in Int /\ CostFall(p, u, new) = d * x + ((-1) * d) * y
  BY <1>3, <1>9, <1>10, <1>11, <1>12, <1>13
<1> HIDE DEF x, y
<1>15. d * x + ((-1) * d) * y = d * (x - y)
  BY <1>1, <1>14
<1> QED BY <1>3, <1>14, <1>15 DEF x, y, d, old

-----------------------------------------------------------------------------
(* Pairs that are far from each other in a graph n over a set B of blocks.  *)

MarksOf(B) == [d1 : SUBSET B, d2 : SUBSET B]

Symmetric(B, n) == \A x, y \in B : y \in n[x] => x \in n[y]

Closed(n, f) == f.d1 \subseteq f.d2 /\ \A x \in f.d1 : n[x] \subseteq f.d2

Expanded(n, f, x) == x \in f.d1 /\ n[x] \subseteq f.d1

(* The states of the loop over the candidates.                              *)
CallsOf(B) == [matching : SUBSET (B \X B), frozen : MarksOf(B), used : SUBSET (SUBSET B),
               next : Seq(B)]

(* Pairs are at distance 3, and whatever has a mark is near one of them.    *)
MarksInv(n, m) ==
  /\ Closed(n, m.frozen)
  /\ \A p \in m.matching : Expanded(n, m.frozen, p[1]) /\ Expanded(n, m.frozen, p[2])
  /\ DistanceThree(n, m.matching)
  /\ \A x \in m.frozen.d2 : \E p \in m.matching :
       x \in Within2(n, p[1]) \cup Within2(n, p[2])

(* Freezing one endpoint keeps the marks closed, expands the endpoint, and  *)
(* takes no mark away.                                                      *)
LEMMA FreezeEndpointKeeps ==
  ASSUME NEW B, NEW n \in [B -> SUBSET B], NEW f \in MarksOf(B), Closed(n, f),
         NEW x \in B
  PROVE  LET g == FreezeEndpoint(n, f, x)
         IN  /\ g \in MarksOf(B)
             /\ Closed(n, g)
             /\ Expanded(n, g, x)
             /\ f.d1 \subseteq g.d1 /\ f.d2 \subseteq g.d2
<1> DEFINE m == Mark(f, x)
           fresh == n[x] \ m.d1
           g == FreezeEndpoint(n, f, x)
<1>1. m = [d1 |-> f.d1 \cup {x}, d2 |-> f.d2 \cup {x}]
  BY DEF Mark
<1>2. fresh \subseteq B /\ \A y \in fresh : n[y] \subseteq B
  BY DEF MarksOf
<1>3. g = [d1 |-> m.d1 \cup fresh,
           d2 |-> m.d2 \cup fresh \cup UNION {n[y] : y \in fresh}]
  BY DEF FreezeEndpoint, FreezeFrom
<1> HIDE DEF g
<1>4. g.d1 = f.d1 \cup {x} \cup fresh
  BY <1>1, <1>3
<1>5. g.d2 = f.d2 \cup {x} \cup fresh \cup UNION {n[y] : y \in fresh}
  BY <1>1, <1>3
<1>6. n[x] \subseteq g.d1
  BY <1>1, <1>4
<1>7. g \in MarksOf(B)
  <2>1. UNION {n[y] : y \in fresh} \subseteq B
    BY <1>2
  <2>2. g.d1 \in SUBSET B /\ g.d2 \in SUBSET B
    BY <1>2, <1>4, <1>5, <2>1 DEF MarksOf
  <2> QED BY <1>3, <2>2 DEF MarksOf
<1>8. Closed(n, g)
  <2>1. g.d1 \subseteq g.d2
    BY <1>4, <1>5 DEF Closed
  <2>2. ASSUME NEW y \in g.d1 PROVE n[y] \subseteq g.d2
    <3>1. CASE y \in f.d1
      BY <3>1, <1>5 DEF Closed
    <3>2. CASE y = x
      BY <3>2, <1>6, <2>1
    <3>3. CASE y \in fresh
      BY <3>3, <1>5
    <3> QED BY <1>4, <3>1, <3>2, <3>3
  <2> QED BY <2>1, <2>2 DEF Closed
<1>9. f.d1 \subseteq g.d1 /\ f.d2 \subseteq g.d2
  BY <1>4, <1>5
<1>10. Expanded(n, g, x)
  BY <1>4, <1>6 DEF Expanded
<1> QED BY <1>7, <1>8, <1>9, <1>10 DEF g

(* A pair whose endpoints carry no mark is at distance 3 from every pair    *)
(* whose endpoints are expanded.                                            *)
LEMMA UnmarkedPairIsFar ==
  ASSUME NEW B, NEW n \in [B -> SUBSET B], Symmetric(B, n),
         NEW f \in MarksOf(B), Closed(n, f),
         NEW x \in B, Expanded(n, f, x),
         NEW u \in B, u \notin f.d2
  PROVE  u \notin Within2(n, x) /\ x \notin Within2(n, u)
<1>1. u \notin Within2(n, x)
  BY DEF Within2, Expanded, Closed
<1>2. x \in n[u] => u \in n[x]
  BY DEF Symmetric
<1>3. \A y \in n[u] : x \in n[y] => u \in n[y] /\ y \in n[x]
  BY DEF Symmetric
<1>4. x \notin Within2(n, u)
  BY <1>1, <1>2, <1>3 DEF Within2
<1> QED BY <1>1, <1>4

(* Both blocks of a new pair are expanded, and the new marks are near them. *)
LEMMA PairingKeeps ==
  ASSUME NEW B, NEW n \in [B -> SUBSET B], NEW f \in MarksOf(B), Closed(n, f),
         NEW u \in B, NEW v \in B
  PROVE  LET g == FreezeFrom(n, FreezeFrom(n, Mark(Mark(f, u), v), u), v)
         IN  /\ g \in MarksOf(B) /\ Closed(n, g) /\ Expanded(n, g, u) /\ Expanded(n, g, v)
             /\ f.d1 \subseteq g.d1 /\ f.d2 \cup {u, v} \subseteq g.d2
             /\ \A x \in g.d2 \ f.d2 : x \in Within2(n, u) \cup Within2(n, v)
<1> DEFINE marked == Mark(Mark(f, u), v)
           fresh == n[u] \ marked.d1
           once == FreezeFrom(n, marked, u)
           last == n[v] \ once.d1
           g == FreezeFrom(n, once, v)
<1>1. /\ marked.d1 = f.d1 \cup {u, v} /\ marked.d2 = f.d2 \cup {u, v}
      /\ once.d1 = marked.d1 \cup fresh
      /\ once.d2 = marked.d2 \cup fresh \cup UNION {n[y] : y \in fresh}
      /\ g = [d1 |-> once.d1 \cup last,
              d2 |-> once.d2 \cup last \cup UNION {n[y] : y \in last}]
  BY DEF Mark, FreezeFrom
<1>2. fresh \subseteq n[u] /\ last \subseteq n[v] /\ f.d1 \subseteq B /\ f.d2 \subseteq B
      /\ \A y \in B : n[y] \subseteq B
  BY DEF MarksOf
<1>3. n[u] \subseteq once.d1 /\ n[v] \subseteq once.d1 \cup last
  BY <1>1
<1> DEFINE two(S) == UNION {n[y] : y \in S}
<1> HIDE DEF marked, fresh, once, last, g
<1>4. /\ g.d1 = f.d1 \cup {u, v} \cup fresh \cup last
      /\ g.d2 = f.d2 \cup {u, v} \cup fresh \cup two(fresh) \cup last \cup two(last)
  <2>1. g.d1 = once.d1 \cup last /\ g.d2 = once.d2 \cup last \cup two(last)
    BY <1>1
  <2>2. once.d2 = marked.d2 \cup fresh \cup two(fresh)
    BY <1>1
  <2> HIDE DEF two
  <2> QED BY <1>1, <2>1, <2>2
<1>9. /\ \A y \in fresh : n[y] \subseteq two(fresh)
      /\ \A y \in last : n[y] \subseteq two(last)
      /\ \A x \in two(fresh) : \E y \in n[u] : x \in n[y]
      /\ \A x \in two(last) : \E y \in n[v] : x \in n[y]
  BY <1>2
<1> HIDE DEF two
<1>10. two(fresh) \subseteq B /\ two(last) \subseteq B
  BY <1>2, <1>9
<1>5. g \in MarksOf(B)
  <2>1. g.d1 \in SUBSET B /\ g.d2 \in SUBSET B
    BY <1>2, <1>4, <1>10
  <2> QED BY <1>1, <2>1 DEF MarksOf
<1>6. n[u] \subseteq g.d1 /\ n[v] \subseteq g.d1
  BY <1>1, <1>3, <1>4
<1>7. Closed(n, g)
  <2>1. g.d1 \subseteq g.d2
    BY <1>4 DEF Closed
  <2>2. ASSUME NEW y \in g.d1 PROVE n[y] \subseteq g.d2
    <3>1. CASE y \in f.d1
      BY <1>4, <3>1 DEF Closed
    <3>2. CASE y \in {u, v}
      BY <1>6, <2>1, <3>2
    <3>3. CASE y \in fresh \cup last
      BY <1>4, <1>9, <3>3
    <3> QED BY <1>4, <3>1, <3>2, <3>3
  <2> QED BY <2>1, <2>2 DEF Closed
<1>8. \A x \in g.d2 \ f.d2 : x \in Within2(n, u) \cup Within2(n, v)
  <2>1. TAKE x \in g.d2 \ f.d2
  <2>2. \/ x \in {u, v} \cup n[u] \cup n[v]
        \/ x \in two(fresh) \/ x \in two(last)
    BY <1>2, <1>4
  <2> QED BY <1>9, <2>2 DEF Within2
<1> QED BY <1>4, <1>5, <1>6, <1>7, <1>8 DEF Expanded, g, once, marked

(* The first element of a list that is in S.                                *)
LEMMA FirstInIsIn ==
  ASSUME NEW B, NEW list \in Seq(B), NEW S, S # {}, S \subseteq ToSet(list)
  PROVE  FirstIn(list, S) \in S
<1> DEFINE places == {k \in DOMAIN list : list[k] \in S}
<1>1. PICK k \in DOMAIN list : list[k] \in S
  BY DEF ToSet
<1>2. DOMAIN list = 1 .. Len(list) /\ Len(list) \in Nat
  OBVIOUS
<1>3. IsFiniteSet(1 .. Len(list))
  <2>1. 1 \in Int /\ Len(list) \in Int
    BY <1>2
  <2> QED BY <2>1, FS_Interval
<1>4. IsFiniteSet(places) /\ places \subseteq Int /\ places # {}
  <2>1. places \subseteq 1 .. Len(list) /\ places # {}
    BY <1>1, <1>2
  <2> QED BY <1>3, <2>1, FS_Subset
<1>5. Min(places) \in places
  <2> HIDE DEF places
  <2> QED BY <1>4, SmallestExists
<1> QED BY <1>5 DEF FirstIn

(* A block becomes a candidate of the next call, and nothing else changes.  *)
WithNext(B, m, x, k) ==
  /\ k \in CallsOf(B)
  /\ k.matching = m.matching /\ k.frozen = m.frozen /\ k.used = m.used
  /\ ToSet(m.next) \cup {x} \subseteq ToSet(k.next)

(* Adding a candidate keeps the pairs and the marks.                        *)
LEMMA AddToNextKeeps ==
  ASSUME NEW B, NEW m \in CallsOf(B), NEW x \in B
  PROVE  WithNext(B, m, x, AddToNext(m, x))
<1>1. m.next \in Seq(B)
  BY DEF CallsOf
<1>2. CASE Contains(m.next, x)
  <2>1. x \in ToSet(m.next)
    BY <1>1, <1>2 DEF Contains, ToSet
  <2> QED BY <1>2, <2>1 DEF AddToNext, WithNext
<1>3. CASE ~ Contains(m.next, x)
  <2> DEFINE longer == Append(m.next, x)
  <2>1. longer \in Seq(B) /\ Len(longer) = Len(m.next) + 1 /\ Len(m.next) \in Nat
        /\ longer[Len(longer)] = x /\ \A k \in 1 .. Len(m.next) : longer[k] = m.next[k]
    BY <1>1
  <2>2. AddToNext(m, x) = [m EXCEPT !.next = longer]
    BY <1>3 DEF AddToNext
  <2> HIDE DEF longer
  <2>3. \A y \in ToSet(m.next) : y \in ToSet(longer)
    BY <1>1, <2>1 DEF ToSet
  <2>4. x \in ToSet(longer)
    BY <2>1 DEF ToSet
  <2> QED BY <2>1, <2>2, <2>3, <2>4 DEF CallsOf, WithNext
<1> QED BY <1>2, <1>3

(* A graph over B and the lists of its neighbours.                          *)
Ordered(B, n, order) ==
  /\ n \in [B -> SUBSET B] /\ Symmetric(B, n)
  /\ \A x \in B : order[x] \in Seq(B) /\ ToSet(order[x]) = n[x]

(* What a visit of u makes of the call m: u is matched with a neighbour,    *)
(* stays a candidate, or has no edge left to match.                         *)
AfterVisit(B, n, m, u, unused, k) ==
  /\ k \in CallsOf(B) /\ MarksInv(n, k)
  /\ ToSet(m.next) \subseteq ToSet(k.next) /\ m.frozen.d2 \subseteq k.frozen.d2
  /\ \/ /\ k.matching = m.matching /\ k.used = m.used
        /\ unused # {} => u \in ToSet(k.next)
        /\ u \in k.frozen.d2 \/ unused \subseteq k.frozen.d2
     \/ \E v \in unused :
          /\ k.matching = m.matching \cup {<<u, v>>}
          /\ k.used = m.used \cup {{u, v}}
          /\ u \in ToSet(k.next) /\ u \in k.frozen.d2

(* One candidate of find_matching is matched, stays one, or has nothing left.*)
LEMMA CandidateVisited ==
  ASSUME NEW B, NEW n, NEW order, Ordered(B, n, order),
         NEW act, NEW m \in CallsOf(B), MarksInv(n, m), NEW u \in B
  PROVE  AfterVisit(B, n, m, u, Unused(order, act, m, u), VisitCandidate(n, order, act, m, u))
<1> DEFINE list == order[u]
           unused == Unused(order, act, m, u)
           open == unused \ m.frozen.d2
           v == FirstIn(list, open)
           g == FreezeFrom(n, FreezeFrom(n, Mark(Mark(m.frozen, u), v), u), v)
           paired == [m EXCEPT !.matching = @ \cup {<<u, v>>}, !.used = @ \cup {{u, v}},
                               !.frozen = g]
           k == VisitCandidate(n, order, act, m, u)
<1> SUFFICES AfterVisit(B, n, m, u, unused, k)
  OBVIOUS
<1>1. /\ m.frozen \in MarksOf(B) /\ m.matching \subseteq B \X B
      /\ m.used \in SUBSET (SUBSET B) /\ m.next \in Seq(B)
      /\ n \in [B -> SUBSET B] /\ Symmetric(B, n)
  BY DEF CallsOf, Ordered
<1>2. list \in Seq(B) /\ unused \subseteq ToSet(list) /\ ToSet(list) = n[u]
  BY DEF Unused, Ordered
<1>3. k = CASE u \in m.frozen.d2 -> AddToNext(m, u)
            [] u \notin m.frozen.d2 /\ open # {} -> AddToNext(AddToNext(paired, u), v)
            [] u \notin m.frozen.d2 /\ open = {} /\ unused # {} -> AddToNext(m, u)
            [] OTHER -> m
  BY DEF VisitCandidate
<1> HIDE DEF k, list
<1>4. CASE u \in m.frozen.d2 \/ (open = {} /\ unused # {})
  <2>1. k = AddToNext(m, u)
    <3> HIDE DEF unused, open, v, g, paired
    <3> QED BY <1>3, <1>4
  <2>2. /\ k \in CallsOf(B) /\ k.matching = m.matching /\ k.frozen = m.frozen
        /\ k.used = m.used /\ ToSet(m.next) \cup {u} \subseteq ToSet(k.next)
    <3>1. WithNext(B, m, u, k)
      BY <2>1, AddToNextKeeps
    <3> QED BY <3>1 DEF WithNext
  <2>3. MarksInv(n, k)
    BY <2>2 DEF MarksInv
  <2>4. u \in k.frozen.d2 \/ unused \subseteq k.frozen.d2
    <3> HIDE DEF unused
    <3> QED BY <1>4, <2>2
  <2> HIDE DEF unused
  <2> QED BY <2>2, <2>3, <2>4 DEF AfterVisit
<1>5. CASE u \notin m.frozen.d2 /\ unused = {}
  <2>1. k = m
    <3> HIDE DEF unused, v, g, paired
    <3> QED BY <1>3, <1>5
  <2> HIDE DEF unused
  <2> QED BY <1>5, <2>1 DEF AfterVisit
<1>6. CASE u \notin m.frozen.d2 /\ open # {}
  <2>1. k = AddToNext(AddToNext(paired, u), v)
    <3> HIDE DEF unused, open, v, g, paired
    <3> QED BY <1>3, <1>6
  <2>2. v \in open
    <3>1. open # {} /\ open \subseteq ToSet(list)
      BY <1>2, <1>6
    <3> HIDE DEF open
    <3> QED BY <1>2, <3>1, FirstInIsIn
  <2>3. v \in unused /\ v \notin m.frozen.d2
    BY <2>2
  <2> HIDE DEF v, unused
  <2>4. v \in n[u]
    BY <1>2, <2>3
  <2>b. v \in B
    BY <1>1, <2>4
  <2>5. /\ g \in MarksOf(B) /\ Closed(n, g) /\ Expanded(n, g, u) /\ Expanded(n, g, v)
        /\ m.frozen.d1 \subseteq g.d1 /\ m.frozen.d2 \cup {u, v} \subseteq g.d2
        /\ \A x \in g.d2 \ m.frozen.d2 : x \in Within2(n, u) \cup Within2(n, v)
    <3>1. Closed(n, m.frozen)
      BY DEF MarksInv
    <3>2. n \in [B -> SUBSET B] /\ m.frozen \in MarksOf(B)
      BY <1>1
    <3> QED BY <2>b, <3>1, <3>2, PairingKeeps
  <2> HIDE DEF g
  <2>6. /\ paired \in CallsOf(B) /\ paired.matching = m.matching \cup {<<u, v>>}
        /\ paired.used = m.used \cup {{u, v}} /\ paired.frozen = g /\ paired.next = m.next
    <3>1. /\ m.matching \cup {<<u, v>>} \in SUBSET (B \X B)
          /\ m.used \cup {{u, v}} \in SUBSET (SUBSET B)
      BY <1>1, <2>b
    <3>2. /\ paired.matching = m.matching \cup {<<u, v>>} /\ paired.frozen = g
          /\ paired.used = m.used \cup {{u, v}} /\ paired.next = m.next
      BY <1>1 DEF CallsOf
    <3>3. paired \in CallsOf(B)
      BY <1>1, <2>5, <3>1 DEF CallsOf
    <3> QED BY <3>2, <3>3
  <2> HIDE DEF paired
  <2> DEFINE first == AddToNext(paired, u)
  <2>7. /\ first \in CallsOf(B) /\ first.matching = paired.matching /\ first.frozen = g
        /\ first.used = paired.used /\ ToSet(paired.next) \cup {u} \subseteq ToSet(first.next)
    <3>1. WithNext(B, paired, u, first)
      BY <2>6, AddToNextKeeps
    <3> QED BY <2>6, <3>1 DEF WithNext
  <2>8. k = AddToNext(first, v)
    BY <2>1
  <2> HIDE DEF first
  <2>9. /\ k \in CallsOf(B) /\ k.matching = m.matching \cup {<<u, v>>} /\ k.frozen = g
        /\ k.used = m.used \cup {{u, v}} /\ ToSet(m.next) \cup {u} \subseteq ToSet(k.next)
    <3>1. /\ k \in CallsOf(B) /\ k.matching = first.matching /\ k.frozen = first.frozen
          /\ k.used = first.used /\ ToSet(first.next) \cup {v} \subseteq ToSet(k.next)
      <4>1. WithNext(B, first, v, k)
        BY <2>b, <2>7, <2>8, AddToNextKeeps
      <4> QED BY <4>1 DEF WithNext
    <3> QED BY <2>6, <2>7, <3>1
  <2>10. \A p \in m.matching : /\ p[1] \in B /\ p[2] \in B
                                /\ Expanded(n, m.frozen, p[1]) /\ Expanded(n, m.frozen, p[2])
    BY <1>1 DEF MarksInv
  <2>11. ASSUME NEW p \in m.matching, NEW x \in {p[1], p[2]}, NEW y \in {u, v}
         PROVE  y \notin Within2(n, x) /\ x \notin Within2(n, y)
    <3>1. x \in B /\ Expanded(n, m.frozen, x)
      BY <2>10
    <3>2. y \in B /\ y \notin m.frozen.d2
      BY <1>6, <2>3, <2>b
    <3>3. Closed(n, m.frozen)
      BY DEF MarksInv
    <3> QED BY <1>1, <3>1, <3>2, <3>3, UnmarkedPairIsFar
  <2>12. DistanceThree(n, k.matching)
    <3>1. DistanceThree(n, m.matching)
      BY DEF MarksInv
    <3> QED BY <2>9, <2>11, <3>1 DEF DistanceThree
  <2>13. \A p \in k.matching : Expanded(n, g, p[1]) /\ Expanded(n, g, p[2])
    <3>1. ASSUME NEW p \in m.matching PROVE Expanded(n, g, p[1]) /\ Expanded(n, g, p[2])
      BY <2>5, <2>10 DEF Expanded
    <3> QED BY <2>5, <2>9, <3>1
  <2>14. ASSUME NEW x \in g.d2
         PROVE  \E p \in k.matching : x \in Within2(n, p[1]) \cup Within2(n, p[2])
    <3>1. CASE x \in m.frozen.d2
      BY <2>9, <3>1 DEF MarksInv
    <3>2. CASE x \notin m.frozen.d2
      <4>1. <<u, v>> \in k.matching /\ x \in Within2(n, u) \cup Within2(n, v)
        BY <2>5, <2>9, <3>2
      <4> QED BY <4>1
    <3> QED BY <3>1, <3>2
  <2>15. MarksInv(n, k)
    BY <2>5, <2>9, <2>12, <2>13, <2>14 DEF MarksInv
  <2> QED BY <2>3, <2>5, <2>9, <2>15 DEF AfterVisit
<1> QED BY <1>4, <1>5, <1>6

(* A fold over any sequence visits its elements.                            *)
LEMMA FoldOrder ==
  ASSUME NEW S, NEW l \in Seq(S)
  PROVE  /\ Len(l) \in Nat /\ DOMAIN l = 1 .. Len(l)
         /\ Indices(Len(l)) = SUBSET (DOMAIN l)
         /\ {} \in Indices(Len(l)) /\ DOMAIN l \in Indices(Len(l))
         /\ \A s \in Indices(Len(l)) : s # {} =>
              Earlier(s) \in Indices(Len(l)) /\ LastVisited(l, s) \in S
<1>1. Len(l) \in Nat /\ DOMAIN l = 1 .. Len(l) /\ \A i \in 1 .. Len(l) : l[i] \in S
  OBVIOUS
<1> DEFINE n == Len(l)
<1> HIDE DEF n
<1>2. \A s \in Indices(n) : s # {} => Earlier(s) \in Indices(n) /\ Max(s) \in 1 .. n
  BY <1>1, LastIndex DEF n
<1> QED BY <1>1, <1>2 DEF n, Indices, LastVisited

(* find_matching returns a distance-3 matching whose pairs point upwards,   *)
(* and blocks to try next.                                                  *)
Found(B, n) ==
  {m \in CallsOf(B) : MarksInv(n, m) /\ \A p \in m.matching : p[2] \in n[p[1]] /\ p[1] < p[2]}

(* Visiting a candidate keeps what find_matching promises.                  *)
LEMMA VisitFinds ==
  ASSUME NEW B, NEW n, NEW order, Ordered(B, n, order), NEW act, NEW m \in Found(B, n), NEW u \in B
  PROVE  VisitCandidate(n, order, act, m, u) \in Found(B, n)
<1> DEFINE k == VisitCandidate(n, order, act, m, u)
           unused == Unused(order, act, m, u)
<1>1. m \in CallsOf(B) /\ MarksInv(n, m)
  BY DEF Found
<1>2. /\ k \in CallsOf(B) /\ MarksInv(n, k)
      /\ \/ k.matching = m.matching
         \/ \E v \in unused : k.matching = m.matching \cup {<<u, v>>}
  <2>1. AfterVisit(B, n, m, u, unused, k)
    BY <1>1, CandidateVisited
  <2> HIDE DEF k, unused
  <2> QED BY <2>1 DEF AfterVisit
<1>3. \A v \in unused : v \in n[u] /\ u < v
  BY DEF Unused, Valid, Ordered
<1> HIDE DEF k, unused
<1>4. \A p \in k.matching : p[2] \in n[p[1]] /\ p[1] < p[2]
  BY <1>2, <1>3 DEF Found
<1> QED BY <1>2, <1>4 DEF Found, k

(* The loop over the candidates keeps what one candidate keeps.             *)
LEMMA CallFinds ==
  ASSUME NEW B, NEW n, NEW order, Ordered(B, n, order),
         NEW act, NEW cand \in Seq(B), NEW used \in SUBSET (SUBSET B)
  PROVE  FindMatching(n, order, act, cand, used) \in Found(B, n)
<1> DEFINE l == cand
           len == Len(l)
           dom == DOMAIN l
           F == Found(B, n)
           start == StartCall(used)
           A(h) == [s \in SUBSET dom |->
                      IF s = {} THEN start
                      ELSE VisitCandidate(n, order, act, h[s \ {Max(s)}], l[Max(s)])]
           iter == CHOOSE h : h = A(h)
           found == FoldLeft(LAMBDA m, u : VisitCandidate(n, order, act, m, u), start, l)
           X == [s \in Indices(len) |-> F]
           Body == [s \in Indices(len) |-> [c \in F |->
                      VisitCandidate(n, order, act, c, LastVisited(l, s))]]
<1>0. found = iter[dom]
  BY DEF FoldLeft, MapThenFoldSet
<1>a. FindMatching(n, order, act, cand, used) = found
  BY DEF FindMatching
<1> HIDE DEF found
<1>1. /\ len \in Nat /\ dom = 1 .. len
      /\ Indices(len) = SUBSET dom /\ {} \in Indices(len) /\ dom \in Indices(len)
      /\ \A s \in Indices(len) : s # {} => Earlier(s) \in Indices(len) /\ LastVisited(l, s) \in B
  BY FoldOrder
<1> HIDE DEF len, dom, l
<1>2. start \in F
  <2>1. <<>> \in Seq(B)
    OBVIOUS
  <2>2. start = [matching |-> {}, frozen |-> [d1 |-> {}, d2 |-> {}], used |-> used, next |-> <<>>]
    BY DEF StartCall, NothingFrozen
  <2> HIDE DEF start
  <2>3. start \in CallsOf(B)
    BY <2>1, <2>2 DEF CallsOf, MarksOf
  <2>4. MarksInv(n, start)
    BY <2>2 DEF MarksInv, Closed, DistanceThree
  <2> QED BY <2>2, <2>3, <2>4 DEF Found
<1> HIDE DEF start
<1>3. ASSUME NEW s \in Indices(len), s # {}, NEW c \in F
      PROVE  VisitCandidate(n, order, act, c, LastVisited(l, s)) \in F
  BY <1>1, <1>3, VisitFinds
<1> HIDE DEF F
<1>4. StaysIn(X, Body, start, len)
  BY <1>1, <1>2, <1>3 DEF StaysIn
<1>5. PICK g : IsFold(g, Body, start, len)
  BY <1>1, FoldExists
<1>6. \A s \in Indices(len) : g[s] \in F
  <2>1. \A s \in Indices(len) : g[s] \in X[s]
    <3> HIDE DEF X, Body
    <3> QED BY <1>1, <1>4, <1>5, FoldReaches
  <2> QED BY <2>1
<1>7. g = A(g)
  <2>1. ASSUME NEW s \in Indices(len), s # {}
        PROVE  g[s] = VisitCandidate(n, order, act, g[s \ {Max(s)}], l[Max(s)])
    <3>1. g[s] = Body[s][g[Earlier(s)]] /\ g[Earlier(s)] \in F
      BY <1>1, <1>5, <1>6, <2>1 DEF IsFold
    <3>2. g[s] = VisitCandidate(n, order, act, g[Earlier(s)], LastVisited(l, s))
      BY <3>1
    <3> QED BY <3>2 DEF Earlier, LastVisited
  <2>2. g = [s \in Indices(len) |-> g[s]] /\ g[{}] = start
    BY <1>5 DEF IsFold
  <2>3. \A s \in Indices(len) : g[s] = IF s = {} THEN start
                      ELSE VisitCandidate(n, order, act, g[s \ {Max(s)}], l[Max(s)])
    BY <2>1, <2>2
  <2> QED BY <1>1, <2>2, <2>3
<1>8. iter = A(iter)
  BY <1>7
<1> HIDE DEF iter
<1>9. iter[{}] = start
  BY <1>1, <1>8
<1>10. \A s \in Indices(len) : s # {} =>
         iter[s] = VisitCandidate(n, order, act, iter[Earlier(s)], LastVisited(l, s))
  BY <1>1, <1>8 DEF Earlier, LastVisited
<1> DEFINE Q == {s \in Indices(len) : iter[s] \in F}
<1>11. {} \in Q
  BY <1>1, <1>2, <1>9
<1>12. ASSUME NEW s \in Indices(len), s # {}, Earlier(s) \in Q PROVE s \in Q
  BY <1>3, <1>10, <1>12
<1>13. \A s \in Indices(len) : s \in Q
  <2> HIDE DEF Q
  <2> QED BY <1>1, <1>11, <1>12, IndexInduction
<1> QED BY <1>0, <1>a, <1>1, <1>13 DEF F

(* The pairs that find_matching returns are pairs of blocks.                *)
BlockPairs == {p \in Block \X Block : p[1] # p[2]}

(* The quotient graph as the matcher walks it.                              *)
LEMMA QuotientOrdered ==
  ASSUME partition \in [Vertex -> Block], QInv(partition, q), halfEdges \in Int,
         NEW n, n = [x \in Block |-> QNeighbours(x)],
         NEW order, order = [x \in Block |-> QOrder(x)]
  PROVE  Ordered(Block, n, order)
<1>1. \A x \in Block : QNeighbours(x) = QuotientNeighbours(partition, x)
  BY QInvSuffices DEF CorrectQuotientGraph
<1>2. \A x \in Block : QNeighbours(x) \subseteq Block
  BY <1>1 DEF QuotientNeighbours
<1>3. ASSUME NEW x \in Block PROVE QOrder(x) \in Seq(Block)
  <2> DEFINE held == {i \in DOMAIN QListFrom(x) : QListFrom(x)[i] # NoEdge}
             deg == Cardinality(held)
  <2>1. deg \in Nat
    <3>1. Cardinality(Block) \in Nat
      BY GraphAssumption, FS_CardinalityType
    <3>2. DOMAIN QListFrom(x) = 0 .. Cardinality(Block)
      <4>1. PICK L : Chain(q, x, L, LinksOf(q.weight)[x])
        BY DEF QInv, Sound, Threaded
      <4> QED BY <4>1, ListFollowed
    <3>3. IsFiniteSet(0 .. Cardinality(Block))
      BY <3>1, FS_Interval
    <3>4. held \in SUBSET (0 .. Cardinality(Block))
      BY <3>2
    <3>5. IsFiniteSet(held)
      BY <3>3, <3>4, FS_Subset
    <3> QED BY <3>5, FS_CardinalityType
  <2>2. QOrder(x) = [i \in 1 .. deg |-> CHOOSE y \in QListFrom(x)[i - 1] : y # x]
    BY DEF QOrder
  <2> HIDE DEF deg
  <2>3. \A i \in 1 .. deg : QOrder(x)[i] \in QNeighbours(x)
    BY <2>2 DEF QNeighbours, ToSet
  <2>4. \A i \in 1 .. deg : QOrder(x)[i] \in Block
    BY <1>2, <2>3
  <2> DEFINE o == QOrder(x)
  <2>5. o = [i \in 1 .. deg |-> o[i]]
    BY <2>2
  <2>6. \A i \in 1 .. deg : o[i] \in Block
    BY <2>4
  <2> HIDE DEF o
  <2>7. o \in Seq(Block)
    BY <2>1, <2>5, <2>6
  <2> QED BY <2>7 DEF o
<1>4. ASSUME NEW x \in Block, NEW y \in Block, y \in QuotientNeighbours(partition, x)
      PROVE  x \in QuotientNeighbours(partition, y)
  <2>0. PICK u \in Members(partition, x) : y \in ConnectedBlocks(partition, u) /\ y # x
    BY <1>4 DEF QuotientNeighbours
  <2>1. PICK v \in Adj(u) : y = partition[v]
    BY <2>0 DEF ConnectedBlocks
  <2>2. u \in Vertex /\ partition[u] = x /\ v \in Vertex /\ u \in Adj(v)
    BY <2>0, <2>1, Neighbourhoods DEF Members
  <2> QED BY <2>0, <2>1, <2>2 DEF QuotientNeighbours, ConnectedBlocks, Members
<1>5. n \in [Block -> SUBSET Block] /\ Symmetric(Block, n)
  BY <1>1, <1>2, <1>4 DEF Symmetric
<1>6. \A x \in Block : order[x] \in Seq(Block) /\ ToSet(order[x]) = n[x]
  BY <1>3 DEF QNeighbours
<1> QED BY <1>5, <1>6 DEF Ordered
=============================================================================
