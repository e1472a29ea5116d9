-------------------------- MODULE RefinementProofs --------------------------
(***************************************************************************)
(* Proofs about the refinements that move vertices with the four           *)
(* structures, and about the matching of the k-way partitioner.            *)
(*                                                                         *)
(* LabelPropagation: the gain read from the slots of block_conn is the fall*)
(* of the communication cost, and the incremental weights are the weights  *)
(* of the blocks; every move of a sweep therefore fits and does not raise  *)
(* the cost.                                                               *)
(*                                                                         *)
(* QuotientRefinement: trial moves change p_manager only. What relates it  *)
(* to the other structures meanwhile is the list of moves: the partition is*)
(* the one before the search, with the vertices of the list on the other   *)
(* side. Taking them back therefore ends where the other structures are.   *)
(* Every gain on top of a heap is exact, although gains of vertices below it*)
(* may be old, so the cost falls by what the gains add up to.              *)
(*                                                                         *)
(* Rebalancer: every entry of the queue that still counts has the gain its  *)
(* move has now, and a round that has not moved anything still holds all it *)
(* began with.                                                             *)
(*                                                                         *)
(* KWayMatching: whatever the passes over two hops choose, a matching only *)
(* grows; the vertices left alone are light and the counter counts them.   *)
(* Pairs are numbered by their smaller vertices, which makes the coarse    *)
(* graph weigh what it stands for.                                         *)
(***************************************************************************)
EXTENDS LabelPropagation, Rebalancer, QuotientRefinement, KWayMatching, BlockStructuresProofs

-----------------------------------------------------------------------------
(* Label propagation.                                                       *)

(* What a sweep keeps of the structures it moves with.                      *)
SweepInv ==
  /\ PmInv(partition, bweights, nVertices)
  /\ conn = [v \in Vertex |-> conn[v]] /\ BcInv(partition, conn)
  /\ cursor \in Nat \ {0}
  /\ iteration \in Nat /\ iteration < MaxSweeps

(* Label propagation starts with right structures.                          *)
LEMMA SweepInvInit == InitLP => SweepInv
<1> SUFFICES ASSUME InitLP PROVE SweepInv
  OBVIOUS
<1>1. PICK p \in [Vertex -> Block] : StructFromScratch(p)
  BY DEF InitLP, StructInit
<1>2. PmInv(partition, bweights, nVertices) /\ partition = p
  BY <1>1, PmFromScratch DEF StructFromScratch
<1>3. conn = BcFromScratch(p)
  BY <1>1 DEF StructFromScratch
<1>4. BcInv(partition, conn)
  BY <1>2, <1>3, BcFromScratchRight
<1>5. conn = [v \in Vertex |-> conn[v]]
  BY <1>3 DEF BcFromScratch
<1> QED BY <1>2, <1>4, <1>5, MaxSweepsAssumption DEF InitLP, SweepInv

(* A move to a best target keeps the invariant, the capacity of the target  *)
(* and does not raise the cost.                                             *)
LEMMA SweepMoves ==
  ASSUME SweepInv, MoveToBest
  PROVE  /\ SweepInv'
         /\ iteration' = iteration
         /\ \E u \in Vertex, b \in Block :
              /\ b # partition[u]
              /\ partition' = [partition EXCEPT ![u] = b]
              /\ BlockWeight(partition', b) <= Lmax[b]
              /\ Qap(partition') <= Qap(partition)
<1>1. /\ PmInv(partition, bweights, nVertices) /\ partition \in [Vertex -> Block]
      /\ conn = [v \in Vertex |-> conn[v]] /\ BcInv(partition, conn)
      /\ cursor \in Nat \ {0}
      /\ iteration \in Nat /\ iteration < MaxSweeps
  BY DEF SweepInv, PmInv
<1> DEFINE u == Current
           old == partition[u]
<1>2. u \in Vertex
  <2>1. AllVertices \in Seq(Vertex)
    BY Listings DEF IsListing
  <2>2. cursor \in 1 .. Len(AllVertices)
    BY <1>1, <2>1 DEF MoveToBest, Sweeping
  <2> QED BY <2>1, <2>2 DEF Current
<1>3. Represents(conn[u], Conns(partition, u))
  BY <1>1, <1>2 DEF BcInv
<1>4. PICK b \in BestTargets(u) : Gain(u, b) >= 0 /\ ApplyMove(u, old, b)
  BY DEF MoveToBest
<1>5. b \in Block /\ b # old /\ Fits(u, b)
  <2>1. b \in Targets(u) /\ b # old /\ Fits(u, b)
    BY <1>4 DEF BestTargets, Feasible
  <2>2. Targets(u) \subseteq Block
    BY <1>3, EntriesRepresented DEF Targets, Entries
  <2> QED BY <2>1, <2>2
<1>6. iteration' = iteration /\ cursor' = cursor + 1
  BY DEF MoveToBest
<1>7. BcMove(u, old, b) /\ PmMove(u, old, b)
  BY <1>4 DEF ApplyMove
<1>8. Gain(u, b) = CostFall(partition, u, b)
  BY <1>1, <1>2, <1>3, <1>5, GainFromSlots DEF Gain
<1> HIDE DEF u
<1>9. /\ PmInv(partition', bweights', nVertices')
      /\ partition' = Moved(partition, u, b)
      /\ bweights'[b] = bweights[b] + VertexWeight[u]
  BY <1>1, <1>2, <1>5, <1>7, PmMoveKeeps
<1>10. BcInv(partition', conn')
  BY <1>1, <1>2, <1>5, <1>7, <1>9, BcMoveKeeps
<1>11. conn' = [v \in Vertex |-> conn'[v]]
  BY <1>7 DEF BcMove
<1>12. SweepInv'
  BY <1>1, <1>6, <1>9, <1>10, <1>11 DEF SweepInv
<1>13. BlockWeight(partition', b) <= Lmax[b]
  BY <1>5, <1>9 DEF PmInv, Fits
<1>14. Qap(partition') = Qap(partition) - 2 * CostFall(partition, u, b)
  BY <1>1, <1>2, <1>5, <1>9, QapMoved
<1>15. Qap(partition) \in Int
  <2>1. Qap(partition) = SumFunctionOnSet(Row(partition), Vertex)
    BY <1>1, QapIsSum
  <2>2. \A x \in Vertex : Row(partition)[x] \in Int
    BY <1>1, RowIsSum
  <2>3. IsFiniteSet(Vertex)
    BY GraphAssumption
  <2> QED BY <2>1, <2>2, <2>3, SumType
<1>16. CostFall(partition, u, b) \in Int
  BY <1>1, <1>2, <1>5, CostFallType
<1>17. Qap(partition') <= Qap(partition)
  BY <1>4, <1>8, <1>14, <1>15, <1>16 DEF u
<1>18. partition' = [partition EXCEPT ![u] = b]
  BY <1>9 DEF Moved
<1> QED BY <1>2, <1>5, <1>6, <1>12, <1>13, <1>17, <1>18

(* Every step of the sweeps keeps SweepInv.                                 *)
LEMMA SweepInvNext == SweepInv /\ [NextLP]_lpVars => SweepInv'
<1> SUFFICES ASSUME SweepInv, [NextLP]_lpVars PROVE SweepInv'
  OBVIOUS
<1>1. CASE MoveToBest
  BY <1>1, SweepMoves
<1>2. CASE Stay
  BY <1>2 DEF SweepInv, Stay, structVars, BcInv, PmInv
<1>3. CASE NextSweep
  BY <1>3, MaxSweepsAssumption DEF SweepInv, NextSweep, structVars, BcInv, PmInv
<1>4. CASE UNCHANGED lpVars
  BY <1>4 DEF SweepInv, lpVars, structVars, BcInv, PmInv
<1> QED BY <1>1, <1>2, <1>3, <1>4 DEF NextLP

(* MonotoneMoves is instantiated with the same weights and the same cost.   *)
LEMMA ShownQuantities ==
  ASSUME NEW p, NEW b
  PROVE  Shown!BlockWeight(p, b) = BlockWeight(p, b) /\ Shown!Qap(p) = Qap(p)
<1>1. Shown!BlockWeight(p, b) = BlockWeight(p, b)
  BY DEF Shown!BlockWeight, BlockWeight, Shown!Members, Members,
         Shown!MapThenSumSet, MapThenSumSet, Shown!MapThenFoldSet, MapThenFoldSet
<1>2. Shown!Qap(p) = Qap(p)
  BY DEF Shown!Qap, Qap, Shown!AllVertices, AllVertices, Shown!Adj, Adj, Shown!Ascending, Ascending,
         Shown!MapThenSumSet, MapThenSumSet, Shown!MapThenFoldSet, MapThenFoldSet,
         Shown!Cardinality, Cardinality
<1> QED BY <1>1, <1>2

(* Label propagation implements MonotoneMoves.                              *)
THEOREM SweepsAreMonotone == SpecLP => ImplementsMonotoneMoves
<1> DEFINE shown == IF AtWill THEN [v \in Vertex |-> 0] ELSE partition
<1>1. InitLP => SweepInv
  BY SweepInvInit
<1>2. SweepInv /\ [NextLP]_lpVars => SweepInv'
  BY SweepInvNext
<1>3. InitLP => Shown!Init
  <2> SUFFICES ASSUME InitLP PROVE Shown!Init
    OBVIOUS
  <2>1. SweepInv
    BY SweepInvInit
  <2>2. ~ AtWill /\ partition \in [Vertex -> Block]
    BY <2>1, MaxSweepsAssumption DEF SweepInv, PmInv, AtWill
  <2> QED BY <2>2 DEF Shown!Init
<1>4. SweepInv /\ SweepInv' /\ [NextLP]_lpVars => [Shown!Next]_shown
  <2> SUFFICES ASSUME SweepInv, SweepInv', [NextLP]_lpVars PROVE [Shown!Next]_shown
    OBVIOUS
  <2>1. shown = partition /\ shown' = partition'
    BY MaxSweepsAssumption DEF SweepInv, AtWill
  <2>2. CASE MoveToBest
    <3>1. PICK u \in Vertex, b \in Block :
              /\ b # partition[u]
              /\ partition' = [partition EXCEPT ![u] = b]
              /\ BlockWeight(partition', b) <= Lmax[b]
              /\ Qap(partition') <= Qap(partition)
      BY <2>2, SweepMoves
    <3>2. Shown!Move(u, b) /\ b # shown[u]
      <4>1. Shown!BlockWeight(shown', b) <= Lmax[b] /\ Shown!Qap(shown') <= Shown!Qap(shown)
        BY <2>1, <3>1, ShownQuantities
      <4>2. shown' = [shown EXCEPT ![u] = b] /\ b # shown[u]
        BY <2>1, <3>1
      <4> QED BY <4>1, <4>2 DEF Shown!Move
    <3> QED BY <3>2 DEF Shown!Next
  <2>3. CASE partition' = partition
    BY <2>1, <2>3
  <2>4. Stay \/ NextSweep \/ UNCHANGED lpVars => partition' = partition
    BY DEF Stay, NextSweep, lpVars, structVars
  <2> QED BY <2>2, <2>3, <2>4 DEF NextLP
<1> QED BY <1>1, <1>2, <1>3, <1>4, PTL DEF SpecLP, ImplementsMonotoneMoves, Shown!Spec

-----------------------------------------------------------------------------
(* The iterations of find_matching.                                         *)

(* The candidates of an iteration are blocks.                               *)
LEMMA FreshBlocks ==
  ASSUME NEW act
  PROVE  Fresh(act) \in Seq(Block)
<1> DEFINE C == Candidates(Lists, act)
<1>1. C \in SUBSET Block
  BY DEF Candidates, Lists
<1> HIDE DEF C
<1>2. C \subseteq Int /\ IsFiniteSet(C)
  <2>1. IsFiniteSet(C)
    BY <1>1, GraphAssumption, FS_Subset
  <2> QED BY <1>1, <2>1, GraphAssumption
<1>3. Ascending(C) \in Seq(C)
  BY <1>2, AscendingLists
<1> QED BY <1>1, <1>3 DEF Fresh, C

-----------------------------------------------------------------------------
(* Gains computed from the edges.                                           *)

(* The gain computed from the edges is that of the mapping's cost.          *)
LEMMA CostGainIsFall ==
  ASSUME NEW p \in [Vertex -> Block], NEW u \in Vertex, NEW new \in Block
  PROVE  CostGain(p, u, p[u], new) = CostFall(p, u, new)
<1> DEFINE S == Adj(u)
           f == EdgeGain(p, u, new)
           A(h) == [s \in SUBSET S |-> IF s = {} THEN 0 ELSE f[Pick(s)] + h[s \ {Pick(s)}]]
           B(h) == [s \in SUBSET S |-> IF s = {} THEN 0
                      ELSE EdgeWeight[u][Pick(s)] * (D[p[Pick(s)]][p[u]] - D[p[Pick(s)]][new])
                           + h[s \ {Pick(s)}]]
<1>1. SumFunctionOnSet(f, S) = (CHOOSE h : h = A(h))[S]
  BY DEF SumFunctionOnSet, FoldFunctionOnSet, MapThenFoldSet, Pick
<1>2. CostGain(p, u, p[u], new) = (CHOOSE h : h = B(h))[S]
  BY DEF CostGain, MapThenSumSet, MapThenFoldSet, Pick
<1>3. \A s \in SUBSET S : s # {} => Pick(s) \in s
  BY DEF Pick
<1>4. S \subseteq Vertex
  BY Neighbourhoods
<1>5. \A h : A(h) = B(h)
  BY <1>3, <1>4 DEF EdgeGain
<1> HIDE DEF A, B
<1>6. (CHOOSE h : h = A(h)) = (CHOOSE h : h = B(h))
  BY <1>5
<1>7. CostGain(p, u, p[u], new) = SumFunctionOnSet(f, S)
  BY <1>1, <1>2, <1>6
<1>8. \A v \in Vertex : f[v] \in Int
  BY CostFallType
<1>9. \A v \in Vertex \ S : f[v] = 0
  <2>1. \A v \in Vertex \ S : EdgeWeight[u][v] = 0
    <3>1. \A v \in Vertex : EdgeWeight[u][v] \in Nat
      BY Neighbourhoods
    <3> QED BY <3>1 DEF Adj
  <2>2. \A v \in Vertex : D[p[v]][p[u]] \in Int /\ D[p[v]][new] \in Int
    BY DistancesSymmetric
  <2> QED BY <2>1, <2>2 DEF EdgeGain
<1>10. SumFunctionOnSet(f, Vertex) = SumFunctionOnSet(f, S)
  <2>1. S \in SUBSET Vertex /\ IsFiniteSet(Vertex)
    BY <1>4, GraphAssumption
  <2> HIDE DEF f, S
  <2> QED BY <1>8, <1>9, <2>1, SumRestrict
<1> QED BY <1>7, <1>10 DEF CostFall

(* The gain of a vertex that is not next to the one that moves stays.       *)
LEMMA FarGainStays ==
  ASSUME NEW p \in [Vertex -> Block], NEW u \in Vertex, NEW new \in Block, p[u] # new,
         NEW v \in Vertex \ {u}, v \notin Adj(u), NEW b \in Block
  PROVE  CostGain(Moved(p, u, new), v, p[v], b) = CostGain(p, v, p[v], b)
<1> DEFINE m == Moved(p, u, new)
<1>1. m \in [Vertex -> Block] /\ m[v] = p[v] /\ \A x \in Vertex \ {u} : m[x] = p[x]
  BY MembersMoved
<1>2. CostGain(m, v, m[v], b) = CostFall(m, v, b) /\ CostGain(p, v, p[v], b) = CostFall(p, v, b)
  BY <1>1, CostGainIsFall
<1>3. EdgeWeight[v][u] = 0
  BY GraphAssumption DEF Adj
<1>4. \A x \in Block, y \in Block : D[x][y] \in Int
  BY DistancesSymmetric
<1>5. EdgeGain(m, v, b) = EdgeGain(p, v, b)
  <2>1. \A x \in Vertex : EdgeWeight[v][x] * (D[m[x]][m[v]] - D[m[x]][b])
                          = EdgeWeight[v][x] * (D[p[x]][p[v]] - D[p[x]][b])
    <3> SUFFICES ASSUME NEW x \in Vertex
                 PROVE  EdgeWeight[v][x] * (D[m[x]][m[v]] - D[m[x]][b])
                        = EdgeWeight[v][x] * (D[p[x]][p[v]] - D[p[x]][b])
      OBVIOUS
    <3>1. CASE x = u
      <4>1. D[m[x]][m[v]] - D[m[x]][b] \in Int /\ D[p[x]][p[v]] - D[p[x]][b] \in Int
        BY <1>1, <1>4
      <4> QED BY <1>3, <3>1, <4>1
    <3>2. CASE x # u
      BY <1>1, <3>2
    <3> QED BY <3>1, <3>2
  <2> QED BY <2>1 DEF EdgeGain
<1> QED BY <1>1, <1>2, <1>5 DEF CostFall

-----------------------------------------------------------------------------
(* The local search between two blocks.                                     *)

(* The vertices in M of the partition e have changed sides.                 *)
Crossed(e, pair, M) == [u \in Vertex |-> IF u \in M THEN Opposite(pair, e[u]) ELSE e[u]]

(* What the local search s in a pair has made of the partition e.           *)
Searching(e, p, s) ==
  /\ {"pair", "queue", "moves", "kept"} \subseteq DOMAIN s
  /\ s.pair \in BlockPairs
  /\ s.moves \in Seq(Vertex)
  /\ s.kept \in 0 .. Len(s.moves)
  /\ DOMAIN s.queue \subseteq Vertex \ ToSet(s.moves)
  /\ e \in [Vertex -> Block]
  /\ p = Crossed(e, s.pair, ToSet(s.moves))
  /\ \A u \in ToSet(s.moves) : e[u] \in {s.pair[1], s.pair[2]}

(* The other block of a pair.                                               *)
LEMMA Opposites ==
  ASSUME NEW pair \in BlockPairs, NEW b \in {pair[1], pair[2]}
  PROVE  /\ Opposite(pair, b) \in {pair[1], pair[2]} /\ Opposite(pair, b) # b
         /\ Opposite(pair, Opposite(pair, b)) = b
         /\ b \in Block /\ Opposite(pair, b) \in Block
BY DEF Opposite, BlockPairs

(* choose_u picks a vertex of the heaps, from a block of the pair.          *)
LEMMA ChosenOne ==
  ASSUME NEW s, NEW u \in Chosen(s)
  PROVE  u \in DOMAIN s.queue /\ partition[u] \in {s.pair[1], s.pair[2]}
<1>1. Sides(s) \subseteq {s.pair[1], s.pair[2]}
  BY DEF Sides
<1>2. PICK b \in Sides(s) : u \in In(s, b)
  BY DEF Chosen
<1> QED BY <1>1, <1>2 DEF In

(* A move is appended to the list and leaves the heap.                      *)
LEMMA MoveRecorded ==
  ASSUME NEW s, {"pair", "queue", "moves", "kept"} \subseteq DOMAIN s, NEW u, NEW w, NEW new
  PROVE  LET r == Recorded(s, u, w, new)
         IN  /\ DOMAIN r = DOMAIN s
             /\ r.pair = s.pair
             /\ r.moves = Append(s.moves, u)
             /\ DOMAIN r.queue = DOMAIN s.queue \ {u}
             /\ r.kept \in {s.kept, Len(s.moves) + 1}
<1> DEFINE gain == s.gain + s.queue[u]
           rest == [x \in DOMAIN s.queue \ {u} |-> s.queue[x]]
           longer == Append(s.moves, u)
           popped == [s EXCEPT !.queue = [x \in DOMAIN @ \ {u} |-> @[x]],
                               !.moves = Append(@, u), !.gain = gain, !.idle = @ + 1]
           balanced == Balanced(w, s.pair)
           more == Len(s.moves) + 1
           best == [popped EXCEPT !.kept = more, !.best = gain,
                                  !.balanced = balanced, !.idle = 1]
           idle == s.idle + 1
<1>1. Recorded(s, u, w, new) = IF BestSoFar(s, w, gain, new) THEN best ELSE popped
  BY DEF Recorded
<1>2. popped = [s EXCEPT !.queue = rest, !.moves = longer, !.gain = gain, !.idle = idle]
  OBVIOUS
<1>3. DOMAIN rest = DOMAIN s.queue \ {u}
  OBVIOUS
<1> HIDE DEF rest, longer, gain, balanced, more, idle
<1>4. /\ DOMAIN popped = DOMAIN s /\ popped.pair = s.pair /\ popped.kept = s.kept
      /\ popped.queue = rest /\ popped.moves = longer
  <2> HIDE DEF popped
  <2> QED BY <1>2
<1> HIDE DEF popped
<1>5. /\ DOMAIN best = DOMAIN s /\ best.pair = s.pair /\ best.kept = more
      /\ best.queue = rest /\ best.moves = longer
  BY <1>4
<1> HIDE DEF best
<1> QED BY <1>1, <1>3, <1>4, <1>5 DEF longer, more

(* Only neighbours that were not moved enter a heap.                        *)
LEMMA HeapUpdated ==
  ASSUME NEW s, {"pair", "queue", "moves", "kept"} \subseteq DOMAIN s, NEW u, NEW p
  PROVE  LET r == Updated(s, p, u)
         IN  /\ DOMAIN r = DOMAIN s
             /\ r.pair = s.pair /\ r.moves = s.moves /\ r.kept = s.kept
             /\ DOMAIN r.queue \subseteq DOMAIN s.queue \cup (Adj(u) \ ToSet(s.moves))
<1> DEFINE fresh == Affected(s, p, u)
           new == [v \in fresh \cup DOMAIN s.queue |->
                     IF v \in fresh THEN MoveGain(p, s.pair, v) ELSE s.queue[v]]
           live == {v \in DOMAIN new : Touches(p, v, Opposite(s.pair, p[v]))}
           buried(v) == \E x \in live : p[x] = p[v] /\ new[x] > new[v]
           stay == {x \in DOMAIN new : x \in live \/ buried(x)}
           queued == [v \in stay |-> new[v]]
<1>1. Updated(s, p, u) = [s EXCEPT !.queue = queued]
  BY DEF Updated
<1>2. DOMAIN new = Affected(s, p, u) \cup DOMAIN s.queue
  OBVIOUS
<1>3. Affected(s, p, u) \subseteq Adj(u) \ ToSet(s.moves)
  BY DEF Affected
<1> HIDE DEF new, live
<1>4. DOMAIN queued \subseteq DOMAIN s.queue \cup (Adj(u) \ ToSet(s.moves))
  BY <1>2, <1>3
<1> HIDE DEF queued
<1> QED BY <1>1, <1>4

(* A list with one more element.                                            *)
LEMMA SetOfLonger ==
  ASSUME NEW S, NEW l \in Seq(S), NEW u \in S
  PROVE  Append(l, u) \in Seq(S) /\ ToSet(Append(l, u)) = ToSet(l) \cup {u}
<1> DEFINE m == Append(l, u)
<1>1. /\ m \in Seq(S) /\ Len(l) \in Nat /\ Len(m) = Len(l) + 1 /\ m[Len(m)] = u
      /\ DOMAIN l = 1 .. Len(l) /\ DOMAIN m = 1 .. Len(m)
      /\ \A i \in 1 .. Len(l) : m[i] = l[i]
  OBVIOUS
<1> HIDE DEF m
<1>2. ToSet(m) = ToSet(l) \cup {u}
  BY <1>1 DEF ToSet
<1> QED BY <1>1, <1>2 DEF m

(* A trial move: p_manager stays right, and the move is remembered.         *)
LEMMA TrialMoveKeeps ==
  ASSUME PmInv(partition, bweights, nVertices), Searching(entry, partition, fm),
         NEW u \in Chosen(fm), NEW new, new = Opposite(fm.pair, partition[u]),
         PmMove(u, partition[u], new), NEW s, s = Recorded(fm, u, bweights', new)
  PROVE  /\ PmInv(partition', bweights', nVertices')
         /\ Searching(entry, partition', s)
         /\ Searching(entry, partition', Updated(s, partition', u))
<1> DEFINE e == entry
           pair == fm.pair
           M == ToSet(fm.moves)
           W == ToSet(s.moves)
<1>1. /\ {"pair", "queue", "moves", "kept"} \subseteq DOMAIN fm
      /\ pair \in BlockPairs /\ fm.moves \in Seq(Vertex)
      /\ fm.kept \in 0 .. Len(fm.moves)
      /\ DOMAIN fm.queue \subseteq Vertex \ M
      /\ e \in [Vertex -> Block] /\ partition = Crossed(e, pair, M)
      /\ \A x \in M : e[x] \in {pair[1], pair[2]}
  BY DEF Searching
<1>2. u \in DOMAIN fm.queue /\ partition[u] \in {pair[1], pair[2]} /\ u \in Vertex /\ u \notin M
  BY <1>1, ChosenOne
<1>3. new # partition[u] /\ new \in Block /\ new \in {pair[1], pair[2]}
  BY <1>1, <1>2, Opposites
<1>4. PmInv(partition', bweights', nVertices') /\ partition' = Moved(partition, u, new)
  BY <1>2, <1>3, PmMoveKeeps
<1>5. /\ DOMAIN s = DOMAIN fm /\ s.pair = pair
      /\ s.moves = Append(fm.moves, u)
      /\ DOMAIN s.queue = DOMAIN fm.queue \ {u}
      /\ s.kept \in {fm.kept, Len(fm.moves) + 1}
  BY <1>1, MoveRecorded
<1>6. s.moves \in Seq(Vertex) /\ W = M \cup {u}
  <2>1. /\ Append(fm.moves, u) \in Seq(Vertex)
        /\ ToSet(Append(fm.moves, u)) = ToSet(fm.moves) \cup {u}
    BY <1>1, <1>2, SetOfLonger
  <2> QED BY <1>5, <2>1
<1>7. s.kept \in 0 .. Len(s.moves)
  BY <1>1, <1>2, <1>5
<1>8. partition[u] = e[u]
  BY <1>1, <1>2 DEF Crossed
<1>9. Searching(e, partition', s)
  <2> HIDE DEF e, pair, M, W
  <2>1. partition' = Crossed(e, pair, W)
    <3>1. partition' = [partition EXCEPT ![u] = new]
      BY <1>4 DEF Moved
    <3>2. new = Opposite(pair, e[u])
      BY <1>8 DEF pair
    <3> QED BY <1>1, <1>2, <1>6, <3>1, <3>2 DEF Crossed
  <2>2. \A x \in W : e[x] \in {pair[1], pair[2]}
    BY <1>1, <1>2, <1>6, <1>8
  <2>3. DOMAIN s.queue \subseteq Vertex \ W
    BY <1>1, <1>5, <1>6
  <2> QED BY <1>1, <1>5, <1>6, <1>7, <2>1, <2>2, <2>3 DEF Searching, W, pair
<1> DEFINE r == Updated(s, partition', u)
<1>10. /\ DOMAIN r = DOMAIN s /\ r.pair = s.pair /\ r.moves = s.moves /\ r.kept = s.kept
       /\ DOMAIN r.queue \subseteq DOMAIN s.queue \cup (Adj(u) \ ToSet(s.moves))
  BY <1>1, <1>5, HeapUpdated
<1> HIDE DEF r
<1>11. Adj(u) \subseteq Vertex
  BY DEF Adj
<1>12. Searching(e, partition', r)
  BY <1>9, <1>10, <1>11 DEF Searching
<1> QED BY <1>4, <1>9, <1>12 DEF r

(* Taking all moves back restores the partition and p_manager.              *)
LEMMA RevertRestores ==
  ASSUME PmInv(partition, bweights, nVertices), Searching(entry, partition, fm), Revert
  PROVE  /\ partition' = entry
         /\ PmInv(partition', bweights', nVertices')
         /\ DOMAIN fm' = DOMAIN fm /\ fm'.pair = fm.pair
         /\ fm'.moves \in Seq(Vertex)
         /\ ToSet(fm'.moves) \subseteq ToSet(fm.moves)
<1> DEFINE p == partition
           pair == fm.pair
           M == ToSet(fm.moves)
           was == TakenBack(p)
           back(b) == {u \in M : was[u] = b}
           away(b) == {u \in M : p[u] = b}
           weight(S) == MapThenSumSet(LAMBDA u : VertexWeight[u], S)
<1>1. /\ {"pair", "queue", "moves", "kept"} \subseteq DOMAIN fm
      /\ pair \in BlockPairs /\ fm.moves \in Seq(Vertex)
      /\ fm.kept \in 0 .. Len(fm.moves)
      /\ entry \in [Vertex -> Block] /\ p = Crossed(entry, pair, M)
      /\ \A x \in M : entry[x] \in {pair[1], pair[2]}
  BY DEF Searching
<1>2. \A u : Contains(fm.moves, u) <=> u \in M
  BY <1>1 DEF Contains, ToSet
<1>3. was = entry
  <2>1. was = [u \in Vertex |-> IF u \in M THEN Opposite(pair, p[u]) ELSE p[u]]
    BY <1>2 DEF TakenBack
  <2>2. \A u \in Vertex : p[u] = IF u \in M THEN Opposite(pair, entry[u]) ELSE entry[u]
    BY <1>1 DEF Crossed
  <2>3. \A u \in M : Opposite(pair, Opposite(pair, entry[u])) = entry[u]
    BY <1>1, Opposites
  <2> HIDE DEF was, p, pair, M
  <2> QED BY <1>1, <2>1, <2>2, <2>3
<1>4. /\ partition' = was
      /\ bweights' = [b \in Block |-> bweights[b] + weight(back(b)) - weight(away(b))]
      /\ nVertices' = [b \in Block |->
                         nVertices[b] + Cardinality(back(b)) - Cardinality(away(b))]
      /\ fm' = [fm EXCEPT !.moves = SubSeq(@, 1, fm.kept)]
  BY DEF Revert
<1>5. M \subseteq Vertex
  BY <1>1 DEF ToSet
<1>6. /\ DOMAIN fm' = DOMAIN fm /\ fm'.pair = fm.pair
      /\ fm'.moves = SubSeq(fm.moves, 1, fm.kept)
  BY <1>1, <1>4
<1>7. fm'.moves \in Seq(Vertex) /\ ToSet(fm'.moves) \subseteq M
  <2> DEFINE m == SubSeq(fm.moves, 1, fm.kept)
  <2>1. /\ m \in Seq(Vertex) /\ DOMAIN m = 1 .. fm.kept
        /\ \A i \in 1 .. fm.kept : m[i] = fm.moves[i] /\ i \in DOMAIN fm.moves
    BY <1>1
  <2> HIDE DEF m
  <2> QED BY <1>6, <2>1 DEF ToSet, m
<1>8. p \in [Vertex -> Block] /\ bweights \in [Block -> Nat] /\ nVertices \in [Block -> Nat]
      /\ \A b \in Block : bweights[b] = BlockWeight(p, b) /\ nVertices[b] = Cardinality(Members(p, b))
  BY DEF PmInv
<1> DEFINE f == VertexWeight
<1> HIDE DEF M, p, pair, was
<1>9. ASSUME NEW b \in Block
      PROVE  /\ bweights'[b] = BlockWeight(was, b) /\ bweights'[b] \in Nat
             /\ nVertices'[b] = Cardinality(Members(was, b)) /\ nVertices'[b] \in Nat
  <2> DEFINE Before == Members(p, b)
             Later == Members(was, b)
             A == away(b)
             B == back(b)
             C == Before \ A
  <2>1. /\ A \in SUBSET Vertex /\ B \in SUBSET Vertex /\ C \in SUBSET Vertex
        /\ Before = A \cup C /\ A \cap C = {} /\ Later = B \cup C /\ B \cap C = {}
    <3>1. \A u \in Vertex \ M : p[u] = was[u]
      BY <1>1, <1>3 DEF Crossed
    <3>2. A \subseteq Before /\ B \subseteq Later
      BY <1>5 DEF Members
    <3>3. \A u \in Vertex : u \in C <=> u \notin M /\ p[u] = b
      BY DEF Members
    <3>4. \A u \in Vertex : u \in Later <=> was[u] = b
      BY DEF Members
    <3>5. \A u : u \in B <=> u \in M /\ was[u] = b
      OBVIOUS
    <3>6. Before \subseteq Vertex /\ Later \subseteq Vertex /\ C \subseteq Before
      BY DEF Members
    <3> HIDE DEF A, B, C, Before, Later
    <3>7. Later = B \cup C
      BY <1>5, <3>1, <3>2, <3>3, <3>4, <3>5, <3>6
    <3>8. B \cap C = {}
      BY <3>3, <3>5, <3>6
    <3>9. Before = A \cup C /\ A \cap C = {}
      BY <3>2 DEF C
    <3> QED BY <1>5, <3>2, <3>6, <3>7, <3>8, <3>9
  <2>2. IsFiniteSet(A) /\ IsFiniteSet(B) /\ IsFiniteSet(C)
    BY <2>1, GraphAssumption, FS_Subset
  <2>3. \A x \in Vertex : f[x] \in Nat
    BY GraphAssumption
  <2>4. /\ BlockWeight(p, b) = SumFunctionOnSet(f, Before)
        /\ BlockWeight(was, b) = SumFunctionOnSet(f, Later)
        /\ weight(A) = SumFunctionOnSet(f, A) /\ weight(B) = SumFunctionOnSet(f, B)
    BY WeightIsSum DEF MapThenSumSet, SumFunctionOnSet, FoldFunctionOnSet, MapThenFoldSet
  <2> HIDE DEF A, B, C, Before, Later
  <2>5. SumFunctionOnSet(f, A \cup C) = SumFunctionOnSet(f, A) + SumFunctionOnSet(f, C)
    BY <2>1, <2>2, <2>3, SumUnion
  <2>6. SumFunctionOnSet(f, B \cup C) = SumFunctionOnSet(f, B) + SumFunctionOnSet(f, C)
    BY <2>1, <2>2, <2>3, SumUnion
  <2>7. SumFunctionOnSet(f, A) \in Nat /\ SumFunctionOnSet(f, B) \in Nat
        /\ SumFunctionOnSet(f, C) \in Nat
    BY <2>1, <2>2, <2>3, SumNat
  <2>8. SumFunctionOnSet(f, Before) = SumFunctionOnSet(f, A \cup C)
        /\ SumFunctionOnSet(f, Later) = SumFunctionOnSet(f, B \cup C)
    BY <2>1, Zenon
  <2>9. bweights'[b] = bweights[b] + weight(B) - weight(A)
    BY <1>4 DEF A, B
  <2>10. bweights[b] = BlockWeight(p, b)
    BY <1>8
  <2>11. bweights'[b] = BlockWeight(was, b) /\ bweights'[b] \in Nat
    <3> HIDE DEF weight
    <3> QED BY <2>4, <2>5, <2>6, <2>7, <2>8, <2>9, <2>10
  <2>12. /\ Cardinality(A) \in Nat /\ Cardinality(B) \in Nat /\ Cardinality(C) \in Nat
    BY <2>2, FS_CardinalityType
  <2>13. Cardinality(A \cup C) = Cardinality(A) + Cardinality(C)
    <3>1. Cardinality(A \cup C) = Cardinality(A) + Cardinality(C) - Cardinality(A \cap C)
      BY <2>2, FS_Union
    <3>2. Cardinality(A \cap C) = 0
      BY <2>1, FS_EmptySet
    <3> QED BY <2>12, <3>1, <3>2
  <2>14. Cardinality(B \cup C) = Cardinality(B) + Cardinality(C)
    <3>1. Cardinality(B \cup C) = Cardinality(B) + Cardinality(C) - Cardinality(B \cap C)
      BY <2>2, FS_Union
    <3>2. Cardinality(B \cap C) = 0
      BY <2>1, FS_EmptySet
    <3> QED BY <2>12, <3>1, <3>2
  <2>15. Cardinality(Before) = Cardinality(A \cup C) /\ Cardinality(Later) = Cardinality(B \cup C)
    BY <2>1, Zenon
  <2>16. nVertices'[b] = nVertices[b] + Cardinality(B) - Cardinality(A)
    BY <1>4 DEF A, B
  <2>17. nVertices[b] = Cardinality(Before)
    BY <1>8 DEF Before
  <2>18. nVertices'[b] = Cardinality(Later) /\ nVertices'[b] \in Nat
    BY <2>12, <2>13, <2>14, <2>15, <2>16, <2>17
  <2> QED BY <2>11, <2>18 DEF Later
<1>10. bweights' = [b \in Block |-> bweights'[b]] /\ nVertices' = [b \in Block |-> nVertices'[b]]
  BY <1>4
<1>11. bweights' \in [Block -> Nat] /\ nVertices' \in [Block -> Nat]
  BY <1>9, <1>10
<1>12. PmInv(partition', bweights', nVertices')
  BY <1>1, <1>3, <1>4, <1>9, <1>11 DEF PmInv
<1> QED BY <1>3, <1>4, <1>6, <1>7, <1>12 DEF pair, M

-----------------------------------------------------------------------------
(* The refinement of the pairs.                                             *)

(* While moves are tried, the derived structures are right for the          *)
(* partition before them.                                                   *)
Trying == stage \in {"trial", "revert"}

(* The moves of s stay within its pair.                                     *)
WithinPair(p, s) ==
  /\ {"pair", "moves"} \subseteq DOMAIN s
  /\ s.pair \in BlockPairs
  /\ s.moves \in Seq(Vertex)
  /\ \A u \in ToSet(s.moves) : p[u] \in {s.pair[1], s.pair[2]}

PairsInv ==
  /\ stage \in {"find", "pair", "trial", "revert", "cut", "apply", "done"}
  /\ PmInv(partition, bweights, nVertices)
  /\ ~ Trying => Derived(partition)
  /\ Trying => Derived(entry) /\ Searching(entry, partition, fm)
  /\ queue \subseteq BlockPairs
  /\ DOMAIN loop = {"iteration", "cand", "used"}
  /\ loop.cand \in Seq(Block) /\ loop.used \in SUBSET SUBSET Block
  /\ stage \in {"cut", "apply"} => WithinPair(partition, fm)

(* At rest the four structures are right.                                   *)
LEMMA PairsAtRest ==
  ASSUME PairsInv, ~ Trying
  PROVE  StructInv /\ partition \in [Vertex -> Block]
BY DEF PairsInv, StructInv, PmInv

(* The derived structures are left alone.                                   *)
LEMMA EntryUnchanged ==
  ASSUME Derived(entry), UNCHANGED <<bv, conn, q, halfEdges, entry>>
  PROVE  Derived(entry)'
BY DEF Derived, BvInv, BcInv, QInv, Sound

(* The pair refinement starts with right structures.                        *)
LEMMA PairsInvInit == StructInit /\ InitQR => PairsInv
<1> SUFFICES ASSUME StructInit, InitQR PROVE PairsInv
  OBVIOUS
<1>1. StructInv
  BY StructuresFromScratch DEF StructInit
<1>2. /\ stage = "find" /\ queue = {}
      /\ loop = [iteration |-> 1, cand |-> Fresh(Block), used |-> {}]
  BY DEF InitQR
<1>3. DOMAIN loop = {"iteration", "cand", "used"} /\ loop.cand = Fresh(Block) /\ loop.used = {}
  BY <1>2
<1>4. loop.cand \in Seq(Block)
  BY <1>3, FreshBlocks
<1> QED BY <1>1, <1>2, <1>3, <1>4 DEF PairsInv, StructInv, Trying

(* Choosing the pairs of the next matching.                                 *)
LEMMA FindKeeps ==
  ASSUME PairsInv, FindPairsToRefine
  PROVE  PairsInv'
<1> DEFINE m == FindMatching(Near, Lists, active, loop.cand, loop.used)
           fresh == Fresh(nextActive)
<1>1. /\ stage = "find" /\ UNCHANGED structVars /\ UNCHANGED <<fm, entry>>
      /\ IF m.matching # {}
         THEN /\ queue' = m.matching /\ stage' = "pair"
              /\ loop' = [loop EXCEPT !.cand = m.next, !.used = m.used]
         ELSE /\ queue' = queue
              /\ IF loop.iteration < MaxIteration
                 THEN /\ loop' = [iteration |-> loop.iteration + 1, cand |-> fresh, used |-> {}]
                      /\ stage' = stage
                 ELSE stage' = "done" /\ loop' = loop
  BY DEF FindPairsToRefine
<1>2. StructInv /\ partition \in [Vertex -> Block]
  BY <1>1, PairsAtRest DEF Trying
<1>3. Ordered(Block, Near, Lists)
  BY <1>2, QuotientOrdered DEF StructInv, Derived, Near, Lists
<1>4. m \in Found(Block, Near)
  BY <1>3, CallFinds DEF PairsInv
<1>5. fresh \in Seq(Block)
  BY FreshBlocks
<1>6. m.matching \subseteq BlockPairs /\ m.next \in Seq(Block) /\ m.used \in SUBSET SUBSET Block
  <2>1. m \in CallsOf(Block) /\ \A p \in m.matching : p[1] < p[2]
    BY <1>4 DEF Found
  <2>2. m.matching \subseteq Block \X Block /\ m.next \in Seq(Block) /\ m.used \in SUBSET SUBSET Block
    BY <2>1 DEF CallsOf
  <2> HIDE DEF m
  <2>3. ASSUME NEW p \in m.matching PROVE p \in BlockPairs
    <3>1. p \in Block \X Block /\ p[1] < p[2]
      BY <2>1, <2>2
    <3> DEFINE x == p[1]
    <3>2. x \in Block
      BY <3>1
    <3> HIDE DEF x
    <3>3. x \in Int
      BY <3>2, GraphAssumption
    <3>4. p[1] # p[2]
      BY <3>1, <3>3 DEF x
    <3> QED BY <3>1, <3>4 DEF BlockPairs
  <2> QED BY <2>2, <2>3
<1> HIDE DEF m, fresh
<1>7. stage' \in {"find", "pair", "done"}
  BY <1>1
<1>8. queue' \subseteq BlockPairs
  BY <1>1, <1>6 DEF PairsInv
<1>9. /\ DOMAIN loop' = {"iteration", "cand", "used"}
      /\ loop'.cand \in Seq(Block) /\ loop'.used \in SUBSET SUBSET Block
  <2>1. CASE m.matching # {}
    <3>1. loop' = [loop EXCEPT !.cand = m.next, !.used = m.used]
      BY <1>1, <2>1
    <3>2. DOMAIN loop' = DOMAIN loop /\ loop'.cand = m.next /\ loop'.used = m.used
      BY <3>1 DEF PairsInv
    <3> QED BY <1>6, <3>2 DEF PairsInv
  <2>2. CASE m.matching = {} /\ loop' = loop
    BY <2>2 DEF PairsInv
  <2>3. CASE loop' = [iteration |-> loop.iteration + 1, cand |-> fresh, used |-> {}]
    BY <1>5, <2>3
  <2> QED BY <1>1, <2>1, <2>2, <2>3
<1>10. StructInv'
  BY <1>1, <1>2, StructInvUnchanged
<1>11. ~ Trying' /\ stage' \notin {"cut", "apply"}
  BY <1>7 DEF Trying
<1> QED BY <1>7, <1>8, <1>9, <1>10, <1>11 DEF PairsInv, StructInv

(* A search begins with the boundary vertices of its pair.                  *)
LEMMA SeedKeeps ==
  ASSUME PairsInv, Seed
  PROVE  PairsInv'
<1>1. stage = "pair" /\ UNCHANGED structVars /\ UNCHANGED <<loop, active, nextActive>>
  BY DEF Seed
<1>2. PICK pair \in queue :
        /\ queue' = queue \ {pair} /\ entry' = partition
        /\ fm' = Start(pair, SlotSeeds(pair)) /\ stage' = "trial"
  BY DEF Seed
<1>3. StructInv /\ partition \in [Vertex -> Block]
  BY <1>1, PairsAtRest DEF Trying
<1>4. pair \in BlockPairs
  BY DEF PairsInv
<1>5. DOMAIN SlotSeeds(pair) \subseteq Vertex
  <2> DEFINE boundary == UNION {ToSet(bv.list[b]) : b \in ToSet(pair)}
  <2>1. \A b \in ToSet(pair) : b \in Block
    <3>1. ToSet(pair) \subseteq {pair[1], pair[2]}
      BY <1>4 DEF ToSet, BlockPairs
    <3> QED BY <1>4, <3>1 DEF BlockPairs
  <2>2. \A b \in Block : bv.list[b] \in Seq(Vertex)
    BY <1>3, BvInvSuffices DEF StructInv, Derived, BvTypeOK
  <2>3. boundary \subseteq Vertex
    BY <2>1, <2>2 DEF ToSet
  <2>4. DOMAIN SlotSeeds(pair) \subseteq boundary
    BY DEF SlotSeeds
  <2> QED BY <2>3, <2>4
<1> DEFINE seeds == SlotSeeds(pair)
<1> HIDE DEF seeds
<1>6. /\ {"pair", "queue", "moves", "kept"} \subseteq DOMAIN fm'
      /\ fm'.pair = pair /\ fm'.moves = <<>> /\ fm'.kept = 0 /\ fm'.queue = seeds
  BY <1>2 DEF Start, seeds
<1>7. ToSet(fm'.moves) = {} /\ Len(fm'.moves) = 0 /\ fm'.moves \in Seq(Vertex)
  BY <1>6 DEF ToSet
<1>8. Searching(entry', partition', fm')
  <2>1. partition' = partition
    BY <1>1 DEF structVars
  <2>2. partition' = Crossed(entry', fm'.pair, ToSet(fm'.moves))
    BY <1>2, <1>3, <1>7, <2>1 DEF Crossed
  <2>3. DOMAIN fm'.queue \subseteq Vertex \ ToSet(fm'.moves)
    BY <1>5, <1>6, <1>7 DEF seeds
  <2>4. fm'.kept \in 0 .. Len(fm'.moves) /\ fm'.pair \in BlockPairs
    BY <1>4, <1>6, <1>7
  <2>5. entry' \in [Vertex -> Block]
    BY <1>2, <1>3
  <2>6. \A u \in ToSet(fm'.moves) : entry'[u] \in {fm'.pair[1], fm'.pair[2]}
    BY <1>7
  <2> QED BY <1>6, <1>7, <2>2, <2>3, <2>4, <2>5, <2>6 DEF Searching
<1>9. StructInv'
  BY <1>1, <1>3, StructInvUnchanged
<1>10. Derived(entry)'
  <2>1. entry' = partition' /\ partition' = partition
    BY <1>1, <1>2 DEF structVars
  <2>2. Derived(partition)'
    BY <1>9 DEF StructInv
  <2> QED BY <2>1, <2>2 DEF Derived
<1>11. queue' \subseteq BlockPairs /\ stage' = "trial" /\ loop' = loop
  BY <1>1, <1>2 DEF PairsInv
<1> QED BY <1>8, <1>9, <1>10, <1>11 DEF PairsInv, StructInv, Trying

(* All pairs of a matching have been refined.                               *)
LEMMA EndMatchingKeeps ==
  ASSUME PairsInv, EndMatching
  PROVE  PairsInv'
<1>1. /\ stage = "pair" /\ stage' = "find" /\ UNCHANGED structVars
      /\ UNCHANGED <<loop, queue, fm, entry>>
  BY DEF EndMatching
<1>2. StructInv
  BY <1>1, PairsAtRest DEF Trying
<1>3. StructInv'
  BY <1>1, <1>2, StructInvUnchanged
<1> QED BY <1>1, <1>3 DEF PairsInv, StructInv, Trying

(* Trial moves leave all structures but p_manager alone.                    *)
LEMMA TrialMoveKeepsInv ==
  ASSUME PairsInv, TrialMove
  PROVE  PairsInv'
<1>1. /\ stage = "trial" /\ Trying
      /\ UNCHANGED <<bv, conn, q, halfEdges, loop, queue, entry>>
  BY DEF TrialMove, Trying
<1>2. /\ PmInv(partition, bweights, nVertices)
      /\ Derived(entry) /\ Searching(entry, partition, fm)
  BY <1>1 DEF PairsInv
<1>3. PICK u \in Chosen(fm) :
        LET old == partition[u]
            new == Opposite(fm.pair, old)
        IN /\ PmMove(u, old, new)
           /\ LET s == Recorded(fm, u, bweights', new)
              IN \/ fm' = Updated(s, partition', u) /\ UNCHANGED stage
                 \/ s.idle > MinSteps /\ fm' = s /\ stage' = "revert"
  BY DEF TrialMove
<1> DEFINE new == Opposite(fm.pair, partition[u])
           s == Recorded(fm, u, bweights', new)
<1>4. /\ PmMove(u, partition[u], new)
      /\ \/ fm' = Updated(s, partition', u) /\ stage' = stage
         \/ fm' = s /\ stage' = "revert"
  BY <1>3
<1> HIDE DEF new, s
<1>5. /\ PmInv(partition', bweights', nVertices')
      /\ Searching(entry, partition', s)
      /\ Searching(entry, partition', Updated(s, partition', u))
  BY <1>2, <1>4, TrialMoveKeeps DEF new, s
<1>6. Searching(entry', partition', fm') /\ stage' \in {"trial", "revert"}
  BY <1>1, <1>4, <1>5
<1>7. Derived(entry)'
  BY <1>1, <1>2, EntryUnchanged
<1> QED BY <1>1, <1>5, <1>6, <1>7 DEF PairsInv, Trying

(* No vertex is left to try.                                                *)
LEMMA EndTrialKeeps ==
  ASSUME PairsInv, EndTrial
  PROVE  PairsInv'
<1>1. /\ Trying /\ stage' = "revert" /\ UNCHANGED structVars
      /\ UNCHANGED <<loop, queue, fm, entry>>
  BY DEF EndTrial, Trying
<1>2. Derived(entry)'
  BY <1>1, EntryUnchanged DEF PairsInv, structVars
<1>3. Searching(entry', partition', fm')
  BY <1>1 DEF PairsInv, structVars
<1>4. PmInv(partition', bweights', nVertices')
  BY <1>1 DEF PairsInv, structVars
<1> QED BY <1>1, <1>2, <1>3, <1>4 DEF PairsInv, Trying

(* Taking the moves back brings the partition to where the derived          *)
(* structures are.                                                          *)
LEMMA RevertKeeps ==
  ASSUME PairsInv, Revert
  PROVE  PairsInv'
<1>1. /\ stage = "revert" /\ Trying /\ stage' = "apply"
      /\ UNCHANGED <<bv, conn, q, halfEdges, loop, queue, entry>>
  BY DEF Revert, Trying
<1>2. /\ PmInv(partition, bweights, nVertices)
      /\ Derived(entry) /\ Searching(entry, partition, fm)
  BY <1>1 DEF PairsInv
<1>3. /\ partition' = entry
      /\ PmInv(partition', bweights', nVertices')
      /\ DOMAIN fm' = DOMAIN fm /\ fm'.pair = fm.pair
      /\ fm'.moves \in Seq(Vertex)
      /\ ToSet(fm'.moves) \subseteq ToSet(fm.moves)
  BY <1>2, RevertRestores
<1>4. Derived(partition)'
  <2>1. Derived(entry)' /\ partition' = entry'
    BY <1>1, <1>2, <1>3, EntryUnchanged
  <2> QED BY <2>1 DEF Derived
<1>5. WithinPair(partition', fm')
  <2>1. /\ {"pair", "moves"} \subseteq DOMAIN fm /\ fm.pair \in BlockPairs
        /\ \A u \in ToSet(fm.moves) : entry[u] \in {fm.pair[1], fm.pair[2]}
    BY <1>2 DEF Searching
  <2> QED BY <1>3, <2>1 DEF WithinPair
<1> QED BY <1>1, <1>3, <1>4, <1>5 DEF PairsInv, Trying

(* A move that is kept is one from a block of the pair to the other.        *)
LEMMA ApplyKeptKeeps ==
  ASSUME PairsInv, ApplyKept
  PROVE  PairsInv'
<1> DEFINE u == Head(fm.moves)
           new == Opposite(fm.pair, partition[u])
<1>1. /\ stage = "apply" /\ fm.moves # <<>> /\ ApplyMove(u, partition[u], new)
      /\ fm' = [fm EXCEPT !.moves = Tail(@)] /\ UNCHANGED <<stage, loop, queue, entry>>
  BY DEF ApplyKept
<1>2. StructInv /\ WithinPair(partition, fm) /\ partition \in [Vertex -> Block]
  BY <1>1, PairsAtRest DEF PairsInv, Trying
<1>3. /\ {"pair", "moves"} \subseteq DOMAIN fm /\ fm.pair \in BlockPairs
      /\ fm.moves \in Seq(Vertex)
      /\ \A x \in ToSet(fm.moves) : partition[x] \in {fm.pair[1], fm.pair[2]}
  BY <1>2 DEF WithinPair
<1>4. /\ u \in Vertex /\ u \in ToSet(fm.moves)
      /\ Tail(fm.moves) \in Seq(Vertex) /\ ToSet(Tail(fm.moves)) \subseteq ToSet(fm.moves)
  <2> DEFINE l == fm.moves
             t == Tail(l)
  <2>1. /\ Len(l) \in Nat \ {0} /\ DOMAIN l = 1 .. Len(l) /\ u = l[1] /\ l[1] \in Vertex
        /\ t \in Seq(Vertex) /\ Len(t) = Len(l) - 1 /\ DOMAIN t = 1 .. Len(t)
        /\ \A i \in 1 .. Len(t) : t[i] = l[i + 1]
    BY <1>1, <1>3
  <2> HIDE DEF l, t, u
  <2>2. ToSet(t) \subseteq ToSet(l) /\ u \in ToSet(l)
    BY <2>1 DEF ToSet
  <2> QED BY <2>1, <2>2 DEF l, t
<1> HIDE DEF u
<1>5. new \in Block /\ new # partition[u] /\ new \in {fm.pair[1], fm.pair[2]}
  BY <1>3, <1>4, Opposites
<1> HIDE DEF new
<1>6. StructInv' /\ partition' = Moved(partition, u, new)
  BY <1>1, <1>2, <1>4, <1>5, ApplyMoveKeeps
<1>7. DOMAIN fm' = DOMAIN fm /\ fm'.pair = fm.pair /\ fm'.moves = Tail(fm.moves)
  BY <1>1, <1>3
<1>8. \A x \in ToSet(fm.moves) : partition'[x] \in {fm.pair[1], fm.pair[2]}
  <2>1. ToSet(fm.moves) \subseteq Vertex
    BY <1>3 DEF ToSet
  <2> QED BY <1>2, <1>3, <1>5, <1>6, <2>1 DEF Moved
<1>9. WithinPair(partition', fm')
  BY <1>3, <1>4, <1>7, <1>8 DEF WithinPair
<1> QED BY <1>1, <1>6, <1>9 DEF PairsInv, StructInv, Trying

(* All moves that are kept have been made.                                  *)
LEMMA EndPairKeeps ==
  ASSUME PairsInv, EndPair
  PROVE  PairsInv'
<1>1. /\ stage = "apply" /\ stage' = "pair" /\ UNCHANGED structVars
      /\ UNCHANGED <<loop, queue>>
  BY DEF EndPair
<1>2. StructInv
  BY <1>1, PairsAtRest DEF Trying
<1>3. StructInv'
  BY <1>1, <1>2, StructInvUnchanged
<1> QED BY <1>1, <1>3 DEF PairsInv, StructInv, Trying

(* Every step keeps PairsInv.                                               *)
LEMMA PairsInvNext ==
  ASSUME PairsInv, [NextQR]_qrVars
  PROVE  PairsInv'
<1>1. CASE NextQR
  BY <1>1, FindKeeps, SeedKeeps, EndMatchingKeeps, TrialMoveKeepsInv, EndTrialKeeps,
     RevertKeeps, ApplyKeptKeeps, EndPairKeeps DEF NextQR
<1>2. CASE UNCHANGED qrVars
  <2>1. UNCHANGED structVars /\ UNCHANGED <<stage, loop, queue, fm, entry>>
    BY <1>2 DEF qrVars
  <2>2. PmInv(partition', bweights', nVertices')
    BY <2>1 DEF PairsInv, structVars, PmInv
  <2>3. CASE Trying
    <3>1. Derived(entry)' /\ Searching(entry', partition', fm')
      BY <2>1, <2>3, EntryUnchanged DEF PairsInv, structVars
    <3> QED BY <2>1, <2>2, <2>3, <3>1 DEF PairsInv, Trying
  <2>4. CASE ~ Trying
    <3>1. StructInv'
      BY <2>1, <2>4, PairsAtRest, StructInvUnchanged
    <3>2. stage \in {"cut", "apply"} => WithinPair(partition', fm')
      BY <2>1 DEF PairsInv, structVars
    <3> QED BY <2>1, <2>4, <3>1, <3>2 DEF PairsInv, StructInv, Trying
  <2> QED BY <2>3, <2>4
<1> QED BY <1>1, <1>2

(* Refining pairs with trial moves that are taken back: between two pairs   *)
(* all four structures agree with the partition.                            *)
THEOREM PairsKeepStructures == SpecQR => []StructuresCorrectBetweenPairs
<1>1. StructInit /\ InitQR => PairsInv
  BY PairsInvInit
<1>2. PairsInv /\ [NextQR]_qrVars => PairsInv'
  BY PairsInvNext
<1>3. PairsInv => StructuresCorrectBetweenPairs
  BY PairsAtRest, StructInvSuffices DEF StructuresCorrectBetweenPairs, Trying
<1> QED BY <1>1, <1>2, <1>3, PTL DEF SpecQR

-----------------------------------------------------------------------------
(* What a local search promises.                                            *)

(* The weights of the blocks, a vertex that touches the other block of its  *)
(* pair, and a list that names nothing twice.                               *)
WeightsOf(p) == [b \in Block |-> BlockWeight(p, b)]
Across(p, pair, u) == Touches(p, u, Opposite(pair, p[u]))
Once(l) == \A i, j \in 1 .. Len(l) : l[i] = l[j] => i = j

(* The entries of the heaps: those that touch the other block are exact,    *)
(* and no other one is on top of its heap.                                  *)
QueueRight(p, s) ==
  /\ \A u \in DOMAIN s.queue : s.queue[u] \in Int /\ p[u] \in {s.pair[1], s.pair[2]}
  /\ \A u \in DOMAIN s.queue : Across(p, s.pair, u) => s.queue[u] = MoveGain(p, s.pair, u)
  /\ \A u \in DOMAIN s.queue : Across(p, s.pair, u) \/
       \E x \in DOMAIN s.queue : p[x] = p[u] /\ s.queue[x] > s.queue[u]

(* The cost has fallen from e to p by what the gain won says.                 *)
Fallen(e, p, pair, won) == Qap(p) = Qap(e) - 2 * (Scale(pair) * won)

(* B, the best moment of the search s, is as good as s says.                *)
BestIs(e, s, B) ==
  /\ {"pair", "moves", "gain", "best", "kept", "balanced", "initial"} \subseteq DOMAIN s
  /\ s.best \in Int /\ Fallen(e, B, s.pair, s.best)
  /\ s.balanced = Balanced(WeightsOf(B), s.pair)
  /\ Balanced(s.initial, s.pair) => s.balanced /\ s.best >= 0
  /\ s.balanced \/ s.best >= 0
  /\ Once(s.moves)

(* The partition at the best moment.                                       *)
AtBest(e, s) == Crossed(e, s.pair, ToSet(SubSeq(s.moves, 1, s.kept)))

SearchInv ==
  /\ stage = "trial" => QueueRight(partition, fm)
  /\ stage = "trial" => fm.gain \in Int /\ Fallen(entry, partition, fm.pair, fm.gain)
  /\ Trying => BestIs(entry, fm, AtBest(entry, fm))
  /\ stage = "apply" =>
       /\ BestIs(entry, fm, Crossed(partition, fm.pair, ToSet(fm.moves)))
       /\ entry \in [Vertex -> Block]

(* A block is at distance 0 from itself.                                    *)
LEMMA OwnDistance ==
  ASSUME NEW b \in Block
  PROVE  D[b][b] = 0
BY OracleAssumption DEF MatrixDistance

(* Whatever a pair's searches maximise, the cost falls with it.             *)
LEMMA MoveGainIsFall ==
  ASSUME NEW p \in [Vertex -> Block], NEW pair \in BlockPairs,
         NEW u \in Vertex, p[u] \in {pair[1], pair[2]}
  PROVE  /\ MoveGain(p, pair, u) \in Int /\ Scale(pair) \in Nat
         /\ CostFall(p, u, Opposite(pair, p[u])) = Scale(pair) * MoveGain(p, pair, u)
<1> DEFINE old == p[u]
           new == Opposite(pair, old)
           a == pair[1]
           b == pair[2]
           d == D[a][b]
<1>1. /\ old \in Block /\ new \in Block /\ new # old /\ a \in Block /\ b \in Block /\ a # b
      /\ {old, new} = {a, b}
  BY Opposites DEF BlockPairs, Opposite
<1>2. CostFall(p, u, new) \in Int /\ CostGain(p, u, old, new) = CostFall(p, u, new)
  BY <1>1, CostFallType, CostGainIsFall
<1>3. ConnWeight(p, u, new) \in Nat /\ ConnWeight(p, u, old) \in Nat
  BY ConnIsSum
<1>4. d \in Nat /\ D[old][new] = d
  BY <1>1, DistancesSymmetric
<1>5. CASE LastLevelPair(Hierarchy, a, b)
  <2>1. \A c \in Block \ {old, new} : D[c][old] = D[c][new]
    <3>1. \A c \in Block \ {a, b} : D[c][a] = D[c][b]
      BY <1>1, <1>5, LowestGroupsEquidistant
    <3> QED BY <1>1, <3>1
  <2>2. CostFall(p, u, new) = D[old][new] * (ConnWeight(p, u, new) - ConnWeight(p, u, old))
    BY <1>1, <2>1, OwnDistance, CutIsCost
  <2>3. MoveGain(p, pair, u) = ConnWeight(p, u, new) - ConnWeight(p, u, old) /\ Scale(pair) = d
    BY <1>5 DEF MoveGain, CutGain, Scale
  <2> HIDE DEF old, new, d
  <2> QED BY <1>3, <1>4, <2>2, <2>3 DEF new, old
<1>6. CASE ~ LastLevelPair(Hierarchy, a, b)
  <2>1. MoveGain(p, pair, u) = CostGain(p, u, old, new) /\ Scale(pair) = 1
    BY <1>6 DEF MoveGain, Scale
  <2> HIDE DEF old, new, d
  <2> QED BY <1>2, <2>1 DEF new, old
<1> QED BY <1>5, <1>6

(* What a move changes about a vertex that is not next to the one that      *)
(* moves: nothing.                                                          *)
LEMMA FarMoveGain ==
  ASSUME NEW p \in [Vertex -> Block], NEW pair \in BlockPairs,
         NEW u \in Vertex, NEW new \in Block, p[u] # new,
         NEW v \in Vertex \ {u}, v \notin Adj(u), p[v] \in {pair[1], pair[2]}
  PROVE  /\ MoveGain(Moved(p, u, new), pair, v) = MoveGain(p, pair, v)
         /\ Across(Moved(p, u, new), pair, v) <=> Across(p, pair, v)
         /\ Moved(p, u, new)[v] = p[v]
<1> DEFINE m == Moved(p, u, new)
           o == Opposite(pair, p[v])
<1>1. m \in [Vertex -> Block] /\ m[v] = p[v] /\ \A x \in Vertex \ {u} : m[x] = p[x]
  BY MembersMoved
<1>2. o \in Block /\ p[v] \in Block
  BY Opposites
<1>3. u \notin Adj(v) /\ Adj(v) \subseteq Vertex
  BY GraphAssumption, Neighbourhoods DEF Adj
<1>4. CostGain(m, v, p[v], o) = CostGain(p, v, p[v], o)
  BY <1>2, FarGainStays
<1>5. \A b : ConnWeight(m, v, b) = ConnWeight(p, v, b)
  <2> SUFFICES ASSUME NEW b PROVE ConnWeight(m, v, b) = ConnWeight(p, v, b)
    OBVIOUS
  <2>1. Into(m, v, b) = Into(p, v, b)
    BY <1>1, <1>3 DEF Into, Members
  <2>2. /\ ConnWeight(m, v, b) = SumFunctionOnSet(EdgeWeight[v], Into(m, v, b))
        /\ ConnWeight(p, v, b) = SumFunctionOnSet(EdgeWeight[v], Into(p, v, b))
    BY ConnIsSum
  <2> QED BY <2>1, <2>2
<1>6. MoveGain(m, pair, v) = MoveGain(p, pair, v)
  BY <1>1, <1>4, <1>5 DEF MoveGain, CutGain
<1>7. Across(m, pair, v) <=> Across(p, pair, v)
  BY <1>1, <1>3 DEF Across, Touches
<1> QED BY <1>1, <1>6, <1>7

(* The vertex that is chosen is on top of its heap, so its entry is exact.  *)
LEMMA ChosenTop ==
  ASSUME QueueRight(partition, fm), fm.pair \in BlockPairs, DOMAIN fm.queue \subseteq Vertex,
         NEW u \in Chosen(fm)
  PROVE  fm.queue[u] = MoveGain(partition, fm.pair, u) /\ fm.queue[u] \in Int
<1>1. PICK b \in Sides(fm) : u \in In(fm, b) /\ fm.queue[u] = TopGain(fm, b)
  BY DEF Chosen
<1> DEFINE S == In(fm, b)
           G == {fm.queue[x] : x \in S}
<1>2. S \subseteq DOMAIN fm.queue /\ IsFiniteSet(S)
  <2>1. S \subseteq Vertex
    BY DEF In
  <2> QED BY <2>1, GraphAssumption, FS_Subset DEF In
<1>3. G \subseteq Int /\ IsFiniteSet(G) /\ G # {}
  <2>1. \A x \in S : fm.queue[x] \in Int
    BY <1>2 DEF QueueRight
  <2>2. IsFiniteSet(G)
    <3> DEFINE f == [x \in S |-> fm.queue[x]]
    <3>1. f \in Surjection(S, G)
      BY DEF Surjection
    <3> HIDE DEF S, G, f
    <3> QED BY <1>2, <3>1, FS_Surjection
  <2> QED BY <1>1, <2>1, <2>2
<1>4. \A x \in S : fm.queue[x] <= fm.queue[u]
  <2>1. \A won \in G : won <= TopGain(fm, b)
    <3>1. TopGain(fm, b) = Max(G)
      BY DEF TopGain
    <3> HIDE DEF G
    <3> QED BY <1>3, <3>1, LargestExists
  <2> QED BY <1>1, <2>1
<1>5. partition[u] = b /\ \A x \in DOMAIN fm.queue : partition[x] = b => x \in S
  BY <1>1 DEF In
<1>6. u \in DOMAIN fm.queue /\ \A x \in DOMAIN fm.queue : fm.queue[x] \in Int
  BY <1>1, <1>2 DEF QueueRight
<1>7. ~ \E x \in DOMAIN fm.queue : partition[x] = partition[u] /\ fm.queue[x] > fm.queue[u]
  <2> HIDE DEF S, G
  <2> QED BY <1>4, <1>5, <1>6
<1>8. Across(partition, fm.pair, u)
  BY <1>6, <1>7 DEF QueueRight
<1> QED BY <1>6, <1>8 DEF QueueRight

(* What update_best keeps of a move.                                        *)
LEMMA NumbersRecorded ==
  ASSUME NEW s, NEW u, NEW w, NEW new, NEW r, r = Recorded(s, u, w, new),
         NEW won, won = s.gain + s.queue[u],
         {"pair", "queue", "moves", "gain", "best", "kept", "balanced", "initial"} \subseteq DOMAIN s
  PROVE  /\ DOMAIN r = DOMAIN s /\ r.pair = s.pair /\ r.initial = s.initial
         /\ r.moves = Append(s.moves, u) /\ r.gain = won
         /\ DOMAIN r.queue = DOMAIN s.queue \ {u}
         /\ \A x \in DOMAIN s.queue \ {u} : r.queue[x] = s.queue[x]
         /\ BestSoFar(s, w, won, new) =>
              r.kept = Len(s.moves) + 1 /\ r.best = won /\ r.balanced = Balanced(w, s.pair)
         /\ ~ BestSoFar(s, w, won, new) =>
              r.kept = s.kept /\ r.best = s.best /\ r.balanced = s.balanced
<1> DEFINE gain == s.gain + s.queue[u]
           rest == [x \in DOMAIN s.queue \ {u} |-> s.queue[x]]
           longer == Append(s.moves, u)
           popped == [s EXCEPT !.queue = [x \in DOMAIN @ \ {u} |-> @[x]],
                               !.moves = Append(@, u), !.gain = gain, !.idle = @ + 1]
           balanced == Balanced(w, s.pair)
           more == Len(s.moves) + 1
           best == [popped EXCEPT !.kept = more, !.best = gain,
                                  !.balanced = balanced, !.idle = 1]
           idle == s.idle + 1
<1>1. Recorded(s, u, w, new) = IF BestSoFar(s, w, gain, new) THEN best ELSE popped
  BY DEF Recorded
<1>2. popped = [s EXCEPT !.queue = rest, !.moves = longer, !.gain = gain, !.idle = idle]
  OBVIOUS
<1> HIDE DEF rest, longer, gain, balanced, more, idle
<1>3. /\ DOMAIN popped = DOMAIN s /\ popped.pair = s.pair /\ popped.initial = s.initial
      /\ popped.queue = rest /\ popped.moves = longer /\ popped.gain = gain
      /\ popped.kept = s.kept /\ popped.best = s.best /\ popped.balanced = s.balanced
  <2> HIDE DEF popped
  <2> QED BY <1>2
<1> HIDE DEF popped
<1>4. /\ DOMAIN best = DOMAIN s /\ best.pair = s.pair /\ best.initial = s.initial
      /\ best.queue = rest /\ best.moves = longer /\ best.gain = gain
      /\ best.kept = more /\ best.best = gain /\ best.balanced = balanced
  BY <1>3
<1> HIDE DEF best
<1> QED BY <1>1, <1>3, <1>4 DEF rest, longer, gain, balanced, more

(* push_update: the heaps are right again after the move of u.              *)
LEMMA HeapsRight ==
  ASSUME NEW p \in [Vertex -> Block], NEW u \in Vertex, NEW new \in Block, p[u] # new,
         NEW s, {"pair", "queue", "moves"} \subseteq DOMAIN s, s.pair \in BlockPairs,
         u \in ToSet(s.moves), DOMAIN s.queue \subseteq Vertex \ ToSet(s.moves),
         \A x \in DOMAIN s.queue : s.queue[x] \in Int /\ p[x] \in {s.pair[1], s.pair[2]},
         \A x \in DOMAIN s.queue : Across(p, s.pair, x) => s.queue[x] = MoveGain(p, s.pair, x)
  PROVE  QueueRight(Moved(p, u, new), Updated(s, Moved(p, u, new), u))
<1> DEFINE m == Moved(p, u, new)
           pair == s.pair
           old == s.queue
           fresh == Affected(s, m, u)
           entry1 == [v \in fresh \cup DOMAIN old |->
                        IF v \in fresh THEN MoveGain(m, pair, v) ELSE old[v]]
           live == {v \in DOMAIN entry1 : Touches(m, v, Opposite(pair, m[v]))}
           buried(v) == \E x \in live : m[x] = m[v] /\ entry1[x] > entry1[v]
           stay == {x \in DOMAIN entry1 : x \in live \/ buried(x)}
           queued == [v \in stay |-> entry1[v]]
           r == Updated(s, m, u)
<1>1. r = [s EXCEPT !.queue = queued]
  BY DEF Updated
<1>2. r.pair = pair /\ r.queue = queued
  <2> HIDE DEF queued, r
  <2> QED BY <1>1
<1>3. m \in [Vertex -> Block] /\ \A x \in Vertex \ {u} : m[x] = p[x]
  BY MembersMoved
<1>4. \A v \in fresh : /\ v \in Vertex \ {u} /\ v \in Adj(u) /\ m[v] \in {pair[1], pair[2]}
                       /\ Across(m, pair, v)
  <2>1. ToSet(pair) \subseteq {pair[1], pair[2]}
    BY DEF ToSet, BlockPairs
  <2>2. Adj(u) \subseteq Vertex
    BY Neighbourhoods
  <2> QED BY <2>1, <2>2 DEF Affected, Across
<1>5. ASSUME NEW v \in DOMAIN old, v \notin fresh
      PROVE  /\ v \in Vertex \ {u} /\ m[v] \in {pair[1], pair[2]}
             /\ Across(m, pair, v) => v \notin Adj(u) /\ old[v] = MoveGain(m, pair, v)
  <2>1. v \in Vertex \ {u} /\ v \notin ToSet(s.moves)
    OBVIOUS
  <2>2. m[v] = p[v] /\ p[v] \in {pair[1], pair[2]}
    BY <1>3, <2>1
  <2>3. ASSUME Across(m, pair, v) PROVE v \notin Adj(u)
    <3>1. m[v] \in ToSet(pair)
      BY <2>2 DEF ToSet, BlockPairs
    <3> QED BY <1>5, <2>1, <2>3, <3>1 DEF Affected, Across
  <2>4. ASSUME Across(m, pair, v), v \notin Adj(u) PROVE old[v] = MoveGain(m, pair, v)
    BY <2>1, <2>2, <2>4, FarMoveGain
  <2> QED BY <2>1, <2>2, <2>3, <2>4
<1>6. \A v \in DOMAIN entry1 :
        /\ v \in fresh \/ (v \notin fresh /\ v \in DOMAIN old)
        /\ v \in fresh => entry1[v] = MoveGain(m, pair, v)
        /\ v \notin fresh => entry1[v] = old[v]
  OBVIOUS
<1>7. \A v \in live : v \in DOMAIN entry1 /\ Across(m, pair, v)
  BY DEF Across
<1>8. \A v \in DOMAIN entry1 : Across(m, pair, v) => v \in live
  BY DEF Across
<1>9. DOMAIN queued = stay /\ \A v \in stay : queued[v] = entry1[v] /\ v \in DOMAIN entry1
  OBVIOUS
<1>10. \A v \in stay : v \in live \/ \E x \in live : m[x] = m[v] /\ entry1[x] > entry1[v]
  OBVIOUS
<1>11. live \subseteq stay
  OBVIOUS
<1> HIDE DEF m, pair, old, fresh, entry1, live, stay, queued, r
<1>12. \A v \in stay : queued[v] \in Int /\ m[v] \in {pair[1], pair[2]}
  <2> SUFFICES ASSUME NEW v \in stay PROVE queued[v] \in Int /\ m[v] \in {pair[1], pair[2]}
    OBVIOUS
  <2>1. CASE v \in fresh
    <3>1. MoveGain(m, pair, v) \in Int
      BY <1>3, <1>4, <2>1, MoveGainIsFall DEF pair
    <3> QED BY <1>4, <1>6, <1>9, <2>1, <3>1
  <2>2. CASE v \notin fresh
    BY <1>5, <1>6, <1>9, <2>2 DEF old
  <2> QED BY <2>1, <2>2
<1>13. \A v \in stay : Across(m, pair, v) => queued[v] = MoveGain(m, pair, v)
  BY <1>5, <1>6, <1>9
<1>14. \A v \in stay : Across(m, pair, v) \/ \E x \in stay : m[x] = m[v] /\ queued[x] > queued[v]
  BY <1>7, <1>9, <1>10, <1>11
<1>15. QueueRight(m, r)
  BY <1>2, <1>9, <1>12, <1>13, <1>14 DEF QueueRight
<1> QED BY <1>15 DEF m, r

(* The best moment of a longer list of moves.                               *)
LEMMA BestMoment ==
  ASSUME NEW S, NEW l \in Seq(S), NEW u \in S, NEW k \in 0 .. Len(l)
  PROVE  /\ SubSeq(Append(l, u), 1, k) = SubSeq(l, 1, k)
         /\ SubSeq(Append(l, u), 1, Len(l) + 1) = Append(l, u)
         /\ Once(l) /\ u \notin ToSet(l) => Once(Append(l, u))
<1> DEFINE m == Append(l, u)
<1>1. /\ m \in Seq(S) /\ Len(l) \in Nat /\ Len(m) = Len(l) + 1 /\ m[Len(m)] = u
      /\ DOMAIN l = 1 .. Len(l) /\ DOMAIN m = 1 .. Len(m)
      /\ \A i \in 1 .. Len(l) : m[i] = l[i]
  OBVIOUS
<1> HIDE DEF m
<1>2. SubSeq(m, 1, k) = SubSeq(l, 1, k)
  <2>1. SubSeq(m, 1, k) = [i \in 1 .. k |-> m[i]] /\ SubSeq(l, 1, k) = [i \in 1 .. k |-> l[i]]
    BY <1>1
  <2>2. \A i \in 1 .. k : m[i] = l[i]
    BY <1>1
  <2> QED BY <2>1, <2>2
<1>3. SubSeq(m, 1, Len(m)) = m
  BY <1>1
<1>4. ASSUME Once(l), u \notin ToSet(l) PROVE Once(m)
  <2>1. \A i \in 1 .. Len(l) : l[i] # u
    BY <1>1, <1>4 DEF ToSet
  <2> QED BY <1>1, <1>4, <2>1 DEF Once
<1> QED BY <1>1, <1>2, <1>3, <1>4 DEF m

(* The cost is an integer.                                                  *)
LEMMA QapType ==
  ASSUME NEW p \in [Vertex -> Block]
  PROVE  Qap(p) \in Int
<1>1. \A x \in Vertex : Row(p)[x] \in Int
  BY RowIsSum
<1> HIDE DEF Row
<1>2. SumFunctionOnSet(Row(p), Vertex) \in Int
  BY <1>1, GraphAssumption, SumType
<1> QED BY <1>2, QapIsSum

(* A trial move: the sum of the gains goes with the cost, and what          *)
(* update_best keeps is the best moment.                                    *)
LEMMA GainsAddUp ==
  ASSUME PmInv(partition, bweights, nVertices), Searching(entry, partition, fm),
         QueueRight(partition, fm), fm.gain \in Int, Fallen(entry, partition, fm.pair, fm.gain),
         BestIs(entry, fm, AtBest(entry, fm)),
         NEW u \in Chosen(fm), NEW new, new = Opposite(fm.pair, partition[u]),
         PmMove(u, partition[u], new), NEW s, s = Recorded(fm, u, bweights', new)
  PROVE  /\ s.gain \in Int /\ Fallen(entry, partition', s.pair, s.gain)
         /\ BestIs(entry, s, AtBest(entry, s))
         /\ QueueRight(partition', Updated(s, partition', u))
<1> DEFINE pair == fm.pair
           l == fm.moves
           won == MoveGain(partition, pair, u)
           d == Scale(pair)
           w == bweights'
           best == BestSoFar(fm, w, fm.gain + fm.queue[u], new)
<1>1. /\ {"pair", "queue", "moves", "kept"} \subseteq DOMAIN fm
      /\ pair \in BlockPairs /\ l \in Seq(Vertex) /\ fm.kept \in 0 .. Len(l)
      /\ DOMAIN fm.queue \subseteq Vertex \ ToSet(l)
      /\ entry \in [Vertex -> Block]
  BY DEF Searching
<1>2. /\ {"pair", "moves", "gain", "best", "kept", "balanced", "initial"} \subseteq DOMAIN fm
      /\ fm.best \in Int /\ Fallen(entry, AtBest(entry, fm), pair, fm.best)
      /\ fm.balanced = Balanced(WeightsOf(AtBest(entry, fm)), pair)
      /\ Balanced(fm.initial, pair) => fm.balanced /\ fm.best >= 0
      /\ fm.balanced \/ fm.best >= 0
      /\ Once(l)
  BY DEF BestIs
<1>3. u \in DOMAIN fm.queue /\ partition[u] \in {pair[1], pair[2]} /\ u \in Vertex /\ u \notin ToSet(l)
  BY <1>1, ChosenOne
<1>4. new # partition[u] /\ new \in Block
  BY <1>1, <1>3, Opposites
<1>5. partition' = Moved(partition, u, new) /\ partition \in [Vertex -> Block]
  BY <1>3, <1>4, PmMoveKeeps DEF PmInv
<1>6. PmInv(partition', w, nVertices') /\ Searching(entry, partition', s)
  BY TrialMoveKeeps
<1>7. fm.queue[u] = won /\ won \in Int
  BY <1>1, ChosenTop
<1>8. /\ DOMAIN s = DOMAIN fm /\ s.pair = pair /\ s.initial = fm.initial
      /\ s.moves = Append(l, u) /\ s.gain = fm.gain + won
      /\ DOMAIN s.queue = DOMAIN fm.queue \ {u}
      /\ \A x \in DOMAIN fm.queue \ {u} : s.queue[x] = fm.queue[x]
      /\ best => s.kept = Len(l) + 1 /\ s.best = fm.gain + won /\ s.balanced = Balanced(w, pair)
      /\ ~ best => s.kept = fm.kept /\ s.best = fm.best /\ s.balanced = fm.balanced
  <2>1. fm.gain + won = fm.gain + fm.queue[u]
    BY <1>7
  <2>2. {"pair", "queue", "moves", "gain", "best", "kept", "balanced", "initial"} \subseteq DOMAIN fm
    BY <1>1, <1>2
  <2>3. best <=> BestSoFar(fm, w, fm.gain + won, new)
    BY <2>1, Zenon
  <2> DEFINE h == fm.gain + won
  <2> HIDE DEF h, won, w
  <2>4. s = Recorded(fm, u, w, new) /\ h = fm.gain + fm.queue[u]
    BY <2>1 DEF w, h
  <2>5. /\ DOMAIN s = DOMAIN fm /\ s.pair = fm.pair /\ s.initial = fm.initial
        /\ s.moves = Append(fm.moves, u) /\ s.gain = h
        /\ DOMAIN s.queue = DOMAIN fm.queue \ {u}
        /\ \A x \in DOMAIN fm.queue \ {u} : s.queue[x] = fm.queue[x]
        /\ BestSoFar(fm, w, h, new) =>
             s.kept = Len(fm.moves) + 1 /\ s.best = h /\ s.balanced = Balanced(w, fm.pair)
        /\ ~ BestSoFar(fm, w, h, new) =>
             s.kept = fm.kept /\ s.best = fm.best /\ s.balanced = fm.balanced
    <3> HIDE DEF best, pair, l
    <3> QED BY <2>2, <2>4, NumbersRecorded
  <2> HIDE DEF best
  <2> QED BY <2>3, <2>5 DEF h
<1>9. Fallen(entry, partition', pair, fm.gain + won)
  <2>1. d \in Nat /\ CostFall(partition, u, new) = d * won
    BY <1>1, <1>3, <1>5, MoveGainIsFall
  <2>2. Qap(partition') = Qap(partition) - 2 * CostFall(partition, u, new)
    BY <1>3, <1>4, <1>5, QapMoved
  <2>3. Qap(partition) = Qap(entry) - 2 * (d * fm.gain)
    BY DEF Fallen
  <2>4. Qap(entry) \in Int
    BY <1>1, QapType
  <2> DEFINE x == Qap(entry)
             y == fm.gain
             z == won
  <2> HIDE DEF x, y, z, d
  <2>5. d * (y + z) = d * y + d * z /\ d * y \in Int /\ d * z \in Int
    BY <1>7, <2>1 DEF y, z
  <2>6. Qap(partition') = x - 2 * (d * (y + z))
    BY <2>1, <2>2, <2>3, <2>4, <2>5 DEF x, y, z
  <2> QED BY <2>6 DEF Fallen, x, y, z, d
<1>10. WeightsOf(partition') = w
  BY <1>6 DEF PmInv, WeightsOf
<1>11. Once(s.moves)
  BY <1>1, <1>2, <1>3, <1>8, BestMoment
<1>12. BestIs(entry, s, AtBest(entry, s))
  <2>1. CASE best
    <3>1. AtBest(entry, s) = partition'
      <4>1. SubSeq(s.moves, 1, s.kept) = s.moves
        BY <1>1, <1>3, <1>8, <2>1, BestMoment
      <4> QED BY <1>6, <4>1 DEF AtBest, Searching
    <3>2. s.best = fm.gain + won /\ s.best \in Int /\ s.balanced = Balanced(w, pair)
      BY <1>7, <1>8, <2>1
    <3>3. Fallen(entry, AtBest(entry, s), s.pair, s.best)
      BY <1>8, <1>9, <3>1, <3>2
    <3>4. IF Balanced(w, pair) THEN ~ fm.balanced \/ s.best >= fm.best
          ELSE ~ fm.balanced /\ s.best >= fm.best
      BY <1>7, <2>1, <3>2 DEF BestSoFar
    <3>5. s.balanced = Balanced(WeightsOf(AtBest(entry, s)), s.pair)
      BY <1>8, <1>10, <3>1, <3>2
    <3> HIDE DEF pair, w
    <3>6. Balanced(fm.initial, pair) => s.balanced /\ s.best >= 0
      BY <1>2, <3>2, <3>4
    <3>7. s.balanced \/ s.best >= 0
      BY <1>2, <3>2, <3>4
    <3> QED BY <1>2, <1>8, <1>11, <3>2, <3>3, <3>5, <3>6, <3>7 DEF BestIs, pair
  <2>2. CASE ~ best
    <3>1. AtBest(entry, s) = AtBest(entry, fm)
      <4>1. SubSeq(s.moves, 1, s.kept) = SubSeq(l, 1, fm.kept)
        BY <1>1, <1>3, <1>8, <2>2, BestMoment
      <4> QED BY <1>8, <4>1 DEF AtBest
    <3> HIDE DEF best
    <3> QED BY <1>2, <1>8, <1>11, <2>2, <3>1 DEF BestIs
  <2> QED BY <2>1, <2>2
<1>13. QueueRight(partition', Updated(s, partition', u))
  <2>1. /\ {"pair", "queue", "moves"} \subseteq DOMAIN s /\ s.pair \in BlockPairs
        /\ DOMAIN s.queue \subseteq Vertex \ ToSet(s.moves)
    BY <1>6 DEF Searching
  <2>2. u \in ToSet(s.moves)
    BY <1>1, <1>3, <1>8, SetOfLonger
  <2>3. \A x \in DOMAIN s.queue : x \in DOMAIN fm.queue /\ s.queue[x] = fm.queue[x]
    BY <1>8
  <2>4. /\ \A x \in DOMAIN s.queue : s.queue[x] \in Int /\ partition[x] \in {s.pair[1], s.pair[2]}
        /\ \A x \in DOMAIN s.queue : Across(partition, s.pair, x) =>
             s.queue[x] = MoveGain(partition, s.pair, x)
    BY <1>8, <2>3 DEF QueueRight
  <2> QED BY <1>3, <1>4, <1>5, <2>1, <2>2, <2>4, HeapsRight
<1> QED BY <1>7, <1>8, <1>9, <1>12, <1>13

(* Nothing crosses when nothing has moved.                                  *)
LEMMA CrossedNone ==
  ASSUME NEW e \in [Vertex -> Block], NEW pair
  PROVE  Crossed(e, pair, {}) = e
BY DEF Crossed

(* The heaps begin with exact gains of vertices that touch the other block. *)
LEMMA SeedsExact ==
  ASSUME StructInv, NEW pair \in BlockPairs, NEW u \in DOMAIN SlotSeeds(pair)
  PROVE  /\ u \in Vertex /\ partition[u] \in {pair[1], pair[2]}
         /\ Across(partition, pair, u)
         /\ SlotSeeds(pair)[u] = MoveGain(partition, pair, u)
<1> DEFINE boundary == UNION {ToSet(bv.list[b]) : b \in ToSet(pair)}
           new(x) == Opposite(pair, partition[x])
           gain(x) == IF LastLevelPair(Hierarchy, pair[1], pair[2])
                      THEN CutDelta(x, partition[x], new(x)) ELSE QapDelta(x, partition[x], new(x))
           starts == {x \in boundary : \E i \in DOMAIN conn[x] : conn[x][i].id = new(x)}
<1>1. SlotSeeds(pair) = [x \in starts |-> gain(x)]
  BY DEF SlotSeeds
<1>2. u \in starts /\ SlotSeeds(pair)[u] = gain(u)
  BY <1>1
<1>3. partition \in [Vertex -> Block] /\ BvInv(partition, bv) /\ BcInv(partition, conn)
  BY DEF StructInv, PmInv, Derived
<1>4. PICK b \in ToSet(pair) : u \in ToSet(bv.list[b])
  BY <1>2
<1>5. b \in {pair[1], pair[2]} /\ b \in Block
  BY DEF ToSet, BlockPairs
<1>6. u \in BoundaryOf(partition, b)
  BY <1>3, <1>4, <1>5, BvInvSuffices DEF CorrectBoundary
<1>7. u \in Vertex /\ partition[u] = b
  BY <1>6 DEF BoundaryOf, Members
<1>8. new(u) \in Block /\ new(u) # partition[u]
  BY <1>5, <1>7, Opposites
<1>9. Represents(conn[u], Conns(partition, u))
  BY <1>3, <1>7 DEF BcInv
<1>10. Across(partition, pair, u)
  <2>1. PICK i \in DOMAIN conn[u] : conn[u][i].id = new(u)
    BY <1>2
  <2> DEFINE c == conn[u]
             W == Conns(partition, u)
  <2>2. i \in 1 .. Len(c) /\ c[i] \in Entries /\ c[i].w = W[new(u)]
    BY <1>9, <2>1, EntriesRepresented
  <2>3. ConnWeight(partition, u, new(u)) > 0
    BY <1>8, <2>2 DEF Entries, Conns
  <2>4. Into(partition, u, new(u)) # {}
    <3> SUFFICES ASSUME Into(partition, u, new(u)) = {} PROVE FALSE
      OBVIOUS
    <3>1. ConnWeight(partition, u, new(u)) = 0
      BY <1>7, ConnIsSum, SumEmpty
    <3> QED BY <2>3, <3>1
  <2> QED BY <2>4 DEF Into, Members, Across, Touches
<1>11. gain(u) = MoveGain(partition, pair, u)
  <2>1. CostGain(partition, u, partition[u], new(u)) = QapDelta(u, partition[u], new(u))
    BY <1>3, <1>7, <1>8, <1>9, GainFromSlots, CostGainIsFall
  <2>2. CutGain(partition, u, partition[u], new(u)) = CutDelta(u, partition[u], new(u))
    BY <1>3, <1>7, <1>8, <1>9, CutFromSlots DEF CutGain
  <2> QED BY <2>1, <2>2 DEF MoveGain
<1> QED BY <1>2, <1>5, <1>7, <1>10, <1>11

(* A search begins.                                                         *)
LEMMA SeedPromises ==
  ASSUME PairsInv, Seed
  PROVE  SearchInv'
<1>1. stage = "pair" /\ UNCHANGED structVars /\ stage' = "trial"
  BY DEF Seed
<1>2. PICK pair \in queue : entry' = partition /\ fm' = Start(pair, SlotSeeds(pair))
  BY DEF Seed
<1>3. StructInv /\ partition \in [Vertex -> Block] /\ pair \in BlockPairs
  BY <1>1, PairsAtRest DEF Trying, PairsInv
<1>4. partition' = partition /\ entry' = partition
  BY <1>1, <1>2 DEF structVars
<1> DEFINE seeds == SlotSeeds(pair)
           d == Scale(pair)
<1> HIDE DEF seeds
<1>5. /\ {"pair", "moves", "gain", "best", "kept", "balanced", "initial"} \subseteq DOMAIN fm'
      /\ fm'.pair = pair /\ fm'.queue = seeds /\ fm'.moves = <<>> /\ fm'.kept = 0
      /\ fm'.gain = 0 /\ fm'.best = 0 /\ fm'.initial = bweights
      /\ fm'.balanced = Balanced(bweights, pair)
  BY <1>2 DEF Start, seeds
<1>6. QueueRight(partition, fm')
  <2>1. \A u \in DOMAIN seeds :
          /\ u \in Vertex /\ partition[u] \in {pair[1], pair[2]}
          /\ Across(partition, pair, u) /\ seeds[u] = MoveGain(partition, pair, u)
    BY <1>3, SeedsExact DEF seeds
  <2>2. \A u \in DOMAIN seeds : seeds[u] \in Int
    BY <1>3, <2>1, MoveGainIsFall
  <2> QED BY <1>5, <2>1, <2>2 DEF QueueRight
<1>7. Fallen(partition, partition, pair, 0)
  <2>1. d \in Nat
    <3>1. pair[1] \in Block /\ pair[2] \in Block
      BY <1>3 DEF BlockPairs
    <3> QED BY <3>1, DistancesSymmetric DEF Scale
  <2>2. Qap(partition) \in Int
    BY <1>3, QapType
  <2> HIDE DEF d
  <2>3. d * 0 = 0
    BY <2>1
  <2> QED BY <2>2, <2>3 DEF Fallen, d
<1>8. AtBest(partition, fm') = partition
  <2>1. ToSet(SubSeq(fm'.moves, 1, fm'.kept)) = {}
    BY <1>5 DEF ToSet
  <2> QED BY <1>3, <2>1, CrossedNone DEF AtBest
<1>9. WeightsOf(partition) = bweights
  BY <1>3 DEF WeightsOf, StructInv, PmInv
<1>10. Once(fm'.moves)
  BY <1>5 DEF Once
<1>11. BestIs(partition, fm', AtBest(partition, fm'))
  BY <1>5, <1>7, <1>8, <1>9, <1>10 DEF BestIs
<1>12. /\ QueueRight(partition', fm') /\ fm'.gain \in Int
       /\ Fallen(entry', partition', fm'.pair, fm'.gain) /\ BestIs(entry', fm', AtBest(entry', fm'))
  BY <1>4, <1>5, <1>6, <1>7, <1>11
<1> QED BY <1>1, <1>12 DEF SearchInv, Trying

(* One more move is tried.                                                  *)
LEMMA TrialMovePromises ==
  ASSUME PairsInv, SearchInv, TrialMove
  PROVE  SearchInv'
<1>1. stage = "trial" /\ Trying /\ entry' = entry
  BY DEF TrialMove, Trying
<1>2. /\ PmInv(partition, bweights, nVertices) /\ Searching(entry, partition, fm)
      /\ QueueRight(partition, fm) /\ fm.gain \in Int
      /\ Fallen(entry, partition, fm.pair, fm.gain) /\ BestIs(entry, fm, AtBest(entry, fm))
  BY <1>1 DEF PairsInv, SearchInv
<1>3. PICK u \in Chosen(fm) :
        LET old == partition[u]
            new == Opposite(fm.pair, old)
        IN /\ PmMove(u, old, new)
           /\ LET s == Recorded(fm, u, bweights', new)
              IN \/ fm' = Updated(s, partition', u) /\ UNCHANGED stage
                 \/ s.idle > MinSteps /\ fm' = s /\ stage' = "revert"
  BY DEF TrialMove
<1> DEFINE new == Opposite(fm.pair, partition[u])
           s == Recorded(fm, u, bweights', new)
           r == Updated(s, partition', u)
<1>4. /\ PmMove(u, partition[u], new)
      /\ \/ fm' = r /\ stage' = "trial"
         \/ fm' = s /\ stage' = "revert"
  BY <1>1, <1>3
<1>5. /\ s.gain \in Int /\ Fallen(entry, partition', s.pair, s.gain)
      /\ BestIs(entry, s, AtBest(entry, s)) /\ QueueRight(partition', r)
  BY <1>2, <1>4, GainsAddUp
<1>6. /\ DOMAIN r = DOMAIN s /\ r.pair = s.pair /\ r.moves = s.moves /\ r.kept = s.kept
      /\ r.gain = s.gain /\ r.best = s.best /\ r.balanced = s.balanced /\ r.initial = s.initial
  <2>1. {"pair", "moves", "gain", "best", "kept", "balanced", "initial"} \subseteq DOMAIN s
    BY <1>5 DEF BestIs
  <2> HIDE DEF s
  <2>2. \E x : r = [s EXCEPT !.queue = x]
    BY DEF Updated
  <2> HIDE DEF r
  <2> QED BY <2>1, <2>2
<1> HIDE DEF new, s, r
<1>7. BestIs(entry, r, AtBest(entry, r)) /\ r.gain \in Int /\ Fallen(entry, partition', r.pair, r.gain)
  BY <1>5, <1>6 DEF BestIs, AtBest
<1> QED BY <1>1, <1>4, <1>5, <1>7 DEF SearchInv, Trying

(* What the moves of a search say, when only the list of moves has changed. *)
LEMMA SamePromise ==
  ASSUME NEW e, NEW s, NEW r, NEW B, BestIs(e, s, B),
         r = [s EXCEPT !.moves = r.moves], Once(r.moves)
  PROVE  BestIs(e, r, B)
<1>1. {"pair", "moves", "gain", "best", "kept", "balanced", "initial"} \subseteq DOMAIN s
  BY DEF BestIs
<1>2. /\ DOMAIN r = DOMAIN s /\ r.pair = s.pair /\ r.gain = s.gain /\ r.best = s.best
      /\ r.kept = s.kept /\ r.balanced = s.balanced /\ r.initial = s.initial
  <2> DEFINE m == r.moves
  <2>1. r = [s EXCEPT !.moves = m]
    OBVIOUS
  <2> HIDE DEF m
  <2> QED BY <1>1, <2>1
<1> QED BY <1>1, <1>2 DEF BestIs

(* A part of a list that names nothing twice names nothing twice.           *)
LEMMA OncePart ==
  ASSUME NEW S, NEW l \in Seq(S), Once(l)
  PROVE  /\ \A k \in 0 .. Len(l) : Once(SubSeq(l, 1, k))
         /\ l # <<>> =>
              /\ Once(Tail(l)) /\ Head(l) \notin ToSet(Tail(l))
              /\ ToSet(l) = ToSet(Tail(l)) \cup {Head(l)}
              /\ Tail(l) \in Seq(S) /\ Head(l) \in S
<1>1. Len(l) \in Nat /\ DOMAIN l = 1 .. Len(l) /\ \A i \in 1 .. Len(l) : l[i] \in S
  OBVIOUS
<1>2. ASSUME NEW k \in 0 .. Len(l) PROVE Once(SubSeq(l, 1, k))
  <2> DEFINE m == SubSeq(l, 1, k)
  <2>1. Len(m) = k /\ \A i \in 1 .. k : m[i] = l[i]
    BY <1>1
  <2> HIDE DEF m
  <2> QED BY <1>1, <2>1 DEF Once, m
<1>3. ASSUME l # <<>>
      PROVE  /\ Once(Tail(l)) /\ Head(l) \notin ToSet(Tail(l))
             /\ ToSet(l) = ToSet(Tail(l)) \cup {Head(l)}
             /\ Tail(l) \in Seq(S) /\ Head(l) \in S
  <2> DEFINE t == Tail(l)
             h == Head(l)
  <2>1. /\ Len(l) > 0 /\ h = l[1] /\ h \in S /\ t \in Seq(S)
        /\ Len(t) = Len(l) - 1 /\ DOMAIN t = 1 .. Len(t)
        /\ \A i \in 1 .. Len(t) : t[i] = l[i + 1]
    BY <1>1, <1>3
  <2> HIDE DEF t, h
  <2>2. Once(t)
    BY <1>1, <2>1 DEF Once
  <2>3. \A i \in 1 .. Len(t) : t[i] # h
    BY <1>1, <2>1 DEF Once
  <2>4. h \notin ToSet(t)
    BY <2>1, <2>3 DEF ToSet
  <2>5. ToSet(l) \subseteq ToSet(t) \cup {h}
    <3> SUFFICES ASSUME NEW i \in 1 .. Len(l) PROVE l[i] \in ToSet(t) \cup {h}
      BY <1>1 DEF ToSet
    <3>1. CASE i = 1
      BY <2>1, <3>1
    <3>2. CASE i # 1
      <4>1. i - 1 \in 1 .. Len(t) /\ l[i] = t[i - 1]
        BY <1>1, <2>1, <3>2
      <4> QED BY <2>1, <4>1 DEF ToSet
    <3> QED BY <3>1, <3>2
  <2>6. ToSet(t) \cup {h} \subseteq ToSet(l)
    <3>1. h \in ToSet(l)
      BY <1>1, <2>1 DEF ToSet
    <3>2. \A i \in 1 .. Len(t) : i + 1 \in 1 .. Len(l) /\ t[i] = l[i + 1]
      BY <1>1, <2>1
    <3>3. ToSet(t) \subseteq ToSet(l)
      BY <1>1, <2>1, <3>2 DEF ToSet
    <3> QED BY <3>1, <3>3
  <2> QED BY <2>1, <2>2, <2>4, <2>5, <2>6 DEF t, h
<1> QED BY <1>2, <1>3

(* The search is over: nothing moves.                                       *)
LEMMA EndTrialPromises ==
  ASSUME PairsInv, SearchInv, EndTrial
  PROVE  SearchInv'
<1>1. Trying /\ stage' = "revert" /\ fm' = fm /\ entry' = entry
  BY DEF EndTrial, Trying
<1>2. BestIs(entry', fm', AtBest(entry', fm'))
  BY <1>1 DEF SearchInv
<1> QED BY <1>1, <1>2 DEF SearchInv, Trying

(* With all moves taken back, those that are left in the list lead to the   *)
(* best moment.                                                             *)
LEMMA RevertPromises ==
  ASSUME PairsInv, SearchInv, Revert
  PROVE  SearchInv'
<1>1. Trying /\ stage' = "apply" /\ entry' = entry
  BY DEF Revert, Trying
<1>2. /\ PmInv(partition, bweights, nVertices) /\ Searching(entry, partition, fm)
      /\ BestIs(entry, fm, AtBest(entry, fm))
  BY <1>1 DEF PairsInv, SearchInv
<1>3. partition' = entry
  BY <1>2, RevertRestores
<1>4. fm' = [fm EXCEPT !.moves = SubSeq(@, 1, fm.kept)]
  BY DEF Revert
<1>5. "moves" \in DOMAIN fm /\ fm.moves \in Seq(Vertex) /\ fm.kept \in 0 .. Len(fm.moves)
      /\ "pair" \in DOMAIN fm /\ entry \in [Vertex -> Block]
  BY <1>2 DEF Searching
<1>6. fm'.moves = SubSeq(fm.moves, 1, fm.kept) /\ fm'.pair = fm.pair
  BY <1>4, <1>5
<1>7. fm' = [fm EXCEPT !.moves = fm'.moves]
  BY <1>4, <1>6
<1>8. Once(fm'.moves)
  BY <1>2, <1>5, <1>6, OncePart DEF BestIs
<1>9. BestIs(entry, fm', AtBest(entry, fm))
  BY <1>2, <1>7, <1>8, SamePromise
<1>10. AtBest(entry, fm) = Crossed(partition', fm'.pair, ToSet(fm'.moves))
  BY <1>3, <1>6 DEF AtBest
<1> QED BY <1>1, <1>5, <1>9, <1>10 DEF SearchInv, Trying

(* A move that is made again leaves the others to be made.                  *)
LEMMA ApplyKeptPromises ==
  ASSUME PairsInv, SearchInv, ApplyKept
  PROVE  SearchInv'
<1> DEFINE u == Head(fm.moves)
           t == Tail(fm.moves)
           new == Opposite(fm.pair, partition[u])
           p == partition
<1>1. /\ stage = "apply" /\ stage' = "apply" /\ entry' = entry /\ fm.moves # <<>>
      /\ ApplyMove(u, p[u], new) /\ fm' = [fm EXCEPT !.moves = t]
  BY DEF ApplyKept
<1>2. StructInv /\ WithinPair(p, fm) /\ p \in [Vertex -> Block]
  BY <1>1, PairsAtRest DEF PairsInv, Trying
<1>3. /\ BestIs(entry, fm, Crossed(p, fm.pair, ToSet(fm.moves)))
      /\ entry \in [Vertex -> Block]
  BY <1>1 DEF SearchInv
<1>4. /\ {"pair", "moves"} \subseteq DOMAIN fm /\ fm.pair \in BlockPairs
      /\ fm.moves \in Seq(Vertex)
      /\ \A x \in ToSet(fm.moves) : p[x] \in {fm.pair[1], fm.pair[2]}
  BY <1>2 DEF WithinPair
<1>5. /\ Once(t) /\ u \notin ToSet(t) /\ ToSet(fm.moves) = ToSet(t) \cup {u} /\ u \in Vertex
  BY <1>1, <1>3, <1>4, OncePart DEF BestIs
<1>6. fm'.moves = t /\ fm'.pair = fm.pair /\ fm' = [fm EXCEPT !.moves = fm'.moves]
  BY <1>1, <1>4
<1> HIDE DEF u, t
<1>7. new \in Block /\ new # p[u]
  BY <1>4, <1>5, Opposites
<1> HIDE DEF new
<1>8. partition' = Moved(p, u, new)
  BY <1>1, <1>2, <1>5, <1>7, ApplyMoveKeeps
<1>9. Crossed(partition', fm.pair, ToSet(t)) = Crossed(p, fm.pair, ToSet(fm.moves))
  <2> DEFINE S == ToSet(t)
             T == ToSet(fm.moves)
             m == partition'
  <2>1. m \in [Vertex -> Block] /\ m[u] = new /\ \A v \in Vertex \ {u} : m[v] = p[v]
    BY <1>2, <1>5, <1>7, <1>8, MembersMoved
  <2>2. T = S \cup {u} /\ u \notin S
    BY <1>5
  <2> HIDE DEF S, T, m, p
  <2>3. \A v \in Vertex : (IF v \in S THEN Opposite(fm.pair, m[v]) ELSE m[v])
                          = (IF v \in T THEN Opposite(fm.pair, p[v]) ELSE p[v])
    <3> SUFFICES ASSUME NEW v \in Vertex
                 PROVE  (IF v \in S THEN Opposite(fm.pair, m[v]) ELSE m[v])
                        = (IF v \in T THEN Opposite(fm.pair, p[v]) ELSE p[v])
      OBVIOUS
    <3>1. CASE v = u
      <4>1. new = Opposite(fm.pair, p[u])
        BY DEF new, p
      <4>2. m[v] = Opposite(fm.pair, p[v]) /\ v \notin S /\ v \in T
        BY <2>1, <2>2, <3>1, <4>1
      <4> QED BY <4>2
    <3>2. CASE v # u
      <4>1. m[v] = p[v] /\ (v \in S <=> v \in T)
        BY <2>1, <2>2, <3>2
      <4> QED BY <4>1
    <3> QED BY <3>1, <3>2
  <2> QED BY <2>3 DEF Crossed, S, T, m, p
<1>10. BestIs(entry, fm', Crossed(p, fm.pair, ToSet(fm.moves)))
  BY <1>3, <1>5, <1>6, SamePromise
<1>11. BestIs(entry, fm', Crossed(partition', fm'.pair, ToSet(fm'.moves)))
  BY <1>6, <1>9, <1>10
<1> QED BY <1>1, <1>3, <1>11 DEF SearchInv, Trying

(* Between the pairs there is no search.                                    *)
LEMMA RestPromises ==
  ASSUME stage \in {"find", "pair", "done"}
  PROVE  SearchInv
BY DEF SearchInv, Trying

(* What the run checks follows.                                             *)
LEMMA PromiseKept ==
  ASSUME PairsInv, SearchInv
  PROVE  SearchKeepsPromise
<1>1. GainsExact
  BY DEF SearchInv, QueueRight, Across, GainsExact
<1>2. ASSUME stage = "apply", fm.moves = <<>>
      PROVE  /\ Qap(entry) - Qap(partition) = 2 * Scale(fm.pair) * fm.best
             /\ Balanced(fm.initial, fm.pair) => fm.best >= 0 /\ Balanced(bweights, fm.pair)
             /\ fm.best < 0 => Balanced(bweights, fm.pair)
  <2>1. StructInv /\ WithinPair(partition, fm) /\ partition \in [Vertex -> Block]
    BY <1>2, PairsAtRest DEF PairsInv, Trying
  <2>2. BestIs(entry, fm, Crossed(partition, fm.pair, ToSet(fm.moves))) /\ entry \in [Vertex -> Block]
    BY <1>2 DEF SearchInv
  <2>3. Crossed(partition, fm.pair, ToSet(fm.moves)) = partition
    <3>1. ToSet(fm.moves) = {}
      BY <1>2 DEF ToSet
    <3> QED BY <2>1, <3>1, CrossedNone
  <2>4. BestIs(entry, fm, partition)
    BY <2>2, <2>3
  <2>5. WeightsOf(partition) = bweights
    BY <2>1 DEF WeightsOf, StructInv, PmInv
  <2>6. /\ fm.best \in Int /\ Qap(partition) = Qap(entry) - 2 * (Scale(fm.pair) * fm.best)
        /\ fm.balanced = Balanced(bweights, fm.pair)
        /\ Balanced(fm.initial, fm.pair) => fm.balanced /\ fm.best >= 0
        /\ fm.balanced \/ fm.best >= 0
    BY <2>4, <2>5 DEF BestIs, Fallen
  <2>7. Qap(entry) \in Int
    BY <2>2, QapType
  <2>8. Scale(fm.pair) \in Nat
    <3>1. fm.pair \in BlockPairs
      BY <2>1 DEF WithinPair
    <3>2. fm.pair[1] \in Block /\ fm.pair[2] \in Block
      BY <3>1 DEF BlockPairs
    <3> QED BY <3>2, DistancesSymmetric DEF Scale
  <2> DEFINE d == Scale(fm.pair)
             won == fm.best
             x == Qap(entry)
  <2> HIDE DEF d, won, x
  <2>9. 2 * d * won = 2 * (d * won) /\ d * won \in Int
    BY <2>6, <2>8 DEF d, won
  <2>10. Qap(entry) - Qap(partition) = 2 * Scale(fm.pair) * fm.best
    <3>1. Qap(partition) = x - 2 * (d * won) /\ x \in Int
      BY <2>6, <2>7 DEF d, won, x
    <3>2. x - Qap(partition) = 2 * d * won
      BY <2>9, <3>1
    <3> QED BY <3>2 DEF d, won, x
  <2> QED BY <2>6, <2>10
<1>3. PairKeepsBest
  BY <1>2 DEF PairKeepsBest
<1> QED BY <1>1, <1>3 DEF SearchKeepsPromise

(* However moves are tried, for a gain or a loss: every gain on top of a    *)
(* heap is what the move would change now, and the moves up to the best     *)
(* moment, made again after all were taken back, lower the cost by exactly  *)
(* what was promised; they overload no block of a pair that was balanced.   *)
THEOREM SearchesKeepPromise == SpecQR => []SearchKeepsPromise
<1> DEFINE Inv == PairsInv /\ SearchInv
<1>1. StructInit /\ InitQR => Inv
  <2> SUFFICES ASSUME StructInit, InitQR PROVE Inv
    OBVIOUS
  <2>1. stage = "find"
    BY DEF InitQR
  <2> QED BY <2>1, PairsInvInit, RestPromises
<1>2. Inv /\ [NextQR]_qrVars => Inv'
  <2> SUFFICES ASSUME PairsInv, SearchInv, [NextQR]_qrVars PROVE Inv'
    OBVIOUS
  <2>1. PairsInv'
    BY PairsInvNext
  <2>2. SearchInv'
    <3>1. CASE FindPairsToRefine \/ EndMatching \/ EndPair
      <4>1. stage' \in {"find", "pair", "done"}
        BY <3>1 DEF FindPairsToRefine, EndMatching, EndPair
      <4> QED BY <4>1 DEF SearchInv, Trying
    <3>2. CASE UNCHANGED qrVars
      <4>1. UNCHANGED <<stage, fm, entry, partition>>
        BY <3>2 DEF qrVars, structVars
      <4> QED BY <4>1 DEF SearchInv, Trying, QueueRight, Across, Touches, Opposite, MoveGain, CutGain
    <3> QED BY <3>1, <3>2, SeedPromises, TrialMovePromises, EndTrialPromises, RevertPromises,
               ApplyKeptPromises DEF NextQR
  <2> QED BY <2>1, <2>2
<1>3. Inv => SearchKeepsPromise
  BY PromiseKept
<1> QED BY <1>1, <1>2, <1>3, PTL DEF SpecQR

-----------------------------------------------------------------------------
(* The rebalancer.                                                          *)

(* The gain the rebalancer computes is that of the mapping's cost.          *)
LEMMA GainIsCost ==
  ASSUME StructInv, NEW u \in Vertex, NEW b \in Block
  PROVE  /\ GainOf(u, b) = CostGain(partition, u, partition[u], b)
         /\ GainOf(u, b) \in Int
<1>1. partition \in [Vertex -> Block] /\ Represents(conn[u], Conns(partition, u))
  BY DEF StructInv, Derived, PmInv, BcInv
<1>2. /\ QapDelta(u, partition[u], b) = CostFall(partition, u, b)
      /\ CostGain(partition, u, partition[u], b) = CostFall(partition, u, b)
      /\ CostFall(partition, u, b) \in Int
  BY <1>1, GainFromSlots, CostGainIsFall, CostFallType
<1> QED BY <1>2 DEF GainOf

(* Of finitely many moves one beats the others.                             *)
LEMMA OneBeatsAll ==
  ASSUME NEW S \in SUBSET Moves, IsFiniteSet(S), S # {}, bweights \in [Block -> Nat]
  PROVE  /\ \E m \in S : \A o \in S : Beats(m, o)
         /\ \E m \in S : \A o \in S : m.qap > o.qap \/ (m.qap = o.qap /\ m.at <= o.at)
<1> DEFINE Leads(m, o) == m.qap > o.qap \/ (m.qap = o.qap /\ m.at <= o.at)
           Q == {T \in SUBSET S : T = {} \/ \E m \in T : \A o \in T : Beats(m, o)}
           R == {T \in SUBSET S : T = {} \/ \E m \in T : \A o \in T : Leads(m, o)}
<1>1. {} \in Q /\ {} \in R
  OBVIOUS
<1>2. \A m \in S : m.qap \in Int /\ m.at \in Nat /\ bweights[m.best] \in Nat
  BY DEF Moves
<1>3. \A m, o, r \in S : /\ Beats(m, o) \/ Beats(o, m)
                         /\ Beats(m, o) /\ Beats(o, r) => Beats(m, r)
                         /\ Leads(m, o) \/ Leads(o, m)
                         /\ Leads(m, o) /\ Leads(o, r) => Leads(m, r)
  BY <1>2 DEF Beats
<1> HIDE DEF Leads
<1>4. ASSUME NEW T \in SUBSET S, NEW a \in S \ T, T \in Q PROVE T \cup {a} \in Q
  <2>1. CASE T = {}
    BY <1>3, <2>1
  <2>2. CASE T # {}
    <3>1. PICK m \in T : \A o \in T : Beats(m, o)
      BY <1>4, <2>2
    <3>2. CASE Beats(m, a)
      BY <3>1, <3>2
    <3>3. CASE ~ Beats(m, a)
      <4>1. Beats(a, m) /\ Beats(a, a)
        BY <1>3, <3>3
      <4>2. \A o \in T \cup {a} : Beats(a, o)
        BY <1>3, <3>1, <4>1
      <4> QED BY <4>2
    <3> QED BY <3>2, <3>3
  <2> QED BY <2>1, <2>2
<1>5. ASSUME NEW T \in SUBSET S, NEW a \in S \ T, T \in R PROVE T \cup {a} \in R
  <2>1. CASE T = {}
    BY <1>3, <2>1
  <2>2. CASE T # {}
    <3>1. PICK m \in T : \A o \in T : Leads(m, o)
      BY <1>5, <2>2
    <3>2. CASE Leads(m, a)
      BY <3>1, <3>2
    <3>3. CASE ~ Leads(m, a)
      <4>1. Leads(a, m) /\ Leads(a, a)
        BY <1>3, <3>3
      <4>2. \A o \in T \cup {a} : Leads(a, o)
        BY <1>3, <3>1, <4>1
      <4> QED BY <4>2
    <3> QED BY <3>2, <3>3
  <2> QED BY <2>1, <2>2
<1> HIDE DEF Q, R
<1>6. S \in Q
  BY <1>1, <1>4, SubsetInduction
<1>7. S \in R
  BY <1>1, <1>5, SubsetInduction
<1> QED BY <1>6, <1>7 DEF Q, R, Leads

(* What the targets of a vertex offer.                                      *)
LEMMA OptionsFit ==
  ASSUME StructInv, NEW u \in Vertex, NEW targets \in Seq(Block)
  PROVE  /\ Options(u, targets) \in SUBSET Moves /\ IsFiniteSet(Options(u, targets))
         /\ \A o \in Options(u, targets) :
              Fits(u, o.best) /\ o.qap = CostGain(partition, u, partition[u], o.best)
         /\ \A i \in DOMAIN targets : Fits(u, targets[i]) =>
              \E o \in Options(u, targets) : o.best = targets[i]
<1> DEFINE I == {j \in DOMAIN targets : Fits(u, targets[j])}
           f == [i \in I |-> [best |-> targets[i], qap |-> GainOf(u, targets[i]), at |-> i]]
           T == Options(u, targets)
<1>1. T = {f[i] : i \in I}
  BY DEF Options
<1>2. DOMAIN targets = 1 .. Len(targets) /\ Len(targets) \in Nat
      /\ \A i \in DOMAIN targets : targets[i] \in Block /\ i \in Nat
  OBVIOUS
<1>3. IsFiniteSet(I)
  <2>1. IsFiniteSet(1 .. Len(targets)) /\ I \in SUBSET (1 .. Len(targets))
    BY <1>2, FS_Interval
  <2> HIDE DEF I
  <2> QED BY <2>1, FS_Subset
<1>4. \A i \in I : /\ f[i] \in Moves /\ f[i].best = targets[i] /\ Fits(u, f[i].best)
                   /\ f[i].qap = CostGain(partition, u, partition[u], f[i].best)
  <2> SUFFICES ASSUME NEW i \in I
               PROVE  /\ f[i] \in Moves /\ f[i].best = targets[i] /\ Fits(u, f[i].best)
                      /\ f[i].qap = CostGain(partition, u, partition[u], f[i].best)
    OBVIOUS
  <2>1. targets[i] \in Block /\ i \in Nat /\ Fits(u, targets[i])
    BY <1>2
  <2>2. GainOf(u, targets[i]) = CostGain(partition, u, partition[u], targets[i])
        /\ GainOf(u, targets[i]) \in Int
    BY <2>1, GainIsCost
  <2> QED BY <2>1, <2>2 DEF Moves
<1>5. IsFiniteSet(T)
  <2>1. f \in Surjection(I, T)
    BY <1>1 DEF Surjection
  <2> HIDE DEF f, I, T
  <2> QED BY <1>3, <2>1, FS_Surjection
<1> HIDE DEF f, T
<1> QED BY <1>1, <1>4, <1>5 DEF T

(* The best of the options is one of them.                                  *)
LEMMA BestIsOption ==
  ASSUME NEW S \in SUBSET Moves, IsFiniteSet(S), bweights \in [Block -> Nat]
  PROVE  (S = {} => Best[S] = NoMove) /\ (S # {} => Best[S] \in S)
<1>1. Best[S] = IF S = {} THEN NoMove ELSE CHOOSE m \in S : \A o \in S : Beats(m, o)
  BY DEF Best
<1>2. S # {} => \E m \in S : \A o \in S : Beats(m, o)
  BY OneBeatsAll
<1> QED BY <1>1, <1>2

(* The moves to neighbours' blocks that would fit.                          *)
LEMMA LocalOptionsFit ==
  ASSUME StructInv, NEW u \in Vertex
  PROVE  /\ LocalOptions(u) \in SUBSET Moves /\ IsFiniteSet(LocalOptions(u))
         /\ \A o \in LocalOptions(u) :
              Fits(u, o.best) /\ o.qap = CostGain(partition, u, partition[u], o.best)
         /\ LocalOptions(u) = {} => \A v \in Adj(u) : ~ Fits(u, partition[v])
<1> DEFINE targets == [i \in DOMAIN AdjOrder[u] |-> partition[AdjOrder[u][i]]]
<1>1. partition \in [Vertex -> Block]
  BY DEF StructInv, PmInv
<1>2. /\ Len(AdjOrder[u]) \in Nat /\ DOMAIN AdjOrder[u] = 1 .. Len(AdjOrder[u])
      /\ \A i \in DOMAIN AdjOrder[u] : AdjOrder[u][i] \in Vertex
      /\ \A v \in Adj(u) : \E i \in DOMAIN AdjOrder[u] : AdjOrder[u][i] = v
  <2>1. Adj(u) \subseteq Vertex
    BY Neighbourhoods
  <2>2. /\ Len(AdjOrder[u]) \in Nat /\ DOMAIN AdjOrder[u] = 1 .. Len(AdjOrder[u])
        /\ \A i \in DOMAIN AdjOrder[u] : AdjOrder[u][i] \in Adj(u)
    BY AdjacencyOrder
  <2>3. \A v \in Adj(u) : \E i \in DOMAIN AdjOrder[u] : AdjOrder[u][i] = v
    BY AdjacencyOrder
  <2> QED BY <2>1, <2>2, <2>3
<1>3. targets \in Seq(Block)
  BY <1>1, <1>2
<1>4. LocalOptions(u) = Options(u, targets)
  BY DEF LocalOptions
<1>5. \A v \in Adj(u) : \E i \in DOMAIN targets : targets[i] = partition[v]
  BY <1>2
<1> HIDE DEF targets
<1> QED BY <1>3, <1>4, <1>5, OptionsFit

(* The moves to any other active block that would fit.                      *)
LEMMA AnyOptionsFit ==
  ASSUME StructInv, NEW u \in Vertex
  PROVE  /\ AnyOptions(u) \in SUBSET Moves /\ IsFiniteSet(AnyOptions(u))
         /\ \A o \in AnyOptions(u) :
              Fits(u, o.best) /\ o.qap = CostGain(partition, u, partition[u], o.best)
         /\ AnyOptions(u) = {} => \A b \in Active \ {partition[u]} : ~ Fits(u, b)
<1>1. Block \subseteq Int /\ IsFiniteSet(Block)
  BY GraphAssumption
<1>2. /\ AllBlocks \in Seq(Block)
      /\ \A b \in Block : \E i \in DOMAIN AllBlocks : AllBlocks[i] = b
  BY <1>1, AscendingLists DEF AllBlocks
<1>3. /\ Options(u, AllBlocks) \in SUBSET Moves /\ IsFiniteSet(Options(u, AllBlocks))
      /\ \A o \in Options(u, AllBlocks) :
           Fits(u, o.best) /\ o.qap = CostGain(partition, u, partition[u], o.best)
      /\ \A i \in DOMAIN AllBlocks : Fits(u, AllBlocks[i]) =>
           \E o \in Options(u, AllBlocks) : o.best = AllBlocks[i]
  BY <1>2, OptionsFit
<1>4. AnyOptions(u) \in SUBSET Options(u, AllBlocks)
  BY DEF AnyOptions
<1>5. IsFiniteSet(AnyOptions(u))
  BY <1>3, <1>4, FS_Subset
<1>6. ASSUME AnyOptions(u) = {}, NEW b \in Active \ {partition[u]}, Fits(u, b) PROVE FALSE
  <2>1. b \in Block
    BY RebalancerAssumption
  <2>2. PICK o \in Options(u, AllBlocks) : o.best = b
    BY <1>2, <1>3, <1>6, <2>1
  <2>3. o \in AnyOptions(u)
    BY <2>2 DEF AnyOptions
  <2> QED BY <1>6, <2>3
<1> QED BY <1>3, <1>4, <1>5, <1>6

(* The best move of a vertex in an overloaded block: to a block with room,  *)
(* with the gain it has; and there is none only when there is no room.      *)
LEMMA BestMoveRight ==
  ASSUME StructInv, NEW u \in Vertex, Overloaded(partition[u])
  PROVE  /\ BestMove(u).best # NoBlock =>
              /\ BestMove(u) \in Moves
              /\ Fits(u, BestMove(u).best) /\ BestMove(u).best # partition[u]
              /\ BestMove(u).qap = CostGain(partition, u, partition[u], BestMove(u).best)
         /\ BestMove(u).best = NoBlock =>
              /\ \A v \in Adj(u) : ~ Fits(u, partition[v])
              /\ pass = "global" => \A b \in Active : ~ Fits(u, b)
<1> DEFINE L == LocalOptions(u)
           A == AnyOptions(u)
<1>1. /\ bweights \in [Block -> Nat] /\ partition[u] \in Block /\ VertexWeight[u] \in Nat
      /\ Lmax \in [Block -> Int]
  BY GraphAssumption, LmaxAssumption DEF StructInv, PmInv
<1>2. ~ Fits(u, partition[u])
  BY <1>1 DEF Overloaded, Fits
<1>3. /\ L \in SUBSET Moves
      /\ \A o \in L : Fits(u, o.best) /\ o.qap = CostGain(partition, u, partition[u], o.best)
      /\ L = {} => \A v \in Adj(u) : ~ Fits(u, partition[v])
  BY LocalOptionsFit
<1>4. /\ A \in SUBSET Moves
      /\ \A o \in A : Fits(u, o.best) /\ o.qap = CostGain(partition, u, partition[u], o.best)
      /\ A = {} => \A b \in Active \ {partition[u]} : ~ Fits(u, b)
  BY AnyOptionsFit
<1>5. /\ (L = {} => Best[L] = NoMove) /\ (L # {} => Best[L] \in L)
      /\ (A = {} => Best[A] = NoMove) /\ (A # {} => Best[A] \in A)
  BY <1>1, LocalOptionsFit, AnyOptionsFit, BestIsOption
<1>6. NoMove.best = NoBlock /\ NoBlock \notin Block
  BY RebalancerAssumption DEF NoMove
<1>7. \A m \in Moves : m.best \in Block
  BY DEF Moves
<1>8. BestMove(u) = IF pass = "global" THEN (IF L = {} THEN Best[A] ELSE Best[L])
                    ELSE Best[L]
  BY DEF BestMove, GlobalBest, LocalBest
<1> HIDE DEF L, A
<1>9. CASE BestMove(u) \in L \cup A
  <2>1. BestMove(u) \in Moves /\ Fits(u, BestMove(u).best)
        /\ BestMove(u).qap = CostGain(partition, u, partition[u], BestMove(u).best)
    BY <1>3, <1>4, <1>9
  <2> QED BY <1>2, <1>6, <1>7, <2>1
<1>10. CASE BestMove(u) = NoMove /\ BestMove(u) \notin L \cup A
  <2>1. L = {} /\ (pass = "global" => A = {})
    BY <1>5, <1>8, <1>10
  <2> QED BY <1>2, <1>3, <1>4, <1>6, <1>10, <2>1
<1> QED BY <1>5, <1>8, <1>9, <1>10

QueueEntries == [u : Vertex, move : Moves, sid : Nat]

(* New entries are right.                                                   *)
LEMMA NewEntriesRight ==
  StructInv =>
    \A S \in SUBSET Vertex, ids \in [Vertex -> Nat] :
      (\A u \in S : Overloaded(partition[u])) =>
        \A e \in NewEntries(S, ids) :
          /\ e \in QueueEntries /\ e.u \in S /\ e.sid = ids[e.u]
          /\ Fits(e.u, e.move.best) /\ e.move.best # partition[e.u]
          /\ e.move.qap = CostGain(partition, e.u, partition[e.u], e.move.best)
<1> SUFFICES ASSUME StructInv, NEW S \in SUBSET Vertex, NEW ids \in [Vertex -> Nat],
                    \A u \in S : Overloaded(partition[u]), NEW e \in NewEntries(S, ids)
             PROVE  /\ e \in QueueEntries /\ e.u \in S /\ e.sid = ids[e.u]
                    /\ Fits(e.u, e.move.best) /\ e.move.best # partition[e.u]
                    /\ e.move.qap = CostGain(partition, e.u, partition[e.u], e.move.best)
  OBVIOUS
<1>1. PICK u \in S : e = [u |-> u, move |-> BestMove(u), sid |-> ids[u]]
  BY DEF NewEntries
<1>2. e.move.best # NoBlock
  BY DEF NewEntries
<1>3. e.u = u /\ e.move = BestMove(u) /\ e.sid = ids[u]
  BY <1>1
<1>4. /\ BestMove(u) \in Moves
      /\ Fits(u, BestMove(u).best) /\ BestMove(u).best # partition[u]
      /\ BestMove(u).qap = CostGain(partition, u, partition[u], BestMove(u).best)
  BY <1>2, <1>3, BestMoveRight
<1>5. e \in QueueEntries
  BY <1>1, <1>4 DEF QueueEntries
<1> QED BY <1>3, <1>4, <1>5

(* The vertices a round begins with.                                        *)
LEMMA OverloadedBoundary ==
  ASSUME StructInv
  PROVE  /\ BoundaryOfOverloaded \in SUBSET Vertex
         /\ \A u \in BoundaryOfOverloaded : IsBoundary(u) /\ Overloaded(partition[u])
<1> SUFFICES ASSUME NEW u \in BoundaryOfOverloaded
             PROVE  u \in Vertex /\ IsBoundary(u) /\ Overloaded(partition[u])
  OBVIOUS
<1>1. PICK b \in Block : Overloaded(b) /\ u \in ToSet(bv.list[b])
  BY DEF BoundaryOfOverloaded
<1>2. BvInv(partition, bv)
  BY DEF StructInv, Derived
<1>3. ToSet(bv.list[b]) = BoundaryOf(partition, b)
  BY <1>2 DEF BvInv, Listed, Boundaries
<1>4. u \in Vertex /\ partition[u] = b /\ CutDegree(partition, u) > 0
  BY <1>1, <1>3 DEF BoundaryOf, Members
<1>5. bv.count[u] = CutDegree(partition, u)
  BY <1>2, <1>4 DEF BvInv
<1> QED BY <1>1, <1>4, <1>5 DEF IsBoundary

-----------------------------------------------------------------------------
(* What the rebalancer keeps: right structures, what LoopComplete says, and *)
(* a queue whose current entries are true; as long as a round has moved     *)
(* nothing, the queue holds exactly what the round began with.              *)
Rounds == [tried : Nat, moved : BOOLEAN, filled : BOOLEAN]

RebTyped ==
  /\ pass \in {"local", "residual", "candidates", "global", "done"}
  /\ lastLayer \in BOOLEAN
  /\ inner \in Rounds
  /\ stateIds \in [Vertex -> Nat]
  /\ residual \in [cands : Seq(Vertex), under : Seq(Block)]

QueueInv ==
  /\ heap \subseteq QueueEntries
  /\ \A m \in heap : m.sid <= stateIds[m.u]
  /\ inner.filled => InLoop
  /\ heap # {} => inner.filled
  /\ inner.filled /\ ~ inner.moved =>
       inner.tried = 0 /\ heap = NewEntries(BoundaryOfOverloaded, stateIds)

RebInv == StructInv /\ RebTyped /\ QueueInv /\ EntriesFresh /\ LoopComplete

(* Loops are followed by what LoopComplete speaks of, the others are not.   *)
LEMMA PassOrder ==
  ASSUME RebTyped
  PROVE  /\ pass = "local" => NextPass = "residual"
         /\ pass = "global" => NextPass = "done"
         /\ pass \in {"residual", "candidates"} =>
              NextPass \in {"global", "done"} /\ (NextPass = "done" => ~ lastLayer)
BY DEF RebTyped, NextPass

(* What a vertex would be entered with depends on the structures only.      *)
LEMMA SameEntries ==
  ASSUME UNCHANGED structVars, UNCHANGED pass
  PROVE  /\ BoundaryOfOverloaded' = BoundaryOfOverloaded
         /\ \A S, ids : NewEntries(S, ids)' = NewEntries(S, ids)
<1>1. /\ partition' = partition /\ bweights' = bweights /\ bv' = bv /\ conn' = conn
      /\ pass' = pass
  BY DEF structVars
<1>2. \A b : Overloaded(b)' = Overloaded(b)
  BY <1>1 DEF Overloaded
<1>3. BoundaryOfOverloaded' = BoundaryOfOverloaded
  BY <1>1, <1>2 DEF BoundaryOfOverloaded
<1>4. \A u, b : GainOf(u, b)' = GainOf(u, b)
  BY <1>1 DEF GainOf, QapDelta, CostGain, MapThenSumSet, MapThenFoldSet
<1>5. \A u, targets : Options(u, targets)' = Options(u, targets)
  BY <1>1, <1>4 DEF Options, Fits
<1>7. Best' = Best
  BY <1>1 DEF Best, Beats
<1>8. \A u : LocalOptions(u)' = LocalOptions(u)
  BY <1>1, <1>5 DEF LocalOptions
<1>9. \A u : AnyOptions(u)' = AnyOptions(u)
  BY <1>1, <1>5 DEF AnyOptions
<1>10. \A u : BestMove(u)' = BestMove(u)
  BY <1>1, <1>7, <1>8, <1>9 DEF BestMove, GlobalBest, LocalBest
<1>11. \A S, ids : NewEntries(S, ids)' = NewEntries(S, ids)
  BY <1>10 DEF NewEntries
<1> QED BY <1>3, <1>11

(* Before the first move of a round every entry counts and fits.            *)
LEMMA UntouchedRound ==
  ASSUME RebInv, inner.filled, ~ inner.moved, NEW m \in heap
  PROVE  Live(m) /\ Fits(m.u, m.move.best)
<1>1. heap = NewEntries(BoundaryOfOverloaded, stateIds) /\ stateIds \in [Vertex -> Nat]
  BY DEF RebInv, QueueInv, RebTyped
<1>2. /\ BoundaryOfOverloaded \in SUBSET Vertex
      /\ \A u \in BoundaryOfOverloaded : IsBoundary(u) /\ Overloaded(partition[u])
  BY OverloadedBoundary DEF RebInv
<1>3. m.u \in BoundaryOfOverloaded /\ m.sid = stateIds[m.u] /\ Fits(m.u, m.move.best)
  BY <1>1, <1>2, NewEntriesRight DEF RebInv
<1> QED BY <1>2, <1>3 DEF Live, CurrentOf

(* The rebalancer starts so.                                                *)
LEMMA RebInvInit == StructInit /\ InitReb => RebInv
<1> SUFFICES ASSUME StructInit, InitReb PROVE RebInv
  OBVIOUS
<1>1. StructInv
  BY StructuresFromScratch DEF StructInit
<1>3. RebTyped
  <2>1. NewRound \in Rounds
    BY DEF NewRound, Rounds
  <2>2. NoResidual \in [cands : Seq(Vertex), under : Seq(Block)]
    BY DEF NoResidual
  <2> QED BY <2>1, <2>2 DEF InitReb, RebTyped
<1>4. QueueInv
  BY DEF InitReb, QueueInv, NewRound
<1>5. EntriesFresh
  BY DEF InitReb, EntriesFresh
<1>6. LoopComplete
  BY DEF InitReb, LoopComplete
<1> QED BY <1>1, <1>3, <1>4, <1>5, <1>6 DEF RebInv

(* What the gains are read from stays: so do the entries.                   *)
LEMMA FillHeapKeeps == ASSUME RebInv, FillHeap PROVE RebInv'
<1>1. /\ InLoop /\ UNCHANGED structVars /\ pass' = pass /\ UNCHANGED lastLayer /\ UNCHANGED residual
      /\ stateIds' = Refreshed(BoundaryOfOverloaded, stateIds)
      /\ heap' = NewEntries(BoundaryOfOverloaded, stateIds')
      /\ inner' = [tried |-> 0, moved |-> FALSE, filled |-> TRUE]
  BY DEF FillHeap, NewRound
<1>2. StructInv /\ RebTyped
  BY DEF RebInv
<1>3. StructInv'
  BY <1>1, <1>2, StructInvUnchanged
<1>4. /\ BoundaryOfOverloaded \in SUBSET Vertex
      /\ \A u \in BoundaryOfOverloaded : IsBoundary(u) /\ Overloaded(partition[u])
  BY <1>2, OverloadedBoundary
<1>5. stateIds' \in [Vertex -> Nat]
  BY <1>1, <1>2 DEF RebTyped, Refreshed
<1>6. \A e \in heap' :
        /\ e \in QueueEntries /\ e.sid = stateIds'[e.u]
        /\ e.move.best # partition[e.u]
        /\ e.move.qap = CostGain(partition, e.u, partition[e.u], e.move.best)
  BY <1>1, <1>2, <1>4, <1>5, NewEntriesRight
<1>7. RebTyped'
  BY <1>1, <1>2, <1>5 DEF RebTyped, Rounds
<1>9. QueueInv'
  <2>1. heap' = NewEntries(BoundaryOfOverloaded, stateIds)'
    <3>1. \A ids : NewEntries(BoundaryOfOverloaded, ids)' = NewEntries(BoundaryOfOverloaded, ids)
      BY <1>1, SameEntries
    <3> QED BY <1>1, <3>1
  <2>2. InLoop'
    BY <1>1 DEF InLoop
  <2>3. \A e \in heap' : e.sid <= stateIds'[e.u]
    BY <1>5, <1>6 DEF QueueEntries
  <2> QED BY <1>1, <1>6, <2>1, <2>2, <2>3 DEF QueueInv
<1>10. EntriesFresh'
  <2>1. partition' = partition
    BY <1>1 DEF structVars
  <2> QED BY <1>6, <2>1 DEF EntriesFresh
<1>11. LoopComplete'
  BY <1>1 DEF InLoop, LoopComplete
<1> QED BY <1>3, <1>7, <1>9, <1>10, <1>11 DEF RebInv

(* One more try counts only itself.                                         *)
LEMMA OneMoreTry ==
  ASSUME NEW r \in Rounds
  PROVE  LET t == [r EXCEPT !.tried = @ + 1]
         IN  t \in Rounds /\ t.moved = r.moved /\ t.filled = r.filled
BY DEF Rounds

(* An entry that does not count is taken out.                               *)
LEMMA DropOutdatedKeeps == ASSUME RebInv, NEW m \in heap, DropOutdated(m) PROVE RebInv'
<1>1. /\ InLoop /\ UNCHANGED structVars /\ pass' = pass /\ UNCHANGED lastLayer
      /\ UNCHANGED residual /\ stateIds' = stateIds /\ inner.filled /\ ~ Live(m)
      /\ heap' = heap \ {m} /\ inner' = [inner EXCEPT !.tried = @ + 1]
  BY DEF DropOutdated, Popping, Tried
<1>2. StructInv /\ RebTyped /\ QueueInv /\ EntriesFresh
  BY DEF RebInv
<1>3. inner.moved
  BY <1>1, UntouchedRound
<1>4. StructInv'
  BY <1>1, <1>2, StructInvUnchanged
<1>5. RebTyped' /\ inner'.moved /\ inner'.filled
  <2>1. inner' \in Rounds /\ inner'.moved = inner.moved /\ inner'.filled = inner.filled
    BY <1>1, <1>2, OneMoreTry DEF RebTyped
  <2>2. RebTyped'
    BY <1>1, <1>2, <2>1 DEF RebTyped
  <2> QED BY <1>1, <1>3, <2>1, <2>2, Zenon
<1>6. QueueInv'
  BY <1>1, <1>2, <1>5 DEF QueueInv, InLoop
<1>7. EntriesFresh'
  BY <1>1, <1>2 DEF EntriesFresh, Live, CurrentOf, IsBoundary, Overloaded, structVars
<1>8. LoopComplete'
  BY <1>1 DEF InLoop, LoopComplete
<1> QED BY <1>4, <1>5, <1>6, <1>7, <1>8 DEF RebInv

(* A vertex whose target is full is entered anew.                           *)
LEMMA RetargetKeeps == ASSUME RebInv, NEW m \in heap, Retarget(m) PROVE RebInv'
<1> DEFINE new == NewEntries({m.u}, stateIds')
<1>1. /\ InLoop /\ UNCHANGED structVars /\ pass' = pass /\ UNCHANGED lastLayer
      /\ UNCHANGED residual /\ inner.filled /\ Live(m) /\ ~ Fits(m.u, m.move.best)
      /\ stateIds' = Refreshed({m.u}, stateIds)
      /\ heap' = (heap \ {m}) \cup new /\ inner' = [inner EXCEPT !.tried = @ + 1]
  BY DEF Retarget, Popping, Tried
<1>2. StructInv /\ RebTyped /\ QueueInv /\ EntriesFresh
  BY DEF RebInv
<1>3. inner.moved
  BY <1>1, UntouchedRound
<1>4. StructInv'
  BY <1>1, <1>2, StructInvUnchanged
<1>5. stateIds' \in [Vertex -> Nat] /\ m.u \in Vertex
      /\ \A v \in Vertex : stateIds'[v] = IF v = m.u THEN stateIds[v] + 1 ELSE stateIds[v]
  BY <1>1, <1>2 DEF RebTyped, Refreshed, QueueInv, QueueEntries
<1>6. RebTyped' /\ inner'.moved /\ inner'.filled
  <2>1. inner' \in Rounds /\ inner'.moved = inner.moved /\ inner'.filled = inner.filled
    BY <1>1, <1>2, OneMoreTry DEF RebTyped
  <2>2. RebTyped'
    BY <1>1, <1>2, <1>5, <2>1 DEF RebTyped
  <2> QED BY <1>1, <1>3, <2>1, <2>2, Zenon
<1>7. \A e \in new :
        /\ e \in QueueEntries /\ e.sid = stateIds'[e.u]
        /\ e.move.best # partition[e.u]
        /\ e.move.qap = CostGain(partition, e.u, partition[e.u], e.move.best)
  <2>1. {m.u} \in SUBSET Vertex /\ \A v \in {m.u} : Overloaded(partition[v])
    BY <1>1, <1>5 DEF Live
  <2> HIDE DEF RebInv
  <2> QED BY <1>2, <1>5, <2>1, NewEntriesRight
<1> HIDE DEF new
<1>8. \A e \in heap : /\ e \in QueueEntries /\ e.u \in Vertex /\ e.sid \in Nat
                      /\ e.sid <= stateIds[e.u] /\ stateIds[e.u] \in Nat
  BY <1>2 DEF QueueInv, QueueEntries, RebTyped
<1>9. QueueInv'
  <2>1. \A e \in heap' : e \in QueueEntries /\ e.sid <= stateIds'[e.u]
    <3>1. \A e \in new : e \in QueueEntries /\ e.sid <= stateIds'[e.u]
      BY <1>5, <1>7 DEF QueueEntries
    <3>2. \A e \in heap : e \in QueueEntries /\ e.sid <= stateIds'[e.u]
      BY <1>5, <1>8
    <3> QED BY <1>1, <3>1, <3>2
  <2>2. InLoop'
    BY <1>1 DEF InLoop
  <2> QED BY <1>6, <2>1, <2>2 DEF QueueInv
<1>10. EntriesFresh'
  <2> SUFFICES ASSUME NEW e \in heap', Live(e)'
               PROVE  /\ e.move.best # partition'[e.u]
                      /\ e.move.qap = CostGain(partition, e.u, partition[e.u], e.move.best)'
    BY DEF EntriesFresh
  <2>1. partition' = partition
    BY <1>1 DEF structVars
  <2>2. CASE e \in new
    BY <1>7, <2>1, <2>2
  <2>3. CASE e \in heap
    <3>1. stateIds'[e.u] = e.sid
      BY DEF Live, CurrentOf
    <3>2. e.u # m.u /\ stateIds[e.u] = e.sid
      BY <1>5, <1>8, <2>3, <3>1
    <3>3. Live(e)
      BY <1>1, <3>2 DEF Live, CurrentOf, IsBoundary, Overloaded, structVars
    <3> QED BY <1>2, <2>1, <2>3, <3>3 DEF EntriesFresh
  <2> QED BY <1>1, <2>2, <2>3
<1>11. LoopComplete'
  BY <1>1 DEF InLoop, LoopComplete
<1> QED BY <1>4, <1>6, <1>9, <1>10, <1>11 DEF RebInv

(* The new entries of neighbours are right.                                 *)
ConcernedRight ==
  \A u \in Vertex : \A e \in NewEntries(Concerned(u), stateIds) :
    /\ e \in QueueEntries /\ e.sid = stateIds[e.u]
    /\ e.move.best # partition[e.u]
    /\ e.move.qap = CostGain(partition, e.u, partition[e.u], e.move.best)

LEMMA ConcernedEntries == StructInv /\ RebTyped => ConcernedRight
<1> SUFFICES ASSUME StructInv, RebTyped,
                    NEW u \in Vertex, NEW e \in NewEntries(Concerned(u), stateIds)
             PROVE  /\ e \in QueueEntries /\ e.sid = stateIds[e.u]
                    /\ e.move.best # partition[e.u]
                    /\ e.move.qap = CostGain(partition, e.u, partition[e.u], e.move.best)
  BY DEF ConcernedRight
<1>2. stateIds \in [Vertex -> Nat]
  BY DEF RebTyped
<1>1. Concerned(u) \in SUBSET Vertex /\ \A v \in Concerned(u) : Overloaded(partition[v])
  BY Neighbourhoods DEF Concerned
<1> QED BY <1>1, <1>2, NewEntriesRight

(* What a move to a block with room does to the weights: it can relieve an  *)
(* overloaded block, and it overloads none.                                 *)
LEMMA MoveRelieves ==
  ASSUME StructInv, NEW u \in Vertex, NEW new \in Block, new # partition[u],
         Fits(u, new), ApplyMove(u, partition[u], new)
  PROVE  /\ StructInv' /\ partition' = Moved(partition, u, new)
         /\ ~ Overloaded(new)'
         /\ \A b \in Block : Overloaded(b)' => Overloaded(b)
         /\ \A b \in Block : BlockWeight(partition', b) > Lmax[b] =>
              BlockWeight(partition', b) <= BlockWeight(partition, b)
<1>1. StructInv' /\ partition' = Moved(partition, u, new)
  BY ApplyMoveKeeps
<1>2. PmInv(partition, bweights, nVertices) /\ PmMove(u, partition[u], new)
  BY DEF StructInv, ApplyMove
<1>3. /\ PmInv(partition', bweights', nVertices')
      /\ bweights'[new] = bweights[new] + VertexWeight[u]
      /\ bweights'[partition[u]] = bweights[partition[u]] - VertexWeight[u]
      /\ \A b \in Block : b # partition[u] /\ b # new => bweights'[b] = bweights[b]
  BY <1>2, PmMoveKeeps
<1>4. \A b \in Block : /\ bweights[b] \in Nat /\ bweights'[b] \in Nat /\ Lmax[b] \in Int
                       /\ bweights[b] = BlockWeight(partition, b)
                       /\ bweights'[b] = BlockWeight(partition', b)
  BY <1>2, <1>3, LmaxAssumption DEF PmInv
<1>5. VertexWeight[u] \in Nat
  BY GraphAssumption
<1>6. bweights'[new] <= Lmax[new]
  BY <1>3 DEF Fits
<1>7. \A b \in Block : b # new => bweights'[b] <= bweights[b]
  BY <1>3, <1>4, <1>5
<1>8. \A b \in Block : bweights'[b] > Lmax[b] => b # new
  BY <1>4, <1>6
<1> QED BY <1>1, <1>4, <1>7, <1>8 DEF Overloaded

(* A move outdates the entries of the vertices whose gains it changes: what *)
(* still counts is true.                                                    *)
LEMMA MoveTopKeeps ==
  ASSUME RebInv, NEW m \in heap, MoveTop(m)
  PROVE  /\ RebInv'
         /\ \A b \in Block : BlockWeight(partition', b) > Lmax[b] =>
              BlockWeight(partition', b) <= BlockWeight(partition, b)
<1> DEFINE u == m.u
           best == m.move.best
           new == NewEntries(Concerned(m.u), stateIds)'
<1>1. /\ InLoop /\ pass' = pass /\ UNCHANGED lastLayer /\ UNCHANGED residual
      /\ inner.filled /\ Live(m) /\ Fits(u, best) /\ ApplyMove(u, partition[u], best)
      /\ stateIds' = Refreshed(Concerned(u)', stateIds)
      /\ heap' = (heap \ {m}) \cup new
      /\ inner' = [[inner EXCEPT !.tried = @ + 1] EXCEPT !.moved = TRUE]
  BY DEF MoveTop, Popping, Tried
<1>2. StructInv /\ RebTyped /\ QueueInv /\ EntriesFresh
  BY DEF RebInv
<1>3. u \in Vertex /\ best \in Block /\ best # partition[u]
  BY <1>1, <1>2 DEF QueueInv, QueueEntries, Moves, EntriesFresh
<1>4. /\ StructInv' /\ partition' = Moved(partition, u, best)
      /\ ~ Overloaded(best)'
      /\ \A b \in Block : Overloaded(b)' => Overloaded(b)
      /\ \A b \in Block : BlockWeight(partition', b) > Lmax[b] =>
           BlockWeight(partition', b) <= BlockWeight(partition, b)
  BY <1>1, <1>2, <1>3, MoveRelieves
<1>5. \A v \in Vertex : stateIds'[v] = IF v \in Concerned(u)' THEN stateIds[v] + 1 ELSE stateIds[v]
  BY <1>1 DEF Refreshed
<1>6. stateIds' \in [Vertex -> Nat]
  BY <1>1, <1>2 DEF RebTyped, Refreshed
<1>7. RebTyped' /\ inner'.moved /\ inner'.filled
  <2> DEFINE t == [inner EXCEPT !.tried = @ + 1]
  <2>3. t \in Rounds /\ t.filled = inner.filled
    BY <1>2, OneMoreTry DEF RebTyped
  <2> HIDE DEF t
  <2>4. [t EXCEPT !.moved = TRUE] \in Rounds /\ [t EXCEPT !.moved = TRUE].moved = TRUE
        /\ [t EXCEPT !.moved = TRUE].filled = t.filled
    BY <2>3 DEF Rounds
  <2>1. inner' \in Rounds /\ inner'.moved = TRUE /\ inner'.filled = inner.filled
    BY <1>1, <2>3, <2>4 DEF t
  <2>2. RebTyped'
    BY <1>1, <1>2, <1>6, <2>1 DEF RebTyped
  <2> QED BY <1>1, <2>1, <2>2, Zenon
<1>8. \A e \in new :
        /\ e \in QueueEntries /\ e.sid = stateIds'[e.u]
        /\ e.move.best # partition'[e.u]
        /\ e.move.qap = CostGain(partition, e.u, partition[e.u], e.move.best)'
  <2>1. StructInv' /\ RebTyped' => ConcernedRight'
    BY ConcernedEntries, PTL
  <2> QED BY <1>3, <1>4, <1>7, <2>1 DEF ConcernedRight
<1>9. \A e \in heap : /\ e \in QueueEntries /\ e.u \in Vertex /\ e.sid \in Nat
                      /\ e.move.best \in Block
                      /\ e.sid <= stateIds[e.u] /\ stateIds[e.u] \in Nat
  BY <1>2 DEF QueueInv, QueueEntries, Moves, RebTyped
<1> HIDE DEF new
<1>10. QueueInv'
  <2>1. \A e \in new : e \in QueueEntries /\ e.sid <= stateIds'[e.u]
    BY <1>6, <1>8 DEF QueueEntries
  <2>2. \A e \in heap : e \in QueueEntries /\ e.sid <= stateIds'[e.u]
    BY <1>5, <1>9
  <2>3. InLoop'
    BY <1>1 DEF InLoop
  <2> QED BY <1>1, <1>7, <2>1, <2>2, <2>3 DEF QueueInv
<1>11. partition \in [Vertex -> Block] /\ partition'[u] = best
       /\ \A v \in Vertex \ {u} : partition'[v] = partition[v]
  BY <1>2, <1>3, <1>4, MembersMoved DEF StructInv, PmInv
<1>12. ASSUME NEW v \in Vertex \ {u}, v \notin Adj(u) PROVE IsBoundary(v)' => IsBoundary(v)
  <2>1. CutDegree(partition', v) = CutDegree(partition, v)
    BY <1>3, <1>4, <1>11, <1>12, CutDegreeMoved
  <2>2. bv.count[v] = CutDegree(partition, v) /\ bv'.count[v] = CutDegree(partition', v)
    BY <1>2, <1>4 DEF StructInv, Derived, BvInv
  <2> QED BY <2>1, <2>2 DEF IsBoundary
<1>13. EntriesFresh'
  <2> SUFFICES ASSUME NEW e \in heap', Live(e)'
               PROVE  /\ e.move.best # partition'[e.u]
                      /\ e.move.qap = CostGain(partition, e.u, partition[e.u], e.move.best)'
    BY DEF EntriesFresh
  <2>1. CASE e \in new
    BY <1>8, <2>1
  <2>2. CASE e \in heap
    <3>1. stateIds'[e.u] = e.sid /\ IsBoundary(e.u)' /\ Overloaded(partition[e.u])'
      BY DEF Live, CurrentOf
    <3>2. e.u \notin Concerned(u)' /\ stateIds[e.u] = e.sid
      BY <1>5, <1>9, <2>2, <3>1
    <3>3. e.u \notin Adj(u)
      BY <3>1, <3>2 DEF Concerned
    <3>4. e.u # u
      BY <1>4, <1>11, <3>1
    <3>5. partition'[e.u] = partition[e.u] /\ partition[e.u] \in Block
      BY <1>9, <1>11, <2>2, <3>4
    <3>6. Overloaded(partition[e.u])
      BY <1>4, <3>1, <3>5 DEF Overloaded
    <3>7. Live(e)
      BY <1>9, <1>12, <2>2, <3>1, <3>2, <3>3, <3>4, <3>6 DEF Live, CurrentOf
    <3>8. /\ e.move.best # partition[e.u]
          /\ e.move.qap = CostGain(partition, e.u, partition[e.u], e.move.best)
      BY <1>2, <2>2, <3>7 DEF EntriesFresh
    <3>9. CostGain(Moved(partition, u, best), e.u, partition[e.u], e.move.best)
          = CostGain(partition, e.u, partition[e.u], e.move.best)
      BY <1>3, <1>9, <1>11, <2>2, <3>3, <3>4, FarGainStays
    <3>10. CostGain(partition, e.u, partition[e.u], e.move.best)'
           = CostGain(Moved(partition, u, best), e.u, partition[e.u], e.move.best)
      BY <1>4, <3>5
    <3> QED BY <3>5, <3>8, <3>9, <3>10
  <2> QED BY <1>1, <2>1, <2>2
<1>14. LoopComplete'
  BY <1>1 DEF InLoop, LoopComplete
<1> QED BY <1>4, <1>7, <1>10, <1>13, <1>14 DEF RebInv

(* A round that ends without a move has found no vertex it could move.      *)
LEMMA EndRoundKeeps == ASSUME RebInv, EndRound PROVE RebInv'
<1>1. /\ InLoop /\ UNCHANGED structVars /\ UNCHANGED lastLayer /\ UNCHANGED residual
      /\ inner.filled /\ (heap = {} \/ inner.tried >= MaxInner)
      /\ heap' = {} /\ inner' = [inner EXCEPT !.filled = FALSE]
      /\ IF inner.moved THEN pass' = pass /\ stateIds' = stateIds
         ELSE pass' = NextPass /\ stateIds' = [v \in Vertex |-> 0]
  BY DEF EndRound
<1>2. StructInv /\ RebTyped /\ QueueInv
  BY DEF RebInv
<1>3. StructInv'
  BY <1>1, <1>2, StructInvUnchanged
<1>4. inner' \in Rounds /\ ~ inner'.filled
  BY <1>1, <1>2 DEF RebTyped, Rounds
<1>5. RebTyped'
  <2>1. stateIds' \in [Vertex -> Nat]
    BY <1>1, <1>2 DEF RebTyped
  <2>2. pass' \in {"local", "residual", "candidates", "global", "done"}
    BY <1>1, <1>2, PassOrder DEF RebTyped, InLoop
  <2> QED BY <1>1, <1>2, <1>4, <2>1, <2>2 DEF RebTyped
<1>6. QueueInv'
  BY <1>1, <1>4 DEF QueueInv
<1>7. EntriesFresh'
  BY <1>1 DEF EntriesFresh
<1>8. LoopComplete'
  <2>1. CASE inner.moved
    BY <1>1, <2>1 DEF InLoop, LoopComplete
  <2>2. CASE ~ inner.moved
    <3>1. inner.tried = 0 /\ heap = NewEntries(BoundaryOfOverloaded, stateIds)
          /\ heap \subseteq QueueEntries
      BY <1>1, <1>2, <2>2 DEF QueueInv
    <3>2. heap = {}
      <4>1. CASE Vertex = {}
        BY <3>1, <4>1 DEF QueueEntries
      <4>2. CASE Vertex # {}
        BY <1>1, <3>1, <4>2, RebalancerAssumption
      <4> QED BY <4>1, <4>2
    <3>3. ASSUME NEW u \in BoundaryOfOverloaded
          PROVE  /\ \A v \in Adj(u) : ~ Fits(u, partition[v])
                 /\ pass = "global" => \A b \in Active : ~ Fits(u, b)
      <4>1. u \in Vertex /\ Overloaded(partition[u])
        BY <1>2, OverloadedBoundary
      <4>2. BestMove(u).best = NoBlock
        <5> DEFINE e == [u |-> u, move |-> BestMove(u), sid |-> stateIds[u]]
        <5>1. e.move = BestMove(u)
          OBVIOUS
        <5>2. e.move.best # NoBlock => e \in NewEntries(BoundaryOfOverloaded, stateIds)
          BY DEF NewEntries
        <5> QED BY <3>1, <3>2, <5>1, <5>2
      <4> QED BY <1>2, <4>1, <4>2, BestMoveRight
    <3>4. pass' = NextPass /\ BoundaryOfOverloaded' = BoundaryOfOverloaded
          /\ partition' = partition /\ bweights' = bweights
      BY <1>1, <2>2 DEF structVars, BoundaryOfOverloaded, Overloaded
    <3>5. pass' = "done" => pass = "global"
      BY <1>1, <1>2, <3>4, PassOrder DEF InLoop
    <3> QED BY <3>3, <3>4, <3>5 DEF LoopComplete, Fits
  <2> QED BY <2>1, <2>2
<1> QED BY <1>3, <1>5, <1>6, <1>7, <1>8 DEF RebInv

(* The candidates are vertices.                                             *)
LEMMA CandidatesTyped ==
  ASSUME NEW f \in [Block -> Seq(Vertex)], NEW S \in SUBSET Block
  PROVE  FoldLeft(LAMBDA s, b : s \o f[b], <<>>, Ascending(S)) \in Seq(Vertex)
<1> DEFINE l == Ascending(S)
           start == <<>>
           Op(c, x) == c \o f[x]
           n == Len(l)
           dom == DOMAIN l
           A(h) == [s \in SUBSET dom |->
                      IF s = {} THEN start ELSE Op(h[s \ {Max(s)}], l[Max(s)])]
           iter == CHOOSE h : h = A(h)
           X == [s \in Indices(n) |-> Seq(Vertex)]
           Body == [s \in Indices(n) |-> [c \in Seq(Vertex) |-> Op(c, LastVisited(l, s))]]
<1>1. FoldLeft(LAMBDA s, b : s \o f[b], <<>>, l) = iter[dom]
  BY DEF FoldLeft, MapThenFoldSet
<1>2. IsListing(l, S)
  <2>1. S \subseteq Int /\ IsFiniteSet(S)
    <3>1. S \subseteq Int
      BY GraphAssumption
    <3>2. IsFiniteSet(S)
      BY GraphAssumption, FS_Subset
    <3> QED BY <3>1, <3>2
  <2> QED BY <2>1, AscendingLists DEF IsListing
<1> HIDE DEF l
<1>3. /\ n \in Nat /\ Indices(n) = SUBSET dom /\ {} \in Indices(n) /\ dom \in Indices(n)
      /\ \A s \in Indices(n) : s # {} =>
           Earlier(s) \in Indices(n) /\ LastVisited(l, s) \in S
  BY <1>2, VisitOrder
<1>4. start \in Seq(Vertex)
  OBVIOUS
<1>5. \A c \in Seq(Vertex), x \in S : Op(c, x) \in Seq(Vertex)
  <2> SUFFICES ASSUME NEW c \in Seq(Vertex), NEW x \in S PROVE Op(c, x) \in Seq(Vertex)
    OBVIOUS
  <2>1. f[x] \in Seq(Vertex)
    OBVIOUS
  <2> QED BY <2>1
<1> HIDE DEF start, Op, n
<1>6. StaysIn(X, Body, start, n)
  <2>1. start \in X[{}]
    BY <1>3, <1>4
  <2>2. ASSUME NEW s \in Indices(n), s # {}, NEW c \in X[Earlier(s)] PROVE Body[s][c] \in X[s]
    <3>1. c \in Seq(Vertex) /\ LastVisited(l, s) \in S
      BY <1>3, <2>2
    <3> QED BY <1>5, <3>1
  <2> QED BY <2>1, <2>2 DEF StaysIn
<1>7. PICK done : IsFold(done, Body, start, n)
  BY <1>3, FoldExists
<1>8. \A s \in Indices(n) : done[s] \in Seq(Vertex)
  <2>1. \A s \in Indices(n) : done[s] \in X[s]
    <3> HIDE DEF X, Body
    <3> QED BY <1>3, <1>6, <1>7, FoldReaches
  <2> QED BY <2>1
<1>9. done = A(done)
  <2>1. ASSUME NEW s \in Indices(n), s # {}
        PROVE  done[s] = Op(done[s \ {Max(s)}], l[Max(s)])
    <3>1. done[s] = Body[s][done[Earlier(s)]]
      BY <1>7, <2>1 DEF IsFold
    <3>2. done[Earlier(s)] \in Seq(Vertex)
      BY <1>3, <1>8, <2>1
    <3>3. done[s] = Op(done[Earlier(s)], LastVisited(l, s))
      BY <3>1, <3>2
    <3> QED BY <3>3 DEF Earlier, LastVisited
  <2>2. done = [s \in Indices(n) |-> done[s]] /\ done[{}] = start
    BY <1>7 DEF IsFold
  <2>3. \A s \in Indices(n) : done[s] = IF s = {} THEN start ELSE Op(done[s \ {Max(s)}], l[Max(s)])
    BY <2>1, <2>2
  <2> QED BY <1>3, <2>2, <2>3
<1>10. iter = A(iter)
  BY <1>9
<1> HIDE DEF iter
<1>11. iter[{}] = start
  BY <1>3, <1>10
<1>12. \A s \in Indices(n) : s # {} => iter[s] = Op(iter[Earlier(s)], LastVisited(l, s))
  BY <1>3, <1>10 DEF Earlier, LastVisited
<1> DEFINE Q == {s \in Indices(n) : iter[s] \in Seq(Vertex)}
<1>13. {} \in Q
  BY <1>3, <1>4, <1>11
<1>14. ASSUME NEW s \in Indices(n), s # {}, Earlier(s) \in Q PROVE s \in Q
  <2>1. iter[Earlier(s)] \in Seq(Vertex) /\ LastVisited(l, s) \in S
    BY <1>3, <1>14
  <2>2. Op(iter[Earlier(s)], LastVisited(l, s)) \in Seq(Vertex)
    BY <1>5, <2>1
  <2>3. iter[s] = Op(iter[Earlier(s)], LastVisited(l, s))
    BY <1>12, <1>14
  <2> QED BY <2>2, <2>3
<1>15. \A s \in Indices(n) : s \in Q
  <2> HIDE DEF Q
  <2> QED BY <1>3, <1>13, <1>14, IndexInduction
<1>16. iter[dom] \in Seq(Vertex)
  BY <1>3, <1>15
<1> QED BY <1>1, <1>16 DEF l

(* The residual pass leaves the queue empty and the loops alone.            *)
LEMMA BetweenLoops ==
  ASSUME QueueInv, ~ InLoop, heap' = heap, inner' = inner
  PROVE  QueueInv' /\ EntriesFresh'
<1>1. heap = {} /\ ~ inner.filled
  BY DEF QueueInv
<1>2. heap' = {} /\ ~ inner'.filled
  BY <1>1
<1> QED BY <1>2 DEF QueueInv, EntriesFresh

LEMMA StartResidualKeeps == ASSUME RebInv, StartResidual PROVE RebInv'
<1> DEFINE C == {b \in Active : Overloaded(b)}
           U == {b \in Active : bweights[b] < Lmax[b]}
           cands == FoldLeft(LAMBDA s, b : s \o bv.list[b], <<>>, Ascending(C))
           under == Ascending(U)
<1>1. /\ pass = "residual" /\ UNCHANGED structVars /\ UNCHANGED lastLayer
      /\ heap' = heap /\ stateIds' = stateIds /\ inner' = inner
      /\ \/ pass' = NextPass /\ residual' = residual
         \/ pass' = "candidates" /\ residual' = [cands |-> cands, under |-> under]
  BY DEF StartResidual
<1>2. StructInv /\ RebTyped /\ QueueInv
  BY DEF RebInv
<1>3. StructInv'
  BY <1>1, <1>2, StructInvUnchanged
<1>4. cands \in Seq(Vertex) /\ under \in Seq(Block)
  <2>1. bv.list \in [Block -> Seq(Vertex)]
    BY <1>2 DEF StructInv, Derived, BvInv, BvStates
  <2>2. C \in SUBSET Block /\ U \in SUBSET Block
    BY RebalancerAssumption
  <2> HIDE DEF C, U
  <2>3. U \subseteq Int /\ IsFiniteSet(U)
    <3>1. U \subseteq Int
      BY <2>2, GraphAssumption
    <3>2. IsFiniteSet(U)
      BY <2>2, GraphAssumption, FS_Subset
    <3> QED BY <3>1, <3>2
  <2>4. under \in Seq(U)
    BY <2>3, AscendingLists
  <2>5. under \in Seq(Block)
    <3> HIDE DEF under
    <3> QED BY <2>2, <2>4
  <2> QED BY <2>1, <2>2, <2>5, CandidatesTyped
<1> HIDE DEF cands, under
<1>5. [cands |-> cands, under |-> under] \in [cands : Seq(Vertex), under : Seq(Block)]
  BY <1>4
<1>6. /\ pass' \in {"candidates", "global", "done"}
      /\ pass' = "done" => ~ lastLayer'
  BY <1>1, <1>2, PassOrder
<1>7. RebTyped'
  BY <1>1, <1>2, <1>5, <1>6 DEF RebTyped
<1>8. QueueInv' /\ EntriesFresh'
  BY <1>1, <1>2, BetweenLoops DEF InLoop
<1>9. LoopComplete'
  BY <1>6 DEF LoopComplete
<1> QED BY <1>3, <1>7, <1>8, <1>9 DEF RebInv

LEMMA PassCandidateKeeps == ASSUME RebInv, PassCandidate PROVE RebInv'
<1>1. /\ pass = "candidates" /\ UNCHANGED structVars /\ UNCHANGED lastLayer
      /\ heap' = heap /\ stateIds' = stateIds /\ inner' = inner /\ pass' = pass
      /\ residual.cands # <<>> /\ residual' = [residual EXCEPT !.cands = Tail(@)]
  BY DEF PassCandidate
<1>2. StructInv /\ RebTyped /\ QueueInv
  BY DEF RebInv
<1>3. StructInv'
  BY <1>1, <1>2, StructInvUnchanged
<1>4. Tail(residual.cands) \in Seq(Vertex)
  <2>1. residual.cands \in Seq(Vertex)
    BY <1>2 DEF RebTyped
  <2> QED BY <1>1, <2>1
<1>5. RebTyped'
  BY <1>1, <1>2, <1>4 DEF RebTyped
<1>6. QueueInv' /\ EntriesFresh'
  BY <1>1, <1>2, BetweenLoops DEF InLoop
<1>7. LoopComplete'
  BY <1>1 DEF LoopComplete
<1> QED BY <1>3, <1>5, <1>6, <1>7 DEF RebInv

LEMMA EndResidualKeeps == ASSUME RebInv, EndResidual PROVE RebInv'
<1>1. /\ pass = "candidates" /\ UNCHANGED structVars /\ UNCHANGED lastLayer
      /\ heap' = heap /\ stateIds' = stateIds /\ inner' = inner /\ pass' = NextPass
      /\ residual' = NoResidual
  BY DEF EndResidual
<1>2. StructInv /\ RebTyped /\ QueueInv
  BY DEF RebInv
<1>3. StructInv'
  BY <1>1, <1>2, StructInvUnchanged
<1>4. NoResidual \in [cands : Seq(Vertex), under : Seq(Block)]
  BY DEF NoResidual
<1>5. pass' \in {"global", "done"} /\ (pass' = "done" => ~ lastLayer')
  BY <1>1, <1>2, PassOrder
<1>6. RebTyped'
  BY <1>1, <1>2, <1>4, <1>5 DEF RebTyped
<1>7. QueueInv' /\ EntriesFresh'
  BY <1>1, <1>2, BetweenLoops DEF InLoop
<1>8. LoopComplete'
  BY <1>5 DEF LoopComplete
<1> QED BY <1>3, <1>6, <1>7, <1>8 DEF RebInv

(* The blocks left after the full ones, and the first of them.              *)
LEMMA FirstWithRoom ==
  ASSUME RebTyped, NEW u
  PROVE  /\ FromFirstFitting(u) \in Seq(Block)
         /\ FromFirstFitting(u) # <<>> =>
              Head(FromFirstFitting(u)) \in Block /\ Fits(u, Head(FromFirstFitting(u)))
<1> DEFINE l == residual.under
           I == {i \in 1 .. Len(l) : Fits(u, l[i])}
<1>1. l \in Seq(Block) /\ Len(l) \in Nat
  BY DEF RebTyped
<1>2. FromFirstFitting(u) = IF (IF I # {} THEN Min(I) ELSE 0) = 0 THEN <<>>
                            ELSE SubSeq(l, (IF I # {} THEN Min(I) ELSE 0), Len(l))
  BY DEF FromFirstFitting, SelectInSeq
<1>3. CASE I = {}
  BY <1>2, <1>3
<1>4. CASE I # {}
  <2>1. I \subseteq Int /\ IsFiniteSet(I)
    <3>1. IsFiniteSet(1 .. Len(l))
      BY <1>1, FS_Interval
    <3> QED BY <3>1, FS_Subset
  <2>2. Min(I) \in I
    BY <1>4, <2>1, SmallestExists
  <2> DEFINE k == Min(I)
  <2>3. k \in 1 .. Len(l) /\ Fits(u, l[k])
    BY <2>2
  <2>7. (IF I # {} THEN Min(I) ELSE 0) = k /\ k # 0
    BY <1>4, <2>3
  <2> HIDE DEF I, k
  <2>4. FromFirstFitting(u) = SubSeq(l, k, Len(l))
    BY <1>2, <2>7, Zenon
  <2>5. SubSeq(l, k, Len(l)) \in Seq(Block) /\ SubSeq(l, k, Len(l))[1] = l[k]
    BY <1>1, <2>3
  <2>6. Head(SubSeq(l, k, Len(l))) = l[k] /\ l[k] \in Block
    BY <1>1, <2>3, <2>5
  <2> QED BY <2>3, <2>4, <2>5, <2>6
<1> QED BY <1>3, <1>4

(* A neighbour's block for a candidate: one with room, and not its own.     *)
LEMMA ResidualBestFits ==
  ASSUME StructInv, NEW u \in Vertex, ResidualBest(u) # NoBlock
  PROVE  /\ ResidualBest(u) \in Block /\ ResidualBest(u) # partition[u]
         /\ Fits(u, ResidualBest(u))
<1> DEFINE open == {o \in LocalOptions(u) : o.best # partition[u]}
           Leads(m) == \A o \in open : m.qap > o.qap \/ (m.qap = o.qap /\ m.at <= o.at)
<1>1. ResidualBest(u) = IF open = {} THEN NoBlock ELSE (CHOOSE m \in open : Leads(m)).best
  BY DEF ResidualBest
<1>2. /\ LocalOptions(u) \in SUBSET Moves /\ IsFiniteSet(LocalOptions(u))
      /\ \A o \in LocalOptions(u) : Fits(u, o.best)
  BY LocalOptionsFit
<1>3. open \in SUBSET LocalOptions(u) /\ \A o \in open : o.best # partition[u]
  OBVIOUS
<1>4. open # {}
  BY <1>1
<1>5. bweights \in [Block -> Nat]
  BY DEF StructInv, PmInv
<1> HIDE DEF open
<1>6. IsFiniteSet(open) /\ open \in SUBSET Moves
  BY <1>2, <1>3, FS_Subset
<1>7. \E m \in open : Leads(m)
  BY <1>4, <1>5, <1>6, OneBeatsAll
<1> HIDE DEF Leads
<1>8. PICK m \in open : ResidualBest(u) = m.best
  BY <1>1, <1>4, <1>7
<1> QED BY <1>2, <1>3, <1>6, <1>8 DEF Moves

(* A candidate is moved to a block with room, or stays.                     *)
LEMMA ResolveCandidateKeeps ==
  ASSUME RebInv, ResolveCandidate
  PROVE  /\ RebInv'
         /\ \/ UNCHANGED structVars
            \/ \A b \in Block : BlockWeight(partition', b) > Lmax[b] =>
                 BlockWeight(partition', b) <= BlockWeight(partition, b)
<1> DEFINE u     == Head(residual.cands)
           near  == ResidualBest(u)
           under == IF near = NoBlock THEN FromFirstFitting(u) ELSE residual.under
           best  == IF near = NoBlock /\ under # <<>> THEN Head(under) ELSE near
<1>1. /\ pass = "candidates" /\ residual.cands # <<>> /\ UNCHANGED lastLayer
      /\ pass' = pass /\ heap' = heap /\ stateIds' = stateIds /\ inner' = inner
      /\ Overloaded(partition[u])
      /\ residual' = [cands |-> Tail(residual.cands), under |-> under]
      /\ IF best = NoBlock THEN UNCHANGED structVars ELSE ApplyMove(u, partition[u], best)
  BY DEF ResolveCandidate
<1>2. StructInv /\ RebTyped /\ QueueInv
  BY DEF RebInv
<1>3. u \in Vertex /\ Tail(residual.cands) \in Seq(Vertex)
  <2>1. residual.cands \in Seq(Vertex)
    BY <1>2 DEF RebTyped
  <2> QED BY <1>1, <2>1
<1>4. /\ FromFirstFitting(u) \in Seq(Block)
      /\ FromFirstFitting(u) # <<>> =>
           Head(FromFirstFitting(u)) \in Block /\ Fits(u, Head(FromFirstFitting(u)))
  BY <1>2, FirstWithRoom
<1>5. /\ bweights \in [Block -> Nat] /\ partition[u] \in Block /\ VertexWeight[u] \in Nat
      /\ Lmax \in [Block -> Int]
  BY <1>2, <1>3, GraphAssumption, LmaxAssumption DEF StructInv, PmInv
<1>6. ~ Fits(u, partition[u])
  BY <1>1, <1>5 DEF Overloaded, Fits
<1>7. near # NoBlock => near \in Block /\ near # partition[u] /\ Fits(u, near)
  BY <1>2, <1>3, ResidualBestFits
<1> HIDE DEF near
<1>8. best # NoBlock => best \in Block /\ best # partition[u] /\ Fits(u, best)
  BY <1>4, <1>6, <1>7
<1>9. under \in Seq(Block)
  BY <1>2, <1>4 DEF RebTyped
<1> HIDE DEF u, under, best
<1>10. /\ StructInv'
       /\ \/ UNCHANGED structVars
          \/ \A b \in Block : BlockWeight(partition', b) > Lmax[b] =>
               BlockWeight(partition', b) <= BlockWeight(partition, b)
  <2>1. CASE best = NoBlock
    BY <1>1, <1>2, <2>1, StructInvUnchanged
  <2>2. CASE best # NoBlock
    BY <1>1, <1>2, <1>3, <1>8, <2>2, MoveRelieves
  <2> QED BY <2>1, <2>2
<1>11. RebTyped'
  <2>1. residual' \in [cands : Seq(Vertex), under : Seq(Block)]
    BY <1>1, <1>3, <1>9
  <2> QED BY <1>1, <1>2, <2>1 DEF RebTyped
<1>12. QueueInv' /\ EntriesFresh'
  BY <1>1, <1>2, BetweenLoops DEF InLoop
<1>13. LoopComplete'
  BY <1>1 DEF LoopComplete
<1> QED BY <1>10, <1>11, <1>12, <1>13 DEF RebInv

(* No step breaks it, and none fills a block beyond its capacity.           *)
LEMMA RebInvNext ==
  ASSUME RebInv, [NextReb]_rebVars
  PROVE  /\ RebInv'
         /\ \/ UNCHANGED structVars
            \/ \A b \in Block : BlockWeight(partition', b) > Lmax[b] =>
                 BlockWeight(partition', b) <= BlockWeight(partition, b)
<1> DEFINE Relieved == \A b \in Block : BlockWeight(partition', b) > Lmax[b] =>
                         BlockWeight(partition', b) <= BlockWeight(partition, b)
<1>1. CASE FillHeap
  BY <1>1, FillHeapKeeps DEF FillHeap
<1>2. CASE EndRound
  BY <1>2, EndRoundKeeps DEF EndRound
<1>3. ASSUME NEW m \in heap, DropOutdated(m) PROVE RebInv' /\ UNCHANGED structVars
  BY <1>3, DropOutdatedKeeps DEF DropOutdated
<1>4. ASSUME NEW m \in heap, Retarget(m) PROVE RebInv' /\ UNCHANGED structVars
  BY <1>4, RetargetKeeps DEF Retarget
<1>5. ASSUME NEW m \in heap, MoveTop(m) PROVE RebInv' /\ Relieved
  BY <1>5, MoveTopKeeps
<1>6. CASE StartResidual
  BY <1>6, StartResidualKeeps DEF StartResidual
<1>7. CASE PassCandidate
  BY <1>7, PassCandidateKeeps DEF PassCandidate
<1>8. CASE ResolveCandidate
  BY <1>8, ResolveCandidateKeeps
<1>9. CASE EndResidual
  BY <1>9, EndResidualKeeps DEF EndResidual
<1>10. CASE UNCHANGED rebVars
  <2>1. /\ UNCHANGED structVars /\ pass' = pass /\ lastLayer' = lastLayer /\ heap' = heap
        /\ stateIds' = stateIds /\ inner' = inner /\ residual' = residual
    BY <1>10 DEF rebVars, ctlVars
  <2>2. StructInv'
    BY <2>1, StructInvUnchanged DEF RebInv
  <2>3. RebTyped'
    BY <2>1 DEF RebInv, RebTyped
  <2>4. QueueInv'
    <3>1. BoundaryOfOverloaded' = BoundaryOfOverloaded
          /\ \A S, ids : NewEntries(S, ids)' = NewEntries(S, ids)
      BY <2>1, SameEntries
    <3>2. NewEntries(BoundaryOfOverloaded, stateIds)'
          = NewEntries(BoundaryOfOverloaded, stateIds)
      BY <2>1, <3>1
    <3> QED BY <2>1, <3>2 DEF RebInv, QueueInv, InLoop
  <2>5. EntriesFresh'
    BY <2>1 DEF RebInv, EntriesFresh, Live, CurrentOf, IsBoundary, Overloaded, structVars
  <2>6. LoopComplete'
    BY <2>1 DEF RebInv, LoopComplete, BoundaryOfOverloaded, Overloaded, Fits, structVars
  <2> QED BY <2>1, <2>2, <2>3, <2>4, <2>5, <2>6 DEF RebInv
<1> HIDE DEF Relieved
<1>11. RebInv' /\ (UNCHANGED structVars \/ Relieved)
  BY <1>1, <1>2, <1>3, <1>4, <1>5, <1>6, <1>7, <1>8, <1>9, <1>10 DEF NextReb, FillHeap,
     EndRound, StartResidual, PassCandidate, EndResidual, Relieved, rebVars
<1> QED BY <1>11 DEF Relieved

(* RebInv holds from the start on.                                          *)
THEOREM RebalancerHolds == SpecReb => []RebInv
<1>1. StructInit /\ InitReb => RebInv
  BY RebInvInit
<1>2. RebInv /\ [NextReb]_rebVars => RebInv'
  BY RebInvNext
<1> QED BY <1>1, <1>2, PTL DEF SpecReb

(* A loop of rebalance or rebalance_last_layer ends only when nothing that  *)
(* it could move is left. The bound on the tries of a round does not end it *)
(* early: a round without a move finds no entry to try.                     *)
THEOREM LoopsLeaveNothing == SpecReb => []LoopComplete
<1>1. RebInv => LoopComplete
  BY DEF RebInv
<1> QED BY <1>1, RebalancerHolds, PTL

(* Moving the best entry of the queue is right although the entry may be    *)
(* older than many moves: the state ids drop those that are not true any    *)
(* more; and neither a loop nor resolve_residual_overloads overloads a      *)
(* block, or adds to an overloaded one.                                     *)
THEOREM RebalancingIsSound == SpecReb => MovesSound
<1>1. RebInv /\ [NextReb]_rebVars => [Running => StepSound]_rebVars
  <2> SUFFICES ASSUME RebInv, [NextReb]_rebVars PROVE StepSound
    OBVIOUS
  <2>1. EntriesFresh
    BY DEF RebInv
  <2>2. \/ UNCHANGED structVars
        \/ \A b \in Block : BlockWeight(partition', b) > Lmax[b] =>
             BlockWeight(partition', b) <= BlockWeight(partition, b)
    BY RebInvNext
  <2>3. CASE UNCHANGED structVars
    <3>1. partition' = partition
      BY <2>3 DEF structVars
    <3>2. \A b \in Block : BlockWeight(partition', b) = BlockWeight(partition, b)
                           /\ BlockWeight(partition, b) \in Nat
      BY <3>1 DEF RebInv, StructInv, PmInv
    <3> QED BY <2>1, <3>2 DEF StepSound
  <2> QED BY <2>1, <2>2, <2>3 DEF StepSound
<1> QED BY <1>1, RebalancerHolds, PTL DEF SpecReb, MovesSound

(* Rebalancing keeps the structures it moves vertices in.                   *)
THEOREM RebalancingKeepsStructures == SpecReb => []StructuresCorrect
<1>1. RebInv => StructuresCorrect
  BY StructInvSuffices DEF RebInv
<1> QED BY <1>1, RebalancerHolds, PTL

-----------------------------------------------------------------------------
(* The matching of the k-way partitioner.                                   *)

(* A list without repetitions, and what a matching keeps while it grows: it *)
(* is mutual, and what is matched stays so.                                 *)
OnceEach(list, T) == list \in Seq(T) /\ \A i, j \in 1 .. Len(list) : list[i] = list[j] => i = j

MayMatch == [Id -> Id \cup {UNMATCHED}]
Mutual(mt) == mt \in MayMatch /\ \A v \in Id : mt[v] # UNMATCHED => mt[mt[v]] = v
Grown(mt, new) == Mutual(new) /\ \A v \in Id : mt[v] # UNMATCHED => new[v] = mt[v]

LEMMA PairKeeps ==
  ASSUME NEW mt, Mutual(mt), NEW a \in Alone(mt), NEW b \in Alone(mt)
  PROVE  /\ Grown(mt, Pair(mt, a, b))
         /\ \A v \in Id \ {a, b} : Pair(mt, a, b)[v] = mt[v]
         /\ Pair(mt, a, b)[a] = b /\ Pair(mt, a, b)[b] = a
<1> DEFINE new == Pair(mt, a, b)
<1>1. a \in Id /\ b \in Id /\ mt \in MayMatch /\ UNMATCHED \notin Id
  BY DEF Mutual, Alone, UNMATCHED, Id
<1>2. new \in MayMatch
  BY <1>1 DEF Pair, MayMatch
<1>3. \A v \in Id : new[v] = IF v = a THEN b ELSE IF v = b THEN a ELSE mt[v]
  BY <1>1 DEF Pair, MayMatch
<1>4. mt[a] = UNMATCHED /\ mt[b] = UNMATCHED
  BY DEF Alone
<1> HIDE DEF new
<1>5. ASSUME NEW v \in Id, new[v] # UNMATCHED PROVE new[new[v]] = v
  <2>1. CASE v \in {a, b}
    BY <1>1, <1>3, <2>1
  <2>2. CASE v \notin {a, b}
    <3>1. new[v] = mt[v] /\ mt[v] # UNMATCHED
      BY <1>3, <1>5, <2>2
    <3>2. mt[v] \in Id /\ mt[mt[v]] = v
      BY <1>1, <3>1 DEF Mutual, MayMatch
    <3>3. mt[v] \notin {a, b}
      BY <1>1, <1>4, <3>2
    <3> QED BY <1>3, <3>1, <3>2, <3>3
  <2> QED BY <2>1, <2>2
<1> QED BY <1>1, <1>2, <1>3, <1>4, <1>5 DEF Grown, Mutual, new

LEMMA GrownFurther ==
  ASSUME NEW mt, NEW mid, NEW new, Grown(mt, mid), Grown(mid, new), mt \in MayMatch
  PROVE  Grown(mt, new)
<1>1. ASSUME NEW v \in Id, mt[v] # UNMATCHED PROVE new[v] = mt[v]
  BY <1>1 DEF Grown
<1> QED BY <1>1 DEF Grown

(* Whoever a growing matching adds was alone, and so was the partner.       *)
LEMMA PartnerWasAlone ==
  ASSUME NEW mt, Mutual(mt), NEW new, Grown(mt, new), NEW v \in Alone(mt), new[v] # UNMATCHED
  PROVE  new[v] \in Alone(mt) /\ new[new[v]] = v
<1>1. v \in Id /\ mt[v] = UNMATCHED
  BY DEF Alone
<1>2. new[v] \in Id /\ new[new[v]] = v
  BY <1>1 DEF Grown, Mutual, MayMatch
<1>3. ASSUME mt[new[v]] # UNMATCHED PROVE FALSE
  <2>1. new[new[v]] = mt[new[v]] /\ mt[mt[new[v]]] = new[v]
    BY <1>2, <1>3 DEF Grown, Mutual
  <2>2. mt[v] = new[v]
    BY <1>2, <2>1
  <2> QED BY <1>1, <2>2
<1> QED BY <1>2, <1>3 DEF Alone

-----------------------------------------------------------------------------
(* The elements of a list that are in a set, each once if the list has them *)
(* once.                                                                    *)
LEMMA ThoseOnce ==
  ASSUME NEW T, NEW list, OnceEach(list, T), NEW S
  PROVE  OnceEach(Those(list, S), T \cap S)
<1> DEFINE R == {list[i] : i \in 1 .. Len(list)}
<1> DEFINE l == list
           start == <<>>
           Op(c, x) == IF x \in S THEN Append(c, x) ELSE c
           Kept(E, c) == \A i \in 1 .. Len(c) :
                           c[i] \in E /\ \A j \in 1 .. Len(c) : c[i] = c[j] => i = j
           n == Len(l)
           dom == DOMAIN l
           A(h) == [s \in SUBSET dom |->
                      IF s = {} THEN start ELSE Op(h[s \ {Max(s)}], l[Max(s)])]
           iter == CHOOSE h : h = A(h)
           X == [s \in Indices(n) |-> {c \in Seq(T \cap S) : Kept(Visited(l, s), c)}]
           Body == [s \in Indices(n) |-> [c \in X[Earlier(s)] |-> Op(c, LastVisited(l, s))]]
<1>0. Those(list, S) = iter[dom]
  BY DEF Those, FoldLeft, MapThenFoldSet
<1>2. IsListing(l, R)
  BY DEF OnceEach, IsListing
<1>a. R \subseteq T
  BY DEF OnceEach
<1> HIDE DEF R
<1>1. /\ n \in Nat /\ Indices(n) = SUBSET dom /\ {} \in Indices(n) /\ dom \in Indices(n)
      /\ Visited(l, {}) = {} /\ Visited(l, dom) = R
      /\ \A s \in Indices(n) : Visited(l, s) \subseteq R
      /\ \A s \in Indices(n) : s # {} =>
           /\ Earlier(s) \in Indices(n)
           /\ LastVisited(l, s) \in R
           /\ LastVisited(l, s) \notin Visited(l, Earlier(s))
           /\ Visited(l, s) = Visited(l, Earlier(s)) \cup {LastVisited(l, s)}
  <2> HIDE DEF l
  <2> QED BY <1>2, VisitOrder
<1>3. start \in Seq(T \cap S) /\ Kept(Visited(l, {}), start)
  BY <1>1
<1>4. ASSUME NEW c \in Seq(T \cap S), NEW E \in SUBSET R, NEW x \in R \ E, Kept(E, c)
      PROVE  Op(c, x) \in Seq(T \cap S) /\ Kept(E \cup {x}, Op(c, x))
  <2>1. CASE x \in S
    <3>1. x \in T \cap S
      BY <1>a, <2>1
    <3> DEFINE d == Append(c, x)
    <3>2. d \in Seq(T \cap S) /\ Len(d) = Len(c) + 1 /\ Len(c) \in Nat
          /\ \A i \in 1 .. Len(c) : d[i] = c[i] /\ d[Len(c) + 1] = x
      BY <3>1
    <3>2a. d[Len(c) + 1] = x
      BY <3>1
    <3>3. Op(c, x) = d
      BY <2>1
    <3> HIDE DEF d, Op
    <3>4. \A i \in 1 .. Len(d) : i \in 1 .. Len(c) \/ i = Len(c) + 1
      BY <3>2
    <3>5. \A i \in 1 .. Len(c) : d[i] = c[i] /\ c[i] \in E /\ c[i] # x
      BY <1>4, <3>2
    <3>6. \A i \in 1 .. Len(d) : d[i] \in E \cup {x}
      BY <3>2a, <3>4, <3>5
    <3>7. ASSUME NEW i \in 1 .. Len(d), NEW j \in 1 .. Len(d), d[i] = d[j] PROVE i = j
      <4>1. CASE i \in 1 .. Len(c) /\ j \in 1 .. Len(c)
        BY <1>4, <3>5, <3>7, <4>1
      <4>2. CASE ~ (i \in 1 .. Len(c) /\ j \in 1 .. Len(c))
        BY <3>2a, <3>4, <3>5, <3>7, <4>2
      <4> QED BY <4>1, <4>2
    <3>8. Kept(E \cup {x}, d)
      BY <3>6, <3>7
    <3> HIDE DEF Kept
    <3> QED BY <3>2, <3>3, <3>8
  <2>2. CASE x \notin S
    BY <1>4, <2>2
  <2> QED BY <2>1, <2>2
<1> HIDE DEF l, start, Op, Kept, n
<1>5. ASSUME NEW s \in Indices(n), s # {}, NEW c \in Seq(T \cap S), Kept(Visited(l, Earlier(s)), c)
      PROVE  Op(c, LastVisited(l, s)) \in Seq(T \cap S)
             /\ Kept(Visited(l, s), Op(c, LastVisited(l, s)))
  <2> DEFINE E == Visited(l, Earlier(s))
             v == LastVisited(l, s)
  <2>1. E \in SUBSET R /\ v \in R \ E /\ Visited(l, s) = E \cup {v} /\ Kept(E, c)
    BY <1>1, <1>5
  <2> HIDE DEF E, v
  <2>2. Op(c, v) \in Seq(T \cap S) /\ Kept(E \cup {v}, Op(c, v))
    BY <1>4, <2>1
  <2> QED BY <2>1, <2>2 DEF v
<1>6. StaysIn(X, Body, start, n)
  <2>1. start \in X[{}]
    BY <1>1, <1>3
  <2>2. ASSUME NEW s \in Indices(n), s # {}, NEW c \in X[Earlier(s)] PROVE Body[s][c] \in X[s]
    <3>1. Earlier(s) \in Indices(n) /\ c \in Seq(T \cap S) /\ Kept(Visited(l, Earlier(s)), c)
      BY <1>1, <2>2
    <3>2. Body[s][c] = Op(c, LastVisited(l, s))
      OBVIOUS
    <3>3. Body[s][c] \in Seq(T \cap S) /\ Kept(Visited(l, s), Body[s][c])
      BY <1>5, <2>2, <3>1, <3>2
    <3> HIDE DEF Body
    <3> QED BY <3>3
  <2> QED BY <2>1, <2>2 DEF StaysIn
<1>7. PICK f : IsFold(f, Body, start, n)
  BY <1>1, FoldExists
<1>8. \A s \in Indices(n) : f[s] \in X[s]
  <2> HIDE DEF X, Body
  <2> QED BY <1>1, <1>6, <1>7, FoldReaches
<1>9. f = A(f)
  <2>1. ASSUME NEW s \in Indices(n), s # {}
        PROVE  f[s] = Op(f[s \ {Max(s)}], l[Max(s)])
    <3>1. f[s] = Body[s][f[Earlier(s)]]
      BY <1>7, <2>1 DEF IsFold
    <3>2. f[Earlier(s)] \in X[Earlier(s)]
      BY <1>1, <1>8, <2>1
    <3> HIDE DEF X
    <3>3. f[s] = Op(f[Earlier(s)], LastVisited(l, s))
      BY <3>1, <3>2
    <3> QED BY <3>3 DEF Earlier, LastVisited
  <2>2. f = [s \in Indices(n) |-> f[s]] /\ f[{}] = start
    BY <1>7 DEF IsFold
  <2>3. \A s \in Indices(n) : f[s] = IF s = {} THEN start ELSE Op(f[s \ {Max(s)}], l[Max(s)])
    BY <2>1, <2>2
  <2> QED BY <1>1, <2>2, <2>3
<1>10. iter = A(iter)
  BY <1>9
<1> HIDE DEF iter
<1>11. iter[{}] = start
  BY <1>1, <1>10
<1>12. \A s \in Indices(n) : s # {} => iter[s] = Op(iter[Earlier(s)], LastVisited(l, s))
  BY <1>1, <1>10 DEF Earlier, LastVisited
<1> DEFINE Q == {s \in Indices(n) : iter[s] \in Seq(T \cap S) /\ Kept(Visited(l, s), iter[s])}
<1>13. {} \in Q
  BY <1>1, <1>3, <1>11
<1>14. ASSUME NEW s \in Indices(n), s # {}, Earlier(s) \in Q PROVE s \in Q
  BY <1>5, <1>12, <1>14
<1>15. \A s \in Indices(n) : s \in Q
  <2> HIDE DEF Q
  <2> QED BY <1>1, <1>13, <1>14, IndexInduction
<1>16. iter[dom] \in Seq(T \cap S) /\ Kept(Visited(l, dom), iter[dom])
  BY <1>1, <1>15
<1>17. \A i, j \in 1 .. Len(iter[dom]) : iter[dom][i] = iter[dom][j] => i = j
  BY <1>16 DEF Kept
<1> QED BY <1>0, <1>16, <1>17 DEF OnceEach

(* Match_2HopAny, around one vertex.                                        *)
LEMMA PairEndsGrows ==
  ASSUME NEW mt, Mutual(mt), NEW list, OnceEach(list, Id)
  PROVE  Grown(mt, PairEnds(mt, list))
<1> DEFINE free == Those(list, Alone(mt))
           m == Len(free)
<1> DEFINE l == [x \in 1 .. m \div 2 |-> x]
           start == mt
           Op(c, x) == Pair(c, free[x], free[m + 1 - x])
           Kept(E, c) == /\ Grown(mt, c)
                         /\ \A y \in 1 .. m :
                              y \notin E /\ m + 1 - y \notin E => c[free[y]] = UNMATCHED
           n == Len(l)
           dom == DOMAIN l
           A(h) == [s \in SUBSET dom |->
                      IF s = {} THEN start ELSE Op(h[s \ {Max(s)}], l[Max(s)])]
           iter == CHOOSE h : h = A(h)
           X == [s \in Indices(n) |-> {c \in MayMatch : Kept(Visited(l, s), c)}]
           Body == [s \in Indices(n) |-> [c \in X[Earlier(s)] |-> Op(c, LastVisited(l, s))]]
<1>0. PairEnds(mt, list) = iter[dom]
  BY DEF PairEnds, FoldLeft, MapThenFoldSet
<1>a. /\ OnceEach(free, Alone(mt)) /\ m \in Nat /\ m \div 2 \in Nat /\ 2 * (m \div 2) <= m
      /\ \A y \in 1 .. m : free[y] \in Alone(mt) /\ free[y] \in Id
  <2>1. OnceEach(free, Id \cap Alone(mt)) /\ Id \cap Alone(mt) = Alone(mt)
    BY ThoseOnce DEF Alone
  <2> HIDE DEF free
  <2>2. OnceEach(free, Alone(mt)) /\ m \in Nat /\ \A y \in 1 .. m : free[y] \in Alone(mt)
    BY <2>1 DEF OnceEach
  <2> HIDE DEF m
  <2> QED BY <2>2 DEF Alone
<1> HIDE DEF free, m
<1>2. IsListing(l, 1 .. m \div 2)
  <2>1. l \in Seq(1 .. m \div 2) /\ Len(l) = m \div 2 /\ \A i \in 1 .. m \div 2 : l[i] = i
    BY <1>a
  <2> HIDE DEF l
  <2> QED BY <2>1 DEF IsListing
<1>1. /\ n \in Nat /\ Indices(n) = SUBSET dom /\ {} \in Indices(n) /\ dom \in Indices(n)
      /\ Visited(l, {}) = {} /\ Visited(l, dom) = 1 .. m \div 2
      /\ \A s \in Indices(n) : Visited(l, s) \subseteq 1 .. m \div 2
      /\ \A s \in Indices(n) : s # {} =>
           /\ Earlier(s) \in Indices(n)
           /\ LastVisited(l, s) \in 1 .. m \div 2
           /\ LastVisited(l, s) \notin Visited(l, Earlier(s))
           /\ Visited(l, s) = Visited(l, Earlier(s)) \cup {LastVisited(l, s)}
  <2> HIDE DEF l
  <2> QED BY <1>2, VisitOrder
<1>3. start \in MayMatch /\ Kept(Visited(l, {}), start)
  BY <1>1, <1>a DEF Mutual, Grown, Alone
<1>4. ASSUME NEW c \in MayMatch, NEW E \in SUBSET (1 .. m \div 2), NEW x \in (1 .. m \div 2) \ E,
             Kept(E, c)
      PROVE  Op(c, x) \in MayMatch /\ Kept(E \cup {x}, Op(c, x))
  <2> DEFINE z == m + 1 - x
  <2>1. x \in 1 .. m /\ z \in 1 .. m /\ m + 1 - z = x /\ z \notin E
    BY <1>a
  <2>2. free[x] \in Alone(c) /\ free[z] \in Alone(c)
    BY <1>4, <1>a, <2>1 DEF Alone
  <2>3. Mutual(c)
    BY <1>4 DEF Grown
  <2>4. /\ Grown(c, Op(c, x))
        /\ \A v \in Id \ {free[x], free[z]} : Op(c, x)[v] = c[v]
    BY <2>2, <2>3, PairKeeps
  <2>5. mt \in MayMatch
    BY DEF Mutual
  <2> HIDE DEF Op
  <2>6. Grown(mt, Op(c, x)) /\ Op(c, x) \in MayMatch
    BY <1>4, <2>4, <2>5, GrownFurther DEF Grown, Mutual
  <2>7. ASSUME NEW y \in 1 .. m, y \notin E \cup {x}, m + 1 - y \notin E \cup {x}
        PROVE  Op(c, x)[free[y]] = UNMATCHED
    <3>1. y # x /\ y # z
      BY <1>a, <2>7
    <3>2. free[y] # free[x] /\ free[y] # free[z]
      BY <1>a, <2>1, <3>1 DEF OnceEach, m
    <3>3. c[free[y]] = UNMATCHED
      BY <1>4, <2>7
    <3> QED BY <1>a, <2>4, <3>2, <3>3
  <2> QED BY <2>6, <2>7
<1> HIDE DEF l, start, Op, Kept, n
<1>5. ASSUME NEW s \in Indices(n), s # {}, NEW c \in MayMatch, Kept(Visited(l, Earlier(s)), c)
      PROVE  Op(c, LastVisited(l, s)) \in MayMatch
             /\ Kept(Visited(l, s), Op(c, LastVisited(l, s)))
  <2> DEFINE E == Visited(l, Earlier(s))
             v == LastVisited(l, s)
  <2>1. /\ E \in SUBSET (1 .. m \div 2) /\ v \in (1 .. m \div 2) \ E
        /\ Visited(l, s) = E \cup {v} /\ Kept(E, c)
    BY <1>1, <1>5
  <2> HIDE DEF E, v
  <2>2. Op(c, v) \in MayMatch /\ Kept(E \cup {v}, Op(c, v))
    BY <1>4, <2>1
  <2> QED BY <2>1, <2>2 DEF v
<1>6. StaysIn(X, Body, start, n)
  <2>1. start \in X[{}]
    BY <1>1, <1>3
  <2>2. ASSUME NEW s \in Indices(n), s # {}, NEW c \in X[Earlier(s)] PROVE Body[s][c] \in X[s]
    <3>1. Earlier(s) \in Indices(n) /\ c \in MayMatch /\ Kept(Visited(l, Earlier(s)), c)
      BY <1>1, <2>2
    <3>2. Body[s][c] = Op(c, LastVisited(l, s))
      OBVIOUS
    <3>3. Body[s][c] \in MayMatch /\ Kept(Visited(l, s), Body[s][c])
      BY <1>5, <2>2, <3>1, <3>2
    <3> HIDE DEF Body
    <3> QED BY <3>3
  <2> QED BY <2>1, <2>2 DEF StaysIn
<1>7. PICK f : IsFold(f, Body, start, n)
  BY <1>1, FoldExists
<1>8. \A s \in Indices(n) : f[s] \in X[s]
  <2> HIDE DEF X, Body
  <2> QED BY <1>1, <1>6, <1>7, FoldReaches
<1>9. f = A(f)
  <2>1. ASSUME NEW s \in Indices(n), s # {}
        PROVE  f[s] = Op(f[s \ {Max(s)}], l[Max(s)])
    <3>1. f[s] = Body[s][f[Earlier(s)]]
      BY <1>7, <2>1 DEF IsFold
    <3>2. f[Earlier(s)] \in X[Earlier(s)]
      BY <1>1, <1>8, <2>1
    <3> HIDE DEF X
    <3>3. f[s] = Op(f[Earlier(s)], LastVisited(l, s))
      BY <3>1, <3>2
    <3> QED BY <3>3 DEF Earlier, LastVisited
  <2>2. f = [s \in Indices(n) |-> f[s]] /\ f[{}] = start
    BY <1>7 DEF IsFold
  <2>3. \A s \in Indices(n) : f[s] = IF s = {} THEN start ELSE Op(f[s \ {Max(s)}], l[Max(s)])
    BY <2>1, <2>2
  <2> QED BY <1>1, <2>2, <2>3
<1>10. iter = A(iter)
  BY <1>9
<1> HIDE DEF iter
<1>11. iter[{}] = start
  BY <1>1, <1>10
<1>12. \A s \in Indices(n) : s # {} => iter[s] = Op(iter[Earlier(s)], LastVisited(l, s))
  BY <1>1, <1>10 DEF Earlier, LastVisited
<1> DEFINE Q == {s \in Indices(n) : iter[s] \in MayMatch /\ Kept(Visited(l, s), iter[s])}
<1>13. {} \in Q
  BY <1>1, <1>3, <1>11
<1>14. ASSUME NEW s \in Indices(n), s # {}, Earlier(s) \in Q PROVE s \in Q
  BY <1>5, <1>12, <1>14
<1>15. \A s \in Indices(n) : s \in Q
  <2> HIDE DEF Q
  <2> QED BY <1>1, <1>13, <1>14, IndexInduction
<1>16. iter[dom] \in MayMatch /\ Kept(Visited(l, dom), iter[dom])
  BY <1>1, <1>15
<1>17. Grown(mt, iter[dom])
  BY <1>16 DEF Kept
<1> QED BY <1>0, <1>17

(* Match_2HopAny.                                                           *)
LEMMA TwoHopAnyGrows ==
  ASSUME Mutual(matching), IsListing(perm, Id), NEW maxDegree
  PROVE  Grown(matching, TwoHopAny(maxDegree))
<1> DEFINE low == Those(perm, {v \in Alone(matching) : Degree(g, v) < maxDegree})
           around(i) == Those(low, {v \in Id : i \in Nb(v)})
<1> DEFINE l == perm
           start == matching
           Op(c, x) == PairEnds(c, around(x))
           Kept(E, c) == Grown(matching, c)
           n == Len(l)
           dom == DOMAIN l
           A(h) == [s \in SUBSET dom |->
                      IF s = {} THEN start ELSE Op(h[s \ {Max(s)}], l[Max(s)])]
           iter == CHOOSE h : h = A(h)
           X == [s \in Indices(n) |-> {c \in MayMatch : Kept(Visited(l, s), c)}]
           Body == [s \in Indices(n) |-> [c \in X[Earlier(s)] |-> Op(c, LastVisited(l, s))]]
<1>0. TwoHopAny(maxDegree) = iter[dom]
  BY DEF TwoHopAny, FoldLeft, MapThenFoldSet
<1>a. \A i \in Id : OnceEach(around(i), Id)
  <2>1. OnceEach(perm, Id)
    BY DEF IsListing, OnceEach
  <2>2. OnceEach(low, Id)
    <3>1. OnceEach(low, Id \cap {v \in Alone(matching) : Degree(g, v) < maxDegree})
      BY <2>1, ThoseOnce
    <3> HIDE DEF low
    <3> QED BY <3>1 DEF OnceEach
  <2> HIDE DEF low
  <2>3. ASSUME NEW i \in Id PROVE OnceEach(around(i), Id)
    <3>1. OnceEach(around(i), Id \cap {v \in Id : i \in Nb(v)})
      BY <2>2, ThoseOnce
    <3> HIDE DEF around
    <3> QED BY <3>1 DEF OnceEach
  <2> HIDE DEF around
  <2> QED BY <2>3
<1> HIDE DEF low, around
<1>2. IsListing(l, Id)
  OBVIOUS
<1>1. /\ n \in Nat /\ Indices(n) = SUBSET dom /\ {} \in Indices(n) /\ dom \in Indices(n)
      /\ Visited(l, {}) = {} /\ Visited(l, dom) = Id
      /\ \A s \in Indices(n) : Visited(l, s) \subseteq Id
      /\ \A s \in Indices(n) : s # {} =>
           /\ Earlier(s) \in Indices(n)
           /\ LastVisited(l, s) \in Id
           /\ LastVisited(l, s) \notin Visited(l, Earlier(s))
           /\ Visited(l, s) = Visited(l, Earlier(s)) \cup {LastVisited(l, s)}
  <2> HIDE DEF l
  <2> QED BY <1>2, VisitOrder
<1>3. start \in MayMatch /\ Kept(Visited(l, {}), start)
  BY DEF Mutual, Grown
<1>4. ASSUME NEW c \in MayMatch, NEW E \in SUBSET Id, NEW x \in Id \ E, Kept(E, c)
      PROVE  Op(c, x) \in MayMatch /\ Kept(E \cup {x}, Op(c, x))
  <2>1. Mutual(c) /\ OnceEach(around(x), Id) /\ matching \in MayMatch
    BY <1>4, <1>a DEF Grown, Mutual
  <2>2. Grown(c, PairEnds(c, around(x)))
    BY <2>1, PairEndsGrows
  <2>3. Grown(matching, PairEnds(c, around(x)))
    BY <1>4, <2>1, <2>2, GrownFurther
  <2> QED BY <2>3 DEF Grown, Mutual
<1> HIDE DEF l, start, Op, Kept, n
<1>5. ASSUME NEW s \in Indices(n), s # {}, NEW c \in MayMatch, Kept(Visited(l, Earlier(s)), c)
      PROVE  Op(c, LastVisited(l, s)) \in MayMatch
             /\ Kept(Visited(l, s), Op(c, LastVisited(l, s)))
  <2> DEFINE E == Visited(l, Earlier(s))
             v == LastVisited(l, s)
  <2>1. E \in SUBSET Id /\ v \in Id \ E /\ Visited(l, s) = E \cup {v} /\ Kept(E, c)
    BY <1>1, <1>5
  <2> HIDE DEF E, v
  <2>2. Op(c, v) \in MayMatch /\ Kept(E \cup {v}, Op(c, v))
    BY <1>4, <2>1
  <2> QED BY <2>1, <2>2 DEF v
<1>6. StaysIn(X, Body, start, n)
  <2>1. start \in X[{}]
    BY <1>1, <1>3
  <2>2. ASSUME NEW s \in Indices(n), s # {}, NEW c \in X[Earlier(s)] PROVE Body[s][c] \in X[s]
    <3>1. Earlier(s) \in Indices(n) /\ c \in MayMatch /\ Kept(Visited(l, Earlier(s)), c)
      BY <1>1, <2>2
    <3>2. Body[s][c] = Op(c, LastVisited(l, s))
      OBVIOUS
    <3>3. Body[s][c] \in MayMatch /\ Kept(Visited(l, s), Body[s][c])
      BY <1>5, <2>2, <3>1, <3>2
    <3> HIDE DEF Body
    <3> QED BY <3>3
  <2> QED BY <2>1, <2>2 DEF StaysIn
<1>7. PICK f : IsFold(f, Body, start, n)
  BY <1>1, FoldExists
<1>8. \A s \in Indices(n) : f[s] \in X[s]
  <2> HIDE DEF X, Body
  <2> QED BY <1>1, <1>6, <1>7, FoldReaches
<1>9. f = A(f)
  <2>1. ASSUME NEW s \in Indices(n), s # {}
        PROVE  f[s] = Op(f[s \ {Max(s)}], l[Max(s)])
    <3>1. f[s] = Body[s][f[Earlier(s)]]
      BY <1>7, <2>1 DEF IsFold
    <3>2. f[Earlier(s)] \in X[Earlier(s)]
      BY <1>1, <1>8, <2>1
    <3> HIDE DEF X
    <3>3. f[s] = Op(f[Earlier(s)], LastVisited(l, s))
      BY <3>1, <3>2
    <3> QED BY <3>3 DEF Earlier, LastVisited
  <2>2. f = [s \in Indices(n) |-> f[s]] /\ f[{}] = start
    BY <1>7 DEF IsFold
  <2>3. \A s \in Indices(n) : f[s] = IF s = {} THEN start ELSE Op(f[s \ {Max(s)}], l[Max(s)])
    BY <2>1, <2>2
  <2> QED BY <1>1, <2>2, <2>3
<1>10. iter = A(iter)
  BY <1>9
<1> HIDE DEF iter
<1>11. iter[{}] = start
  BY <1>1, <1>10
<1>12. \A s \in Indices(n) : s # {} => iter[s] = Op(iter[Earlier(s)], LastVisited(l, s))
  BY <1>1, <1>10 DEF Earlier, LastVisited
<1> DEFINE Q == {s \in Indices(n) : iter[s] \in MayMatch /\ Kept(Visited(l, s), iter[s])}
<1>13. {} \in Q
  BY <1>1, <1>3, <1>11
<1>14. ASSUME NEW s \in Indices(n), s # {}, Earlier(s) \in Q PROVE s \in Q
  BY <1>5, <1>12, <1>14
<1>15. \A s \in Indices(n) : s \in Q
  <2> HIDE DEF Q
  <2> QED BY <1>1, <1>13, <1>14, IndexInduction
<1>16. iter[dom] \in MayMatch /\ Kept(Visited(l, dom), iter[dom])
  BY <1>1, <1>15
<1>17. Grown(matching, iter[dom])
  BY <1>16 DEF Kept
<1> QED BY <1>0, <1>17

LEMMA KWayGraphFacts ==
  /\ IsFiniteSet(Id) /\ Cardinality(Id) = N /\ 0 \in Id /\ UNMATCHED \notin Id
  /\ g \in Graphs =>
       \A v \in Id : /\ g.vw[v] \in Nat
                     /\ Nb(v) \in SUBSET (Id \ {v}) /\ IsFiniteSet(Nb(v)) /\ Degree(g, v) \in Nat
                     /\ \A x \in Nb(v) : g.ew[v][x] \in Nat
<1>1. IsFiniteSet(Id) /\ Cardinality(Id) = N /\ 0 \in Id /\ UNMATCHED \notin Id
  <2>1. N \in Nat /\ N - 1 \in Int /\ ~ (0 > N - 1) /\ (N - 1) - 0 + 1 = N
    BY KWayMatchingAssumption
  <2>2. IsFiniteSet(0 .. N - 1) /\ Cardinality(0 .. N - 1) = N
    BY <2>1, FS_Interval
  <2> QED BY <2>1, <2>2 DEF Id, UNMATCHED
<1>2. ASSUME g \in Graphs, NEW v \in Id
      PROVE  /\ g.vw[v] \in Nat
             /\ Nb(v) \in SUBSET (Id \ {v}) /\ IsFiniteSet(Nb(v)) /\ Degree(g, v) \in Nat
             /\ \A x \in Nb(v) : g.ew[v][x] \in Nat
  <2>1. Nb(v) \in SUBSET (Id \ {v}) /\ g.vw[v] \in Nat /\ \A x \in Nb(v) : g.ew[v][x] \in Nat
    BY <1>2, KWayMatchingAssumption DEF Nb
  <2>2. Nb(v) \in SUBSET Id
    BY <2>1
  <2>3. IsFiniteSet(Nb(v))
    BY <1>1, <2>2, FS_Subset
  <2>4. Cardinality(Nb(v)) \in Nat /\ Degree(g, v) = Cardinality(Nb(v))
    BY <2>3, FS_CardinalityType DEF Degree, Nb
  <2> QED BY <2>1, <2>3, <2>4
<1> QED BY <1>1, <1>2

(* Vertices with equal keys have equally many neighbours.                   *)
LEMMA EqualKeys ==
  ASSUME g \in Graphs, NEW a \in TwinCandidates, NEW b \in TwinCandidates, Key(a) = Key(b)
  PROVE  Cardinality(Nb(a)) = Cardinality(Nb(b))
<1>1. \A v \in TwinCandidates : v \in Id /\ Degree(g, v) < 64
  BY DEF TwinCandidates, Alone
<1>2. ASSUME NEW v \in Id
      PROVE  Sum([x \in Nb(v) |-> x], Nb(v)) \in Int /\ Degree(g, v) \in Nat
  <2> DEFINE f == [x \in Nb(v) |-> x]
  <2>1. IsFiniteSet(Nb(v)) /\ \A x \in Nb(v) : f[x] \in Int
    BY KWayGraphFacts DEF Id
  <2> HIDE DEF f
  <2>2. SumFunctionOnSet(f, Nb(v)) \in Int
    BY <2>1, SumType
  <2> QED BY <2>2, KWayGraphFacts DEF Sum, f
<1> DEFINE s == Sum([x \in Nb(a) |-> x], Nb(a))
           t == Sum([x \in Nb(b) |-> x], Nb(b))
<1>3. /\ s \in Int /\ t \in Int /\ s * 64 + Degree(g, a) = t * 64 + Degree(g, b)
      /\ Degree(g, a) \in Nat /\ Degree(g, b) \in Nat /\ Degree(g, a) < 64 /\ Degree(g, b) < 64
  BY <1>1, <1>2 DEF Key
<1> HIDE DEF s, t
<1>4. Degree(g, a) = Degree(g, b)
  BY <1>3
<1> QED BY <1>4 DEF Degree, Nb

Alike(u, v) == 0 \in {u, v} \/ Nb(u) = Nb(v)
TwinStates == [mt : MayMatch, mark : [Id -> Id]]

(* What Match_2HopAll keeps: a mark other than 0 is that of a neighbour, and*)
(* the pairs it makes are alike.                                            *)
TwinsKept(c) ==
  /\ Grown(matching, c.mt)
  /\ \A v \in Id : c.mark[v] = 0 \/ v \in Nb(c.mark[v])
  /\ \A v \in Alone(matching) : c.mt[v] # UNMATCHED => Alike(v, c.mt[v])

LEMMA CandidatesListed ==
  ASSUME NEW ord \in CandidateOrders
  PROVE  /\ ord \in Seq(TwinCandidates) /\ Len(ord) \in Nat
         /\ \A i \in 1 .. Len(ord) : ord[i] \in TwinCandidates /\ ord[i] \in Id
<1>1. IsFiniteSet(TwinCandidates) /\ TwinCandidates \in SUBSET Id
  <2>1. TwinCandidates \in SUBSET Id
    BY DEF TwinCandidates, Alone
  <2> QED BY <2>1, KWayGraphFacts, FS_Subset
<1>2. Cardinality(TwinCandidates) \in Nat
  BY <1>1, FS_CardinalityType
<1>3. ord \in [1 .. Cardinality(TwinCandidates) -> TwinCandidates]
  BY DEF CandidateOrders, SetToSeqs
<1> QED BY <1>1, <1>2, <1>3

LEMMA TwinStepKeeps ==
  ASSUME g \in Graphs, Mutual(matching), NEW ord \in CandidateOrders, NEW x \in 1 .. Len(ord),
         NEW c \in TwinStates, TwinsKept(c)
  PROVE  TwinStep(ord, c, x) \in TwinStates /\ TwinsKept(TwinStep(ord, c, x))
<1> DEFINE a == ord[x]
           mark == Marked(c.mark, a)
           twins == TwinsAfter(ord, x, c.mt, mark)
           b == ord[Min(twins)]
<1>1. /\ a \in TwinCandidates /\ a \in Id /\ a \in Alone(matching)
      /\ c.mt \in MayMatch /\ c.mark \in [Id -> Id] /\ Mutual(c.mt)
  BY CandidatesListed DEF TwinCandidates, TwinStates, TwinsKept, Grown
<1>2. CASE c.mt[a] # UNMATCHED
  BY <1>2 DEF TwinStep
<1>3. CASE c.mt[a] = UNMATCHED
  <2>1. TwinStep(ord, c, x) = [mark |-> mark, mt |-> IF twins = {} THEN c.mt ELSE Pair(c.mt, a, b)]
    BY <1>3 DEF TwinStep
  <2>2. /\ mark \in [Id -> Id]
        /\ \A v \in Id : mark[v] = IF v \in Nb(a) THEN a ELSE c.mark[v]
    BY <1>1 DEF Marked
  <2>3. \A v \in Id : mark[v] = 0 \/ v \in Nb(mark[v])
    BY <2>2 DEF TwinsKept
  <2>4. CASE twins = {}
    <3>1. TwinStep(ord, c, x) = [mark |-> mark, mt |-> c.mt]
      BY <2>1, <2>4
    <3> HIDE DEF mark
    <3> QED BY <1>1, <2>2, <2>3, <3>1 DEF TwinsKept, TwinStates
  <2>5. CASE twins # {}
    <3>1. twins \subseteq 1 .. Len(ord) /\ IsFiniteSet(twins) /\ twins \subseteq Int
      <4>1. Len(ord) \in Nat
        BY CandidatesListed
      <4>2. twins \in SUBSET (1 .. Len(ord))
        BY <4>1 DEF TwinsAfter
      <4> HIDE DEF twins
      <4>3. IsFiniteSet(1 .. Len(ord))
        BY <4>1, FS_Interval
      <4>4. IsFiniteSet(twins)
        BY <4>2, <4>3, FS_Subset
      <4> QED BY <4>2, <4>4
    <3>2. Min(twins) \in twins
      <4> HIDE DEF twins
      <4> QED BY <2>5, <3>1, SmallestExists
    <3>3. /\ b \in TwinCandidates /\ b \in Id /\ c.mt[b] = UNMATCHED /\ Key(b) = Key(a)
          /\ \A v \in Nb(b) : mark[v] = a
      <4> DEFINE y == Min(twins)
      <4>1. y \in twins /\ y \in 1 .. Len(ord)
        BY <3>1, <3>2
      <4> HIDE DEF y
      <4>2. ord[y] \in TwinCandidates /\ ord[y] \in Id
        BY <4>1, CandidatesListed
      <4>3. /\ c.mt[ord[y]] = UNMATCHED /\ Key(ord[y]) = Key(a)
            /\ \A v \in Nb(ord[y]) : mark[v] = a
        BY <4>1 DEF TwinsAfter
      <4> QED BY <4>2, <4>3 DEF y
    <3> HIDE DEF mark, b, twins
    <3>4. Alike(a, b)
      <4>1. SUFFICES ASSUME a # 0 PROVE Nb(a) = Nb(b)
        BY DEF Alike
      <4>2. Nb(b) \subseteq Nb(a)
        <5> SUFFICES ASSUME NEW v \in Nb(b) PROVE v \in Nb(a)
          OBVIOUS
        <5>1. v \in Id /\ mark[v] = a
          BY <3>3, KWayGraphFacts
        <5> QED BY <2>3, <4>1, <5>1
      <4>3. Cardinality(Nb(a)) = Cardinality(Nb(b))
        BY <1>1, <3>3, EqualKeys
      <4>4. IsFiniteSet(Nb(a)) /\ Nb(b) \in SUBSET Nb(a)
        BY <1>1, <4>2, KWayGraphFacts
      <4> QED BY <4>3, <4>4, FS_Subset
    <3> DEFINE new == Pair(c.mt, a, b)
    <3>5. a \in Alone(c.mt) /\ b \in Alone(c.mt) /\ b \in Alone(matching)
      BY <1>1, <1>3, <3>3 DEF Alone, TwinCandidates
    <3>6. /\ Grown(c.mt, new) /\ new[a] = b /\ new[b] = a
          /\ \A v \in Id \ {a, b} : new[v] = c.mt[v]
      BY <1>1, <3>5, PairKeeps
    <3>7. TwinStep(ord, c, x) = [mark |-> mark, mt |-> new]
      BY <2>1, <2>5
    <3> HIDE DEF new
    <3>8. Grown(matching, new) /\ new \in MayMatch
      <4>1. matching \in MayMatch /\ Grown(matching, c.mt)
        BY DEF Mutual, TwinsKept
      <4> QED BY <3>6, <4>1, GrownFurther DEF Grown, Mutual
    <3>9. \A v \in Alone(matching) : new[v] # UNMATCHED => Alike(v, new[v])
      <4> SUFFICES ASSUME NEW v \in Alone(matching), new[v] # UNMATCHED PROVE Alike(v, new[v])
        OBVIOUS
      <4>1. CASE v \in {a, b}
        BY <3>4, <3>6, <4>1 DEF Alike
      <4>2. CASE v \notin {a, b}
        <5>1. v \in Id
          BY DEF Alone
        <5>2. new[v] = c.mt[v]
          BY <3>6, <4>2, <5>1
        <5> QED BY <5>2 DEF TwinsKept
      <4> QED BY <4>1, <4>2
    <3> QED BY <2>2, <2>3, <3>7, <3>8, <3>9 DEF TwinsKept, TwinStates
  <2> QED BY <2>4, <2>5
<1> QED BY <1>2, <1>3

(* Match_2HopAll.                                                           *)
LEMMA TwoHopAllGrows ==
  ASSUME g \in Graphs, Mutual(matching), NEW ord \in CandidateOrders
  PROVE  /\ Grown(matching, TwoHopAll(ord))
         /\ \A v \in Alone(matching) :
              TwoHopAll(ord)[v] # UNMATCHED => Alike(v, TwoHopAll(ord)[v])
<1> DEFINE l == [x \in 1 .. Len(ord) |-> x]
           start == [mt |-> matching, mark |-> [v \in Id |-> 0]]
           Op(c, x) == TwinStep(ord, c, x)
           Kept(E, c) == TwinsKept(c)
           n == Len(l)
           dom == DOMAIN l
           A(h) == [s \in SUBSET dom |->
                      IF s = {} THEN start ELSE Op(h[s \ {Max(s)}], l[Max(s)])]
           iter == CHOOSE h : h = A(h)
           X == [s \in Indices(n) |-> {c \in TwinStates : Kept(Visited(l, s), c)}]
           Body == [s \in Indices(n) |-> [c \in X[Earlier(s)] |-> Op(c, LastVisited(l, s))]]
<1>0. TwoHopAll(ord) = iter[dom].mt
  BY DEF TwoHopAll, FoldLeft, MapThenFoldSet
<1>a. Len(ord) \in Nat
  BY CandidatesListed
<1>2. IsListing(l, 1 .. Len(ord))
  <2>1. l \in Seq(1 .. Len(ord)) /\ Len(l) = Len(ord) /\ \A i \in 1 .. Len(ord) : l[i] = i
    BY <1>a
  <2> HIDE DEF l
  <2> QED BY <2>1 DEF IsListing
<1>1. /\ n \in Nat /\ Indices(n) = SUBSET dom /\ {} \in Indices(n) /\ dom \in Indices(n)
      /\ Visited(l, {}) = {} /\ Visited(l, dom) = 1 .. Len(ord)
      /\ \A s \in Indices(n) : Visited(l, s) \subseteq 1 .. Len(ord)
      /\ \A s \in Indices(n) : s # {} =>
           /\ Earlier(s) \in Indices(n)
           /\ LastVisited(l, s) \in 1 .. Len(ord)
           /\ LastVisited(l, s) \notin Visited(l, Earlier(s))
           /\ Visited(l, s) = Visited(l, Earlier(s)) \cup {LastVisited(l, s)}
  <2> HIDE DEF l
  <2> QED BY <1>2, VisitOrder
<1>3. start \in TwinStates /\ Kept(Visited(l, {}), start)
  <2> DEFINE zero == [v \in Id |-> 0]
  <2>1. zero \in [Id -> Id] /\ \A v \in Id : zero[v] = 0
    BY KWayGraphFacts
  <2> HIDE DEF zero
  <2>2. matching \in MayMatch /\ Grown(matching, matching)
    BY DEF Mutual, Grown
  <2>3. start = [mt |-> matching, mark |-> zero]
    BY DEF zero
  <2> HIDE DEF start
  <2> QED BY <2>1, <2>2, <2>3 DEF TwinStates, TwinsKept, Alone
<1>4. ASSUME NEW c \in TwinStates, NEW E \in SUBSET (1 .. Len(ord)),
             NEW x \in (1 .. Len(ord)) \ E, Kept(E, c)
      PROVE  Op(c, x) \in TwinStates /\ Kept(E \cup {x}, Op(c, x))
  BY <1>4, TwinStepKeeps
<1> HIDE DEF l, start, Op, Kept, n
<1>5. ASSUME NEW s \in Indices(n), s # {}, NEW c \in TwinStates, Kept(Visited(l, Earlier(s)), c)
      PROVE  Op(c, LastVisited(l, s)) \in TwinStates
             /\ Kept(Visited(l, s), Op(c, LastVisited(l, s)))
  <2> DEFINE E == Visited(l, Earlier(s))
             v == LastVisited(l, s)
  <2>1. /\ E \in SUBSET (1 .. Len(ord)) /\ v \in (1 .. Len(ord)) \ E
        /\ Visited(l, s) = E \cup {v} /\ Kept(E, c)
    BY <1>1, <1>5
  <2> HIDE DEF E, v
  <2>2. Op(c, v) \in TwinStates /\ Kept(E \cup {v}, Op(c, v))
    BY <1>4, <2>1
  <2> QED BY <2>1, <2>2 DEF v
<1>6. StaysIn(X, Body, start, n)
  <2>1. start \in X[{}]
    BY <1>1, <1>3
  <2>2. ASSUME NEW s \in Indices(n), s # {}, NEW c \in X[Earlier(s)] PROVE Body[s][c] \in X[s]
    <3>1. Earlier(s) \in Indices(n) /\ c \in TwinStates /\ Kept(Visited(l, Earlier(s)), c)
      BY <1>1, <2>2
    <3>2. Body[s][c] = Op(c, LastVisited(l, s))
      OBVIOUS
    <3>3. Body[s][c] \in TwinStates /\ Kept(Visited(l, s), Body[s][c])
      BY <1>5, <2>2, <3>1, <3>2
    <3> HIDE DEF Body
    <3> QED BY <3>3
  <2> QED BY <2>1, <2>2 DEF StaysIn
<1>7. PICK f : IsFold(f, Body, start, n)
  BY <1>1, FoldExists
<1>8. \A s \in Indices(n) : f[s] \in X[s]
  <2> HIDE DEF X, Body
  <2> QED BY <1>1, <1>6, <1>7, FoldReaches
<1>9. f = A(f)
  <2>1. ASSUME NEW s \in Indices(n), s # {}
        PROVE  f[s] = Op(f[s \ {Max(s)}], l[Max(s)])
    <3>1. f[s] = Body[s][f[Earlier(s)]]
      BY <1>7, <2>1 DEF IsFold
    <3>2. f[Earlier(s)] \in X[Earlier(s)]
      BY <1>1, <1>8, <2>1
    <3> HIDE DEF X
    <3>3. f[s] = Op(f[Earlier(s)], LastVisited(l, s))
      BY <3>1, <3>2
    <3> QED BY <3>3 DEF Earlier, LastVisited
  <2>2. f = [s \in Indices(n) |-> f[s]] /\ f[{}] = start
    BY <1>7 DEF IsFold
  <2>3. \A s \in Indices(n) : f[s] = IF s = {} THEN start ELSE Op(f[s \ {Max(s)}], l[Max(s)])
    BY <2>1, <2>2
  <2> QED BY <1>1, <2>2, <2>3
<1>10. iter = A(iter)
  BY <1>9
<1> HIDE DEF iter
<1>11. iter[{}] = start
  BY <1>1, <1>10
<1>12. \A s \in Indices(n) : s # {} => iter[s] = Op(iter[Earlier(s)], LastVisited(l, s))
  BY <1>1, <1>10 DEF Earlier, LastVisited
<1> DEFINE Q == {s \in Indices(n) : iter[s] \in TwinStates /\ Kept(Visited(l, s), iter[s])}
<1>13. {} \in Q
  BY <1>1, <1>3, <1>11
<1>14. ASSUME NEW s \in Indices(n), s # {}, Earlier(s) \in Q PROVE s \in Q
  BY <1>5, <1>12, <1>14
<1>15. \A s \in Indices(n) : s \in Q
  <2> HIDE DEF Q
  <2> QED BY <1>1, <1>13, <1>14, IndexInduction
<1>16. iter[dom] \in TwinStates /\ Kept(Visited(l, dom), iter[dom])
  BY <1>1, <1>15
<1>17. TwinsKept(iter[dom])
  BY <1>16 DEF Kept
<1> QED BY <1>0, <1>17 DEF TwinsKept

Seen == {perm[j] : j \in 1 .. pi}
AloneAgain == Alone(matching) \cap Seen

Light(mt) ==
  \A v \in Id : mt[v] \notin {UNMATCHED, v} /\ Nb(v) # {} /\ Nb(mt[v]) # {}
                => g.vw[v] + g.vw[mt[v]] <= MaxWeight

(* While vertices are visited the counter counts those that were left       *)
(* alone, some of which others have matched since; they are light, so that  *)
(* two of them may be matched whatever the passes over two hops choose.     *)
KWayInv ==
  /\ g \in Graphs /\ IsListing(perm, Id) /\ Len(perm) = N
  /\ pi \in 0 .. N /\ nunmatched \in Int /\ lastUnmatched \in 0 .. N
  /\ pc \in {"heavy", "any2", "all", "any3", "anyN", "number", "done"}
  /\ pc # "heavy" => pi = N
  /\ Mutual(matching)
  /\ Light(matching)
  /\ \A v \in AloneAgain : 2 * g.vw[v] < MaxWeight
  /\ pc = "heavy" => Cardinality(AloneAgain) <= nunmatched
  /\ UnmatchedCounted
  /\ TwinsButZero
  /\ pc = "done" => /\ \A v \in Id : matching[v] \in Id
                    /\ mapping = [v \in Id |-> Numbered(matching, v)]

LEMMA OrdersAreListings ==
  ASSUME NEW s \in SetToSeqs(Id)
  PROVE  IsListing(s, Id) /\ Len(s) = N
<1>1. Cardinality(Id) = N /\ N \in Nat /\ IsFiniteSet(Id)
  BY KWayGraphFacts, KWayMatchingAssumption
<1>2. s \in [1 .. N -> Id] /\ \A i, j \in 1 .. N : s[i] = s[j] => i = j
  BY <1>1 DEF SetToSeqs
<1>3. s \in Seq(Id) /\ Len(s) = N
  BY <1>1, <1>2
<1>4. \A v \in Id : \E i \in 1 .. N : s[i] = v
  <2>1. s \in Injection(1 .. N, Id)
    BY <1>2 DEF Injection, IsInjective
  <2>2. IsFiniteSet(1 .. N) /\ Cardinality(1 .. N) = N
    <3>1. 1 \in Int /\ N \in Int /\ (1 > N => N = 0) /\ N - 1 + 1 = N
      BY <1>1
    <3> QED BY <3>1, FS_Interval
  <2>3. s \in Surjection(1 .. N, Id)
    BY <1>1, <2>1, <2>2, FS_Injection
  <2> QED BY <2>3 DEF Surjection
<1> QED BY <1>2, <1>3, <1>4 DEF IsListing

LEMMA KWayInit == Init => KWayInv
<1> SUFFICES ASSUME Init PROVE KWayInv
  OBVIOUS
<1>1. g \in Graphs /\ IsListing(perm, Id) /\ Len(perm) = N
  BY OrdersAreListings DEF Init, Orders
<1>2. /\ pi = 0 /\ nunmatched = 0 /\ lastUnmatched = 0 /\ byHop = {} /\ pc = "heavy"
      /\ matching = [v \in Id |-> UNMATCHED] /\ N \in Nat
  BY KWayMatchingAssumption DEF Init
<1>3. \A v \in Id : matching[v] = UNMATCHED
  BY <1>2
<1>4. Mutual(matching) /\ Light(matching)
  BY <1>2, <1>3 DEF Mutual, MayMatch, Light
<1>5. AloneAgain = {} /\ Cardinality(AloneAgain) = 0
  <2>1. AloneAgain = {}
    BY <1>2 DEF AloneAgain, Seen
  <2> QED BY <2>1, FS_EmptySet
<1>6. UnmatchedCounted /\ TwinsButZero
  BY <1>2 DEF UnmatchedCounted, TwinsButZero
<1> QED BY <1>1, <1>2, <1>4, <1>5, <1>6 DEF KWayInv

(* What a vertex is matched with: itself, a vertex without edges in mind, or*)
(* a neighbour that is light enough.                                        *)
LEMMA FirstFromIsAlone ==
  ASSUME KWayInv, NEW i \in Alone(matching), NEW from \in 0 .. N
  PROVE  FirstFrom(from, i) \in Alone(matching) /\ StopAt(from) \in 0 .. N
<1> DEFINE later == {j \in from .. N - 1 : matching[perm[j + 1]] = UNMATCHED}
<1>1. N \in Nat /\ \A j \in 1 .. N : perm[j] \in Id
  BY KWayMatchingAssumption DEF KWayInv, IsListing
<1>2. CASE later = {}
  BY <1>1, <1>2 DEF FirstFrom, StopAt
<1>3. CASE later # {}
  <2>1. later \in SUBSET (0 .. N - 1) /\ later \subseteq Int
    BY <1>1
  <2>2. IsFiniteSet(later)
    <3> HIDE DEF later
    <3>1. IsFiniteSet(0 .. N - 1)
      BY <1>1, FS_Interval
    <3> QED BY <2>1, <3>1, FS_Subset
  <2>3. Min(later) \in later
    <3> HIDE DEF later
    <3> QED BY <1>3, <2>1, <2>2, SmallestExists
  <2> DEFINE k == Min(later)
  <2>4. k \in later /\ FirstFrom(from, i) = perm[k + 1] /\ StopAt(from) = k
    BY <1>3, <2>3 DEF FirstFrom, StopAt
  <2> HIDE DEF k
  <2>5. k \in 0 .. N - 1 /\ k + 1 \in 1 .. N /\ matching[perm[k + 1]] = UNMATCHED
    BY <1>1, <2>1, <2>4
  <2> QED BY <1>1, <2>4, <2>5 DEF Alone
<1> QED BY <1>2, <1>3

LEMMA VisitMatches ==
  ASSUME KWayInv, Visit, NEW i, i = perm[pi + 1]
  PROVE  /\ i \in Id /\ lastUnmatched' \in 0 .. N /\ pi' \in 0 .. N /\ pi' = pi + 1
         /\ \/ matching[i] # UNMATCHED /\ matching' = matching /\ nunmatched' = nunmatched
            \/ /\ i \in Alone(matching) /\ 2 * g.vw[i] < MaxWeight
               /\ matching' = matching /\ nunmatched' = nunmatched + 1
            \/ /\ i \in Alone(matching) /\ nunmatched' = nunmatched
               /\ \E k \in Alone(matching) :
                    /\ matching' = Pair(matching, i, k)
                    /\ k = i \/ Nb(i) = {} \/ g.vw[i] + g.vw[k] <= MaxWeight
<1> DEFINE from == (IF pi > lastUnmatched THEN pi ELSE lastUnmatched) + 1
<1>1. /\ pi \in 0 .. N - 1 /\ N \in Nat /\ lastUnmatched \in 0 .. N /\ nunmatched \in Int
      /\ pi' = pi + 1
  BY KWayMatchingAssumption DEF KWayInv, Visit
<1>2. i \in Id /\ pi' \in 0 .. N
  BY <1>1 DEF KWayInv, IsListing
<1>3. CASE matching[i] # UNMATCHED
  BY <1>1, <1>2, <1>3 DEF Visit
<1>4. CASE matching[i] = UNMATCHED
  <2>1. i \in Alone(matching)
    BY <1>2, <1>4 DEF Alone
  <2>2. CASE g.vw[i] >= MaxWeight /\ matching' = Pair(matching, i, i)
             /\ UNCHANGED <<nunmatched, lastUnmatched>>
    BY <1>1, <1>2, <2>1, <2>2
  <2>3. CASE /\ Nb(i) = {} /\ matching' = Pair(matching, i, FirstFrom(from, i))
             /\ lastUnmatched' = StopAt(from) /\ UNCHANGED nunmatched
    <3>1. from \in 0 .. N \/ from = N + 1
      BY <1>1
    <3>2. CASE from \in 0 .. N
      <4> HIDE DEF from
      <4> QED BY <1>1, <1>2, <2>1, <2>3, <3>2, FirstFromIsAlone
    <3>3. CASE from = N + 1
      <4>1. {j \in from .. N - 1 : matching[perm[j + 1]] = UNMATCHED} = {}
        BY <1>1, <3>3
      <4>2. FirstFrom(from, i) = i /\ StopAt(from) = N
        BY <4>1 DEF FirstFrom, StopAt
      <4> HIDE DEF from
      <4> QED BY <1>1, <1>2, <2>1, <2>3, <4>2
    <3> QED BY <3>1, <3>2, <3>3
  <2>4. CASE UNCHANGED lastUnmatched
             /\ \E k \in Heaviest(i) : matching' = Pair(matching, i, k) /\ UNCHANGED nunmatched
    <3>1. PICK k \in Heaviest(i) : matching' = Pair(matching, i, k) /\ UNCHANGED nunmatched
      BY <2>4
    <3>2. k \in Alone(matching) /\ g.vw[i] + g.vw[k] <= MaxWeight
      <4>1. k \in Nb(i) /\ matching[k] = UNMATCHED /\ g.vw[i] + g.vw[k] <= MaxWeight
        BY DEF Heaviest, Partners
      <4> QED BY <1>2, <4>1, KWayGraphFacts DEF Alone, KWayInv
    <3> QED BY <1>1, <1>2, <2>1, <2>4, <3>1, <3>2
  <2>5. CASE /\ UNCHANGED lastUnmatched /\ 2 * g.vw[i] < MaxWeight
             /\ nunmatched' = nunmatched + 1 /\ UNCHANGED matching
    BY <1>1, <1>2, <2>1, <2>5
  <2>6. CASE UNCHANGED <<lastUnmatched, nunmatched>> /\ matching' = Pair(matching, i, i)
    BY <1>1, <1>2, <2>1, <2>6
  <2> HIDE DEF from
  <2>7. \/ g.vw[i] >= MaxWeight /\ matching' = Pair(matching, i, i)
             /\ UNCHANGED <<nunmatched, lastUnmatched>>
        \/ /\ Nb(i) = {} /\ matching' = Pair(matching, i, FirstFrom(from, i))
           /\ lastUnmatched' = StopAt(from) /\ UNCHANGED nunmatched
        \/ UNCHANGED lastUnmatched
             /\ \E k \in Heaviest(i) : matching' = Pair(matching, i, k) /\ UNCHANGED nunmatched
        \/ /\ UNCHANGED lastUnmatched /\ 2 * g.vw[i] < MaxWeight
           /\ nunmatched' = nunmatched + 1 /\ UNCHANGED matching
        \/ UNCHANGED <<lastUnmatched, nunmatched>> /\ matching' = Pair(matching, i, i)
    BY <1>4 DEF Visit, from, CountAlone
  <2> QED BY <2>2, <2>3, <2>4, <2>5, <2>6, <2>7
<1> QED BY <1>3, <1>4

LEMMA VisitKeeps == ASSUME KWayInv, Visit PROVE KWayInv'
<1> DEFINE i == perm[pi + 1]
<1>1. /\ i \in Id /\ lastUnmatched' \in 0 .. N /\ pi' \in 0 .. N /\ pi' = pi + 1 /\ pi \in Nat
      /\ UNCHANGED <<g, perm, byHop, mapping, pc>> /\ pc = "heavy" /\ nunmatched \in Int
      /\ \/ matching[i] # UNMATCHED /\ matching' = matching /\ nunmatched' = nunmatched
         \/ /\ i \in Alone(matching) /\ 2 * g.vw[i] < MaxWeight
            /\ matching' = matching /\ nunmatched' = nunmatched + 1
         \/ /\ i \in Alone(matching) /\ nunmatched' = nunmatched
            /\ \E k \in Alone(matching) :
                 /\ matching' = Pair(matching, i, k)
                 /\ k = i \/ Nb(i) = {} \/ g.vw[i] + g.vw[k] <= MaxWeight
  <2>1. UNCHANGED <<g, perm, byHop, mapping, pc>> /\ pc = "heavy"
    BY DEF Visit
  <2>2. nunmatched \in Int /\ pi \in Nat
    BY KWayMatchingAssumption DEF KWayInv
  <2> QED BY <2>1, <2>2, VisitMatches
<1>2. Seen' = Seen \cup {i}
  <2>1. 1 .. pi' = (1 .. pi) \cup {pi + 1}
    BY <1>1
  <2> QED BY <1>1, <2>1 DEF Seen
<1> HIDE DEF i
<1>3. /\ Mutual(matching) /\ Light(matching) /\ Cardinality(AloneAgain) <= nunmatched
      /\ \A v \in AloneAgain : v \in Id /\ 2 * g.vw[v] < MaxWeight
      /\ IsFiniteSet(AloneAgain) /\ Cardinality(AloneAgain) \in Nat
  <2>1. AloneAgain \in SUBSET Id
    BY DEF AloneAgain, Alone
  <2>2. IsFiniteSet(AloneAgain) /\ Cardinality(AloneAgain) \in Nat
    BY <2>1, KWayGraphFacts, FS_Subset, FS_CardinalityType
  <2> QED BY <1>1, <2>1, <2>2 DEF KWayInv
<1>4. /\ Mutual(matching') /\ Light(matching)' /\ nunmatched' \in Int
      /\ Cardinality(AloneAgain') <= nunmatched'
      /\ \A v \in AloneAgain' : 2 * g.vw[v] < MaxWeight
  <2>1. CASE matching[i] # UNMATCHED /\ matching' = matching /\ nunmatched' = nunmatched
    <3>1. AloneAgain' = AloneAgain
      BY <1>2, <2>1 DEF AloneAgain, Alone
    <3> QED BY <1>1, <1>3, <2>1, <3>1 DEF Light, Nb
  <2>2. CASE /\ i \in Alone(matching) /\ 2 * g.vw[i] < MaxWeight
             /\ matching' = matching /\ nunmatched' = nunmatched + 1
    <3>1. AloneAgain' = AloneAgain \cup {i}
      BY <1>2, <2>2 DEF AloneAgain, Alone
    <3>2. Cardinality(AloneAgain \cup {i}) <= Cardinality(AloneAgain) + 1
      <4>1. Cardinality(AloneAgain \cup {i})
              = IF i \in AloneAgain THEN Cardinality(AloneAgain) ELSE Cardinality(AloneAgain) + 1
        BY <1>3, FS_AddElement
      <4> QED BY <1>3, <4>1
    <3>3. IsFiniteSet(AloneAgain \cup {i})
      BY <1>3, FS_AddElement
    <3>4. Cardinality(AloneAgain \cup {i}) \in Nat
      BY <3>3, FS_CardinalityType
    <3>5. Cardinality(AloneAgain') <= nunmatched'
      BY <1>1, <1>3, <2>2, <3>1, <3>2, <3>4
    <3>6. \A v \in AloneAgain' : 2 * g.vw[v] < MaxWeight
      BY <1>3, <2>2, <3>1
    <3> QED BY <1>1, <1>3, <2>2, <3>5, <3>6 DEF Light, Nb
  <2>3. CASE /\ i \in Alone(matching) /\ nunmatched' = nunmatched
             /\ \E k \in Alone(matching) :
                  /\ matching' = Pair(matching, i, k)
                  /\ k = i \/ Nb(i) = {} \/ g.vw[i] + g.vw[k] <= MaxWeight
    <3>1. PICK k \in Alone(matching) :
             /\ matching' = Pair(matching, i, k)
             /\ k = i \/ Nb(i) = {} \/ g.vw[i] + g.vw[k] <= MaxWeight
      BY <2>3
    <3>2. /\ Grown(matching, matching') /\ matching'[i] = k /\ matching'[k] = i
          /\ \A v \in Id \ {i, k} : matching'[v] = matching[v]
      BY <1>3, <2>3, <3>1, PairKeeps
    <3>3. i \in Id /\ k \in Id /\ UNMATCHED \notin Id /\ g.vw[i] \in Nat /\ g.vw[k] \in Nat
      BY <2>3, <3>1, KWayGraphFacts DEF Alone, KWayInv
    <3>4. Light(matching)'
      <4>1. g' = g
        BY <1>1
      <4>2. SUFFICES ASSUME NEW v \in Id, matching'[v] \notin {UNMATCHED, v},
                            Nb(v) # {}, Nb(matching'[v]) # {}
                     PROVE  g.vw[v] + g.vw[matching'[v]] <= MaxWeight
        BY <4>1 DEF Light, Nb
      <4>3. CASE v = i
        BY <3>1, <3>2, <4>2, <4>3
      <4>4. CASE v = k
        BY <3>1, <3>2, <3>3, <4>2, <4>4
      <4>5. CASE v \notin {i, k}
        BY <1>3, <3>2, <4>2, <4>5 DEF Light
      <4> QED BY <4>3, <4>4, <4>5
    <3>5. AloneAgain' \in SUBSET AloneAgain
      <4>1. \A v \in Id : matching'[v] = UNMATCHED => v # i /\ matching[v] = UNMATCHED
        BY <3>2, <3>3
      <4> QED BY <1>2, <4>1 DEF AloneAgain, Alone
    <3>6. Cardinality(AloneAgain') <= Cardinality(AloneAgain) /\ Cardinality(AloneAgain') \in Nat
      BY <1>3, <3>5, FS_Subset, FS_CardinalityType
    <3>7. Cardinality(AloneAgain') <= nunmatched'
      BY <1>1, <1>3, <2>3, <3>6
    <3> QED BY <1>1, <1>3, <2>3, <3>2, <3>4, <3>5, <3>7 DEF Grown
  <2> QED BY <1>1, <2>1, <2>2, <2>3
<1>5. UnmatchedCounted' /\ TwinsButZero'
  BY <1>1 DEF KWayInv, UnmatchedCounted, TwinsButZero, Nb
<1>6. (g \in Graphs /\ IsListing(perm, Id) /\ Len(perm) = N)'
  BY <1>1 DEF KWayInv
<1>7. Mutual(matching)'
  BY <1>4
<1>8. (\A v \in AloneAgain : 2 * g.vw[v] < MaxWeight)'
  BY <1>1, <1>4
<1> QED BY <1>1, <1>4, <1>5, <1>6, <1>7, <1>8 DEF KWayInv

LEMMA AllSeen == ASSUME KWayInv, pi = N PROVE AloneAgain = Alone(matching)
<1>1. \A v \in Id : \E j \in 1 .. N : perm[j] = v
  BY DEF KWayInv, IsListing
<1> QED BY <1>1 DEF AloneAgain, Seen, Alone

LEMMA EndVisitsKeeps == ASSUME KWayInv, EndVisits PROVE KWayInv'
<1>1. /\ UNCHANGED <<g, perm, pi, matching, nunmatched, lastUnmatched, byHop, mapping>>
      /\ pi = N /\ pc = "heavy" /\ pc' \in {"any2", "number"}
  BY DEF EndVisits
<1>2. Cardinality(Alone(matching)) <= nunmatched
  BY <1>1, AllSeen DEF KWayInv
<1>3. UnmatchedCounted' /\ TwinsButZero'
  BY <1>1, <1>2 DEF KWayInv, UnmatchedCounted, TwinsButZero, Alone, Nb
<1>4. Light(matching)' /\ Mutual(matching)' /\ AloneAgain' = AloneAgain
  BY <1>1 DEF KWayInv, Light, Nb, AloneAgain, Seen, Alone
<1> QED BY <1>1, <1>3, <1>4 DEF KWayInv

(* All that are alone after the visits are light, so any two may be matched.*)
LEMMA GrownIsLight ==
  ASSUME KWayInv, pi = N, NEW new, Grown(matching, new)
  PROVE  Light(new) /\ Alone(new) \in SUBSET Alone(matching)
<1>1. Mutual(matching) /\ Light(matching) /\ MaxWeight \in Nat
  BY KWayMatchingAssumption DEF KWayInv
<1>2. Alone(new) \in SUBSET Alone(matching)
  BY DEF Alone, Grown
<1>3. ASSUME NEW v \in Id, new[v] \notin {UNMATCHED, v}, Nb(v) # {}, Nb(new[v]) # {}
      PROVE  g.vw[v] + g.vw[new[v]] <= MaxWeight
  <2>1. CASE matching[v] # UNMATCHED
    BY <1>1, <1>3, <2>1 DEF Grown, Light
  <2>2. CASE matching[v] = UNMATCHED
    <3>1. v \in Alone(matching)
      BY <2>2 DEF Alone
    <3>2. new[v] \in Alone(matching)
      BY <1>1, <1>3, <3>1, PartnerWasAlone
    <3>3. /\ 2 * g.vw[v] < MaxWeight /\ 2 * g.vw[new[v]] < MaxWeight
      BY <3>1, <3>2, AllSeen DEF KWayInv
    <3>4. g.vw[v] \in Nat /\ g.vw[new[v]] \in Nat
      BY <3>2, KWayGraphFacts DEF Alone, KWayInv
    <3> QED BY <1>1, <3>3, <3>4
  <2> QED BY <2>1, <2>2
<1> QED BY <1>2, <1>3 DEF Light

LEMMA AloneCounted ==
  ASSUME NEW mt
  PROVE  IsFiniteSet(Alone(mt)) /\ Cardinality(Alone(mt)) \in Nat
<1>1. Alone(mt) \in SUBSET Id
  BY DEF Alone
<1> QED BY <1>1, KWayGraphFacts, FS_Subset, FS_CardinalityType

(* A pass over two hops keeps the invariant when it counts right.           *)
LEMMA GrowthKeeps ==
  ASSUME KWayInv, pi = N, UNCHANGED <<g, perm, pi, lastUnmatched, mapping>>,
         Grown(matching, matching'), nunmatched' \in Int,
         Cardinality(Alone(matching')) <= nunmatched',
         pc' \in {"all", "any3", "anyN", "number"}, TwinsButZero'
  PROVE  KWayInv'
<1>1. Light(matching') /\ Alone(matching') \in SUBSET Alone(matching)
  BY GrownIsLight
<1>2. Light(matching)'
  BY <1>1 DEF Light, Nb
<1>3. AloneAgain' \in SUBSET AloneAgain
  BY <1>1 DEF AloneAgain, Seen, Alone
<1>4. \A v \in AloneAgain' : 2 * g'.vw[v] < MaxWeight
  BY <1>3 DEF KWayInv
<1>5. UnmatchedCounted' /\ Mutual(matching)'
  BY DEF UnmatchedCounted, Alone, Grown
<1> QED BY <1>2, <1>4, <1>5 DEF KWayInv

LEMMA HopAnyKeeps ==
  ASSUME KWayInv, pc \in {"any2", "any3", "anyN"}, NEW maxDegree, HopAny(maxDegree),
         pc' \in {"all", "anyN", "number"}
  PROVE  KWayInv'
<1>1. /\ matching' = TwoHopAny(maxDegree)
      /\ UNCHANGED <<g, perm, pi, lastUnmatched, byHop, mapping>>
      /\ nunmatched' = nunmatched - (Cardinality(Alone(matching)) - Cardinality(Alone(matching')))
  BY DEF HopAny
<1>2. /\ pi = N /\ Mutual(matching) /\ IsListing(perm, Id) /\ nunmatched \in Int
      /\ Cardinality(Alone(matching)) <= nunmatched
  BY DEF KWayInv, UnmatchedCounted
<1>3. Grown(matching, matching')
  BY <1>1, <1>2, TwoHopAnyGrows
<1>4. Cardinality(Alone(matching)) \in Nat /\ Cardinality(Alone(matching')) \in Nat
  BY AloneCounted
<1>5. nunmatched' \in Int /\ Cardinality(Alone(matching')) <= nunmatched'
  BY <1>1, <1>2, <1>4
<1>6. TwinsButZero'
  BY <1>1 DEF KWayInv, TwinsButZero, Nb
<1> QED BY <1>1, <1>2, <1>3, <1>5, <1>6, GrowthKeeps

LEMMA AllKeeps == ASSUME KWayInv, All PROVE KWayInv'
<1> DEFINE made == Alone(matching) \ Alone(matching')
<1>1. PICK s \in CandidateOrders : matching' = TwoHopAll(s)
  BY DEF All
<1>2. /\ pc = "all" /\ UNCHANGED <<g, perm, pi, lastUnmatched, mapping>>
      /\ nunmatched' = nunmatched - Cardinality(made)
      /\ byHop' = {{v, matching'[v]} : v \in made}
      /\ pc' \in {"any3", "anyN", "number"}
  BY DEF All
<1>3. /\ pi = N /\ g \in Graphs /\ Mutual(matching) /\ nunmatched \in Int
      /\ Cardinality(Alone(matching)) <= nunmatched
  BY <1>2 DEF KWayInv, UnmatchedCounted
<1>4. /\ Grown(matching, matching')
      /\ \A v \in Alone(matching) : matching'[v] # UNMATCHED => Alike(v, matching'[v])
  BY <1>1, <1>3, TwoHopAllGrows
<1>5. Alone(matching') \in SUBSET Alone(matching)
  BY <1>3, <1>4, GrownIsLight
<1>6. Cardinality(Alone(matching')) = Cardinality(Alone(matching)) - Cardinality(made)
  <2>1. Alone(matching) \ made = Alone(matching') /\ Alone(matching) \cap made = made
    BY <1>5
  <2> HIDE DEF made
  <2>2. Cardinality(Alone(matching) \ made)
          = Cardinality(Alone(matching)) - Cardinality(Alone(matching) \cap made)
    BY AloneCounted, FS_Difference
  <2> QED BY <2>1, <2>2
<1>7. Cardinality(made) \in Nat /\ Cardinality(Alone(matching)) \in Nat
  <2>1. made \in SUBSET Alone(matching)
    OBVIOUS
  <2> HIDE DEF made
  <2> QED BY <2>1, AloneCounted, FS_Subset, FS_CardinalityType
<1>8. \A v \in made : Alike(v, matching'[v])
  BY <1>4 DEF Alone
<1> HIDE DEF made
<1>9. nunmatched' \in Int /\ Cardinality(Alone(matching')) <= nunmatched'
  BY <1>2, <1>3, <1>6, <1>7
<1>10. TwinsButZero'
  <2> SUFFICES ASSUME NEW p \in byHop', 0 \notin p, NEW u \in p, NEW v \in p PROVE Nb(u) = Nb(v)
    BY <1>2 DEF TwinsButZero, Nb
  <2>1. PICK w \in made : p = {w, matching'[w]}
    BY <1>2
  <2>2. Nb(w) = Nb(matching'[w])
    BY <1>8, <2>1 DEF Alike
  <2> QED BY <2>1, <2>2
<1> QED BY <1>2, <1>3, <1>4, <1>9, <1>10, GrowthKeeps

LEMMA NumberKeeps == ASSUME KWayInv, Number PROVE KWayInv'
<1>1. /\ UNCHANGED <<g, perm, pi, nunmatched, lastUnmatched, byHop>>
      /\ pc = "number" /\ pc' = "done"
      /\ mapping' = [v \in Id |-> Numbered(matching, v)]
      /\ matching' = [v \in Id |-> IF matching[v] = UNMATCHED THEN v ELSE matching[v]]
  BY DEF Number
<1>2. /\ pi = N /\ Mutual(matching) /\ Light(matching) /\ matching \in MayMatch
      /\ UNMATCHED \notin Id
  BY <1>1, KWayGraphFacts DEF KWayInv, Mutual
<1>3. \A v \in Id : /\ matching'[v] = IF matching[v] = UNMATCHED THEN v ELSE matching[v]
                    /\ matching'[v] \in Id
  BY <1>1, <1>2 DEF MayMatch
<1>4. matching' \in MayMatch
  BY <1>1, <1>2 DEF MayMatch
<1>5. \A v \in Id : matching'[matching'[v]] = v
  <2> SUFFICES ASSUME NEW v \in Id PROVE matching'[matching'[v]] = v
    OBVIOUS
  <2>1. CASE matching[v] = UNMATCHED
    BY <1>3, <2>1
  <2>2. CASE matching[v] # UNMATCHED
    <3>1. matching'[v] = matching[v] /\ matching[v] \in Id /\ matching[matching[v]] = v
      BY <1>2, <1>3, <2>2 DEF Mutual
    <3> QED BY <1>2, <1>3, <3>1
  <2> QED BY <2>1, <2>2
<1>6. Mutual(matching')
  BY <1>4, <1>5 DEF Mutual
<1>7. Light(matching)'
  BY <1>1, <1>2, <1>3 DEF Light, Nb
<1>8. AloneAgain' = {}
  BY <1>2, <1>3 DEF AloneAgain, Alone
<1>9. \A v \in Id : Numbered(matching', v) = Numbered(matching, v)
  <2>1. \A v \in Id : First(matching', v) = First(matching, v)
    <3>1. \A v \in Id : v \in Int /\ v <= v
      BY DEF Id
    <3> QED BY <1>2, <1>3, <3>1 DEF First
  <2>2. ASSUME NEW v \in Id
        PROVE  (IF First(matching', v) THEN v ELSE matching'[v])
               = IF First(matching, v) THEN v ELSE matching[v]
    BY <1>3, <2>1 DEF First
  <2>3. ASSUME NEW v \in Id
        PROVE  {x \in Id : First(matching', x)
                           /\ x < IF First(matching', v) THEN v ELSE matching'[v]}
               = {x \in Id : First(matching, x) /\ x < IF First(matching, v) THEN v ELSE matching[v]}
    BY <2>1, <2>2
  <2> QED BY <2>3 DEF Numbered, NumberOfSmallerOnes
<1>10. mapping' = [v \in Id |-> Numbered(matching', v)]
  BY <1>1, <1>9
<1>11. UnmatchedCounted' /\ TwinsButZero'
  BY <1>1 DEF KWayInv, UnmatchedCounted, TwinsButZero, Nb
<1>12. (mapping = [v \in Id |-> Numbered(matching, v)])'
  BY <1>10 DEF Numbered, NumberOfSmallerOnes, First
<1> QED BY <1>1, <1>2, <1>3, <1>6, <1>7, <1>8, <1>11, <1>12 DEF KWayInv

LEMMA KWayStep == KWayInv /\ [Next]_vars => KWayInv'
<1> SUFFICES ASSUME KWayInv, [Next]_vars PROVE KWayInv'
  OBVIOUS
<1>1. CASE Visit BY <1>1, VisitKeeps
<1>2. CASE EndVisits BY <1>2, EndVisitsKeeps
<1>3. CASE AnyTwo
  <2>1. pc = "any2" /\ HopAny(2) /\ pc' = "all"
    BY <1>3 DEF AnyTwo
  <2> QED BY <2>1, HopAnyKeeps
<1>4. CASE All BY <1>4, AllKeeps
<1>5. CASE AnyThree
  <2>1. pc = "any3" /\ HopAny(3) /\ pc' \in {"anyN", "number"}
    BY <1>5 DEF AnyThree
  <2> QED BY <2>1, HopAnyKeeps
<1>6. CASE AnyAll
  <2>1. pc = "anyN" /\ HopAny(N) /\ pc' = "number"
    BY <1>6 DEF AnyAll
  <2> QED BY <2>1, HopAnyKeeps
<1>7. CASE Number BY <1>7, NumberKeeps
<1>8. CASE UNCHANGED vars
  BY <1>8 DEF vars, KWayInv, UnmatchedCounted, TwinsButZero, Light, Nb, AloneAgain, Seen, Alone,
              Numbered, NumberOfSmallerOnes, First, Mutual
<1> QED BY <1>1, <1>2, <1>3, <1>4, <1>5, <1>6, <1>7, <1>8 DEF Next

(* Match_2HopAll matches vertices with the same neighbours, vertex 0 apart. *)
THEOREM TwinsAreAlike == Spec => []TwinsButZero
<1>1. KWayInv => TwinsButZero
  BY DEF KWayInv
<1> QED BY <1>1, KWayInit, KWayStep, PTL DEF Spec

(* When all are matched: the smaller vertex of a pair.                      *)
Rep(v) == IF v <= matching[v] THEN v ELSE matching[v]
RankOf(v) == Cardinality(Below(Leaders, v))

LEMMA CoarseNumbers ==
  ASSUME KWayInv, pc = "done"
  PROVE  LET coarse == 0 .. Cardinality(Leaders) - 1
         IN /\ IsFiniteSet(coarse) /\ IsFiniteSet(Leaders)
            /\ \A v \in Id : mapping[v] \in coarse
            /\ \A c \in coarse : PairOf(c) = {v \in Id : mapping[v] = c} /\ Leader(c) \in Id
<1> DEFINE coarse == 0 .. Cardinality(Leaders) - 1
           rank == [v \in Leaders |-> RankOf(v)]
<1>1. /\ \A v \in Id : matching[v] \in Id /\ matching[matching[v]] = v /\ v \in Int
      /\ \A v \in Id : mapping[v] = Numbered(matching, v)
      /\ UNMATCHED \notin Id
  <2>1. UNMATCHED \notin Id /\ Id \subseteq Int
    BY KWayGraphFacts DEF Id
  <2> QED BY <2>1 DEF KWayInv, Mutual
<1>2. Leaders \in SUBSET Id /\ Leaders \subseteq Int /\ IsFiniteSet(Leaders)
  <2>1. Leaders \in SUBSET Id
    BY DEF Leaders
  <2> QED BY <1>1, <2>1, KWayGraphFacts, FS_Subset
<1>3. \A v \in Id : /\ Rep(v) \in Leaders
                    /\ Rep(v) = v \/ Rep(v) = matching[v]
                    /\ Rep(matching[v]) = Rep(v)
                    /\ v \in Leaders => Rep(v) = v
  BY <1>1 DEF Rep, Leaders
<1>4. \A v \in Id : mapping[v] = RankOf(Rep(v))
  <2> SUFFICES ASSUME NEW v \in Id PROVE mapping[v] = RankOf(Rep(v))
    OBVIOUS
  <2>1. \A x \in Id : First(matching, x) <=> x \in Leaders
    BY <1>1 DEF First, Leaders
  <2>2. Rep(v) = IF First(matching, v) THEN v ELSE matching[v]
    BY <1>1, <2>1 DEF Rep, Leaders
  <2>3. {x \in Id : First(matching, x) /\ x < Rep(v)} = Below(Leaders, Rep(v))
    BY <1>2, <2>1 DEF Below
  <2>4. mapping[v] = Cardinality({x \in Id : First(matching, x) /\ x < Rep(v)})
    BY <1>1, <2>2 DEF Numbered, NumberOfSmallerOnes
  <2> QED BY <2>3, <2>4 DEF RankOf
<1>5. rank = [v \in Leaders |-> rank[v]] /\ \A v \in Leaders : rank[v] = RankOf(v)
  OBVIOUS
<1> HIDE DEF rank
<1>6. /\ \A a, b \in Leaders : rank[a] = rank[b] => a = b
      /\ \A v \in Leaders : rank[v] \in coarse
      /\ \A c \in coarse : \E v \in Leaders : rank[v] = c
  BY <1>2, <1>5, RanksAreDense DEF RankOf
<1> HIDE DEF coarse
<1>7. \A c \in coarse : Leader(c) \in Leaders /\ rank[Leader(c)] = c
  <2> SUFFICES ASSUME NEW c \in coarse PROVE Leader(c) \in Leaders /\ rank[Leader(c)] = c
    OBVIOUS
  <2>1. \A v \in Leaders : Cardinality({x \in Leaders : x < v}) = rank[v]
    BY <1>5 DEF RankOf, Below
  <2>2. \E v \in Leaders : Cardinality({x \in Leaders : x < v}) = c
    BY <1>6, <2>1
  <2>3. Leader(c) \in Leaders /\ Cardinality({x \in Leaders : x < Leader(c)}) = c
    BY <2>2 DEF Leader
  <2> QED BY <2>1, <2>3
<1>8. \A v \in Id : mapping[v] \in coarse
  BY <1>3, <1>4, <1>5, <1>6
<1>9. ASSUME NEW c \in coarse PROVE PairOf(c) = {v \in Id : mapping[v] = c} /\ Leader(c) \in Id
  <2> DEFINE r == Leader(c)
  <2>1. r \in Leaders /\ r \in Id /\ rank[r] = c
    BY <1>2, <1>7
  <2> HIDE DEF r
  <2>2. \A v \in Id : mapping[v] = c <=> Rep(v) = r
    BY <1>3, <1>4, <1>5, <1>6, <2>1
  <2>3. \A v \in Id : Rep(v) = r <=> v \in {r, matching[r]}
    BY <1>1, <1>3, <2>1
  <2>4. PairOf(c) = {r, matching[r]} /\ matching[r] \in Id
    BY <1>1, <2>1 DEF PairOf, r
  <2>5. PairOf(c) = {v \in Id : mapping[v] = c}
    BY <2>1, <2>2, <2>3, <2>4
  <2> QED BY <2>1, <2>5 DEF r
<1>10. IsFiniteSet(coarse)
  <2>1. Cardinality(Leaders) \in Nat
    BY <1>2, FS_CardinalityType
  <2> QED BY <2>1, FS_Interval DEF coarse
<1> QED BY <1>2, <1>8, <1>9, <1>10 DEF coarse

(* A sum over the vertices of a coarse vertex.                              *)
LEMMA SumOverPair ==
  ASSUME NEW P \in SUBSET Id, NEW f, \A v \in P : f[v] \in Int
  PROVE  Sum([v \in Id |-> IF v \in P THEN f[v] ELSE 0], Id) = Sum(f, P)
<1> DEFINE h == [v \in Id |-> IF v \in P THEN f[v] ELSE 0]
<1>1. \A v \in Id : h[v] \in Int /\ (v \in P => h[v] = f[v]) /\ (v \notin P => h[v] = 0)
  OBVIOUS
<1> HIDE DEF h
<1>2. SumFunctionOnSet(h, Id) = SumFunctionOnSet(h, P)
  <2>1. \A v \in Id \ P : h[v] = 0
    BY <1>1
  <2> QED BY <1>1, <2>1, KWayGraphFacts, SumRestrict
<1>3. SumFunctionOnSet(h, P) = SumFunctionOnSet(f, P)
  <2>1. IsFiniteSet(P) /\ \A v \in P : h[v] \in Int /\ h[v] = f[v]
    BY <1>1, KWayGraphFacts, FS_Subset
  <2> QED BY <2>1, SumAgree
<1> QED BY <1>2, <1>3 DEF Sum, h

LEMMA IntoIsInt ==
  ASSUME KWayInv, NEW v \in Id, NEW d
  PROVE  /\ WeightInto(v, d) \in Int
         /\ (\A x \in Nb(v) : mapping[x] # d) => WeightInto(v, d) = 0
<1> DEFINE f == [x \in Nb(v) |-> IF mapping[x] = d THEN g.ew[v][x] ELSE 0]
<1>1. IsFiniteSet(Nb(v)) /\ \A x \in Nb(v) : g.ew[v][x] \in Nat
  BY KWayGraphFacts DEF KWayInv
<1>2. \A x \in Nb(v) : f[x] \in Int
  BY <1>1
<1>3. (\A x \in Nb(v) : mapping[x] # d) => \A x \in Nb(v) : f[x] = 0
  OBVIOUS
<1>4. WeightInto(v, d) = SumFunctionOnSet(f, Nb(v))
  BY DEF WeightInto, Sum
<1> HIDE DEF f
<1> QED BY <1>1, <1>2, <1>3, <1>4, SumType, SumZero

LEMMA CoarseFits == KWayInv => CoarseGraphFits
<1> SUFFICES ASSUME KWayInv, pc = "done" PROVE CoarseGraphFits
  BY DEF CoarseGraphFits
<1> DEFINE C == CoarseGraph
           coarse == 0 .. C.n - 1
<1>0. C.n = Cardinality(Leaders)
  BY DEF CoarseGraph
<1> HIDE DEF C
<1>0a. coarse = 0 .. Cardinality(Leaders) - 1
  BY <1>0
<1>1. \A c \in coarse : /\ C.vw[c] = Sum(g.vw, PairOf(c))
                         /\ C.ew[c] = [d \in NearPairs(c) |-> CoarseWeight(c, d)]
  <2> HIDE DEF coarse
  <2> QED BY <1>0a DEF C, CoarseGraph
<1>2. /\ \A v \in Id : mapping[v] \in coarse
      /\ \A c \in coarse : PairOf(c) = {v \in Id : mapping[v] = c} /\ Leader(c) \in Id
  <2> HIDE DEF coarse
  <2> QED BY <1>0a, CoarseNumbers
<1> HIDE DEF coarse
<1>3. {mapping[v] : v \in Id} = coarse
  <2>1. ASSUME NEW c \in coarse PROVE \E v \in Id : mapping[v] = c
    <3>1. Leader(c) \in PairOf(c)
      BY DEF PairOf
    <3> QED BY <1>2, <2>1, <3>1
  <2> QED BY <1>2, <2>1
<1>4. ASSUME NEW c \in coarse
      PROVE  C.vw[c] = Sum([v \in Id |-> IF mapping[v] = c THEN g.vw[v] ELSE 0], Id)
  <2> DEFINE P == PairOf(c)
  <2>1. P \in SUBSET Id /\ \A v \in Id : v \in P <=> mapping[v] = c
    BY <1>2, <1>4
  <2>2. \A v \in P : g.vw[v] \in Int
    BY <2>1, KWayGraphFacts DEF KWayInv
  <2>3. C.vw[c] = Sum(g.vw, P)
    BY <1>1, <1>4
  <2> HIDE DEF P
  <2>4. Sum([v \in Id |-> IF v \in P THEN g.vw[v] ELSE 0], Id) = Sum(g.vw, P)
    BY <2>1, <2>2, SumOverPair
  <2>5. [v \in Id |-> IF v \in P THEN g.vw[v] ELSE 0]
          = [v \in Id |-> IF mapping[v] = c THEN g.vw[v] ELSE 0]
    BY <2>1
  <2> QED BY <2>3, <2>4, <2>5
<1>5. ASSUME NEW c \in coarse, NEW d \in coarse \ {c}
      PROVE  Sum([v \in Id |-> Sum([x \in Nb(v) |->
               IF mapping[v] = c /\ mapping[x] = d THEN g.ew[v][x] ELSE 0], Nb(v))], Id)
             = IF d \in DOMAIN C.ew[c] THEN C.ew[c][d] ELSE 0
  <2> DEFINE P == PairOf(c)
             f == [v \in P |-> WeightInto(v, d)]
             row(v) == Sum([x \in Nb(v) |->
                         IF mapping[v] = c /\ mapping[x] = d THEN g.ew[v][x] ELSE 0], Nb(v))
  <2>1. P \in SUBSET Id /\ \A v \in Id : v \in P <=> mapping[v] = c
    BY <1>2, <1>5
  <2>2. CoarseWeight(c, d) = Sum(f, P)
    BY DEF CoarseWeight
  <2>2a. \A v \in P : f[v] = WeightInto(v, d)
    OBVIOUS
  <2>3. C.ew[c] = [e \in NearPairs(c) |-> CoarseWeight(c, e)]
    BY <1>1, <1>5
  <2>4. d \in NearPairs(c) <=> \E v \in P : \E x \in Nb(v) : mapping[x] = d
    <3> DEFINE near == UNION {{mapping[x] : x \in Nb(v)} : v \in P}
    <3>0. NearPairs(c) = near \ {c}
      BY Zenon DEF NearPairs
    <3>1. NearPairs(c) = near \ {c} /\ d # c
      <4> HIDE DEF near
      <4> QED BY <3>0
    <3> HIDE DEF P
    <3>2. d \in near <=> \E v \in P : d \in {mapping[x] : x \in Nb(v)}
      BY Zenon
    <3>3. \A v : d \in {mapping[x] : x \in Nb(v)} <=> \E x \in Nb(v) : mapping[x] = d
      OBVIOUS
    <3> HIDE DEF near
    <3>4. d \in NearPairs(c) <=> d \in near
      BY <3>1
    <3> QED BY <3>2, <3>3, <3>4
  <2> HIDE DEF P, f
  <2>5. \A v \in P : f[v] \in Int
    BY <2>1, <2>2a, IntoIsInt
  <2>6. Sum([v \in Id |-> IF v \in P THEN f[v] ELSE 0], Id) = Sum(f, P)
    BY <2>1, <2>5, SumOverPair
  <2>7. ASSUME NEW v \in Id PROVE row(v) = IF v \in P THEN f[v] ELSE 0
    <3>1. CASE v \in P
      <4>1. mapping[v] = c
        BY <2>1, <3>1
      <4>2. row(v) = WeightInto(v, d)
        BY <4>1 DEF WeightInto
      <4> HIDE DEF row
      <4> QED BY <2>2a, <3>1, <4>2
    <3>2. CASE v \notin P
      <4> DEFINE h == [x \in Nb(v) |->
                         IF mapping[v] = c /\ mapping[x] = d THEN g.ew[v][x] ELSE 0]
      <4>1. IsFiniteSet(Nb(v))
        BY KWayGraphFacts DEF KWayInv
      <4>2. \A x \in Nb(v) : h[x] = 0
        BY <2>1, <3>2
      <4>3. row(v) = SumFunctionOnSet(h, Nb(v))
        BY DEF Sum
      <4> HIDE DEF h, row
      <4>4. row(v) = 0
        BY <4>1, <4>2, <4>3, SumZero
      <4> QED BY <3>2, <4>4
    <3> QED BY <3>1, <3>2
  <2>8. Sum([v \in Id |-> row(v)], Id) = Sum(f, P)
    <3> HIDE DEF row
    <3>1. [v \in Id |-> row(v)] = [v \in Id |-> IF v \in P THEN f[v] ELSE 0]
      BY <2>7
    <3> QED BY <2>6, <3>1
  <2>9. Sum(f, P) = IF d \in DOMAIN C.ew[c] THEN C.ew[c][d] ELSE 0
    <3>1. CASE d \in NearPairs(c)
      BY <2>2, <2>3, <3>1
    <3>2. CASE d \notin NearPairs(c)
      <4>1. \A v \in P : f[v] = 0
        BY <2>1, <2>2a, <2>4, <3>2, IntoIsInt
      <4>2. IsFiniteSet(P)
        BY <2>1, KWayGraphFacts, FS_Subset
      <4>3. Sum(f, P) = 0
        BY <4>1, <4>2, SumZero DEF Sum
      <4> QED BY <2>3, <3>2, <4>3
    <3> QED BY <3>1, <3>2
  <2> QED BY <2>8, <2>9
<1>6. ASSUME NEW v \in Id PROVE Cardinality({x \in Id : mapping[x] = mapping[v]}) <= 2
  <2> DEFINE c == mapping[v]
             a == Leader(c)
             b == matching[a]
  <2>1. {x \in Id : mapping[x] = c} = {a} \cup {b}
    <3>1. c \in coarse
      BY <1>2
    <3>2. PairOf(c) = {a} \cup {b}
      BY DEF PairOf
    <3> QED BY <1>2, <3>1, <3>2
  <2> HIDE DEF a, b, c
  <2>2. IsFiniteSet({a}) /\ Cardinality({a}) = 1
    BY FS_Singleton
  <2>3. Cardinality({a} \cup {b}) = IF b \in {a} THEN Cardinality({a}) ELSE Cardinality({a}) + 1
    BY <2>2, FS_AddElement
  <2>4. Cardinality({a} \cup {b}) <= 2
    BY <2>2, <2>3
  <2> QED BY <2>1, <2>4 DEF c
<1> QED BY <1>3, <1>4, <1>5, <1>6 DEF CoarseGraphFits, coarse, C

(* The two-hop passes stay in the array of keys, pairs are light and the    *)
(* coarse graph has the weights of what it stands for.                      *)
THEOREM PairsMakeCoarseGraph == Spec => []MatchingSound
<1>1. KWayInv => PairsAreLight
  <2> SUFFICES ASSUME KWayInv, pc = "done", NEW v \in Id,
                      matching[v] # v, Nb(v) # {}, Nb(matching[v]) # {}
               PROVE  g.vw[v] + g.vw[matching[v]] <= MaxWeight
    BY DEF PairsAreLight
  <2>1. matching[v] # UNMATCHED
    BY KWayGraphFacts DEF KWayInv
  <2> QED BY <2>1 DEF KWayInv, Light
<1>2. KWayInv => MatchingSound
  BY <1>1, CoarseFits DEF KWayInv, MatchingSound
<1> QED BY <1>2, KWayInit, KWayStep, PTL DEF Spec
=============================================================================
