----------------------------- MODULE DynMapping -----------------------------
(***************************************************************************)
(* datastructures/dyn_graph.h: a graph that commands change one vertex or  *)
(* edge at a time.  Every edge is stored with both of its ends, weights    *)
(* add up, and what was touched is collected for the next refinement.      *)
(* Edges join different vertices.  The order within a neighbour list is    *)
(* left out: no operation reads it.                                        *)
(*                                                                         *)
(* solver/DynHeiProMap_solver.h: the mapping of such a graph.  A           *)
(* partition command computes a new mapping and renames its blocks, level  *)
(* by level of the machine, so that little has to migrate; refine-fast     *)
(* keeps the mapping and places what is new.                               *)
(*                                                                         *)
(* What heipromap_partition returns is a choice.  refine-fast ends with a  *)
(* label propagation whose capacities, those of p_manager, are all 0: no   *)
(* move fits and it is left out.                                           *)
(***************************************************************************)
EXTENDS DistanceOracles, TLC

CONSTANTS
  MaxN,         (* Vertices are 0 .. MaxN - 1.                              *)
  Weights,      (* The weights that commands name.                          *)
  ByWeight      (* The vertices that commands remove by weight.             *)

ASSUME DynGraphAssumption ==
  /\ MaxN \in Nat /\ Weights \subseteq Nat \ {0}
  /\ ByWeight \subseteq 0 .. MaxN - 1

VARIABLES
  graph,        (* n, m, g_weight, v_weights, neighbors, the two dirty      *)
                (* lists and new_vertices.                                  *)
  torn          (* Ghost: vertices that were removed by weight.             *)

Id == 0 .. MaxN - 1

(* A neighbour list, and what becomes of it.                                *)
NoEdges == [x \in {} |-> 0]
With(list, v, w) == [x \in DOMAIN list \cup {v} |-> IF x = v THEN w ELSE list[x]]
Without(list, v) == [x \in DOMAIN list \ {v} |-> list[x]]

EmptyGraph ==
  [n |-> 0, m |-> 0, gw |-> 0, vw |-> [v \in Id |-> 0],
   nb |-> [v \in Id |-> NoEdges], dirty |-> {}, dirtyP |-> {}, new |-> <<>>]

Exists(G, v) == v < G.n /\ G.vw[v] # 0
EdgeExists(G, u, v) == v \in DOMAIN G.nb[u]

MarkDirty(G, S) == [G EXCEPT !.dirty = @ \cup S, !.dirtyP = @ \cup S]

AddVertex(G, v, w) ==
  LET grown == IF v < G.n THEN G
               ELSE [G EXCEPT !.n = v + 1, !.new = Append(@, v)]
  IN MarkDirty([grown EXCEPT !.gw = @ + w, !.vw[v] = @ + w], {v})

(* One end of add_edge.                                                     *)
SetList(G, u, list, added) == [G EXCEPT !.nb[u] = list, !.m = @ + added]

AddArc(G, u, v, w) ==
  IF EdgeExists(G, u, v) THEN SetList(G, u, With(G.nb[u], v, G.nb[u][v] + w), 0)
  ELSE SetList(G, u, With(G.nb[u], v, w), 1)

Ensure(G, v) == IF Exists(G, v) THEN G ELSE AddVertex(G, v, 1)

AddEdge(G, u, v, w) ==
  LET both == Ensure(Ensure(G, u), v)
  IN MarkDirty(AddArc(AddArc(both, u, v, w), v, u, w), {u, v})

(* One end of the removals: the whole entry, or w of its weight.            *)
DropArc(G, u, v) ==
  IF EdgeExists(G, u, v) THEN SetList(G, u, Without(G.nb[u], v), -1) ELSE G

LowerArc(G, u, v, w) ==
  IF ~ EdgeExists(G, u, v) THEN G
  ELSE IF G.nb[u][v] = w THEN DropArc(G, u, v)
  ELSE SetList(G, u, With(G.nb[u], v, G.nb[u][v] - w), 0)

(* Both remove_vertex: lists are what the neighbours of v have afterwards;  *)
(* those that lose their entry of v are popped.                             *)
RemoveVertexBy(G, v, lists) ==
  IF v >= G.n THEN G
  ELSE LET near == DOMAIN G.nb[v]
           popped == {x \in near : DOMAIN lists[x] # DOMAIN G.nb[x]}
       IN MarkDirty([G EXCEPT !.gw = @ - G.vw[v], !.vw[v] = 0,
                              !.m = @ - Cardinality(popped) - Cardinality(near),
                              !.nb = [x \in Id |-> IF x = v THEN NoEdges
                                                  ELSE IF x \in near THEN lists[x]
                                                  ELSE @[x]]], near)
RemoveVertexOneSided(G, v) == RemoveVertexBy(G, v, G.nb)
RemoveVertex(G, v) == RemoveVertexBy(G, v, [x \in Id |-> DropArc(G, x, v).nb[x]])
RemoveVertexWeight(G, v, w) ==
  RemoveVertexBy(G, v, [x \in Id |-> LowerArc(G, x, v, w).nb[x]])

RemoveEdge(G, u, v) ==
  IF u >= G.n \/ v >= G.n THEN G
  ELSE MarkDirty(DropArc(DropArc(G, u, v), v, u), {u, v})
RemoveEdgeWeight(G, u, v, w) ==
  IF u >= G.n \/ v >= G.n THEN G
  ELSE MarkDirty(LowerArc(LowerArc(G, u, v, w), v, u, w), {u, v})

SetVertexWeight(G, v, w) ==
  IF ~ Exists(G, v) THEN AddVertex(G, v, w)
  ELSE MarkDirty([G EXCEPT !.gw = @ - G.vw[v] + w, !.vw[v] = w], {v})

SetArc(G, u, v, w) == IF EdgeExists(G, u, v) THEN SetList(G, u, With(G.nb[u], v, w), 0) ELSE G
SetEdgeWeightUnmarked(G, u, v, w) ==
  IF ~ EdgeExists(G, u, v) THEN AddEdge(G, u, v, w)
  ELSE SetArc(SetArc(G, u, v, w), v, u, w)
SetEdgeWeight(G, u, v, w) ==
  IF ~ EdgeExists(G, u, v) THEN AddEdge(G, u, v, w)
  ELSE MarkDirty(SetArc(SetArc(G, u, v, w), v, u, w), {u, v})

ClearDirty(G) == [G EXCEPT !.dirty = {}]
ClearDirtyPartition(G) == [G EXCEPT !.dirtyP = {}]
ClearNew(G) == [G EXCEPT !.new = <<>>]

-----------------------------------------------------------------------------
(* Bounds: the weights of a vertex and of an edge stay within the largest   *)
(* weight of a command.                                                     *)
Small(G) ==
  /\ \A v \in Id : G.vw[v] <= Max(Weights)
  /\ \A u \in Id : \A v \in DOMAIN G.nb[u] : G.nb[u][v] \in 0 .. Max(Weights)

Init == graph = EmptyGraph /\ torn = {}

Becomes(G) == graph' = G /\ Small(G)

VertexCommand(v) ==
  /\ UNCHANGED torn
  /\ \/ \E w \in Weights : Becomes(AddVertex(graph, v, w))
     \/ \E w \in Weights : Becomes(SetVertexWeight(graph, v, w))
     \/ Becomes(RemoveVertex(graph, v))

RemoveByWeight(v) ==
  /\ v \in ByWeight
  /\ \E w \in Weights : Becomes(RemoveVertexWeight(graph, v, w))
  /\ torn' = IF v < graph.n THEN torn \cup {v} ELSE torn

EdgeCommand(u, v) ==
  /\ UNCHANGED torn
  /\ \/ \E w \in Weights : Becomes(AddEdge(graph, u, v, w))
     \/ \E w \in Weights : Becomes(RemoveEdgeWeight(graph, u, v, w))
     \/ \E w \in Weights : u < graph.n /\ Becomes(SetEdgeWeight(graph, u, v, w))
     \/ Becomes(RemoveEdge(graph, u, v))

Refined ==
  /\ graph' = ClearNew(ClearDirty(graph))
  /\ UNCHANGED torn

Repartitioned ==
  /\ graph' = ClearNew(ClearDirtyPartition(ClearDirty(graph)))
  /\ UNCHANGED torn

Next ==
  \/ \E v \in Id : VertexCommand(v) \/ RemoveByWeight(v)
  \/ \E u \in Id : \E v \in Id \ {u} : EdgeCommand(u, v)
  \/ Refined \/ Repartitioned

Spec == Init /\ [][Next]_<<graph, torn>>

-----------------------------------------------------------------------------
(* The arrays of the CSR graph that heipromap_partition and run_refine_fast *)
(* make have m entries and are filled with all neighbour lists: m is the    *)
(* number of their entries after any commands (assert_csr_structure), and   *)
(* g_weight is the sum of the vertex weights.                               *)
CountsMatchLists ==
  /\ graph.m = SumFunctionOnSet([v \in Id |-> Cardinality(DOMAIN graph.nb[v])], Id)
  /\ graph.gw = SumFunctionOnSet(graph.vw, Id)

(* Every edge is known to both of its ends with the same weight.  The one   *)
(* operation that breaks this is remove_vertex with a weight, and only for  *)
(* the edges of the vertex it was called for.                               *)
SymmetricButTorn ==
  \A u, v \in Id \ torn :
    /\ EdgeExists(graph, u, v) <=> EdgeExists(graph, v, u)
    /\ EdgeExists(graph, u, v) => graph.nb[u][v] = graph.nb[v][u]

(* The graph that commands leave behind can be written as a CSR graph.      *)
GraphConsistent == CountsMatchLists /\ SymmetricButTorn

(* mark_dirty: a vertex whose weight or edges a command changes is dirty    *)
(* afterwards, unless the command removed it; autorefine decides by their   *)
(* number.                                                                  *)
ChangesMarked(G, H) ==
  \A v \in Id :
    (H.vw[v] # G.vw[v] \/ H.nb[v] # G.nb[v]) /\ Exists(H, v) => v \in H.dirty /\ v \in H.dirtyP

ChangesAreDirty == [][ChangesMarked(graph, graph')]_<<graph, torn>>

-----------------------------------------------------------------------------
(* The mapping.                                                             *)
CONSTANTS
  Hierarchy, Distances,
  Results,      (* The mappings heipromap_partition may return.             *)
  Imbalance,    (* In percent.                                              *)
  MaxCommands   (* Bound: the commands that follow the first partition.     *)

Block == 0 .. K(Hierarchy) - 1

ASSUME DynMappingAssumption ==
  /\ Len(Distances) = Len(Hierarchy) /\ Imbalance \in Nat
  /\ Results \subseteq [Id -> Block]

VARIABLES
  p,            (* p_manager: n, partition and bweights.                    *)
  previous,     (* previous_partition: its size and entries.                *)
  last,         (* The last command, the mapping it found and the result of *)
                (* heipromap_partition.                                     *)
  commands      (* The number of commands after the first partition.        *)

dynVars == <<graph, torn, p, previous, last, commands>>

D == [a \in Block |-> [b \in Block |-> MatrixDistance(Hierarchy, Distances, a, b)]]

(* PartitionManager::initialize                                             *)
Initialized ==
  [n |-> graph.n, part |-> [v \in Id |-> 0],
   bw |-> [b \in Block |-> IF b = 0 THEN graph.gw ELSE 0]]

(* PartitionManager::set for every vertex, on top of initialize.            *)
AllSet(q, f) ==
  [q EXCEPT !.part = [v \in Id |-> IF v < graph.n THEN f[v] ELSE 0],
            !.bw = [b \in Block |-> @[b] +
              MapThenSumSet(LAMBDA v : IF v < graph.n /\ f[v] = b THEN graph.vw[v] ELSE 0, Id)]]

DynInit ==
  /\ Init
  /\ p = [n |-> 0, part |-> [v \in Id |-> 0], bw |-> [b \in Block |-> 0]]
  /\ previous = [n |-> 0, part |-> [v \in Id |-> 0]]
  /\ last = [cmd |-> "none", zero |-> TRUE, before |-> previous, raw |-> [v \in Id |-> 0]]
  /\ commands = 0

Count ==
  /\ commands < MaxCommands
  /\ commands' = IF previous.n = 0 THEN 0 ELSE commands + 1

Grow ==
  /\ Count
  /\ \/ \E w \in Weights : graph.n < MaxN /\ Becomes(AddVertex(graph, graph.n, w))
     \/ \E u, v \in Id : /\ u < v /\ v < graph.n /\ ~ EdgeExists(graph, u, v)
                       /\ Becomes(AddEdge(graph, u, v, 1))
  /\ UNCHANGED <<torn, p, previous>>
  /\ last' = [last EXCEPT !.cmd = "grow"]

-----------------------------------------------------------------------------
(* align_partitions_hierarchically.  Levels count from 1, the lowest.       *)

Levels == 1 .. Len(Hierarchy)
GroupOf(l, b) == b \div Product(SubSeq(Hierarchy, 1, l - 1))
Component(l, b) == GroupOf(l, b) % Hierarchy[l]

AnyAssignment(l) == [0 .. Hierarchy[l] - 1 -> 0 .. Hierarchy[l] - 1]
Assignments(l) == {f \in AnyAssignment(l) : IsInjective(f)}

(* The old group that a renaming puts in the place of a group of level l;   *)
(* inv[l][g] renames the components within group g of level l + 1.          *)
OldGroup(inv, level, group) ==
  LET old[l \in 1 .. Len(Hierarchy) + 1, g \in 0 .. K(Hierarchy)] ==
        IF l > Len(Hierarchy) THEN 0
        ELSE LET parent == g \div Hierarchy[l]
             IN old[l + 1, parent] * Hierarchy[l] + inv[l][parent][g % Hierarchy[l]]
  IN old[level, group]

(* match_blocks_general: the vertex weight on components that one old and   *)
(* one new group have in common under an assignment of the components.      *)
Common(l, pOld, pNew, f, old, new) ==
  MapThenSumSet(LAMBDA v :
      IF /\ v < graph.n
         /\ GroupOf(l + 1, old[v]) = pOld /\ GroupOf(l + 1, new[v]) = pNew
         /\ Component(l, old[v]) = f[Component(l, new[v])]
      THEN graph.vw[v] ELSE 0, Id)

LeastInCommon(l, pOld, pNew, f, old, new) ==
  \A h \in Assignments(l) :
    Common(l, pOld, pNew, h, old, new) >= Common(l, pOld, pNew, f, old, new)

MostInCommon(l, pOld, pNew, f, old, new) ==
  \A h \in Assignments(l) :
    Common(l, pOld, pNew, h, old, new) <= Common(l, pOld, pNew, f, old, new)

(* The renamings that run_alignment_recursive may find: on every level, for *)
(* every group, an assignment of its components with the most in common.    *)
Renamings(old, new) ==
  LET tops == {f \in Assignments(2) : MostInCommon(2, 0, 0, f, old, new)}
      below(f, g) == {h \in Assignments(1) : MostInCommon(1, f[g], g, h, old, new)}
      lower(f) == {hs \in [0 .. Hierarchy[2] - 1 -> Assignments(1)] :
                     \A g \in DOMAIN hs : hs[g] \in below(f, g)}
  IN UNION {{<<hs, 0 :> f>> : hs \in lower(f)} : f \in tops}

(* run_partition.  The entries of previous_partition are read for all g.n   *)
(* vertices; beyond its size they are whatever memory holds (oob).          *)
Align(raw, inv) ==
  [v \in Id |-> IF v < graph.n THEN OldGroup(inv, 1, raw[v]) ELSE 0]

AllZero == \A v \in Id : v < previous.n => previous.part[v] = 0

FirstPartition ==
  /\ previous.n = 0 /\ graph.n > 0
  /\ \E raw \in Results :
       /\ p' = AllSet(Initialized, raw)
       /\ previous' = [n |-> graph.n, part |-> p'.part]
       /\ last' = [cmd |-> "partition", zero |-> TRUE, before |-> previous', raw |-> p'.part]
  /\ Repartitioned
  /\ UNCHANGED commands

Repartition ==
  /\ Count
  /\ previous.n > 0
  /\ \E raw \in Results, oob \in Block :
       LET old == [v \in Id |-> IF v < previous.n THEN previous.part[v] ELSE oob]
       IN \E aligned \in IF AllZero THEN {raw}
                         ELSE {Align(raw, inv) : inv \in Renamings(old, raw)} :
            /\ p' = AllSet(Initialized, aligned)
            /\ last' = [cmd |-> "partition", zero |-> AllZero,
                        before |-> [n |-> previous.n, part |-> old],
                        raw |-> [v \in Id |-> IF v < graph.n THEN raw[v] ELSE 0]]
  /\ previous' = [n |-> graph.n, part |-> p.part]
  /\ Repartitioned

-----------------------------------------------------------------------------
(* run_refine_fast and greedy_assign.                                       *)

Allowed == ((100 + Imbalance) * graph.gw) \div (100 * K(Hierarchy))

CommCost(q, v, b) ==
  MapThenSumSet(LAMBDA x : graph.nb[v][x] * D[q.part[x]][b], DOMAIN graph.nb[v])

(* The first of the cheapest candidate blocks with room, or block 0.        *)
BestBlock(q, v) ==
  LET candidates == {0} \cup {q.part[x] : x \in DOMAIN graph.nb[v]}
      open == {b \in candidates : b = q.part[v] \/ q.bw[b] + graph.vw[v] <= Allowed}
      best == {b \in open : \A c \in open : CommCost(q, v, b) <= CommCost(q, v, c)}
  IN IF open = {} THEN 0 ELSE Min(best)

GreedyAssign(q) ==
  LET step(r, v) ==
        LET b == BestBlock(r, v)
        IN IF ~ Exists(graph, v) \/ b = r.part[v] THEN r
           ELSE [r EXCEPT !.part[v] = b,
                          !.bw = [@ EXCEPT ![r.part[v]] = @ - graph.vw[v], ![b] = @ + graph.vw[v]]]
  IN FoldLeft(step, q, graph.new)

RefineFast ==
  /\ Count
  /\ graph.n > 0
  /\ p' = GreedyAssign(IF p.n < graph.n THEN Initialized ELSE p)
  /\ last' = [cmd |-> "refine", zero |-> AllZero,
              before |-> [n |-> p.n, part |-> p.part], raw |-> p.part]
  /\ UNCHANGED previous
  /\ Refined

DynNext == Grow \/ FirstPartition \/ Repartition \/ RefineFast

DynSpec == DynInit /\ [][DynNext]_dynVars

-----------------------------------------------------------------------------
(* The renaming maps the machine onto itself: after it, any two vertices    *)
(* are as far apart as heipromap_partition has put them, so the cost of the *)
(* mapping is the one that was computed.                                    *)
AlignmentKeepsDistances ==
  last.cmd = "partition" =>
    \A u, v \in 0 .. graph.n - 1 :
      D[p.part[u]][p.part[v]] = D[last.raw[u]][last.raw[v]]

(* The weight of the vertices that a mapping has in the same group of the   *)
(* highest level as the previous one, after a renaming of those groups.     *)
Top == Len(Hierarchy)
Identity == [c \in 0 .. Hierarchy[Top] - 1 |-> c]
Staying(before, f, now) ==
  MapThenSumSet(LAMBDA v :
      IF v < graph.n /\ Component(Top, before[v]) = f[Component(Top, now[v])]
      THEN graph.vw[v] ELSE 0, Id)

(* No other renaming of the highest level leaves more weight in the group   *)
(* that previous_partition has it in.                                       *)
TopLevelStays ==
  last.cmd = "partition" /\ ~ last.zero =>
    \A f \in Assignments(Top) :
      Staying(last.before.part, f, last.raw) <= Staying(last.before.part, Identity, p.part)

(* As assert_bweights demands of a partition manager: the weight of a block *)
(* is that of its vertices.                                                 *)
PartitionWeighsBlocks ==
  last.cmd = "partition" =>
    \A b \in Block : p.bw[b] =
      MapThenSumSet(LAMBDA v : IF v < graph.n /\ p.part[v] = b THEN graph.vw[v] ELSE 0, Id)

(* Updating the mapping after the graph has changed does not recompute it:  *)
(* refine-fast leaves what was mapped where it was unless a vertex is new.  *)
RefinementKeepsMapping ==
  last.cmd = "refine" => \A v \in Id : v < last.before.n => p.part[v] = last.before.part[v]
=============================================================================
