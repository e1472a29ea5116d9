----------------------------- MODULE PairSearch -----------------------------
(***************************************************************************)
(* The local search between two blocks of refinement/                      *)
(* quotient_graph_refinement.h (refine_blocks, refine_blocks_edge_cut) and  *)
(* simple_quotient_graph_refinement.h (refine_pair): vertices with the      *)
(* highest gain move one after the other, also for a loss; then all moves   *)
(* are taken back, and those up to the best moment are made again.          *)
(*                                                                         *)
(* The two heaps are one function from vertices to gains: a vertex is in    *)
(* the heap of the block it is in.                                          *)
(***************************************************************************)
EXTENDS Objective, PartitionManager

Opposite(pair, b) == IF b = pair[1] THEN pair[2] ELSE pair[1]

Touches(p, u, b) == \E v \in Adj(u) : p[v] = b

(* The change of the cut.                                                   *)
CutGain(p, u, old, new) == ConnWeight(p, u, new) - ConnWeight(p, u, old)

(* Two blocks of one lowest group of the machine differ in the cut only.    *)
MoveGain(p, pair, u) ==
  LET new == Opposite(pair, p[u])
  IN  IF LastLevelPair(Hierarchy, pair[1], pair[2]) THEN CutGain(p, u, p[u], new)
      ELSE CostGain(p, u, p[u], new)

Balanced(w, pair) == w[pair[1]] <= Lmax[pair[1]] /\ w[pair[2]] <= Lmax[pair[2]]

(* The boundary vertices of the pair that touch the other block.            *)
Seeds(p, pair, boundary) ==
  [u \in {x \in boundary : Touches(p, x, Opposite(pair, p[x]))} |-> MoveGain(p, pair, u)]

Start(pair, seeds) ==
  [pair |-> pair, queue |-> seeds, moves |-> <<>>, limit |-> Cardinality(DOMAIN seeds),
   kept |-> 0, gain |-> 0, best |-> 0, initial |-> bweights,
   balanced |-> Balanced(bweights, pair), idle |-> 0]

In(s, b) == {u \in DOMAIN s.queue : partition[u] = b}
TopGain(s, b) == Max({s.queue[u] : u \in In(s, b)})

(* choose_u: the block with the higher gain, one that is overloaded and     *)
(* heavier than the other before that; a coin decides ties.                 *)
Sides(s) ==
  LET a == s.pair[1]
      b == s.pair[2]
  IN  CASE In(s, b) = {} -> {a}
        [] In(s, a) = {} -> {b}
        [] OTHER ->
             IF Overloaded(a) /\ bweights[a] > bweights[b] THEN {a}
             ELSE IF Overloaded(b) /\ bweights[b] > bweights[a] THEN {b}
             ELSE IF Overloaded(a) /\ Overloaded(b) THEN {a, b}
             ELSE {x \in {a, b} : TopGain(s, x) >= TopGain(s, Opposite(s.pair, x))}
Chosen(s) == UNION {{u \in In(s, b) : s.queue[u] = TopGain(s, b)} : b \in Sides(s)}

MayMove(s) == DOMAIN s.queue # {} /\ Len(s.moves) < s.limit

(* update_best: what a move leads to is the best so far.  w: the weights    *)
(* with the move, gain: the sum of the gains with it, new: where it went.   *)
BestSoFar(s, w, gain, new) ==
  IF Balanced(w, s.pair) THEN ~ s.balanced \/ gain >= s.best
  ELSE /\ ~ s.balanced /\ gain >= s.best
       /\ w[new] <= Max({s.initial[new], Lmax[new]})

Recorded(s, u, w, new) ==
  LET gain == s.gain + s.queue[u]
      popped == [s EXCEPT !.queue = [x \in DOMAIN @ \ {u} |-> @[x]],
                          !.moves = Append(@, u), !.gain = gain, !.idle = @ + 1]
  IN  IF BestSoFar(s, w, gain, new)
      THEN [popped EXCEPT !.kept = Len(s.moves) + 1, !.best = gain,
                          !.balanced = Balanced(w, s.pair), !.idle = 1]
      ELSE popped

(* push_update of the neighbours that were not moved and touch the other    *)
(* block; then vertices that do not touch it any more are popped while they *)
(* are on top of their heap.  p is the partition with u moved.              *)
OnlyAdded(s, p, u) ==
  {v \in Adj(u) \ (ToSet(s.moves) \cup DOMAIN s.queue) :
     p[v] \in ToSet(s.pair) /\ Touches(p, v, Opposite(s.pair, p[v]))}
Affected(s, p, u) ==
  {v \in Adj(u) \ ToSet(s.moves) :
     p[v] \in ToSet(s.pair) /\ Touches(p, v, Opposite(s.pair, p[v]))}

Updated(s, p, u) ==
  LET fresh == Affected(s, p, u)
      new == [v \in fresh \cup DOMAIN s.queue |->
                IF v \in fresh THEN MoveGain(p, s.pair, v) ELSE s.queue[v]]
      live == {v \in DOMAIN new : Touches(p, v, Opposite(s.pair, p[v]))}
      buried(v) == \E x \in live : p[x] = p[v] /\ new[x] > new[v]
  IN  [s EXCEPT !.queue = [v \in {x \in DOMAIN new : x \in live \/ buried(x)} |-> new[v]]]

-----------------------------------------------------------------------------
(* What one round of the flow based refinements looks at                    *)
(* (refinement/flow_based_refinement.h and, for many blocks,                *)
(* refinement/simple_flow_based_refinement.h): a region around the border   *)
(* of two blocks, the network over it, its minimum cuts, and what a cut     *)
(* would change.  A cut is the set of the vertices of the region that go to *)
(* pair[1], the left block.  Which minimum cut the labels show is left open *)
(* (see MaxFlow, which also has the search for a closure).                  *)
CONSTANTS
  UseEdgeCut,     (* config.use_edge_cut.                                    *)
  AlphaBound,     (* config.alpha_upper_bound; alpha begins with 2 and is    *)
                  (* doubled and halved.                                     *)
  MaxLocal        (* config.max_local_iteration.                             *)

(* The vertices of the boundary of one block that touch the other.          *)
Facing(p, boundary, other) == SelectSeq(boundary, LAMBDA u : Touches(p, u, other))

(* adapt_lmax - get_bweight: what the region of b may weigh.                *)
TotalWeight == MapThenSumSet(LAMBDA u : VertexWeight[u], Vertex)
RegionLimit(pair, b, alpha) ==
  LET k == Cardinality(Block)
      scaled == TotalWeight + alpha * (k * Lmax[b] - TotalWeight)
  IN  (- ((- scaled) \div k)) - bweights[Opposite(pair, b)]

(* determine_region with GrowthStrategy::BFS: vertices that do not fit are  *)
(* passed over; with always (always_include_boundary) those of the boundary *)
(* are taken all the same.                                                  *)
RegionBfs(p, b, boundary, limit, always) ==
  LET next(s) ==
        LET u == s.queue[s.i]
            new == SelectSeq(AdjOrder[u], LAMBDA v : p[v] = b /\ ~ Contains(s.queue, v))
            taken == \/ s.weight + VertexWeight[u] <= limit
                     \/ always /\ s.i <= Len(boundary)
        IN  IF taken THEN [queue |-> s.queue \o new, i |-> s.i + 1,
                           region |-> Append(s.region, u), weight |-> s.weight + VertexWeight[u]]
            ELSE [s EXCEPT !.i = @ + 1]
  IN  FoldLeft(LAMBDA s, x : IF s.i > Len(s.queue) THEN s ELSE next(s),
               [queue |-> boundary, i |-> 1, region |-> <<>>, weight |-> 0], AllVertices).region

(* HEAVY_FIRST and LIGHT_FIRST: the heaviest or lightest vertex found comes *)
(* next, until the limit is reached.                                        *)
RegionByWeight(p, b, boundary, limit, always, heavy) ==
  LET weight(s) == MapThenSumSet(LAMBDA u : VertexWeight[u], ToSet(s))
      around(S) == {v \in UNION {Adj(u) : u \in S} : p[v] = b}
      start == IF always THEN boundary ELSE <<>>
      found == ToSet(boundary) \cup around(ToSet(start))
      before(u, v) == IF heavy THEN VertexWeight[u] > VertexWeight[v]
                      ELSE VertexWeight[u] < VertexWeight[v]
      next(s) ==
        LET u == CHOOSE x \in s.heap : \A y \in s.heap : ~ before(y, x)
        IN  IF weight(s.region) + VertexWeight[u] > limit THEN [s EXCEPT !.heap = @ \ {u}]
            ELSE [heap |-> (s.heap \ {u}) \cup (around({u}) \ s.found),
                  found |-> s.found \cup around({u}), region |-> Append(s.region, u)]
  IN  FoldLeft(LAMBDA s, x : IF s.heap = {} \/ weight(s.region) >= limit THEN s ELSE next(s),
               [heap |-> found \ ToSet(start), found |-> found, region |-> start],
               AllVertices).region

Region(p, b, boundary, limit, always, strategy) ==
  IF strategy = "bfs" THEN RegionBfs(p, b, boundary, limit, always)
  ELSE RegionByWeight(p, b, boundary, limit, always, strategy = "heavy")

-----------------------------------------------------------------------------
(* The networks over the regions L and R; an edge is cut between A and the  *)
(* rest of them.                                                            *)
Outside(u, LR) == Adj(u) \ LR

(* build_flow_network_with_penalties: edges within the region cost the      *)
(* distance of the two blocks; edges that leave it cost what they would     *)
(* cost from the block the vertex is put in.                                *)
Penalty(p, u, b, LR) ==
  MapThenSumSet(LAMBDA v : EdgeWeight[u][v] * D[b][p[v]], Outside(u, LR))
Penalties(p, pair, LR, A) ==
  MapThenSumSet(LAMBDA u : Penalty(p, u, IF u \in A THEN pair[1] ELSE pair[2], LR), LR)
Capacity(X, Y) == MapThenSumSet(LAMBDA e : EdgeWeight[e[1]][e[2]], X \X Y)

(* A slip of CostCut below: edges to the two blocks cost nothing.           *)
CostCutBlind(p, pair, L, R, A) ==
  LET LR == L \cup R
      seen(u) == {v \in Outside(u, LR) : p[v] \notin ToSet(pair)}
      cost(u, b) == MapThenSumSet(LAMBDA v : EdgeWeight[u][v] * D[b][p[v]], seen(u))
  IN  D[pair[1]][pair[2]] * Capacity(A, LR \ A)
        + MapThenSumSet(LAMBDA u : cost(u, IF u \in A THEN pair[1] ELSE pair[2]), LR)
CostCut(p, pair, L, R, A) ==
  LET LR == L \cup R
  IN  D[pair[1]][pair[2]] * Capacity(A, LR \ A) + Penalties(p, pair, LR, A)

(* In simple_flow_based_refinement.h the right region adds its edges to the *)
(* left one a second time.                                                  *)
SimpleCostCut(p, pair, L, R, A) ==
  CostCut(p, pair, L, R, A)
    + D[pair[1]][pair[2]] * (Capacity(A \cap L, R \ A) + Capacity(A \cap R, L \ A))

(* build_flow_network_no_penalties: only the edges between the two blocks.  *)
EdgeCut(p, pair, L, R, A) ==
  LET LR == L \cup R
      lost(u, b) == MapThenSumSet(LAMBDA v : EdgeWeight[u][v], {v \in Outside(u, LR) : p[v] = b})
  IN  Capacity(A, LR \ A)
        + MapThenSumSet(LAMBDA u : lost(u, IF u \in A THEN pair[2] ELSE pair[1]), LR)

OnEdges(pair) == UseEdgeCut /\ LastLevelPair(Hierarchy, pair[1], pair[2])
NetworkCut(p, pair, L, R, A) ==
  IF OnEdges(pair) THEN EdgeCut(p, pair, L, R, A) ELSE CostCut(p, pair, L, R, A)
SimpleNetworkCut(p, pair, L, R, A) ==
  IF OnEdges(pair) THEN EdgeCut(p, pair, L, R, A) ELSE SimpleCostCut(p, pair, L, R, A)

(* maxflow and what_label.  cut: the value of every cut of the region.      *)
Cheapest(cut) == {A \in DOMAIN cut : \A B \in DOMAIN cut : cut[A] <= cut[B]}

-----------------------------------------------------------------------------
(* What a cut changes, in the order in which it is applied.                 *)
Changes(L, R, A) ==
  SelectSeq(L, LAMBDA u : u \notin A) \o SelectSeq(R, LAMBDA u : u \in A)

(* cut_is_valid                                                             *)
CutFits(p, pair, moved) ==
  LET from(b) == MapThenSumSet(LAMBDA u : VertexWeight[u], {u \in ToSet(moved) : p[u] = b})
  IN  /\ bweights[pair[1]] - from(pair[1]) + from(pair[2]) <= Lmax[pair[1]]
      /\ bweights[pair[2]] - from(pair[2]) + from(pair[1]) <= Lmax[pair[2]]

(* calculate_gain: an edge between two vertices that move counts once.      *)
CutsGain(p, pair, moved) ==
  LET after(v) == IF v \in ToSet(moved) THEN Opposite(pair, p[v]) ELSE p[v]
      counted(u) == {v \in Adj(u) : v \in ToSet(moved) => u <= v}
  IN  MapThenSumSet(LAMBDA u : MapThenSumSet(
          LAMBDA v : EdgeWeight[u][v] * (D[p[u]][p[v]] - D[after(u)][after(v)]), counted(u)),
        ToSet(moved))

(* The cut to apply when the labels show A: A itself when it keeps the      *)
(* capacities, otherwise a closure that does and gains as much, if there is *)
(* one and config.use_closed_vertex_set asks for it.                        *)
NoCut == [moved |-> <<>>]
Acceptable(p, pair, L, R, A) ==
  IF CutFits(p, pair, Changes(L, R, A)) THEN {[moved |-> Changes(L, R, A)]}
  ELSE {NoCut} \cup
       {[moved |-> Changes(L, R, B)] :
          B \in {X \in SUBSET (ToSet(L) \cup ToSet(R)) :
                   /\ CutFits(p, pair, Changes(L, R, X))
                   /\ CutsGain(p, pair, Changes(L, R, X)) >= CutsGain(p, pair, Changes(L, R, A))}}

Larger(alpha) == IF 2 * alpha > AlphaBound THEN AlphaBound ELSE 2 * alpha
Smaller(alpha) == alpha \div 2
=============================================================================
