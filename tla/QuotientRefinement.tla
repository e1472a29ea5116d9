------------------------- MODULE QuotientRefinement -------------------------
(***************************************************************************)
(* refinement/quotient_graph_refinement.h and refinement/                  *)
(* flow_based_refinement.h: the pairs of a matching of the quotient graph   *)
(* are refined by PairSearch or by minimum cuts.  Trial moves change p_manager  *)
(* only; the moves that are kept update all four structures.  Pairs of one  *)
(* matching are at distance 3 and are taken one after the other here (see   *)
(* PairwiseLabelPropagation for threads on such pairs).                     *)
(***************************************************************************)
EXTENDS BlockStructures, Distance3, PairSearch

CONSTANTS
  MaxIteration,   (* config.max_iteration.                                   *)
  MinSteps,       (* config.min_n_steps.                                     *)
  Growth          (* config.growth_strategy and always_include_boundary.     *)

VARIABLES
  stage,          (* "find", "pair", "trial", "revert", "cut", "apply" or    *)
                  (* "done".                                                 *)
  loop,           (* [iteration, cand, used]: the loop over find_matching.   *)
  active, nextActive,
  queue,          (* The pairs of the matching still to refine.              *)
  fm,             (* The local search in the pair at hand.                   *)
  entry           (* Ghost: the partition when it began.                     *)

qrVars == <<structVars, stage, loop, active, nextActive, queue, fm, entry>>

NoSearch == [kept |-> 0, moves |-> <<>>]
Lists == [x \in Block |-> QOrder(x)]
Near == [x \in Block |-> QNeighbours(x)]
Fresh(act) == Ascending(Candidates(Lists, act))

InitQR ==
  /\ stage = "find"
  /\ active = Block /\ nextActive = {}
  /\ loop = [iteration |-> 1, cand |-> Fresh(Block), used |-> {}]
  /\ queue = {} /\ fm = NoSearch /\ entry = partition

(* find_matching; when it finds nothing the iteration is over.              *)
FindPairsToRefine ==
  /\ stage = "find"
  /\ LET m == FindMatching(Near, Lists, active, loop.cand, loop.used)
     IN IF m.matching # {}
        THEN /\ queue' = m.matching /\ stage' = "pair"
             /\ loop' = [loop EXCEPT !.cand = m.next, !.used = m.used]
             /\ UNCHANGED <<active, nextActive>>
        ELSE /\ active' = nextActive /\ nextActive' = {}
             /\ UNCHANGED queue
             /\ IF loop.iteration < MaxIteration
                THEN /\ loop' = [iteration |-> loop.iteration + 1,
                                 cand |-> Fresh(nextActive), used |-> {}]
                     /\ UNCHANGED stage
                ELSE stage' = "done" /\ UNCHANGED loop
  /\ UNCHANGED <<structVars, fm, entry>>

(* The heaps are filled from the slots of block_conn.                       *)
SlotSeeds(pair) ==
  LET boundary == UNION {ToSet(bv.list[b]) : b \in ToSet(pair)}
      new(u) == Opposite(pair, partition[u])
      gain(u) == IF LastLevelPair(Hierarchy, pair[1], pair[2])
                 THEN CutDelta(u, partition[u], new(u)) ELSE QapDelta(u, partition[u], new(u))
  IN  [u \in {x \in boundary : \E i \in DOMAIN conn[x] : conn[x][i].id = new(x)} |-> gain(u)]

Seed ==
  /\ stage = "pair"
  /\ \E pair \in queue :
       /\ queue' = queue \ {pair}
       /\ entry' = partition
       /\ fm' = Start(pair, SlotSeeds(pair))
       /\ stage' = "trial"
  /\ UNCHANGED <<structVars, loop, active, nextActive>>

EndMatching ==
  /\ stage = "pair" /\ queue = {}
  /\ stage' = "find"
  /\ UNCHANGED <<structVars, loop, active, nextActive, queue, fm, entry>>

(* One move of the loop.  The preemptive exit asks for mean and variance of *)
(* the gains since the last improvement; here it may be taken whenever      *)
(* there were more than min_n_steps.                                        *)
TrialMove ==
  /\ stage = "trial" /\ MayMove(fm)
  /\ \E u \in Chosen(fm) :
       LET old == partition[u]
           new == Opposite(fm.pair, old)
       IN /\ PmMove(u, old, new)
          /\ LET s == Recorded(fm, u, bweights', new)
             IN \/ fm' = Updated(s, partition', u) /\ UNCHANGED stage
                \/ s.idle > MinSteps /\ fm' = s /\ stage' = "revert"
  /\ UNCHANGED <<bv, conn, q, halfEdges, loop, active, nextActive, queue, entry>>

EndTrial ==
  /\ stage = "trial" /\ ~ MayMove(fm)
  /\ stage' = "revert"
  /\ UNCHANGED <<structVars, loop, active, nextActive, queue, fm, entry>>

(* A slip of TakenBack below: the loop over the moves stops one too early.  *)
TakenBackButOne(p) ==
  [u \in Vertex |-> IF Contains(Tail(fm.moves), u) THEN Opposite(fm.pair, p[u]) ELSE p[u]]

(* All moves are taken back in p_manager, the last one first.               *)
TakenBack(p) == [u \in Vertex |-> IF Contains(fm.moves, u) THEN Opposite(fm.pair, p[u]) ELSE p[u]]
Revert ==
  /\ stage = "revert"
  /\ LET was == TakenBack(partition)
         back(b) == {u \in ToSet(fm.moves) : was[u] = b}
         away(b) == {u \in ToSet(fm.moves) : partition[u] = b}
         weight(S) == MapThenSumSet(LAMBDA u : VertexWeight[u], S)
     IN /\ partition' = was
        /\ bweights' = [b \in Block |-> bweights[b] + weight(back(b)) - weight(away(b))]
        /\ nVertices' = [b \in Block |-> nVertices[b] + Cardinality(back(b)) - Cardinality(away(b))]
  /\ fm' = [fm EXCEPT !.moves = SubSeq(@, 1, fm.kept)]
  /\ stage' = "apply"
  /\ UNCHANGED <<bv, conn, q, halfEdges, loop, active, nextActive, queue, entry>>

(* The moves that are kept, in all four structures.                         *)
ApplyKept ==
  /\ stage = "apply" /\ fm.moves # <<>>
  /\ LET u == Head(fm.moves)
     IN ApplyMove(u, partition[u], Opposite(fm.pair, partition[u]))
  /\ fm' = [fm EXCEPT !.moves = Tail(@)]
  /\ UNCHANGED <<stage, loop, active, nextActive, queue, entry>>

EndPair ==
  /\ stage = "apply" /\ fm.moves = <<>>
  /\ nextActive' = IF fm.best > 0 THEN nextActive \cup ToSet(fm.pair) ELSE nextActive
  /\ stage' = "pair" /\ fm' = NoSearch
  /\ UNCHANGED <<structVars, loop, active, queue, entry>>

NextQR ==
  \/ FindPairsToRefine \/ Seed \/ EndMatching
  \/ TrialMove \/ EndTrial \/ Revert \/ ApplyKept \/ EndPair

SpecQR == StructInit /\ InitQR /\ [][NextQR]_qrVars

-----------------------------------------------------------------------------
(* The flow based refinement of a pair.                                     *)
StartFlow ==
  /\ stage = "pair"
  /\ \E pair \in queue :
       /\ queue' = queue \ {pair}
       /\ fm' = [pair |-> pair, alpha |-> 2, round |-> 1, moves |-> <<>>]
  /\ stage' = "cut"
  /\ UNCHANGED <<structVars, loop, active, nextActive, entry>>

(* determine_boundary_vertices: by the slots of block_conn, and shuffled.   *)
Border(b, other) ==
  {u \in ToSet(bv.list[b]) : \E i \in DOMAIN conn[u] : conn[u][i].id = other}

EndFlow == stage' = "pair" /\ fm' = NoSearch /\ UNCHANGED <<nextActive, entry>>
TryAgain(alpha) ==
  fm' = [fm EXCEPT !.alpha = alpha, !.round = @ + 1] /\ UNCHANGED <<stage, nextActive, entry>>

CutWithin(L, R) ==
  \E A \in Cheapest([X \in SUBSET (ToSet(L) \cup ToSet(R)) |->
                       NetworkCut(partition, fm.pair, ToSet(L), ToSet(R), X)]) :
    \E c \in Acceptable(partition, fm.pair, L, R, A) :
      IF c.moved = <<>>
      THEN IF fm.alpha <= 1 THEN EndFlow ELSE TryAgain(Smaller(fm.alpha))
      ELSE /\ fm' = [fm EXCEPT !.alpha = Larger(@), !.round = @ + 1, !.moves = c.moved]
           /\ nextActive' = nextActive \cup ToSet(fm.pair)
           /\ entry' = partition /\ stage' = "apply"

(* One round of refine_blocks.                                              *)
FlowRound ==
  /\ stage = "cut" /\ fm.round <= MaxLocal
  /\ LET l == fm.pair[1]
         r == fm.pair[2]
         region(b, order, how) ==
           Region(partition, b, order, RegionLimit(fm.pair, b, fm.alpha), how[2], how[1])
     IN \E left \in SetToSeqs(Border(l, r)), right \in SetToSeqs(Border(r, l)), how \in Growth :
          LET L == region(l, left, how)
              R == region(r, right, how)
          IN IF L \o R # <<>> THEN CutWithin(L, R)
             ELSE IF fm.alpha >= AlphaBound THEN EndFlow ELSE TryAgain(Larger(fm.alpha))
  /\ UNCHANGED <<structVars, loop, active, queue>>

(* change_boundary is ApplyKept: for an inner vertex it calls add_new, which  *)
(* does what move does when all neighbours are in the old block.  Then      *)
(* comes the next round.                                                    *)
FlowApplied ==
  /\ stage = "apply" /\ fm.moves = <<>>
  /\ stage' = "cut"
  /\ UNCHANGED <<structVars, loop, active, nextActive, queue, fm, entry>>

FlowRoundsOver ==
  /\ stage = "cut" /\ fm.round > MaxLocal
  /\ EndFlow
  /\ UNCHANGED <<structVars, loop, active, queue>>

NextFlow ==
  \/ FindPairsToRefine \/ StartFlow \/ EndMatching
  \/ FlowRound \/ ApplyKept \/ FlowApplied \/ FlowRoundsOver

SpecFlow == StructInit /\ InitQR /\ [][NextFlow]_qrVars

-----------------------------------------------------------------------------
(* A gain is computed when a neighbour has moved and used any number of     *)
(* moves later: an entry of a vertex that touches the other block is always *)
(* the exact change that its move would make, also when the vertex had      *)
(* stopped touching it for a while and stayed in its heap.                  *)
GainsExact ==
  stage = "trial" =>
    \A u \in DOMAIN fm.queue :
      Touches(partition, u, Opposite(fm.pair, partition[u])) =>
        fm.queue[u] = MoveGain(partition, fm.pair, u)

(* Taking all moves back and making the first of them again ends where the  *)
(* best moment was: the cost has fallen by what the gains add up to.  Two   *)
(* blocks within their capacities stay there and the cost does not rise; it *)
(* may rise only to bring both blocks within their capacities.              *)
Scale(pair) == IF LastLevelPair(Hierarchy, pair[1], pair[2]) THEN D[pair[1]][pair[2]] ELSE 1
BySearch == "best" \in DOMAIN fm
PairKeepsBest ==
  stage = "apply" /\ BySearch /\ fm.moves = <<>> =>
    /\ Qap(entry) - Qap(partition) = 2 * Scale(fm.pair) * fm.best
    /\ Balanced(fm.initial, fm.pair) => fm.best >= 0 /\ Balanced(bweights, fm.pair)
    /\ fm.best < 0 => Balanced(bweights, fm.pair)

(* The local search acts on exact gains and keeps the best moment.          *)
SearchKeepsPromise == GainsExact /\ PairKeepsBest

(* Cuts are applied without a look at the cost: that the cheapest cut of    *)
(* the network never makes the mapping dearer rests on the network, whose   *)
(* penalties stand for all edges that leave the region.  Both blocks are    *)
(* within their capacities afterwards.                                      *)
CutsKeepPromise ==
  stage = "apply" /\ ~ BySearch /\ fm.moves = <<>> =>
    Qap(partition) <= Qap(entry) /\ Balanced(bweights, fm.pair)

(* While moves are tried the partition runs ahead of the other structures;  *)
(* between two pairs they agree again.                                      *)
StructuresCorrectBetweenPairs == stage \in {"find", "pair", "done"} => StructuresCorrect
=============================================================================
