-------------------------- MODULE SimpleRefinement --------------------------
(***************************************************************************)
(* refinement/simple_label_propagation_refinement.h,                        *)
(* simple_quotient_graph_refinement.h and simple_flow_based_refinement.h,   *)
(* the refinements for many blocks:                                         *)
(* they keep only p_manager and the boundary vertices up to date, and their *)
(* threads work on pairs that merely have no block in common.  Neighbours   *)
(* of a vertex may therefore move while it is looked at.                    *)
(***************************************************************************)
EXTENDS PairSearch

CONSTANTS
  Thread,
  Kinds,          (* What is run: "labels" (refine_impl_parallel), "fm" or   *)
                  (* "flow".                                                 *)
  UseStatic,      (* The settings of config.use_static_matchings ("labels"). *)
  MaxIteration,   (* config.max_iteration.                                   *)
  MaxRounds,      (* config.max_matching_rounds.                             *)
  MinThreshold,   (* config.min_matching_threshold.                          *)
  LargeK,         (* The template parameter of the same name.                *)
  MinSteps        (* config.min_n_steps.                                     *)

VARIABLES
  run,            (* [kind, static, phase, iteration, positive, few]: few is *)
                  (* set when the pairs at hand are the last to be looked    *)
                  (* for.                                                    *)
  quotient,       (* q_graph, computed before and not maintained.            *)
  adjacency,      (* block_adjacency: per block the blocks next to it.       *)
  active, nextActive,
  batches,        (* The static matchings still to come.                     *)
  dynamic,        (* [cand, used]: as in PairwiseLabelPropagation.           *)
  light,          (* Ghost: the pairs of the loop that were within their     *)
                  (* capacities when it began.                               *)
  queue,          (* Those that no thread has taken yet.                     *)
  th              (* The local state of each thread.                         *)

ctl == <<run, quotient, adjacency, active, nextActive, batches, dynamic, light, queue>>
srVars == <<pmVars, bv, ctl, th>>

-----------------------------------------------------------------------------
(* datastructures/distance_1_matching.h over datastructures/               *)
(* block_adjacency.h: pairs of adjacent blocks that have no block in        *)
(* common.  nbr[x] is the sequence of the blocks next to x; pairs are       *)
(* tuples <<u, v>> with u < v.                                              *)

(* One of the two blocks was changed in the last round.                     *)
Worthwhile(act, u, v) == u < v /\ {u, v} \cap act # {}

(* init_candidates                                                          *)
WorthwhileBlocks(nbr, ids, act) ==
  SelectSeq(ids, LAMBDA u : \E v \in ToSet(nbr[u]) : Worthwhile(act, u, v))

NextOnce(m, x) == IF Contains(m.next, x) THEN m ELSE [m EXCEPT !.next = Append(@, x)]

(* One candidate of find_matching: u goes with its first neighbour whose    *)
(* edge is unused and that is not matched, and is asked again while it has  *)
(* unused edges.  m = [matching, matched, used, next].                      *)
PairUp(nbr, act, m, u) ==
  LET unused == SelectSeq(nbr[u], LAMBDA v : Worthwhile(act, u, v) /\ {u, v} \notin m.used)
      open   == SelectSeq(unused, LAMBDA v : v \notin m.matched)
      v      == Head(open)
  IN  CASE u \in m.matched -> NextOnce(m, u)
        [] u \notin m.matched /\ open # <<>> ->
             [NextOnce(NextOnce(m, u), v) EXCEPT !.matching = @ \cup {<<u, v>>},
                                                 !.matched = @ \cup {u, v},
                                                 !.used = @ \cup {{u, v}}]
        [] u \notin m.matched /\ open = <<>> /\ unused # <<>> -> NextOnce(m, u)
        [] OTHER -> m

FindPairs(nbr, act, cand, used) ==
  FoldLeft(LAMBDA m, u : PairUp(nbr, act, m, u),
           [matching |-> {}, matched |-> {}, used |-> used, next |-> <<>>], cand)

-----------------------------------------------------------------------------
(* compute_static_matchings: the bits of m_matched_batches are the blocks   *)
(* of the pairs in a batch.                                                 *)
Covered(batch) == UNION {{p[1], p[2]} : p \in batch}

(* A slip of OpenBatches below: only the smaller block is asked for.        *)
OpenForSmaller(s, u, v) == {b \in DOMAIN s : u \notin Covered(s[b])}

(* The batches in which the bits of both blocks are zero.                   *)
OpenBatches(s, u, v) == {b \in DOMAIN s : {u, v} \cap Covered(s[b]) = {}}

PlacePair(s, u, v) ==
  LET open == OpenBatches(s, u, v)
      b == CHOOSE x \in open : \A y \in open : x <= y
  IN  IF open = {} THEN s ELSE [s EXCEPT ![b] = @ \cup {<<u, v>>}]

(* Batches of fewer than min_threshold pairs are dropped.                   *)
PairBatches(nbr, ids, act, rounds, minThreshold) ==
  LET worthwhile(u) == SelectSeq(nbr[u], LAMBDA v : Worthwhile(act, u, v))
      place(s, u) == FoldLeft(LAMBDA r, v : PlacePair(r, u, v), s, worthwhile(u))
  IN  SelectSeq(FoldLeft(place, [b \in 1 .. rounds |-> {}], ids),
                LAMBDA M : Cardinality(M) >= minThreshold)

-----------------------------------------------------------------------------
Idle == [pc |-> "idle"]

QuotientOf(p) == [b \in Block |-> Ascending(QuotientNeighbours(p, b))]

InitSR ==
  /\ \E kind \in Kinds, static \in UseStatic :
       run = [kind |-> kind, static |-> static \/ kind # "labels",
              phase |-> "start", iteration |-> 1, positive |-> FALSE, few |-> FALSE]
  /\ quotient = QuotientOf(partition)
  /\ adjacency = [b \in Block |-> <<>>]
  /\ active = Block /\ nextActive = {}
  /\ batches = <<>> /\ dynamic = [cand |-> <<>>, used |-> {}]
  /\ light = {} /\ queue = {}
  /\ th = [t \in Thread |-> Idle]

-----------------------------------------------------------------------------
(* BlockAdjacency::compute: the blocks of the neighbours of the boundary    *)
(* vertices of a block, each once, in the order they are met.               *)
Adjacency ==
  [b \in Block |->
     FoldLeft(LAMBDA s, u :
                FoldLeft(LAMBDA r, v : IF partition[v] = b \/ Contains(r, partition[v]) THEN r
                                       ELSE Append(r, partition[v]), s, AdjOrder[u]),
              <<>>, bv.list[b])]

Work(M, next) ==
  /\ queue' = M /\ light' = {pair \in M : Balanced(bweights, pair)}
  /\ run' = [run EXCEPT !.phase = IF M # {} THEN "work" ELSE next,
                         !.few = LargeK /\ ~ run.static /\ Cardinality(M) < MinThreshold]

(* The head of an iteration.  The first pairs are those of q_graph, of the  *)
(* partition before the refinement; the used edges of the next ones are     *)
(* shared with it unless the marks are in the edges (LARGE_K).              *)
StartIteration ==
  /\ run.phase = "start"
  /\ adjacency' = Adjacency
  /\ IF run.static
     THEN LET made == PairBatches(Adjacency, AllBlocks, active, MaxRounds, MinThreshold)
          IN /\ batches' = made
             /\ run' = [run EXCEPT !.phase = IF made = <<>> THEN "done" ELSE "next"]
             /\ UNCHANGED <<dynamic, light, queue>>
     ELSE LET m == FindPairs(quotient, active, WorthwhileBlocks(quotient, AllBlocks, active), {})
          IN /\ dynamic' = [cand |-> m.next, used |-> IF LargeK THEN {} ELSE m.used]
             /\ Work(m.matching, "done")
             /\ UNCHANGED batches
  /\ UNCHANGED <<pmVars, bv, quotient, active, nextActive, th>>

(* The next pairs; the adjacency is that of the head of the iteration.      *)
NextPairs ==
  /\ run.phase = "next"
  /\ IF run.static
     THEN /\ batches # <<>>
          /\ batches' = Tail(batches) /\ Work(Head(batches), "next")
          /\ UNCHANGED dynamic
     ELSE LET m == FindPairs(adjacency, active, dynamic.cand, dynamic.used)
          IN /\ dynamic' = [cand |-> m.next, used |-> m.used]
             /\ Work(m.matching, "end")
             /\ UNCHANGED batches
  /\ UNCHANGED <<pmVars, bv, quotient, adjacency, active, nextActive, th>>

EndIteration ==
  /\ run.phase = "end" \/ (run.phase = "next" /\ run.static /\ batches = <<>>)
  /\ IF run.positive
     THEN /\ active' = nextActive /\ nextActive' = {}
          /\ run' = IF run.iteration < MaxIteration
                    THEN [run EXCEPT !.phase = "start", !.iteration = @ + 1, !.positive = FALSE]
                    ELSE [run EXCEPT !.phase = "done"]
     ELSE run' = [run EXCEPT !.phase = "done"] /\ UNCHANGED <<active, nextActive>>
  /\ UNCHANGED <<pmVars, bv, quotient, adjacency, batches, dynamic, light, queue, th>>

(* The structures that were not maintained, label propagation only.         *)
Recompute ==
  /\ run.phase = "done" /\ run.kind = "labels"
  /\ quotient' = QuotientOf(partition)
  /\ run' = [run EXCEPT !.phase = "recomputed"]
  /\ UNCHANGED <<pmVars, bv, adjacency, active, nextActive, batches, dynamic, light, queue, th>>

(* The barrier at the end of the parallel loop.                             *)
Join ==
  /\ run.phase = "work" /\ queue = {} /\ \A t \in Thread : th[t] = Idle
  /\ run' = [run EXCEPT !.phase = IF run.few THEN "end" ELSE "next"]
  /\ UNCHANGED <<pmVars, bv, quotient, adjacency, active, nextActive, batches, dynamic, light, queue, th>>

-----------------------------------------------------------------------------
(* The parallel loop.  A thread takes a pair and copies its boundaries, or  *)
(* fills its heaps from them.                                               *)
Goes(t, state) == th' = [th EXCEPT ![t] = state]

Take(t, pair) ==
  /\ run.phase = "work" /\ th[t].pc = "idle"
  /\ queue' = queue \ {pair}
  /\ LET boundary == bv.list[pair[1]] \o bv.list[pair[2]]
     IN Goes(t, CASE run.kind = "labels" ->
                       [pc |-> "look", pair |-> pair, todo |-> boundary, moved |-> FALSE]
                  [] run.kind = "flow" ->
                       [pc |-> "cut", pair |-> pair, alpha |-> 2, round |-> 1, cut |-> {},
                        region |-> <<>>, todo |-> <<>>, moved |-> FALSE]
                  [] run.kind = "fm" ->
                       [pc |-> "trial", todo |-> <<>>] @@ Start(pair, Seeds(partition, pair, ToSet(boundary))))
  /\ UNCHANGED <<pmVars, bv, run, quotient, adjacency, active, nextActive, batches, dynamic, light>>

(* Label propagation: the vertex at hand goes to the other block when there *)
(* is room and nothing is lost; a coin decides about gains of 0.            *)
Gain(t) == MoveGain(partition, th[t].pair, Head(th[t].todo))
Movable(t) ==
  LET u == Head(th[t].todo)
  IN partition[u] \in ToSet(th[t].pair) /\ Fits(u, Opposite(th[t].pair, partition[u]))

Leave(t) ==
  /\ th[t].pc = "look" /\ th[t].todo # <<>>
  /\ Movable(t) => Gain(t) <= 0
  /\ Goes(t, [th[t] EXCEPT !.todo = Tail(@)])
  /\ UNCHANGED <<pmVars, bv, ctl>>

Decide(t) ==
  /\ th[t].pc = "look" /\ th[t].todo # <<>>
  /\ Movable(t) /\ Gain(t) >= 0
  /\ Goes(t, [th[t] EXCEPT !.pc = "boundary", !.moved = @ \/ Gain(t) > 0])
  /\ UNCHANGED <<pmVars, bv, ctl>>

(* apply_move: the boundary first, then p_manager.                          *)
MoveBoundary(t) ==
  /\ th[t].pc = "boundary"
  /\ LET u == Head(th[t].todo)
     IN BvMove(u, partition[u], Opposite(th[t].pair, partition[u]))
  /\ Goes(t, [th[t] EXCEPT !.pc = "weight"])
  /\ UNCHANGED <<pmVars, ctl>>

MoveWeight(t) ==
  /\ th[t].pc = "weight"
  /\ LET u == Head(th[t].todo)
     IN PmMove(u, partition[u], Opposite(th[t].pair, partition[u]))
  /\ Goes(t, [th[t] EXCEPT !.pc = IF run.kind = "labels" THEN "look" ELSE "apply",
                           !.todo = Tail(@)])
  /\ UNCHANGED <<bv, ctl>>

(* refine_pair: trial moves are made in p_manager, where other threads see  *)
(* them.                                                                    *)
Trial(t) ==
  /\ th[t].pc = "trial" /\ MayMove(th[t])
  /\ \E u \in Chosen(th[t]) :
       LET new == Opposite(th[t].pair, partition[u])
       IN /\ PmMove(u, partition[u], new)
          /\ LET s == Recorded(th[t], u, bweights', new)
             IN \/ Goes(t, Updated(s, partition', u))
                \/ s.idle > MinSteps /\ Goes(t, [s EXCEPT !.pc = "revert"])
  /\ UNCHANGED <<bv, ctl>>

EndTrial(t) ==
  /\ th[t].pc = "trial" /\ ~ MayMove(th[t])
  /\ Goes(t, [th[t] EXCEPT !.pc = "revert"])
  /\ UNCHANGED <<pmVars, bv, ctl>>

(* The moves are taken back, the last one first, and those up to the best   *)
(* moment are made again.                                                   *)
Revert(t) ==
  /\ th[t].pc = "revert" /\ th[t].moves # <<>>
  /\ LET u == Last(th[t].moves)
     IN PmMove(u, partition[u], Opposite(th[t].pair, partition[u]))
  /\ Goes(t, [th[t] EXCEPT !.moves = Front(@),
                 !.todo = IF Len(th[t].moves) <= th[t].kept THEN <<Last(th[t].moves)>> \o @ ELSE @])
  /\ UNCHANGED <<bv, ctl>>

Reverted(t) ==
  /\ th[t].pc = "revert" /\ th[t].moves = <<>>
  /\ Goes(t, [pc |-> "apply", pair |-> th[t].pair, todo |-> th[t].todo, moved |-> th[t].best > 0])
  /\ UNCHANGED <<pmVars, bv, ctl>>

Apply(t) ==
  /\ th[t].pc = "apply" /\ th[t].todo # <<>>
  /\ Goes(t, [th[t] EXCEPT !.pc = "boundary"])
  /\ UNCHANGED <<pmVars, bv, ctl>>

(* The flow based refine_pair: the border, the regions and the network are  *)
(* read in one step, the cut that comes out is judged in another.           *)
After(t, alpha, moves) ==
  Goes(t, [th[t] EXCEPT !.pc = "apply", !.alpha = alpha, !.round = @ + 1, !.todo = moves,
                        !.moved = @ \/ moves # <<>>, !.cut = {}, !.region = <<>>])
Over(t) == Goes(t, [th[t] EXCEPT !.pc = "apply", !.round = MaxLocal + 1,
                                 !.cut = {}, !.region = <<>>])
Narrower(t) == IF th[t].alpha <= 1 THEN Over(t) ELSE After(t, Smaller(th[t].alpha), <<>>)

CutRegion(t) ==
  /\ th[t].pc = "cut"
  /\ LET pair == th[t].pair
         border(b) == Facing(partition, bv.list[b], Opposite(pair, b))
         region(b) == RegionBfs(partition, b, border(b), RegionLimit(pair, b, th[t].alpha), FALSE)
         L == ToSet(region(pair[1]))
         R == ToSet(region(pair[2]))
         cut == [A \in SUBSET (L \cup R) |-> SimpleNetworkCut(partition, pair, L, R, A)]
     IN IF <<>> \in {border(pair[1]), border(pair[2])} THEN Over(t)
        ELSE IF L \cup R = {}
        THEN IF th[t].alpha >= AlphaBound THEN Over(t) ELSE After(t, Larger(th[t].alpha), <<>>)
        ELSE \E A \in Cheapest(cut) :
               Goes(t, [th[t] EXCEPT !.pc = "judge", !.cut = A,
                                     !.region = region(pair[1]) \o region(pair[2])])
  /\ UNCHANGED <<pmVars, bv, ctl>>

(* A cut is taken when something is gained.                                 *)
Judge(t) ==
  /\ th[t].pc = "judge"
  /\ LET pair == th[t].pair
         side(b) == SelectSeq(th[t].region, LAMBDA u : partition[u] = b)
     IN \E c \in Acceptable(partition, pair, side(pair[1]), side(pair[2]), th[t].cut) :
          IF c.moved # <<>> /\ CutsGain(partition, pair, c.moved) > 0
          THEN After(t, Larger(th[t].alpha), c.moved) ELSE Narrower(t)
  /\ UNCHANGED <<pmVars, bv, ctl>>

(* The next round of the loop, if there is one.                             *)
MoreRounds(t) == run.kind = "flow" /\ th[t].round <= MaxLocal
NextRound(t) ==
  /\ th[t].pc = "apply" /\ th[t].todo = <<>> /\ MoreRounds(t)
  /\ Goes(t, [th[t] EXCEPT !.pc = "cut"])
  /\ UNCHANGED <<pmVars, bv, ctl>>

EndPair(t) ==
  /\ th[t].pc \in {"look", "apply"} /\ th[t].todo = <<>> /\ ~ MoreRounds(t)
  /\ IF th[t].moved
     THEN /\ nextActive' = nextActive \cup ToSet(th[t].pair)
          /\ run' = [run EXCEPT !.positive = TRUE]
     ELSE UNCHANGED <<nextActive, run>>
  /\ Goes(t, Idle)
  /\ UNCHANGED <<pmVars, bv, quotient, adjacency, active, batches, dynamic, light, queue>>

Step(t) ==
  \/ \E pair \in queue : Take(t, pair)
  \/ Leave(t) \/ Decide(t) \/ MoveBoundary(t) \/ MoveWeight(t)
  \/ Trial(t) \/ EndTrial(t) \/ Revert(t) \/ Reverted(t) \/ Apply(t)
  \/ CutRegion(t) \/ Judge(t) \/ NextRound(t) \/ EndPair(t)

NextSR ==
  \/ StartIteration \/ NextPairs \/ EndIteration \/ Join \/ Recompute
  \/ \E t \in Thread : Step(t)

-----------------------------------------------------------------------------
(* Pairs at distance 1 are enough for what the refinements keep: after any  *)
(* interleaving, with neighbours that moved meanwhile or only for a trial,  *)
(* the boundary vertices and the block weights are those of the partition.  *)
BoundaryCorrectAtBarrier ==
  run.phase # "work" => CorrectBlockWeights /\ CorrectBoundary

(* Only one thread fills a block, and no trial that overfills one is kept:  *)
(* a pair that was within its capacities when the loop began is at its end. *)
CapacitiesKept ==
  run.phase \in {"next", "end"} => \A pair \in light : Balanced(bweights, pair)
=============================================================================
