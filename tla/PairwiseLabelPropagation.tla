----------------------- MODULE PairwiseLabelPropagation ----------------------
(***************************************************************************)
(* The parallel label propagation of refinement/                            *)
(* label_propagation_refinement.h (refine_impl_parallel).  A matching of    *)
(* pairs of blocks is chosen in the quotient graph; threads take pairs from *)
(* it and move vertices between the two blocks of their pair, updating the  *)
(* four shared structures without locks or atomics.  What makes that safe   *)
(* is the distance between the pairs.                                       *)
(*                                                                         *)
(* One step of a thread is one call: copying the boundaries of the pair,    *)
(* deciding about one vertex, and the update of one structure.  NoDataRace  *)
(* says that calls of two threads that may overlap touch different cells,   *)
(* which is what makes this granularity the real one.                       *)
(***************************************************************************)
EXTENDS BlockStructures, Distance3

CONSTANTS
  Thread,         (* The threads of the parallel loop.                       *)
  UseStatic,      (* The settings of config.use_static_matchings.            *)
  MaxIteration,   (* config.max_iteration.                                   *)
  MaxRounds,      (* config.max_matching_rounds.                             *)
  MinThreshold    (* config.min_matching_threshold.                          *)

ASSUME SettingsAssumption == UseStatic \subseteq BOOLEAN

VARIABLES
  round,          (* [phase, iteration, positive, static]: the loop over     *)
                  (* iterations and its setting of use_static_matchings.     *)
  active,         (* active_this_round.                                      *)
  nextActive,     (* active_next_round.                                      *)
  static,         (* [batches, topoBase]: the batches still to come, and the *)
                  (* half-edge count when they were computed.                *)
  dynamic,        (* [cand, used]: the candidates of the next call of        *)
                  (* find_matching, and the edges matched in this iteration. *)
  matching,       (* The matching whose pairs are being refined.             *)
  queue,          (* Its pairs that no thread has taken yet.                 *)
  th              (* The local state of each thread.                         *)

ctlVars == <<round, active, nextActive, static, dynamic, matching, queue>>
plpVars == <<structVars, ctlVars, th>>

Idle == [pc |-> "idle", pair |-> <<>>, todo |-> <<>>, from |-> 0, to |-> 0,
         moved |-> FALSE, relinks |-> FALSE, seen |-> 0, delta |-> 0]

(* The quotient graph as the matcher reads it, by walking the lists.        *)
Nbr == [x \in Block |-> QNeighbours(x)]
Order == [x \in Block |-> QOrder(x)]

InitPLP ==
  /\ round \in [phase : {"start"}, iteration : {0}, positive : {FALSE}, static : UseStatic]
  /\ active = Block /\ nextActive = {}
  /\ static = [batches |-> <<>>, topoBase |-> 0]
  /\ dynamic = [cand |-> <<>>, used |-> {}]
  /\ matching = {} /\ queue = {}
  /\ th = [t \in Thread |-> Idle]

-----------------------------------------------------------------------------
(* The serial part: choosing what to refine next.                           *)

(* The pairs of a batch, placed at their smaller blocks in ascending order.  *)
InOrder(M) == SetToSortSeq(M, LAMBDA p, r : p[1] < r[1])

Refine(M) ==
  /\ matching' = M
  /\ queue' = M
  /\ round' = [round EXCEPT !.phase = "run"]

(* compute_static_matchings at the head of an iteration.                    *)
StartStatic ==
  /\ round.phase = "start" /\ round.static
  /\ LET batches == StaticMatchings(Nbr, Order, AllBlocks, active, MaxRounds, MinThreshold)
     IN  /\ static' = [batches |-> batches, topoBase |-> halfEdges]
         /\ round' = [round EXCEPT !.phase = IF batches = <<>> THEN "done" ELSE "next"]
  /\ UNCHANGED <<structVars, active, nextActive, dynamic, matching, queue, th>>

(* What is refined of a batch: all of it while the number of half edges is  *)
(* what it was when the batches were computed.                              *)
Batch(batch) ==
  IF halfEdges # static.topoBase THEN Filtered(Nbr, InOrder(batch)) ELSE batch

NextBatch ==
  /\ round.phase = "next" /\ round.static /\ static.batches # <<>>
  /\ static' = [static EXCEPT !.batches = Tail(@)]
  /\ LET M == Batch(Head(static.batches))
     IN  IF M = {} THEN UNCHANGED <<matching, queue, round>> ELSE Refine(M)
  /\ UNCHANGED <<structVars, active, nextActive, dynamic, th>>

(* reset_used_edges and the first find_matching of an iteration.            *)
StartDynamic ==
  /\ round.phase = "start" /\ ~ round.static
  /\ LET cand == Ascending(Candidates(Order, active))
         m == FindMatching(Nbr, Order, active, cand, {})
     IN  /\ dynamic' = [cand |-> m.next, used |-> m.used]
         /\ IF m.matching # {} THEN Refine(m.matching)
            ELSE /\ round' = [round EXCEPT !.phase = "done"]
                 /\ UNCHANGED <<matching, queue>>
  /\ UNCHANGED <<structVars, active, nextActive, static, th>>

(* find_matching after a matching has been refined.                         *)
NextMatching ==
  /\ round.phase = "next" /\ ~ round.static
  /\ LET m == FindMatching(Nbr, Order, active, dynamic.cand, dynamic.used)
     IN  /\ dynamic' = [cand |-> m.next, used |-> m.used]
         /\ IF m.matching # {} THEN Refine(m.matching)
            ELSE /\ round' = [round EXCEPT !.phase = "end"]
                 /\ UNCHANGED <<matching, queue>>
  /\ UNCHANGED <<structVars, active, nextActive, static, th>>

(* An iteration with a positive move hands its changed blocks to the next.  *)
EndIteration ==
  /\ \/ round.phase = "end"
     \/ round.phase = "next" /\ round.static /\ static.batches = <<>>
  /\ round' = IF round.positive /\ round.iteration + 1 < MaxIteration
              THEN [round EXCEPT !.phase = "start", !.iteration = @ + 1, !.positive = FALSE]
              ELSE [round EXCEPT !.phase = "done"]
  /\ IF round.positive THEN active' = nextActive /\ nextActive' = {}
     ELSE UNCHANGED <<active, nextActive>>
  /\ UNCHANGED <<structVars, static, dynamic, matching, queue, th>>

(* The barrier at the end of the parallel loop.                             *)
Join ==
  /\ round.phase = "run"
  /\ queue = {} /\ \A t \in Thread : th[t].pc = "idle"
  /\ round' = [round EXCEPT !.phase = "next"]
  /\ UNCHANGED <<structVars, active, nextActive, static, dynamic, matching, queue, th>>

Driver == StartStatic \/ NextBatch \/ StartDynamic \/ NextMatching \/ EndIteration \/ Join

-----------------------------------------------------------------------------
(* The parallel loop over the pairs of the matching.                        *)

(* The updates of apply_move in their order, and back to the next vertex.   *)
After == [eval |-> "bv", bv |-> "q", q |-> "count", count |-> "bc", bc |-> "pm", pm |-> "eval"]
NextCall(pc) == After[pc]

Advance(t) ==
  [th[t] EXCEPT !.pc = NextCall(@), !.todo = IF NextCall(th[t].pc) = "eval" THEN Tail(@) ELSE @]

(* Copy the boundary vertices of the pair's blocks into local_boundary.     *)
Take(t, p) ==
  /\ round.phase = "run" /\ th[t].pc = "idle"
  /\ th' = [th EXCEPT ![t] = [Idle EXCEPT
               !.pc = "eval", !.pair = p, !.todo = bv.list[p[1]] \o bv.list[p[2]]]]
  /\ queue' = queue \ {p}
  /\ UNCHANGED <<structVars, round, active, nextActive, static, dynamic, matching>>

(* The vertex at hand, and the block of the pair it is not in.              *)
Current(t) == Head(th[t].todo)
Opposite(t) == LET p == th[t].pair
               IN  IF partition[Current(t)] = p[1] THEN p[2] ELSE p[1]

Movable(t) ==
  /\ partition[Current(t)] \in {th[t].pair[1], th[t].pair[2]}
  /\ Fits(Current(t), Opposite(t))

(* Between blocks of one lowest group of the machine only the cut matters.  *)
PairGain(t) ==
  IF LastLevelPair(Hierarchy, th[t].pair[1], th[t].pair[2])
  THEN CutDelta(Current(t), partition[Current(t)], Opposite(t))
  ELSE QapDelta(Current(t), partition[Current(t)], Opposite(t))

Evaluating(t) == th[t].pc = "eval" /\ th[t].todo # <<>>

Skip(t) ==
  /\ Evaluating(t)
  /\ ~ Movable(t) \/ PairGain(t) <= 0
  /\ th' = [th EXCEPT ![t].todo = Tail(@)]
  /\ UNCHANGED <<structVars, ctlVars>>

(* A gain of 0 is accepted on a coin flip.                                  *)
Decide(t) ==
  /\ Evaluating(t)
  /\ Movable(t) /\ PairGain(t) >= 0
  /\ th' = [th EXCEPT ![t] = [Advance(t) EXCEPT
              !.from = partition[Current(t)], !.to = Opposite(t),
              !.moved = @ \/ PairGain(t) > 0]]
  /\ UNCHANGED <<structVars, ctlVars>>

MoveBoundary(t) ==
  /\ th[t].pc = "bv"
  /\ BvMove(Current(t), th[t].from, th[t].to)
  /\ th' = [th EXCEPT ![t] = Advance(t)]
  /\ UNCHANGED <<partition, bweights, nVertices, conn, q, halfEdges, ctlVars>>

(* q_graph.move: the records and lists.  m_total_half_edges is incremented  *)
(* by all threads without synchronisation, while the move goes on: the      *)
(* increments start from the value at its beginning or at its end.          *)
MoveQuotient(t) ==
  /\ th[t].pc = "q"
  /\ LET s == QMoved(Current(t), th[t].from, th[t].to)
     IN  /\ q' = s
         /\ th' = [th EXCEPT ![t] = [Advance(t) EXCEPT
                     !.relinks = QRelinks(Current(t), th[t].from, th[t].to),
                     !.seen = halfEdges, !.delta = QHalfEdgesDelta(q, s)]]
  /\ UNCHANGED <<partition, bweights, nVertices, bv, conn, halfEdges, ctlVars>>

CountHalfEdges(t) ==
  /\ th[t].pc = "count"
  /\ halfEdges' \in IF th[t].relinks THEN {halfEdges + th[t].delta, th[t].seen + th[t].delta}
                    ELSE {halfEdges}
  /\ th' = [th EXCEPT ![t] = Advance(t)]
  /\ UNCHANGED <<partition, bweights, nVertices, bv, conn, q, ctlVars>>

MoveConn(t) ==
  /\ th[t].pc = "bc"
  /\ BcMove(Current(t), th[t].from, th[t].to)
  /\ th' = [th EXCEPT ![t] = Advance(t)]
  /\ UNCHANGED <<partition, bweights, nVertices, bv, q, halfEdges, ctlVars>>

MovePartition(t) ==
  /\ th[t].pc = "pm"
  /\ PmMove(Current(t), th[t].from, th[t].to)
  /\ th' = [th EXCEPT ![t] = Advance(t)]
  /\ UNCHANGED <<bv, conn, q, halfEdges, ctlVars>>

(* The end of the loop body: a positive move activates both blocks.         *)
EndPair(t) ==
  /\ th[t].pc = "eval" /\ th[t].todo = <<>>
  /\ IF th[t].moved
     THEN /\ nextActive' = nextActive \cup {th[t].pair[1], th[t].pair[2]}
          /\ round' = [round EXCEPT !.positive = TRUE]
     ELSE UNCHANGED <<nextActive, round>>
  /\ th' = [th EXCEPT ![t] = Idle]
  /\ UNCHANGED <<structVars, active, static, dynamic, matching, queue>>

Step(t) ==
  \/ \E p \in queue : Take(t, p)
  \/ Skip(t) \/ Decide(t) \/ EndPair(t)
  \/ MoveBoundary(t) \/ MoveQuotient(t) \/ CountHalfEdges(t)
  \/ MoveConn(t) \/ MovePartition(t)

NextPLP == Driver \/ \E t \in Thread : Step(t)

(* The serial part runs on unless it waits at the barrier; a thread runs on *)
(* while it has a pair or can take one.  These are ENABLED Driver and       *)
(* ENABLED Step(t), and the fairness below is weak fairness of the two.     *)
DriverReady ==
  \/ round.phase \in {"start", "next", "end"}
  \/ round.phase = "run" /\ queue = {} /\ \A t \in Thread : th[t].pc = "idle"
StepReady(t) == round.phase = "run" /\ (th[t].pc # "idle" \/ queue # {})

FairPLP ==
  /\ <>[]DriverReady => []<><<Driver>>_plpVars
  /\ \A t \in Thread : <>[]StepReady(t) => []<><<Step(t)>>_plpVars

(* Refinements with config.use_static_matchings off.                        *)
SpecDynamic == StructInit /\ InitPLP /\ ~ round.static /\ [][NextPLP]_plpVars

-----------------------------------------------------------------------------
(* What the next call of a thread reads and writes, except for the counter. *)
(* Lists of the quotient graph are taken as one cell per block, and every   *)
(* list a move might touch counts as written.                               *)
Cells(kind, S) == {kind} \X S

Reads(t) ==
  LET near == Adj(Current(t))
  IN  CASE th[t].pc = "idle" -> Cells("list", UNION {ToSet(p) : p \in queue})
        [] Evaluating(t) -> Cells("partition", {Current(t)}) \cup Cells("conn", {Current(t)})
                              \cup Cells("weight", ToSet(th[t].pair))
        [] th[t].pc \in {"bv", "q"} -> Cells("partition", near)
        [] OTHER -> {}

Writes(t) ==
  LET near == Adj(Current(t))
      pair == ToSet(th[t].pair)
  IN  CASE th[t].pc = "bv" -> Cells("count", {Current(t)} \cup {v \in near : partition[v] \in pair})
                                \cup Cells("list", pair)
        [] th[t].pc = "q"  -> Cells("links", pair \cup {partition[v] : v \in near})
        [] th[t].pc = "bc" -> Cells("conn", near)
        [] th[t].pc = "pm" -> Cells("partition", {Current(t)}) \cup Cells("weight", pair)
        [] OTHER -> {}

(* Calls of two threads that may run at the same time do not conflict: the  *)
(* unsynchronised updates of the parallel loop are free of data races,      *)
(* those of the half-edge counter excepted.                                 *)
NoDataRace ==
  \A s, t \in Thread : s # t => Writes(s) \cap (Reads(t) \cup Writes(t)) = {}

(* "All endpoints of matched edges are at distance >= 3 from each other in  *)
(* the quotient graph" (distance_3_matching.h), from the choice of a        *)
(* matching until its last pair is refined, although refining them changes  *)
(* the quotient graph.                                                      *)
InFlightDistanceThree ==
  round.phase = "run" => DistanceThree(Nbr, matching)

(* Outside the parallel loop every structure is what it would be if it were *)
(* computed from the partition: no update of any thread was lost.           *)
StructuresCorrectAtBarrier ==
  round.phase # "run" =>
    CorrectBlockWeights /\ CorrectBoundary /\ CorrectBlockConn /\ CorrectQuotientGraph

(* Parallel label propagation implements MonotoneMoves: a gain computed     *)
(* before the other threads' moves is still right when the move is done,    *)
(* and no capacity is exceeded by two threads filling the same block.       *)
Abstract == INSTANCE MonotoneMoves WITH part <- partition
ImplementsMonotoneMoves == Abstract!Spec

(* The refinement ends.                                                     *)
Ends == <>(round.phase = "done")
=============================================================================
