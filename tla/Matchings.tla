----------------------------- MODULE Matchings ------------------------------
(***************************************************************************)
(* The two ways in which the matcher is used.                               *)
(*                                                                          *)
(* compute_static_matchings places one edge of the quotient graph at a      *)
(* time, in any order: the code's order of blocks and of their lists is one *)
(* of them.                                                                 *)
(*                                                                          *)
(* One round of dynamic matching (label_propagation_refinement.h with       *)
(* use_static_matchings off, quotient_graph_refinement.h) is                *)
(* reset_used_edges, then find_matching until it finds nothing, on a        *)
(* quotient graph that stays as it is.  One step is one candidate of the    *)
(* candidate loop.                                                          *)
(***************************************************************************)
EXTENDS Distance3

CONSTANTS
  Blocks,      (* The blocks of the partition.                               *)
  Host,        (* The pairs {u, v} the quotient graph may have as edges.     *)
  Rounds,      (* max_rounds, the number of static batches.                  *)
  ListOf(_),   (* The order in which a list holds a set of blocks.           *)
  Actives      (* The sets of active blocks to start a round from.           *)

ASSUME StaticAssumption ==
  /\ Rounds \in Nat
  /\ Blocks \subseteq Nat /\ IsFiniteSet(Blocks)
  /\ Host \subseteq {e \in SUBSET Blocks : Cardinality(e) = 2}

ASSUME ListOfAssumption ==
  \A S \in SUBSET Blocks : ListOf(S) \in Seq(S) /\ ToSet(ListOf(S)) = S

VARIABLES
  nbr,         (* The quotient graph.                                        *)
  todo,        (* The edges not yet placed.                                  *)
  batch,       (* The batches: pairs, and the d1/d2 marks of each.           *)
  activeThisRound,  (* active_this_round.                                    *)
  cand,        (* m_candidates still to visit in this call.                  *)
  loop,        (* The state of the candidate loop, see Distance3.            *)
  found        (* What the last call returned; TRUE before the first.        *)

staticVars == <<nbr, todo, batch>>
callVars == <<activeThisRound, cand, loop, found>>
roundVars == <<nbr, callVars>>

NbrOf(E) == [x \in Blocks |-> {y \in Blocks : {x, y} \in E /\ x # y}]

InitStatic ==
  /\ \E E \in SUBSET Host :
       /\ nbr = NbrOf(E)
       /\ todo = {p \in Blocks \X Blocks : p[1] < p[2] /\ {p[1], p[2]} \in E}
  /\ batch = NoBatches(Rounds)

Place(p) ==
  /\ batch' = PlaceEdge(nbr, batch, p[1], p[2])
  /\ todo' = todo \ {p}
  /\ UNCHANGED nbr

NextStatic == \E p \in todo : Place(p)

SpecStatic == InitStatic /\ [][NextStatic]_staticVars

-----------------------------------------------------------------------------
(* "All endpoints of matched edges are at distance >= 3 from each other"    *)
(* (distance_3_matching.h), for every batch at every moment.                *)
BatchesDistanceThree ==
  \A b \in 1 .. Rounds : DistanceThree(nbr, batch[b].pairs)
-----------------------------------------------------------------------------
(* The lists of the quotient graph, in any order.                           *)
Lists(n) == [x \in Blocks |-> ListOf(n[x])]

InitRound ==
  /\ \E E \in SUBSET Host : nbr = NbrOf(E)
  /\ activeThisRound \in Actives
  /\ cand = ListOf(Candidates(Lists(nbr), activeThisRound))
  /\ loop = StartCall({})
  /\ found = TRUE

Visit ==
  /\ found
  /\ cand # <<>>
  /\ loop' = VisitCandidate(nbr, Lists(nbr), activeThisRound, loop, Head(cand))
  /\ cand' = Tail(cand)
  /\ UNCHANGED <<nbr, activeThisRound, found>>

(* The call returns; the next one starts from the candidates it collected,  *)
(* or, when it matched nothing, the round is over.                          *)
Return ==
  /\ found
  /\ cand = <<>>
  /\ found' = (loop.matching # {})
  /\ cand' = loop.next
  /\ loop' = StartCall(loop.used)
  /\ UNCHANGED <<nbr, activeThisRound>>

NextRound == Visit \/ Return

SpecRound == InitRound /\ [][NextRound]_roundVars /\ WF_roundVars(NextRound)

-----------------------------------------------------------------------------
ValidEdges == {e \in SUBSET Blocks : \E u, v \in e :
                 e = {u, v} /\ v \in nbr[u] /\ Valid(activeThisRound, u, v)}

(* What one call matches is a distance-3 matching, also while the loop over *)
(* the candidates is still adding to it, and when it returns it is maximal: *)
(* every valid edge not matched before is within distance 2 of a pair.      *)
CallMaximalDistanceThree ==
  /\ DistanceThree(nbr, loop.matching)
  /\ found /\ cand = <<>> =>
       \A e \in ValidEdges \ loop.used : \E p \in loop.matching :
         \E x \in e : x \in Within2(nbr, p[1]) \cup Within2(nbr, p[2])

(* The calls of a round come to an end: one of them matches nothing.        *)
RoundEnds == <>(~ found)

(* When the round ends every edge with an active endpoint has been matched: *)
(* no candidate was dropped with an edge still unused.                      *)
RoundComplete == ~ found => loop.used = ValidEdges
=============================================================================
