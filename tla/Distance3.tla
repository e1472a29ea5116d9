------------------------------ MODULE Distance3 -----------------------------
(***************************************************************************)
(* datastructures/distance_3_matching.h: the three ways of choosing pairs   *)
(* of adjacent blocks that are at distance 3 or more from each other in the *)
(* quotient graph.  nbr[x] is the set of neighbours of block x; pairs are   *)
(* tuples <<u, v>> with u < v.                                              *)
(*                                                                         *)
(* The epoch arrays m_vertex_frozen_epoch and m_valid_frozen, and the bit   *)
(* vectors m_dist1_batches and m_dist2_batches, are the sets d1 and d2 of   *)
(* blocks marked at least "distance 1" and at least "distance 2".           *)
(***************************************************************************)
EXTENDS Integers, FiniteSets, Sequences, SequencesExt

NothingFrozen == [d1 |-> {}, d2 |-> {}]

(* Slips of FreezeFrom below: one hop, three hops and no hop, where the code goes two.  *)
FreezeFromOneHop(nbr, f, x) ==
  LET fresh == nbr[x] \ f.d1
  IN  [d1 |-> f.d1 \cup fresh, d2 |-> f.d2 \cup fresh]

FreezeFromNothing(nbr, f, x) == f

(* freeze_from: neighbours not yet marked d1 are marked, and their          *)
(* neighbours are marked d2; neighbours already d1 are not expanded again.  *)
FreezeFrom(nbr, f, x) ==
  LET fresh == nbr[x] \ f.d1
  IN  [d1 |-> f.d1 \cup fresh,
       d2 |-> f.d2 \cup fresh \cup UNION {nbr[y] : y \in fresh}]

Mark(f, x) == [d1 |-> f.d1 \cup {x}, d2 |-> f.d2 \cup {x}]

(* freeze_endpoint, freeze_validation: mark x itself, then expand.          *)
FreezeEndpoint(nbr, f, x) == FreezeFrom(nbr, Mark(f, x), x)

Freeze(nbr, f, u, v) == FreezeEndpoint(nbr, FreezeEndpoint(nbr, f, u), v)

-----------------------------------------------------------------------------
(* compute_static_matchings.  s[b] = [pairs, frozen] is batch b; an edge    *)
(* goes to the first batch in which neither endpoint is frozen, and to none *)
(* when all are taken.                                                      *)

FreeBatchesOneEndpoint(s, u, v) == {b \in DOMAIN s : u \notin s[b].frozen.d2}

FreeBatches(s, u, v) == {b \in DOMAIN s : {u, v} \cap s[b].frozen.d2 = {}}

IsFirst(b, S) == b \in S /\ \A c \in S : b <= c

PlaceInto(nbr, s, u, v, b) ==
  [s EXCEPT ![b] = [pairs  |-> @.pairs \cup {<<u, v>>},
                    frozen |-> Freeze(nbr, @.frozen, u, v)]]

PlaceEdge(nbr, s, u, v) ==
  LET free == FreeBatches(s, u, v)
  IN  IF free = {} THEN s ELSE PlaceInto(nbr, s, u, v, CHOOSE b \in free : IsFirst(b, free))

NoBatches(rounds) ==
  [b \in 1 .. rounds |-> [pairs |-> {}, frozen |-> NothingFrozen]]

(* An edge is worth refining when one of its blocks was changed last round. *)
Valid(active, u, v) == u < v /\ {u, v} \cap active # {}

(* process_vertex for the blocks of ids in turn, each edge at its smaller   *)
(* endpoint and in the order of its list; batches that are too small for    *)
(* the threads are dropped.                                                 *)
StaticMatchings(nbr, order, ids, active, rounds, minThreshold) ==
  LET edgesOf(u) == SelectSeq(order[u], LAMBDA v : Valid(active, u, v))
      place(s, u) == FoldLeft(LAMBDA r, v : PlaceEdge(nbr, r, u, v), s, edgesOf(u))
      all == FoldLeft(place, NoBatches(rounds), ids)
      batches == [b \in 1 .. rounds |-> all[b].pairs]
  IN  SelectSeq(batches, LAMBDA M : Cardinality(M) >= minThreshold)

-----------------------------------------------------------------------------
(* filter_valid_matching: keep the pairs that are still edges and not       *)
(* frozen by the pairs kept before them.                                    *)
FilterStep(nbr, s, pair) ==
  IF pair[2] \in nbr[pair[1]] /\ {pair[1], pair[2]} \cap s.frozen.d2 = {}
  THEN [kept |-> s.kept \cup {pair},
        frozen |-> Freeze(nbr, s.frozen, pair[1], pair[2])]
  ELSE s

Filtered(nbr, pairs) ==
  FoldLeft(LAMBDA s, pair : FilterStep(nbr, s, pair),
           [kept |-> {}, frozen |-> NothingFrozen], pairs).kept

-----------------------------------------------------------------------------
(***************************************************************************)
(* find_matching.  m = [matching, frozen, used, next] is the state of the   *)
(* candidate loop: the pairs matched by this call, the frozen marks of this *)
(* call, the edges matched since reset_used_edges, and the candidates of    *)
(* the next call (each once, in the order they were added).                 *)
(***************************************************************************)
AddToNext(m, x) == IF Contains(m.next, x) THEN m
                   ELSE [m EXCEPT !.next = Append(@, x)]

Unused(order, active, m, u) ==
  {v \in ToSet(order[u]) : Valid(active, u, v) /\ {u, v} \notin m.used}

(* The first element of a list that is in S.                                *)
FirstIn(list, S) == list[Min({k \in DOMAIN list : list[k] \in S})]

(* Slips of VisitCandidate below: a frozen vertex is no candidate of the    *)
(* next call; a matched edge is not marked used.                            *)
VisitCandidateDropsFrozen(nbr, order, active, m, u) ==
  LET open   == Unused(order, active, m, u) \ m.frozen.d2
      v      == FirstIn(order[u], open)
      f      == Mark(Mark(m.frozen, u), v)
      paired == [m EXCEPT !.matching = @ \cup {<<u, v>>},
                          !.used = @ \cup {{u, v}},
                          !.frozen = FreezeFrom(nbr, FreezeFrom(nbr, f, u), v)]
  IN  IF u \notin m.frozen.d2 /\ open # {}
      THEN AddToNext(AddToNext(paired, u), v) ELSE m

VisitCandidateForgetsUsed(nbr, order, active, m, u) ==
  LET open == Unused(order, active, m, u) \ m.frozen.d2
      v    == FirstIn(order[u], open)
      f    == Mark(Mark(m.frozen, u), v)
  IN  IF u \notin m.frozen.d2 /\ open # {}
      THEN AddToNext(AddToNext([m EXCEPT !.matching = @ \cup {<<u, v>>},
             !.frozen = FreezeFrom(nbr, FreezeFrom(nbr, f, u), v)], u), v)
      ELSE m

(* One candidate: u is matched with its first unused, unfrozen neighbour;   *)
(* it stays a candidate unless all its edges are used.                      *)
VisitCandidate(nbr, order, active, m, u) ==
  LET unused == Unused(order, active, m, u)
      open   == unused \ m.frozen.d2
      v      == FirstIn(order[u], open)
      f      == Mark(Mark(m.frozen, u), v)
      paired == [m EXCEPT !.matching = @ \cup {<<u, v>>},
                          !.used = @ \cup {{u, v}},
                          !.frozen = FreezeFrom(nbr, FreezeFrom(nbr, f, u), v)]
  IN  CASE u \in m.frozen.d2 -> AddToNext(m, u)
        [] u \notin m.frozen.d2 /\ open # {} -> AddToNext(AddToNext(paired, u), v)
        [] u \notin m.frozen.d2 /\ open = {} /\ unused # {} -> AddToNext(m, u)
        [] OTHER -> m

(* init_candidates: the active blocks with a valid edge to a larger block.  *)
Candidates(order, active) ==
  {u \in DOMAIN order : \E v \in ToSet(order[u]) : Valid(active, u, v)}

StartCall(used) ==
  [matching |-> {}, frozen |-> NothingFrozen, used |-> used, next |-> <<>>]

FindMatching(nbr, order, active, cand, used) ==
  FoldLeft(LAMBDA m, u : VisitCandidate(nbr, order, active, m, u),
           StartCall(used), cand)

-----------------------------------------------------------------------------
(* All endpoints of matched edges are at distance >= 3 from each other: no  *)
(* endpoint of one pair is within two steps of an endpoint of another.      *)
Within2(nbr, x) == {x} \cup nbr[x] \cup UNION {nbr[y] : y \in nbr[x]}

DistanceThree(nbr, M) ==
  \A p, r \in M : p # r =>
    \A x \in {p[1], p[2]}, y \in {r[1], r[2]} : y \notin Within2(nbr, x)
=============================================================================
