----------------------------- MODULE HeavyEdge ------------------------------
(***************************************************************************)
(* coarsening/heavy_edge_matching.h: the vertices, in random order, take   *)
(* the best rated unmatched neighbour of their block that fits.  Ratings   *)
(* are those of edge_rating.h, as fractions; a denominator of 0, which     *)
(* INNEROUTER has for an edge that is a component, is infinity.            *)
(***************************************************************************)
EXTENDS Graph

CONSTANTS
  P,            (* The block of every vertex.                               *)
  MaxW          (* lmax, the largest weight of a coarse vertex.             *)

ASSUME HeavyEdgeAssumption == P \in [Vertex -> Block] /\ MaxW \in Nat

VARIABLES
  rating,       (* The rating function, or "uniform" for unit weights.      *)
  order,        (* permutation                                              *)
  visited,      (* The number of vertices of it already visited.            *)
  partner,
  coarse        (* The mapping, once it is made.                            *)

heavyVars == <<rating, order, visited, partner, coarse>>

RatingFunctions == {"weight", "expansion", "expansion*", "expansion**", "innerouter"}
Degree(u) == SumFunctionOnSet(EdgeWeight[u], Adj(u))
RatingOf(f, u, v) ==
  LET ew == EdgeWeight[u][v]
      uw == VertexWeight[u]
      vw == VertexWeight[v]
  IN CASE f = "weight" -> <<ew, 1>>
       [] f = "expansion" -> <<ew, uw + vw>>
       [] f = "expansion*" -> <<ew, uw * vw>>
       [] f = "expansion**" -> <<ew * ew, uw * vw>>
       [] f = "innerouter" -> <<ew, Degree(u) + Degree(v) - 2 * ew>>
       [] OTHER -> <<1, 1>>
Better(a, b) == a[1] * b[2] > b[1] * a[2]

FitTogether(u, v) ==
  \/ rating = "uniform" /\ 2 <= MaxW
  \/ rating # "uniform" /\ VertexWeight[u] + VertexWeight[v] <= MaxW
Eligible(u) == {v \in Adj(u) : P[u] = P[v] /\ FitTogether(u, v)}

InitHeavy ==
  /\ rating \in RatingFunctions \cup {"uniform"}
  /\ order \in {o \in [1 .. Cardinality(Vertex) -> Vertex] : IsInjective(o)}
  /\ visited = 0
  /\ partner = [u \in Vertex |-> u]
  /\ coarse = [u \in Vertex |-> u]

(* The first of the open neighbours, in the adjacency order, that no other  *)
(* one beats.                                                               *)
Best(u, open) ==
  LET top == {v \in open : \A x \in open :
                ~ Better(RatingOf(rating, u, x), RatingOf(rating, u, v))}
  IN IF top = {} THEN u ELSE Min(top)

BestThenChecked(u) ==
  LET v == Best(u, {x \in Adj(u) : ~ Matched(partner, x)})
  IN IF v \in Eligible(u) THEN v ELSE u
BestNeighbour(u) == Best(u, {v \in Eligible(u) : ~ Matched(partner, v)})

Visit ==
  /\ visited < Len(order)
  /\ visited' = visited + 1
  /\ LET u == order[visited + 1]
     IN partner' = IF Matched(partner, u) THEN partner
                   ELSE Paired(partner, u, BestNeighbour(u))
  /\ UNCHANGED <<rating, order, coarse>>

Finalize ==
  /\ visited = Len(order)
  /\ visited' = visited + 1
  /\ coarse' = Translation(partner)
  /\ UNCHANGED <<rating, order, partner>>

NextHeavy == Visit \/ Finalize

SpecHeavy == InitHeavy /\ [][NextHeavy]_heavyVars

-----------------------------------------------------------------------------
(* The position at which a vertex and its partner were joined.              *)
JoinedAt(u) == Min({i \in 1 .. Len(order) : order[i] \in {u, partner[u]}})

(* match_templated: an edge passed over is one that could not be matched.   *)
(* When two unmatched vertices are left, they are not eligible for each     *)
(* other; and every pair is the best choice of the vertex visited first: a  *)
(* neighbour it would have preferred had been taken before.                 *)
PassedOverWereTaken ==
  /\ visited >= Len(order) =>
       \A u \in Vertex : \A v \in Eligible(u) : Matched(partner, u) \/ Matched(partner, v)
  /\ \A i \in 1 .. Min({visited, Len(order)}) :
       LET u == order[i]
       IN (Matched(partner, u) /\ JoinedAt(u) = i) =>
            \A x \in Eligible(u) \ {partner[u]} :
              Better(RatingOf(rating, u, x), RatingOf(rating, u, partner[u]))
                => Matched(partner, x) /\ JoinedAt(x) < i

(* What contraction reads: coarse vertices hold one vertex or the two of a  *)
(* pair, within one block.                                                  *)
PairsContract ==
  visited > Len(order) =>
    \A u, v \in Vertex :
      coarse[u] = coarse[v] => u = v \/ (partner[u] = v /\ partner[v] = u /\ P[u] = P[v])
=============================================================================
