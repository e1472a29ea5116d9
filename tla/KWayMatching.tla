---------------------------- MODULE KWayMatching ----------------------------
(***************************************************************************)
(* kway_partitioner/kway_core.h: one level of coarsening.  Vertices are    *)
(* matched along heavy edges, by degree and otherwise in random order;     *)
(* when too many stay alone, vertices with a common neighbour are matched  *)
(* (Match_2HopAny, Match_2HopAll); the pairs become the coarse graph.      *)
(*                                                                         *)
(* Of several heaviest edges any may come first in a neighbour list.       *)
(* Fewer vertices than hash positions: sums of neighbours are not reduced. *)
(***************************************************************************)
EXTENDS Integers, FiniteSets, Sequences, SequencesExt, FiniteSetsExt, Functions

CONSTANTS
  N,            (* Vertices are 0 .. N - 1.                                 *)
  Graphs,       (* Records of vw (vertex weights) and ew (for every vertex, *)
                (* the weights of the edges to its neighbours).             *)
  MaxWeight     (* max_v_weight                                             *)

Id == 0 .. N - 1

ASSUME KWayMatchingAssumption ==
  /\ N \in Nat \ {0} /\ MaxWeight \in Nat
  /\ \A G \in Graphs :
       /\ G.vw \in [Id -> Nat]
       /\ \A u \in Id : \A v \in DOMAIN G.ew[u] :
            /\ v \in Id \ {u} /\ G.ew[u][v] \in Nat
            /\ u \in DOMAIN G.ew[v] /\ G.ew[v][u] = G.ew[u][v]

VARIABLES
  g,            (* The graph.                                               *)
  perm,         (* The order of the vertices.                               *)
  pi,           (* The position in it.                                      *)
  matching,
  nunmatched,
  lastUnmatched,
  byHop,        (* Ghost: the pairs that Match_2HopAll made.                *)
  mapping,
  pc

vars == <<g, perm, pi, matching, nunmatched, lastUnmatched, byHop, mapping, pc>>

UNMATCHED == -1

Nb(v) == DOMAIN g.ew[v]
Degree(G, v) == Cardinality(DOMAIN G.ew[v])
Sum(f, S) == SumFunctionOnSet(f, S)
Those(list, S) == FoldLeft(LAMBDA r, v : IF v \in S THEN Append(r, v) ELSE r, <<>>, list)
Pair(mt, u, v) == [mt EXCEPT ![u] = v, ![v] = u]
Alone(mt) == {v \in Id : mt[v] = UNMATCHED}

(* The buckets by which vertices are ordered: roots of the degrees, limited *)
(* by the average.                                                          *)
Root(x) == CHOOSE r \in 0 .. x : r * r <= x /\ (r + 1) * (r + 1) > x
Lesser(x, y) == IF x < y THEN x ELSE y
Bucket(G, v) ==
  Lesser(Root(1 + Degree(G, v)), 4 * (Sum([x \in Id |-> Degree(G, x)], Id) \div N))

Orders(G) ==
  {s \in SetToSeqs(Id) : \A i \in 1 .. N - 1 : Bucket(G, s[i]) <= Bucket(G, s[i + 1])}

Init ==
  /\ g \in Graphs
  /\ perm \in Orders(g)
  /\ pi = 0
  /\ matching = [v \in Id |-> UNMATCHED]
  /\ nunmatched = 0 /\ lastUnmatched = 0
  /\ byHop = {} /\ mapping = <<>>
  /\ pc = "heavy"

-----------------------------------------------------------------------------
(* heavy_edge_matching.  Positions in perm count from 0.                    *)
Partners(i) == {k \in Nb(i) : matching[k] = UNMATCHED /\ g.vw[i] + g.vw[k] <= MaxWeight}
Heaviest(i) == {k \in Partners(i) : \A x \in Partners(i) : g.ew[i][x] <= g.ew[i][k]}

(* The first unmatched vertex after a position, or else the vertex itself.  *)
FirstFrom(from, i) ==
  LET later == {j \in from .. N - 1 : matching[perm[j + 1]] = UNMATCHED}
  IN IF later = {} THEN i ELSE perm[Min(later) + 1]
StopAt(from) ==
  LET later == {j \in from .. N - 1 : matching[perm[j + 1]] = UNMATCHED}
  IN IF later = {} THEN N ELSE Min(later)

CountLast == 1
CountAlone == nunmatched + 1

Visit ==
  /\ pc = "heavy" /\ pi < N
  /\ pi' = pi + 1
  /\ LET i == perm[pi + 1]
         from == (IF pi > lastUnmatched THEN pi ELSE lastUnmatched) + 1
     IN IF matching[i] # UNMATCHED THEN UNCHANGED <<matching, nunmatched, lastUnmatched>>
        ELSE \/ /\ g.vw[i] >= MaxWeight
                /\ matching' = Pair(matching, i, i)
                /\ UNCHANGED <<nunmatched, lastUnmatched>>
             \/ /\ g.vw[i] < MaxWeight /\ Nb(i) = {}
                /\ matching' = Pair(matching, i, FirstFrom(from, i))
                /\ lastUnmatched' = StopAt(from)
                /\ UNCHANGED nunmatched
             \/ /\ g.vw[i] < MaxWeight /\ Nb(i) # {}
                /\ UNCHANGED lastUnmatched
                /\ \/ /\ \E k \in Heaviest(i) : matching' = Pair(matching, i, k)
                      /\ UNCHANGED nunmatched
                   \/ /\ Partners(i) = {} /\ 2 * g.vw[i] < MaxWeight
                      /\ nunmatched' = CountAlone
                      /\ UNCHANGED matching
                   \/ /\ Partners(i) = {} /\ 2 * g.vw[i] >= MaxWeight
                      /\ matching' = Pair(matching, i, i)
                      /\ UNCHANGED nunmatched
  /\ UNCHANGED <<g, perm, byHop, mapping, pc>>

EndVisits ==
  /\ pc = "heavy" /\ pi = N
  /\ pc' = IF 10 * nunmatched > N THEN "any2" ELSE "number"
  /\ UNCHANGED <<g, perm, pi, matching, nunmatched, lastUnmatched, byHop, mapping>>

-----------------------------------------------------------------------------
(* Match_2HopAny: of the unmatched neighbours of a vertex, the first is     *)
(* matched with the last, the second with the last but one.                 *)
PairEnds(mt, list) ==
  LET free == Those(list, Alone(mt))
  IN FoldLeft(LAMBDA r, x : Pair(r, free[x], free[Len(free) + 1 - x]), mt,
              [x \in 1 .. Len(free) \div 2 |-> x])

TwoHopAny(maxDegree) ==
  LET low == Those(perm, {v \in Alone(matching) : Degree(g, v) < maxDegree})
      around(i) == Those(low, {v \in Id : i \in Nb(v)})
  IN FoldLeft(LAMBDA mt, i : PairEnds(mt, around(i)), matching, perm)

HopAny(maxDegree) ==
  /\ matching' = TwoHopAny(maxDegree)
  /\ nunmatched' = nunmatched - (Cardinality(Alone(matching)) - Cardinality(Alone(matching')))
  /\ UNCHANGED <<g, perm, pi, lastUnmatched, byHop, mapping>>

(* Match_2HopAll: candidates with equal keys in any order, each matched     *)
(* with the first later one all of whose neighbours carry its mark.  All    *)
(* marks are 0 to begin with, which is also the mark of vertex 0.           *)
Key(v) == Sum([x \in Nb(v) |-> x], Nb(v)) * 64 + Degree(g, v)
TwinCandidates == {v \in Alone(matching) : Degree(g, v) > 1 /\ Degree(g, v) < 64}
CandidateOrders ==
  {s \in SetToSeqs(TwinCandidates) : \A i \in 1 .. Len(s) - 1 : Key(s[i]) <= Key(s[i + 1])}

Marked(mark, i) == [v \in Id |-> IF v \in Nb(i) THEN i ELSE mark[v]]
SameKeyAfter(s, x, mt, mark) ==
  {y \in x + 1 .. Len(s) : mt[s[y]] = UNMATCHED /\ Key(s[y]) = Key(s[x])}
TwinsAfter(s, x, mt, mark) ==
  {y \in x + 1 .. Len(s) :
     /\ mt[s[y]] = UNMATCHED /\ Key(s[y]) = Key(s[x])
     /\ \A v \in Nb(s[y]) : mark[v] = s[x]}

TwinStep(s, r, x) ==
  IF r.mt[s[x]] # UNMATCHED THEN r
  ELSE LET mark == Marked(r.mark, s[x])
           twins == TwinsAfter(s, x, r.mt, mark)
       IN [mark |-> mark,
           mt |-> IF twins = {} THEN r.mt ELSE Pair(r.mt, s[x], s[Min(twins)])]

TwoHopAll(s) ==
  FoldLeft(LAMBDA r, x : TwinStep(s, r, x),
           [mt |-> matching, mark |-> [v \in Id |-> 0]], [x \in 1 .. Len(s) |-> x]).mt

All ==
  /\ pc = "all"
  /\ \E s \in CandidateOrders : matching' = TwoHopAll(s)
  /\ LET made == Alone(matching) \ Alone(matching')
     IN /\ nunmatched' = nunmatched - Cardinality(made)
        /\ byHop' = {{v, matching'[v]} : v \in made}
  /\ pc' = IF 100 * nunmatched' > 15 * N THEN "any3"
           ELSE IF 10 * nunmatched' > 2 * N THEN "anyN" ELSE "number"
  /\ UNCHANGED <<g, perm, pi, lastUnmatched, mapping>>

AnyTwo == pc = "any2" /\ HopAny(2) /\ pc' = "all"
AnyThree ==
  pc = "any3" /\ HopAny(3) /\ pc' = IF 10 * nunmatched' > 2 * N THEN "anyN" ELSE "number"
AnyAll == pc = "anyN" /\ HopAny(N) /\ pc' = "number"

-----------------------------------------------------------------------------
(* The end of heavy_edge_matching: pairs are numbered by their smaller      *)
(* vertex.                                                                  *)
First(mt, v) == mt[v] = UNMATCHED \/ v <= mt[v]
NumberOfSmallerOnes(mt, v) ==
  Cardinality({x \in Id : First(mt, x) /\ x < IF First(mt, v) THEN v ELSE mt[v]})
Numbered(mt, v) == NumberOfSmallerOnes(mt, v)

Number ==
  /\ pc = "number"
  /\ mapping' = [v \in Id |-> Numbered(matching, v)]
  /\ matching' = [v \in Id |-> IF matching[v] = UNMATCHED THEN v ELSE matching[v]]
  /\ pc' = "done"
  /\ UNCHANGED <<g, perm, pi, nunmatched, lastUnmatched, byHop>>

(* coarse_graph goes through the pairs by their smaller vertex and counts   *)
(* the coarse vertices anew; neighbours are found by mapping.               *)
Leaders == {v \in Id : v <= matching[v]}
Leader(c) == CHOOSE v \in Leaders : Cardinality({x \in Leaders : x < v}) = c
PairOf(c) == {Leader(c), matching[Leader(c)]}
NearPairs(c) == (UNION {{mapping[x] : x \in Nb(v)} : v \in PairOf(c)}) \ {c}
WeightInto(v, d) == Sum([x \in Nb(v) |-> IF mapping[x] = d THEN g.ew[v][x] ELSE 0], Nb(v))
CoarseWeight(c, d) == Sum([v \in PairOf(c) |-> WeightInto(v, d)], PairOf(c))

CoarseGraph ==
  LET coarse == 0 .. Cardinality(Leaders) - 1
  IN [n |-> Cardinality(Leaders),
      vw |-> [c \in coarse |-> Sum(g.vw, PairOf(c))],
      ew |-> [c \in coarse |-> [d \in NearPairs(c) |-> CoarseWeight(c, d)]]]

Next == Visit \/ EndVisits \/ AnyTwo \/ All \/ AnyThree \/ AnyAll \/ Number

Spec == Init /\ [][Next]_vars

-----------------------------------------------------------------------------
(* Match_2HopAll reserves n_unmatched keys and stores one for every         *)
(* unmatched vertex: the counter, kept while vertices are matched one by    *)
(* one, never falls below their number.                                     *)
UnmatchedCounted ==
  pc \in {"any2", "all", "any3", "anyN"} => Cardinality(Alone(matching)) <= nunmatched

(* Match_2HopAll matches vertices with the same neighbours.  The marks are  *)
(* 0 from the start, so vertex 0 takes every neighbour that no earlier      *)
(* candidate has marked for its own; no other vertex is mistaken.           *)
TwinsButZero ==
  \A p \in byHop : 0 \in p \/ \A u, v \in p : Nb(u) = Nb(v)

(* heavy_edge_matching and coarse_graph number the coarse vertices apart    *)
(* from each other: under mapping, coarse vertices weigh what their         *)
(* vertices weigh and coarse edges what the edges between them weigh, so    *)
(* that a partition of the coarse graph costs what its projection costs.    *)
CoarseGraphFits ==
  pc = "done" =>
    LET C == CoarseGraph
        coarse == 0 .. C.n - 1
    IN /\ {mapping[v] : v \in Id} = coarse
       /\ \A c \in coarse :
            /\ C.vw[c] = Sum([v \in Id |-> IF mapping[v] = c THEN g.vw[v] ELSE 0], Id)
            /\ \A d \in coarse \ {c} :
                 Sum([v \in Id |-> Sum([x \in Nb(v) |->
                   IF mapping[v] = c /\ mapping[x] = d THEN g.ew[v][x] ELSE 0], Nb(v))], Id)
                 = IF d \in DOMAIN C.ew[c] THEN C.ew[c][d] ELSE 0
       /\ \A v \in Id : Cardinality({x \in Id : mapping[x] = mapping[v]}) <= 2

(* No pair is heavier than max_v_weight unless one has no neighbours.       *)
PairsAreLight ==
  pc = "done" =>
    \A v \in Id : matching[v] # v /\ Nb(v) # {} /\ Nb(matching[v]) # {}
                  => g.vw[v] + g.vw[matching[v]] <= MaxWeight

(* The two-hop passes do not overrun the array of keys, and what they match *)
(* is light enough and contracted right (heavy_edge_matching, coarse_graph). *)
MatchingSound == UnmatchedCounted /\ PairsAreLight /\ CoarseGraphFits
=============================================================================
