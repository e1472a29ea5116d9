---------------------------- MODULE GlobalPaths -----------------------------
(***************************************************************************)
(* coarsening/global_path_algorithm.h: a matching for one coarsening step. *)
(* The rated edges are taken from the best to the worst and grow a set of  *)
(* paths and of cycles of even length (extract_paths).  Every path and     *)
(* cycle is then matched optimally by a dynamic program (solve_all_paths). *)
(* When too few vertices are matched, vertices at distance two follow      *)
(* (two-hop).     Threads share neither a path nor a cycle, so they are     *)
(* solved one at a time, in any order.                                     *)
(*                                                                         *)
(* The weights w1 and w2 of Neighbors are the ratings of the edges to n1   *)
(* and n2.  The random order of equal ratings is a choice.                 *)
(***************************************************************************)
EXTENDS Graph

CONSTANTS
  P,              (* The block of every vertex (p_manager).                  *)
  MaxW,           (* lmax, the largest weight of a coarse vertex.            *)
  MaxRating,      (* Ratings are 1 .. MaxRating.                             *)
  Noise,          (* small_noise: another number for every pair of vertices. *)
  NoiseBase,      (* Larger than any noise.                                  *)
  RandomLevel,    (* Levels below it are matched at random.                  *)
  Quarters        (* two_hop_threshold, in quarters.                         *)

GlobalPathsAssumption ==
  /\ P \in [Vertex -> Block] /\ MaxW \in Nat /\ MaxRating \in Nat
  /\ \A u, v \in Vertex : Noise[{u, v}] \in 0 .. NoiseBase - 1
  /\ RandomLevel \in Nat /\ Quarters \in 0 .. 4

VARIABLES
  level, uniform, (* The level, and whether all weights of the graph are 1.  *)
  rating,         (* The rating of every edge that may be matched.           *)
  pending,        (* The edges not yet processed.                            *)
  nbr,            (* m_neighbors[u] = <<n1, n2>>.                            *)
  pathId, pathLength, cycles,
  solved,         (* The starts of the paths and cycles already solved.      *)
  partner, matchesSize,
  coarse,         (* mapping and its coarse_n.                               *)
  phase

vars == <<level, uniform, rating, pending, nbr, pathId, pathLength, cycles,
          solved, partner, matchesSize, coarse, phase>>
pathVars == <<nbr, pathId, pathLength, cycles>>
matchVars == <<partner, matchesSize>>
inputVars == <<level, uniform, rating>>

FitTogether(u, v) == VertexWeight[u] + VertexWeight[v] <= MaxW
Rated == {e \in Vertex \X Vertex :
            /\ e[1] < e[2] /\ e[2] \in Adj(e[1])
            /\ P[e[1]] = P[e[2]] /\ FitTogether(e[1], e[2])}
W(u, v) == rating[IF u < v THEN <<u, v>> ELSE <<v, u>>]

Init ==
  /\ level \in {0, RandomLevel} /\ uniform \in BOOLEAN
  /\ rating \in [Rated -> 1 .. MaxRating]
  /\ pending = Rated
  /\ nbr = [u \in Vertex |-> <<u, u>>]
  /\ pathId = [u \in Vertex |-> u]
  /\ pathLength = [u \in Vertex |-> 0]
  /\ cycles = {} /\ solved = {}
  /\ partner = [u \in Vertex |-> u]
  /\ matchesSize = 0
  /\ coarse = [n |-> 0, of |-> [u \in Vertex |-> u]]
  /\ phase = "start"

-----------------------------------------------------------------------------
(* match_templated and the greedy matchings that need no rating.            *)

(* Every vertex in order takes its first unmatched neighbour of those ok    *)
(* allows.                                                                  *)
Greedy(ok(_, _)) ==
  LET free(m, u) == {v \in Adj(u) : ~ Matched(m, v) /\ ok(u, v)}
      m[i \in 0 .. Cardinality(Vertex)] ==
        IF i = 0 THEN [x \in Vertex |-> x]
        ELSE LET u == Ascending(Vertex)[i]
                 cur == m[i - 1]
             IN IF Matched(cur, u) \/ free(cur, u) = {} THEN cur
                ELSE Paired(cur, u, Min(free(cur, u)))
  IN m[Cardinality(Vertex)]

GreedyStart(ok(_, _)) ==
  /\ partner' = Greedy(ok)
  /\ matchesSize' = Cardinality(Pairs(partner'))
  /\ phase' = "finalize"
  /\ UNCHANGED <<inputVars, pending, pathVars, solved, coarse>>

SimpleLoop ==
  /\ phase = "start" /\ uniform
  /\ GreedyStart(LAMBDA u, v : P[u] = P[v])

RandomMatching ==
  /\ phase = "start" /\ ~ uniform /\ level < RandomLevel
  /\ GreedyStart(FitTogether)

StartPaths ==
  /\ phase = "start" /\ ~ uniform /\ level >= RandomLevel
  /\ phase' = "extract"
  /\ UNCHANGED <<inputVars, pending, pathVars, solved, matchVars, coarse>>

-----------------------------------------------------------------------------
(* extract_paths: process_edge on the best pending edge.                    *)

Inner(u) == nbr[u][2] # u
Unmatched(u) == nbr[u][1] = u
OneEndpoint(u) == ~ Inner(u) /\ ~ Unmatched(u)

(* The neighbour of v on its path that is not from.                         *)
Other(nb, v, from) == IF nb[v][1] = from THEN nb[v][2] ELSE nb[v][1]

(* The vertices from v on, coming from the given one, to the end of a path. *)
Walk(nb, from, v) ==
  LET walk[a \in Vertex, b \in Vertex] ==
        IF nb[b][2] = b THEN <<b>> ELSE <<b>> \o walk[b, Other(nb, b, a)]
  IN walk[from, v]

(* The pending edge taken next: none pending has a better rating.  The      *)
(* merge of the threads' sorted lists skips edges with an inner end, which  *)
(* process_edge would ignore.                                               *)
TakeAny(e) ==
  /\ phase = "extract" /\ e \in pending
  /\ pending' = pending \ {e}
  /\ UNCHANGED <<inputVars, solved, matchVars, coarse, phase>>

TakeBest(e) ==
  /\ phase = "extract" /\ e \in pending
  /\ \A f \in pending : rating[f] <= rating[e]
  /\ pending' = pending \ {e}
  /\ UNCHANGED <<inputVars, solved, matchVars, coarse, phase>>

SkipInner(e) ==
  /\ TakeBest(e)
  /\ Inner(e[1]) \/ Inner(e[2])
  /\ UNCHANGED pathVars

NewPath(e) ==
  /\ TakeBest(e)
  /\ Unmatched(e[1]) /\ Unmatched(e[2])
  /\ nbr' = [nbr EXCEPT ![e[1]][1] = e[2], ![e[2]][1] = e[1]]
  /\ pathId' = [pathId EXCEPT ![e[1]] = e[1], ![e[2]] = e[1]]
  /\ pathLength' = [pathLength EXCEPT ![e[1]] = 1]
  /\ UNCHANGED cycles

Extend(e) ==
  /\ TakeBest(e)
  /\ \E u, v \in {e[1], e[2]} :
       /\ Unmatched(u) /\ OneEndpoint(v)
       /\ nbr' = [nbr EXCEPT ![u][1] = v, ![v][2] = u]
       /\ pathId' = [pathId EXCEPT ![u] = pathId[v]]
       /\ pathLength' = [pathLength EXCEPT ![pathId[v]] = @ + 1]
  /\ UNCHANGED cycles

TwoEnds(e) == OneEndpoint(e[1]) /\ OneEndpoint(e[2])
Linked(u, v) == [nbr EXCEPT ![u][2] = v, ![v][2] = u]

(* A path with an odd number of edges becomes a cycle; an even one does not. *)
CloseCycle(e) ==
  /\ TakeBest(e)
  /\ TwoEnds(e) /\ pathId[e[1]] = pathId[e[2]]
  /\ IF pathLength[pathId[e[1]]] % 2 = 1
     THEN /\ pathLength' = [pathLength EXCEPT ![pathId[e[1]]] = @ + 1]
          /\ nbr' = Linked(e[1], e[2])
          /\ cycles' = cycles \cup {e[1]}
     ELSE UNCHANGED <<pathLength, nbr, cycles>>
  /\ UNCHANGED pathId

(* The identifiers after two paths are joined: the shorter one's vertices,  *)
(* from its joined end on, get the identifier of the longer one.            *)
RelabelFirst(nb, from, v, id) == [pathId EXCEPT ![v] = id]
Relabel(nb, from, v, id) ==
  LET moved == ToSet(Walk(nb, from, v))
  IN [x \in Vertex |-> IF x \in moved THEN id ELSE pathId[x]]

Join(e) ==
  /\ TakeBest(e)
  /\ TwoEnds(e) /\ pathId[e[1]] # pathId[e[2]]
  /\ LET longer == IF pathLength[pathId[e[1]]] > pathLength[pathId[e[2]]]
                   THEN e[1] ELSE e[2]
         shorter == IF longer = e[1] THEN e[2] ELSE e[1]
         joined == Linked(e[1], e[2])
     IN /\ nbr' = joined
        /\ pathLength' = [pathLength EXCEPT
             ![pathId[longer]] = @ + 1 + pathLength[pathId[shorter]]]
        /\ pathId' = Relabel(joined, longer, shorter, pathId[longer])
  /\ UNCHANGED cycles

ExtractEnds ==
  /\ phase = "extract" /\ pending = {}
  /\ phase' = "solve"
  /\ UNCHANGED <<inputVars, pending, pathVars, solved, matchVars, coarse>>

-----------------------------------------------------------------------------
(* solve_all_paths.                                                         *)

(* solve_path on the vertices of a path: the pairs (by position) of a       *)
(* heaviest matching, and its weight.                                       *)
Solve(path) ==
  LET w(i) == W(path[i], path[i + 1])
      dp[i \in -1 .. Len(path) - 1] ==
        IF i < 1 THEN [w |-> 0, pairs |-> {}]
        ELSE LET taken == dp[i - 2].w + w(i)
             IN IF taken > dp[i - 1].w \/ (Len(path) = 3 /\ i = 2 /\ taken = dp[1].w)
                THEN [w |-> taken,
                      pairs |-> dp[i - 2].pairs \cup {<<path[i], path[i + 1]>>}]
                ELSE dp[i - 1]
  IN dp[Len(path) - 1]

AddPairs(pairs) ==
  /\ partner' = AddAll(partner, pairs)
  /\ matchesSize' = matchesSize + Cardinality(pairs)

(* A path is solved from the smaller of its two ends.                       *)
PathStarts ==
  {u \in Vertex : OneEndpoint(u) /\ u < Last(Walk(nbr, u, nbr[u][1]))}

SolvePath(u) ==
  /\ phase = "solve" /\ u \in PathStarts \ solved
  /\ AddPairs(Solve(<<u>> \o Walk(nbr, u, nbr[u][1])).pairs)
  /\ solved' = solved \cup {u}
  /\ UNCHANGED <<inputVars, pending, pathVars, coarse, phase>>

(* The neighbours once the edge between two neighbours on a cycle is gone.  *)
Cut(u, v) ==
  LET rest(x, y) == <<Other(nbr, x, y), x>>
  IN [nbr EXCEPT ![u] = rest(u, v), ![v] = rest(v, u)]

(* solve_cycle: the heavier of the matchings without one edge at u.         *)
HeavierOf(a, b) == IF a.w > b.w THEN a ELSE b

SolveCycle(u) ==
  /\ phase = "solve" /\ PathStarts \subseteq solved
  /\ u \in cycles \ solved
  /\ LET without(v) == LET nb == Cut(u, v)
                       IN Solve(<<u>> \o Walk(nb, u, nb[u][1]))
     IN AddPairs(HeavierOf(without(nbr[u][1]), without(nbr[u][2])).pairs)
  /\ solved' = solved \cup {u}
  /\ UNCHANGED <<inputVars, pending, pathVars, coarse, phase>>

SolveEnds ==
  /\ phase = "solve" /\ PathStarts \cup cycles \subseteq solved
  /\ phase' = "leaves"
  /\ UNCHANGED <<inputVars, pending, pathVars, solved, matchVars, coarse>>

-----------------------------------------------------------------------------
(* The two-hop matchings, each only when too few vertices are matched.      *)

TooFew == matchesSize * 2 * 4 < Quarters * Cardinality(Vertex)

(* The candidate of u with the best rating through a common neighbour.      *)
Prefer(u, reach) ==
  LET score(c) == (EdgeWeight[u][c[1]] + EdgeWeight[c[1]][c[2]]) * NoiseBase
                  + Noise[{u, c[2]}]
  IN IF reach = {} THEN u
     ELSE (CHOOSE c \in reach : \A d \in reach : score(d) <= score(c))[2]

Leaf(u) == Cardinality(Adj(u)) = 1

(* Pairs of unmatched vertices of U that prefer each other.                 *)
Mutual(U) ==
  LET reach(u) == {c \in Adj(u) \X (U \ {u}) :
                     c[2] \in Adj(c[1]) /\ FitTogether(u, c[2])}
      preferred == [u \in U |-> Prefer(u, reach(u))]
  IN {<<u, preferred[u]>> : u \in {x \in U : x < preferred[x]
                                          /\ preferred[preferred[x]] = x}}

Free == {u \in Vertex : ~ Matched(partner, u)}
FreeLeaves == {u \in Free : Leaf(u)}
LeafPairs == Mutual(FreeLeaves)

(* two_hop_twins: within a group of vertices with the same weighted         *)
(* neighbourhood, from the lightest on, each takes the first that fits.     *)
SameNeighbourhood(u, v) == EdgeWeight[u] = EdgeWeight[v]
TwinOrder(S) ==
  SetToSortSeq(S, LAMBDA a, b : \/ VertexWeight[a] < VertexWeight[b]
                                \/ VertexWeight[a] = VertexWeight[b] /\ a < b)
GroupPairs(S) ==
  LET seq == TwinOrder(S)
      pairs[i \in 0 .. Len(seq)] ==
        IF i = 0 THEN {}
        ELSE LET used == UNION {{p[1], p[2]} : p \in pairs[i - 1]}
                 later == {j \in i + 1 .. Len(seq) :
                             seq[j] \notin used /\ FitTogether(seq[i], seq[j])}
             IN IF seq[i] \in used \/ later = {} THEN pairs[i - 1]
                ELSE pairs[i - 1] \cup {<<seq[i], seq[Min(later)]>>}
  IN pairs[Len(seq)]
TwinPairs == UNION {GroupPairs({v \in Free : SameNeighbourhood(u, v)}) : u \in Free}

TwoHop(at, pairs, next) ==
  /\ phase = at
  /\ IF TooFew THEN AddPairs(pairs) ELSE UNCHANGED matchVars
  /\ phase' = next
  /\ UNCHANGED <<inputVars, pending, pathVars, solved, coarse>>

TwoHopDegreeOne == TwoHop("leaves", LeafPairs, "twins")
TwoHopTwins == TwoHop("twins", TwinPairs, "matchmaker")
TwoHopMatchmaker == TwoHop("matchmaker", Mutual(Free), "finalize")

(* finalize_matching                                                        *)
Finalize ==
  /\ phase = "finalize"
  /\ coarse' = [n |-> Cardinality(Vertex) - matchesSize, of |-> Translation(partner)]
  /\ phase' = "done"
  /\ UNCHANGED <<inputVars, pending, pathVars, solved, matchVars>>

Next ==
  \/ SimpleLoop \/ RandomMatching \/ StartPaths
  \/ \E e \in pending :
       \/ SkipInner(e) \/ NewPath(e) \/ Extend(e) \/ CloseCycle(e) \/ Join(e)
  \/ ExtractEnds
  \/ \E u \in Vertex : SolvePath(u) \/ SolveCycle(u)
  \/ SolveEnds \/ TwoHopDegreeOne \/ TwoHopTwins \/ TwoHopMatchmaker \/ Finalize

Spec == Init /\ [][Next]_vars

-----------------------------------------------------------------------------
(* The edges of the paths and cycles, and those on u's.                     *)
PathEdges == {e \in Rated : e[2] \in {nbr[e[1]][1], nbr[e[1]][2]}}
Reachable(u) ==
  LET step(S) == S \cup UNION {{nbr[x][1], nbr[x][2]} : x \in S}
      grow[i \in 0 .. Cardinality(Vertex)] == IF i = 0 THEN {u} ELSE step(grow[i - 1])
  IN grow[Cardinality(Vertex)]
EdgesOn(u) == {e \in PathEdges : e[1] \in Reachable(u)}

(* Both ends of a path agree on its identifier, what is recorded as its     *)
(* length is the number of its edges, and it is a cycle only if that number *)
(* is even.                                                                 *)
PathsWellFormed ==
  \A u \in Vertex :
    /\ OneEndpoint(u) =>
         /\ pathId[Last(Walk(nbr, u, nbr[u][1]))] = pathId[u]
         /\ pathLength[pathId[u]] = Cardinality(EdgesOn(u))
    /\ u \in cycles =>
         /\ \A x \in Reachable(u) : Inner(x)
         /\ Cardinality(EdgesOn(u)) % 2 = 0
         /\ pathLength[pathId[u]] = Cardinality(EdgesOn(u))

IsMatching(M) == \A e, f \in M : e # f => {e[1], e[2]} \cap {f[1], f[2]} = {}
Weight(M) == MapThenSumSet(LAMBDA e : rating[e], M)
MatchedEdges == {e \in Rated : partner[e[1]] = e[2]}

(* Paths and cycles stay well formed while extract_paths joins them, and    *)
(* solve_path and solve_cycle find the best on each: no matching of its     *)
(* edges is heavier than the one chosen.                                    *)
SolvedHeaviest ==
  /\ PathsWellFormed
  /\ phase = "solve" =>
       \A u \in solved : \A M \in SUBSET EdgesOn(u) :
         IsMatching(M) => Weight(M) <= Weight(MatchedEdges \cap EdgesOn(u))

(* The guarantee of the algorithm: paths grown from the best edges on hold  *)
(* at least half the weight of a heaviest matching of all rated edges.      *)
HalfOfTheBest ==
  phase = "leaves" =>
    \A M \in SUBSET Rated : IsMatching(M) => Weight(M) <= 2 * Weight(MatchedEdges)

(* The ratings and the loop for uniform weights ask for one block: when the *)
(* paths are solved, and when that loop ends, no pair crosses blocks.  The   *)
(* random matching and the two-hop passes do not ask, so a coarse vertex    *)
(* may hold vertices of two blocks.                                         *)
BlocksKeptApart ==
  phase = "leaves" \/ (phase = "finalize" /\ uniform) =>
    \A u \in Vertex : P[partner[u]] = P[u]

(* Whichever way the matching was found, the mapping that contraction reads *)
(* numbers the coarse vertices 0 .. n - 1 and puts one or two vertices into *)
(* each; with the graph's weights, two only when they fit together.         *)
MappingContracts ==
  phase = "done" =>
    /\ \A u \in Vertex : coarse.of[u] \in 0 .. coarse.n - 1
    /\ \A c \in 0 .. coarse.n - 1 :
         LET S == {u \in Vertex : coarse.of[u] = c}
         IN /\ Cardinality(S) \in {1, 2}
            /\ \A u, v \in S : u = v \/ uniform \/ FitTogether(u, v)
=============================================================================
