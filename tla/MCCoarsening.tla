---------------------------- MODULE MCCoarsening ----------------------------
(* One of two ways to coarsen runs, the other has ended.                    *)
(*                                                                         *)
(* merge_when_identity by three threads: a triangle with a vertex hanging   *)
(* from it, one vertex of another block and one that is too heavy for any   *)
(* neighbour.                                                               *)
(*                                                                         *)
(* Global paths: two triangles sharing an edge, with a vertex hanging at 3: *)
(* paths of up to four edges, a cycle of four and odd cycles are grown from *)
(* every rating of the six edges.  The three leaves at 0 fit each other but *)
(* not 0, two vertices have no edge at all: these are left to the two-hop   *)
(* passes.  A leaf at 0 and one at 4 are in another block than the rest, as *)
(* in the cycles of init_partitioning/global_multisection.h, which match    *)
(* under a partition.                                                       *)
EXTENDS MergeWhenIdentity, TLC

VARIABLES
  level, uniform, rating, pending, nbr, pathId, pathLength, cycles, solved,
  partner, matchesSize, coarse, phase

Weights(V, edges) == [u \in V |-> [v \in V |->
                        IF {u, v} \in DOMAIN edges THEN edges[{u, v}] ELSE 0]]

MCVertex == 0 .. 4
MCBlock == {0, 1}
MCEdgeWeight ==
  Weights(MCVertex, {0, 1} :> 1 @@ {1, 2} :> 2 @@ {0, 2} :> 1 @@ {2, 3} :> 2 @@ {3, 4} :> 3)
MCVertexWeight == [u \in MCVertex |-> IF u = 3 THEN 2 ELSE 1]
MCP == [u \in MCVertex |-> IF u = 4 THEN 1 ELSE 0]
MCThreads == Permutations(Thread)

PathVertex == 0 .. 10
Paths == INSTANCE GlobalPaths WITH
  Vertex <- PathVertex,
  EdgeWeight <- Weights(PathVertex, {0, 1} :> 1 @@ {0, 2} :> 2 @@ {1, 3} :> 1 @@ {2, 3} :> 2
                          @@ {1, 2} :> 1 @@ {3, 4} :> 1 @@ {0, 5} :> 1 @@ {0, 6} :> 2
                          @@ {0, 7} :> 2 @@ {4, 10} :> 1),
  VertexWeight <- [u \in PathVertex |-> IF u = 0 THEN 3 ELSE IF u \in 5 .. 8 THEN 2 ELSE 1],
  P <- [u \in PathVertex |-> IF u \in {7, 10} THEN 1 ELSE 0], MaxW <- 4, MaxRating <- 3,
  Noise <- [S \in {{u, v} : u, v \in PathVertex} |-> Min(S) * 11 + Max(S)],
  NoiseBase <- 121, RandomLevel <- 1, Quarters <- 4

ASSUME Paths!GlobalPathsAssumption

merging == vars
paths == <<level, uniform, rating, pending, nbr, pathId, pathLength, cycles, solved,
           partner, matchesSize, coarse, phase>>
MergingEnded ==
  /\ mapping = [u \in Vertex |-> u] /\ used = {} /\ todo = {}
  /\ th = [t \in Thread |-> Idle]
PathsEnded ==
  /\ level = 0 /\ uniform = FALSE /\ rating = <<>> /\ pending = {} /\ cycles = {}
  /\ nbr = [u \in PathVertex |-> <<u, u>>] /\ pathId = [u \in PathVertex |-> u]
  /\ pathLength = [u \in PathVertex |-> 0] /\ solved = {} /\ matchesSize = 0
  /\ partner = [u \in PathVertex |-> u] /\ coarse = [n |-> 0, of |-> <<>>]
  /\ phase = "ended"
MCInit ==
  \/ Init /\ PathsEnded
  \/ MergingEnded /\ Paths!Init

MCNext ==
  \/ Next /\ UNCHANGED paths
  \/ phase # "ended" /\ Paths!Next /\ UNCHANGED merging

MCSpec == MCInit /\ [][MCNext]_<<merging, paths>>

(* The properties of GlobalPaths, when it runs: paths are solved optimally; *)
(* the matching weighs half of the best one and pairs vertices of one block *)
(* until the two-hop passes; and what contraction is given numbers the      *)
(* coarse vertices without a gap.                                           *)
SolvedHeaviest == phase # "ended" => Paths!SolvedHeaviest
PathMatchingSound ==
  Paths!HalfOfTheBest /\ Paths!BlocksKeptApart /\ Paths!MappingContracts
=============================================================================
