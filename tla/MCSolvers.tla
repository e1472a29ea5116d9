------------------------------ MODULE MCSolvers -----------------------------
(* The algorithms the mapping calls, one of which runs while the others     *)
(* have ended: the assignment of clusters to processing elements (every     *)
(* 3 x 3 matrix of the costs 0, 1 and 3); the distance oracles (hierarchies *)
(* of up to three levels of one to three groups, and three with more); the  *)
(* heap with index (five keys, one of them beyond the first capacity); the  *)
(* flow through networks of three inner nodes and the search for a closure, *)
(* of up to two components exactly; and the greedy matching of heavy edges, *)
(* in every order: a triangle with unequal edges and vertices, a vertex of  *)
(* another block next to it, and an edge that is a component by itself.     *)
EXTENDS Hungarian, DistanceOracles, HeavyEdge, TLC

CONSTANTS k1, k2, k3, k4, k5, Priorities, MinCapacity, MaxIteration,
          Limits, Average, ExactLimit

VARIABLES valid, heap, indices, iteration, counter, taken,
          hierarchy, a, b,
          net, cap, excess, height, cur, cnt, fifo, at, work, scc, closure

HeavyVertex == 0 .. 5
HeavyEdges == {0, 1} :> 1 @@ {1, 2} :> 3 @@ {0, 2} :> 2 @@ {0, 3} :> 3 @@ {2, 3} :> 3 @@ {4, 5} :> 1
HeavyEdgeWeight == [x \in HeavyVertex |-> [y \in HeavyVertex |->
                     IF {x, y} \in DOMAIN HeavyEdges THEN HeavyEdges[{x, y}] ELSE 0]]
HeavyVertexWeight == [x \in HeavyVertex |-> 1 + (x % 3)]
HeavyBlocks == {0, 1}
HeavyP == [x \in HeavyVertex |-> IF x = 3 THEN 1 ELSE 0]

Keys == {k1, k2, k3, k4, k5}
Symmetry == Permutations(Keys)
Heap == INSTANCE IndexedMaxHeap

(* distance_oracles/verify_distance_oracles.h: walk all pairs a < b of       *)
(* elements of a hierarchy and compare the four oracles.  The cases there   *)
(* are three fixed hierarchies.                                             *)
Hierarchies == UNION {[1 .. l -> 1 .. 3] : l \in 1 .. 3} \cup {<<4, 4>>, <<2, 3, 5>>, <<5, 1, 4>>}

InitOracles ==
  /\ hierarchy \in Hierarchies
  /\ K(hierarchy) > 1
  /\ a = 0 /\ b = 1

NextPair ==
  /\ IF b + 1 < K(hierarchy) THEN b' = b + 1 /\ a' = a
     ELSE a + 2 < K(hierarchy) /\ a' = a + 1 /\ b' = a + 2
  /\ UNCHANGED hierarchy

(* verify_distance_oracles_case: all oracles put a pair on the same level,  *)
(* hence at the same distance.                                              *)
SameLevel ==
  /\ MatrixLevel(hierarchy, a, b) = DivisionLevel(hierarchy, a, b)
  /\ MatrixLevel(hierarchy, a, b) = StoredLevel(hierarchy, a, b)
  /\ MatrixLevel(hierarchy, a, b) = BinaryLevel(hierarchy, a, b)

(* What the edge-cut shortcut of label propagation relies on: the elements  *)
(* that last_level_pair puts together are at the lowest level, and every    *)
(* other element is as far from the one as from the other.                  *)
LastLevelPairsAreEquidistant ==
  LastLevelPair(hierarchy, a, b) =>
    \A x \in (0 .. K(hierarchy) - 1) \ {a, b} :
      DivisionLevel(hierarchy, x, a) = DivisionLevel(hierarchy, x, b)

(* Source 3 and target 4; some inner nodes touch neither.                   *)
Between == {0, 1} :> {0, 1} @@ {1, 2} :> {1} @@ {0, 2} :> {0, 2}
Networks ==
  {[x \in 0 .. 4 |-> [y \in 0 .. 4 |->
      CASE x = 3 /\ y < 3 -> s[y]
        [] y = 4 /\ x < 3 -> t[x]
        [] x < 3 /\ y < 3 /\ x # y -> m[{x, y}]
        [] OTHER -> 0]] :
   s \in [0 .. 2 -> {0, 1, 3}], t \in [0 .. 2 -> {0, 2}],
   m \in {f \in [DOMAIN Between -> 0 .. 2] : \A e \in DOMAIN Between : f[e] \in Between[e]}}
NodeWeight == [x \in 0 .. 2 |-> x + 1]
Flow == INSTANCE MaxFlow WITH N <- 5

ASSUME Heap!HeapAssumption
ASSUME Flow!FlowAssumption

heapVars == <<valid, heap, indices, iteration, counter, taken>>
oracleVars == <<hierarchy, a, b>>
flowVars == <<net, cap, excess, height, cur, cnt, fifo, at, work, scc, closure>>
solverVars == <<vars, heapVars, oracleVars, flowVars, heavyVars>>

Ended == "ended"
AssignmentEnded ==
  /\ pc = Ended /\ cost = 0 /\ i = 0 /\ j0 = 0 /\ u = 0 /\ v = 0
  /\ p = 0 /\ way = 0 /\ minv = 0 /\ used = {}
HeapEnded == valid = {} /\ heap = <<>> /\ iteration = 0 /\ indices = <<>> /\ counter = <<>> /\ taken = 0
OraclesEnded == hierarchy = <<>> /\ a = 0 /\ b = 0
FlowEnded ==
  /\ at = 5 /\ net = 0 /\ cap = 0 /\ excess = 0 /\ height = 0 /\ cur = 0 /\ cnt = 0
  /\ fifo = <<>> /\ work = 0 /\ scc = 0 /\ closure = 0

(* The matching is not ended, it just does not begin.                       *)
HeavyEnded ==
  /\ rating = Ended /\ order = [x \in 1 .. 6 |-> x - 1] /\ visited = 0
  /\ partner = [x \in HeavyVertex |-> x] /\ coarse = partner

MCInit ==
  \/ Init /\ HeapEnded /\ OraclesEnded /\ FlowEnded /\ HeavyEnded
  \/ Heap!Init /\ AssignmentEnded /\ OraclesEnded /\ FlowEnded /\ HeavyEnded
  \/ InitOracles /\ AssignmentEnded /\ HeapEnded /\ FlowEnded /\ HeavyEnded
  \/ Flow!InitFlow /\ AssignmentEnded /\ HeapEnded /\ OraclesEnded /\ HeavyEnded
  \/ InitHeavy /\ AssignmentEnded /\ HeapEnded /\ OraclesEnded /\ FlowEnded

MCNext ==
  \/ pc # Ended /\ Next /\ UNCHANGED <<heapVars, oracleVars, flowVars, heavyVars>>
  \/ valid # {} /\ Heap!Next /\ UNCHANGED <<vars, oracleVars, flowVars, heavyVars>>
  \/ hierarchy # <<>> /\ NextPair /\ UNCHANGED <<vars, heapVars, flowVars, heavyVars>>
  \/ at # 5 /\ Flow!NextFlow /\ UNCHANGED <<vars, heapVars, oracleVars, heavyVars>>
  \/ rating # Ended /\ NextHeavy /\ UNCHANGED <<vars, heapVars, oracleVars, flowVars>>

MCSpec == MCInit /\ [][MCNext]_solverVars

(* See above, IndexedMaxHeap and MaxFlow.                                   *)
OraclesAgree == hierarchy # <<>> => SameLevel /\ LastLevelPairsAreEquidistant
ImplementsMaxQueue == Heap!ImplementsMaxQueue

FlowsAndClosuresSound ==
  at # 5 => Flow!FlowIsMinCut /\ Flow!ComponentsStrong /\ Flow!ClosureSound
=============================================================================
