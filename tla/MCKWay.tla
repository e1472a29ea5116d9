------------------------------- MODULE MCKWay -------------------------------
(* The steps of the k-way partitioner, one at a time: matching on graphs of *)
(* six vertices (a star, two stars, vertices without neighbours, twins, and *)
(* vertices whose neighbours have the same sum); its heap with six values,  *)
(* so that the last node may have to rise in the place of one in the other  *)
(* half; recursive bisection into two, three and four blocks; refinement of *)
(* three blocks on two levels.  For balancing to be needed, a graph must    *)
(* have a heavy vertex and eight vertices at least.                         *)
EXTENDS KWayMatching, TLC

CONSTANTS
  v1, v2, v3, v4, v5, v6, Priorities,
  UbNum, UbDen, FMLimit, MaxIter, Tries, Blocks, ImbNum, ImbDen, Slack, Passes

VARIABLES
  heap, locator, taken,
  todo, coarseOf, bg, place, stage, grow, b, mincut, ls, best, kpart, cuts, whole,
  levels, rg, step, s, run

From(weights, edges) ==
  [vw |-> weights,
   ew |-> [u \in Id |-> [v \in {x \in Id : \E e \in edges : {u, x} = {e[1], e[2]}} |->
             (CHOOSE e \in edges : {u, v} = {e[1], e[2]})[3]]]]

MCGraphs == {
  From([v \in Id |-> IF v = 5 THEN 4 ELSE 1], {<<5, v, 1>> : v \in 0 .. 4}),
  From([v \in Id |-> IF v = 3 THEN 3 ELSE 2],
       {<<0, 1, 2>>, <<1, 2, 2>>, <<2, 3, 1>>, <<4, 1, 1>>}),
  From([v \in Id |-> IF v \in {0, 5} THEN 4 ELSE 1],
       {<<0, 1, 1>>, <<0, 2, 1>>, <<0, 3, 1>>, <<5, 1, 1>>, <<5, 2, 1>>, <<5, 4, 1>>}),
  From([v \in Id |-> IF v \in {0, 5} THEN 1 ELSE 4],
       {<<0, 1, 1>>, <<0, 4, 1>>, <<5, 2, 1>>, <<5, 3, 1>>}),
  From([v \in Id |-> IF v \in {2, 5} THEN 1 ELSE 4],
       {<<5, 0, 1>>, <<5, 4, 1>>, <<2, 1, 1>>, <<2, 3, 1>>}) }

MCNodes == {v1, v2, v3, v4, v5, v6}
Symmetry == Permutations(MCNodes)

-----------------------------------------------------------------------------
KG == INSTANCE KWayGraph

Weighted(weights, edges) ==
  LET n == Len(weights)
  IN  [n |-> n, vw |-> [v \in 0 .. n - 1 |-> weights[v + 1]],
       ew |-> [u \in 0 .. n - 1 |-> [v \in 0 .. n - 1 |->
                 MapThenSumSet(LAMBDA e : IF {u, v} = {e[1], e[2]} THEN e[3] ELSE 0, edges)]]]

(* The numbering that contracts pairs.                                      *)
Numbering(n, pairs) ==
  LET leader(v) == IF \E p \in pairs : p[2] = v THEN (CHOOSE p \in pairs : p[2] = v)[1] ELSE v
  IN  [v \in 0 .. n - 1 |->
         Cardinality({leader(x) : x \in {y \in 0 .. n - 1 : leader(y) < leader(v)}})]

Star == Weighted(<<2, 4, 4, 1, 1, 1, 1, 2>>,
  {<<0, 1, 1>>, <<1, 2, 3>>, <<2, 3, 1>>, <<2, 4, 1>>, <<2, 5, 1>>, <<2, 6, 1>>, <<1, 7, 1>>})
TwoPaths == Weighted(<<1, 1, 8, 1, 1, 1, 1, 1>>,
  {<<0, 1, 1>>, <<2, 3, 1>>, <<3, 4, 1>>, <<4, 5, 1>>, <<5, 6, 1>>, <<6, 7, 1>>})
Kite == Weighted(<<2, 1, 1, 2, 1>>,
  {<<0, 1, 2>>, <<1, 2, 1>>, <<0, 2, 1>>, <<2, 3, 3>>, <<1, 4, 2>>})
Loose == Weighted(<<1, 1, 2, 1, 1>>, {<<0, 1, 2>>, <<1, 2, 1>>, <<0, 3, 1>>, <<2, 3, 3>>})

MCJobs == {[g |-> Star, k |-> 2], [g |-> TwoPaths, k |-> 2],
           [g |-> Kite, k |-> 3], [g |-> Loose, k |-> 4]}
MCPairings(G) ==
  IF G = Star THEN {Numbering(G.n, {<<1, 2>>})}
  ELSE {Numbering(G.n, {})} \cup IF G.n > 1 THEN {Numbering(G.n, {<<0, 1>>})} ELSE {}

Ring == Weighted(<<1, 2, 1, 1, 2, 1>>, {<<0, 1, 2>>, <<1, 2, 1>>, <<0, 2, 1>>, <<2, 3, 3>>,
                                        <<1, 4, 2>>, <<3, 4, 1>>, <<4, 5, 2>>, <<5, 0, 1>>})
Hub == Weighted(<<1, 1, 1, 1, 3, 1>>, {<<0, 1, 1>>, <<0, 2, 1>>, <<0, 3, 2>>, <<0, 4, 1>>,
                                       <<0, 5, 1>>, <<1, 2, 1>>, <<3, 4, 1>>, <<5, 2, 1>>})
OnTwoLevels(G, pairs) ==
  LET m == Numbering(G.n, pairs) IN [fine |-> G, mapping |-> m, coarse |-> KG!Contracted(G, m)]
MCHierarchies ==
  {OnTwoLevels(Ring, {<<2, 3>>}), OnTwoLevels(Ring, {<<0, 1>>, <<4, 5>>}),
   OnTwoLevels(Hub, {<<1, 2>>})}

Heap == INSTANCE KWayPrioQueue WITH Nodes <- MCNodes
Bisect == INSTANCE KWayBisection WITH
  Jobs <- MCJobs, Pairings <- MCPairings, mapping <- coarseOf, g <- bg
KWay == INSTANCE KWayRefine WITH Hierarchies <- MCHierarchies, g <- rg

ASSUME Heap!PrioQueueAssumption /\ Bisect!BisectionAssumption /\ KWay!RefineAssumption

-----------------------------------------------------------------------------
(* One of the four runs; the others are over.                               *)
heapVars == <<heap, locator, taken>>
bisectVars == <<todo, coarseOf, bg, place, stage, grow, b, mincut, ls, best, kpart, cuts, whole>>
kwayVars == <<levels, rg, step, s, run>>
allVars == <<vars, heapVars, bisectVars, kwayVars>>

Over == "over"
HeapRuns == "heap"
MatchingOver ==
  /\ g = Over /\ perm = <<>> /\ pi = 0 /\ matching = <<>> /\ nunmatched = 0
  /\ lastUnmatched = 0 /\ byHop = {} /\ mapping = <<>> /\ pc \in {Over, HeapRuns}
BisectOver ==
  /\ todo = <<>> /\ coarseOf = <<>> /\ bg = Over /\ place = Over /\ stage = Over
  /\ grow = <<>> /\ b = <<>> /\ mincut = 0 /\ ls = <<>> /\ best = <<>> /\ kpart = <<>>
  /\ cuts = 0 /\ whole = Over
KWayOver == levels = Over /\ rg = Over /\ step = Over /\ s = Over /\ run = Over

MCInit ==
  /\ Heap!Init
  /\ \/ Init /\ BisectOver /\ KWayOver
     \/ MatchingOver /\ pc = HeapRuns /\ BisectOver /\ KWayOver
     \/ MatchingOver /\ pc = Over /\ Bisect!InitBisection /\ KWayOver
     \/ MatchingOver /\ pc = Over /\ BisectOver /\ KWay!InitRefine

MCNext ==
  \/ pc \notin {Over, HeapRuns} /\ Next /\ UNCHANGED <<heapVars, bisectVars, kwayVars>>
  \/ pc = HeapRuns /\ Heap!Next /\ UNCHANGED <<vars, bisectVars, kwayVars>>
  \/ stage # Over /\ Bisect!NextBisection /\ UNCHANGED <<vars, heapVars, kwayVars>>
  \/ step # Over /\ KWay!NextRefine /\ UNCHANGED <<vars, heapVars, bisectVars>>

MCSpec == MCInit /\ [][MCNext]_allVars

(* Of both local searches: what moves keep up to date is what the partition *)
(* says (FM_2WayCutRefine, Greedy_KWayCutOptimize); and the cuts of the     *)
(* bisections add up to that of the partition they make (split_graph).      *)
KeptInStep ==
  Bisect!BisectionSound /\ Bisect!CutsAddUp /\ (step # Over => KWay!KWaySound)

(* See KWayPrioQueue, KWayBisection and KWayRefine.                         *)
HeapIsMaxQueue == Heap!ImplementsMaxQueue
FMKeepsPromise == Bisect!FMKeepsPromise
NoMoveMakesWorse == KWay!NoMoveMakesWorse
=============================================================================
