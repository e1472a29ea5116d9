# Verification of HeiProMap

TLA+ models of HeiProMap (this repository, a multilevel process mapper in C++):
data structures that are updated incrementally through long sequences of moves,
parallel loops that share them without locks, local searches that take moves
back, and loops that must end. TLC checks the models on small instances; TLAPS
proves some of the properties for every instance.

## The system

HeiProMap maps the vertices of a communication graph to the processors
("blocks") of a hierarchical machine. A driver coarsens the graph level by level,
partitions the coarsest graph, and on the way back rebalances and refines the
partition on every level. A second driver keeps a mapping up to date while
commands change the graph.

| component | state | operations | hard behaviour | what makes it correct |
|---|---|---|---|---|
| `partition_manager.h` | block of a vertex, weight, size and capacity of a block | set, move, initialize, contract, uncontract | incremental counters | counters equal those of the partition |
| `boundary_vertex_manger.h` | per block a vector of boundary vertices, per vertex a counter and an index | add, move, parallel reset and import | swap-with-last removal, chunks of threads | vectors are the boundary, each vertex once |
| `block_conn.h` | per vertex slots (block, weight) | add, move, rebuild | slot reuse within `min(k, deg)` slots | slots are the vertex's edges by block |
| `quotient_graph.h` | edge records in two linked lists each, half-edge counter | link, unlink, move | pointers, unsynchronised counter | lists are the quotient graph |
| `csr_graph.h` and the level loops of the solvers | a graph and a mapping per level | contract, uncontract | buckets filled by threads, hash tables without slack | coarse weights are sums, structures match the level |
| `distance_3_matching.h`, `distance_1_matching.h` | marks with epochs, candidates, used edges | static batches, filter, next matching | skipped expansions, dropped candidates, stale batches | pairs are far enough apart, nothing is left out |
| `label_propagation_refinement.h` | active blocks, per-thread copies of boundaries | serial sweeps, parallel pairwise loop | threads, stale copies, termination | cost never rises, capacities hold, no data race |
| `quotient_graph_refinement.h`, `flow_based_refinement.h` | heaps, moves, regions, networks | local search with rollback, minimum cuts | gains used long after they were computed, cuts applied unseen | kept moves gain what was counted, structures in step |
| `simple_*_refinement.h` | the same for many blocks | the same, on pairs at distance 1 | neighbours move meanwhile | boundary and weights exact, capacities hold |
| `swap_refinement.h` | heap of moves, candidates | single moves, exchanges | adjacent vertices exchanged | cost never rises |
| `rebalancer.h` | queue, state ids | rounds, residual overloads | outdated entries, cut-off, termination | no block overfilled, nothing movable left |
| `size_constrained_lp.h` | cluster of a vertex, weight and count of a cluster | clustering rounds, singletons, siblings, pairs, renumbering | check-then-act between threads, compare-and-swap | clusters within blocks, pairs disjoint, dense numbers |
| `global_path_algorithm.h`, `heavy_edge_matching.h` | ratings, paths, matching | grow and solve paths, two-hop passes, greedy | paths joined at both ends, cycles | matchings within limits, as heavy as promised |
| distance oracles, `qap.h` | tables | distance and level of two processors, objective, gains | four encodings, many overloads | they agree; a gain is the change of the objective |
| `hungarian.h`, `push_relabel.h`, `flow.h`, heaps | potentials, preflow, residual network, positions | assignment, maximum flow, closure search, priority queue | left-over positions, gaps, order of components | optimal, queue semantics |
| `kway_partitioner/` | graphs, queues, counters of two-way and k-way search | matching, bisection, refinement | counters through rollback, reused arrays | counts exact, no phase makes the result worse |
| `dyn_graph.h`, `DynHeiProMap_solver.h` | adjacency lists, dirty lists, previous mapping | commands, alignment, fast refinement | edits on both ends, growing graphs | adjacency symmetric, renaming keeps distances |
| initial partitioners, memory pool, configurations, profiler, executables | | | | see "Not modelled" |

Refinements and the rebalancer read partition manager, boundary vertices, block
connectivity and quotient graph, and write them in one function (`apply_move`).
The matcher reads the lists of the quotient graph; what is done with the pairs it
has chosen changes the quotient graph under the batches still to come. Threads
exist only within OpenMP parallel loops: shared memory, a barrier at the end,
dynamic distribution of iterations. There are no messages, no crashes to recover
from and no time-outs.

## Modules

| module | models | state and actions |
|---|---|---|
| `Graph` | the graph of a level (constants), and the reference definitions of `assert_state.h` | none |
| `PartitionManager` | partition manager and boundary vertices | their arrays; `move` and computation from scratch |
| `BlockStructures` | block connectivity and quotient graph, the four structures together, and the gains read from the slots | `ApplyMove` = `apply_move`; any vertex moves to any block |
| `Levels` | a level down and up: contraction with its four ways to collect edges, a partition of the coarse graph, uncontraction, rebuilding by threads | one bucket entry, one coarse vertex or one chunk per step of a thread |
| `Distance3`, `Matchings` | the distance-3 matcher, and its two uses | one edge of the quotient graph, or one candidate, per step |
| `DistanceOracles`, `Objective` | the four oracles (the walk of their self-check is in `MCSolvers`), the objective | one pair of processors per step |
| `MonotoneMoves` | what label propagation promises (abstract specification) | the partition; one move |
| `LabelPropagation`, `PairwiseLabelPropagation` | `refine_impl_serial`, `refine_impl_parallel` | one vertex per step; driver steps and a thread's calls |
| `PairSearch` | the local search in a pair, and a round of the flow refinement, as operators | none |
| `QuotientRefinement` | the two refinements with all four structures | trial moves, revert, kept moves one by one; one round per step |
| `SimpleRefinement` | the three refinements for many blocks, `distance_1_matching.h`, `block_adjacency.h` | a thread's reads, trial moves and the two halves of a move are steps |
| `SerialRefinement` | serial label propagation for many blocks, swap refinement | one vertex or one exchange per step |
| `Rebalancer` | `rebalance_loop`, both drivers, `resolve_residual_overloads` | fill the queue; one entry per step |
| `SizeConstrainedLP`, `MergeWhenIdentity` | clustering, pairing | a read phase and each shared write (compare-and-swap) are steps of a thread |
| `GlobalPaths`, `HeavyEdge` | the other two coarsenings | one edge, path, two-hop pass or vertex per step |
| `Hungarian` | `hungarian.h` | one turn of the search loop, one flip |
| `MaxFlow` | push-relabel, components of the residual network, closure search | one discharge; one component; one closure |
| `MaxQueue` | what users of a heap rely on (abstract specification) | a function from keys to priorities |
| `IndexedMaxHeap`, `KWayPrioQueue` | the two heaps | one call |
| `KWayGraph`, `KWayMatching`, `KWayBisection`, `KWayRefine` | the k-way partitioner | one vertex, move or phase change per step |
| `DynMapping` | the dynamic graph, its commands and its driver | one command |
| `SetTheorems` | lemmas on sums, ranks and minima over finite sets, folds over sequences without repetitions | |
| `BlockStructuresProofs` | theorems about `BlockStructures`, `Distance3` and `Objective`: the four structures under any moves, matchings found in a quotient graph, distances in a hierarchy | |
| `RefinementProofs` | theorems about `LabelPropagation`, `QuotientRefinement`, `Rebalancer` and `KWayMatching` | |
| `SolverProofs` | theorems about `Hungarian` and `HeavyEdge` | |
| `MatchingsProofs` | theorems about `Matchings`, and about `PairwiseLabelPropagation` on the matchings | |
| `SizeConstrainedLPProofs`, `DynMappingProofs` | theorems about the module in their name (those about `MergeWhenIdentity` are in that module) | |

Every `MC...` module gives the constants of one or several modules their values;
its comment says why the instance is interesting. Where one `MC` module holds
several algorithms, one of them runs and the variables of the others stay at the
value "ended", so that a run is the disjoint union of their state spaces.
Operators named like "a slip of ..." are mistakes one could make in the code; the
checks confirm that each property notices one of them.

Vertices, blocks and weights are small numbers. The vectors of the boundary
manager, the slots, the linked lists and the heaps are modelled with their order
and indices, since their order decides what later steps do; indices start at 1
where the code's start at 0. Coin flips, ties broken at random, shuffles, edge
ratings of the clustering and the order in which threads take iterations are
nondeterministic.

## Runs

| run | question | instance | states |
|---|---|---|---|
| `matchings` | are static batches and dynamic matchings at distance 3, is each due edge matched once per round, does a round end? | 256 quotient graphs on 7 blocks, 3 batches, every order; three active sets | 70 060 |
| `block_structures` | do the four structures stay correct under any moves and across a level? is the coarse graph exact? does a serial sweep implement `MonotoneMoves`? | 4 vertices, 4 blocks, all 256 partitions, all move sequences; every mapping and coarse partition, 3 threads | 151 552 |
| `pairwise` | is the parallel loop free of data races and lost updates, does it implement `MonotoneMoves`, does it end? | 8 vertices, 6 blocks, 64 partitions, 2 threads, 2 iterations, static and dynamic pairs | 38 527 |
| `topology_swap` | does filtering by edge count keep in-flight pairs at distance 3? | 7 vertices, 6 blocks | violated |
| `coarsening` | are pairs disjoint and claims given back? are paths solved optimally, heavy enough, within blocks before the two-hop passes and contracted without a gap? | 5 vertices and 3 threads (pairs), 11 vertices in two blocks (paths, every rating) | 100 593 |
| `clustering` | are clusters within blocks and limits, counters right, numbers dense? | 5 vertices, 2 threads, 2 rounds | 143 231 |
| `solvers` | assignment optimal, oracles in agreement, flows maximal, closures sound, heap a queue, no heavy edge passed over? | 3 x 3 matrices; 42 hierarchies up to 30 processors; networks with 3 inner nodes; 5 keys; 6 vertices in every order | 230 392 |
| `k_way` | counters of the local searches exact, no phase worse, matching light and contracted right, heap a queue? | 5 graphs of 6 vertices, 4 bisection jobs of up to 8, 3 hierarchies of two levels, 6 keys | 34 752 |
| `pair_refinement` | do kept moves gain what was promised, are capacities kept, are structures exact between pairs and at barriers? are entries the rebalancer acts on fresh, is no block overfilled, is nothing movable left, does it end? | 6 vertices, 4 blocks, 16 partitions (and those that fill three blocks), 2 threads; 256 partitions and both drivers of the rebalancer | 41 442 |
| `dynamic` | is the dynamic graph consistent, does no change escape refinement, does renaming keep distances and weight? | 3 vertices, 3 x 2 processors, 2 driver commands; all edit sequences on 3 vertices | 58 083 |
| `dyn_growth` | is a mapping kept when the graph grows and is refined? | the same | violated |
| `dyn_weights` | are block weights right after a partition command? | the same | violated |

Why the bounds are enough to be interesting:

- Structures: with a vertex of degree 3 and four blocks, slots run out, lists of
  three edges are unlinked in the middle, and a vertex can have neighbours in
  three blocks. Coarse graphs have one to four vertices; three threads have
  uneven slices and an uneven chunk.
- Matching: the host graph has pairs at distance exactly 2 and exactly 3; a mark
  of distance 2 that is later strengthened to 1 occurs.
- Parallel label propagation: two pairs at distance exactly 3, with two vertices
  between them that both pairs' moves touch. Two threads are all that can be
  active then. Edge weights are such that two moves of pairs closer together
  would raise the cost.
- Rebalancer: most partitions are over capacity in several blocks, and a round is
  cut off after three tries, so that further rounds are needed.
- Coarsening: three of the vertices that fit one by one exceed the capacity
  together, two do only by the race between threads; paths of four edges, a cycle
  of four and odd cycles arise from the same six edges; leaves and isolated
  vertices are left to the two-hop passes.
- Pairs of blocks: the pairs 0-1 and 2-3 are refined at the same time while edges
  run between them; some partitions are over capacity at the start, so that moves
  for a loss are kept to restore balance; with three full blocks only exchanges
  are possible.
- k-way: a graph needs eight vertices and a heavy one for balancing to have
  anything to do; with six keys the last node of a heap may have to rise in the
  other half.
- Solvers: a heap key beyond the first capacity; preflows whose excess returns to
  the source and ones where a gap strands it.
- Dynamic: three edits suffice to add, re-add, lower and remove an edge on both of
  its ends; six processors have two levels to rename.

Constants that stand for parameters of the code, with the values of the runs:

- `MaxSweeps`, `MaxIteration` (`max_iteration` of the serial and of the parallel label
  propagation, 2), `MaxRounds` (`max_matching_rounds`, 4 and,
  for clusters, `max_rounds`, 2), `MaxPasses`
  (`max_iteration` of the serial refinements, 2),
  `Passes`, `MaxIter`, `Tries` (those of the k-way partitioner, 3, 3 and 2; the
  code makes more).
- `MinThreshold` (`min_matching_threshold`, 8 by default; 1 or 2 here, so that
  small batches are refined), `MaxInner` (`10 * n` tries of a rebalancing round;
  3 here, so that the cut-off is near), `MinMoved` (the share of moves that starts
  another clustering round), `FMLimit` and `MinSteps` (moves without success before
  a search gives up; 2 and 1 here, so that it gives up).
- `AlphaBound`, `MaxLocal`, `Growth` (regions of the flow refinement),
  `Limits`, `Average`, `ExactLimit` (the closure search).
- `Threads` (number of chunks), `Thread` (threads that interleave).
- `UseStatic`, `LargeK`, `UseEdgeCut`, `Kinds`, `SerialKinds`: variants of an
  algorithm. `LargeK` is on in `pair_refinement`, where the algorithms for many
  blocks run; elsewhere the code for few blocks is modelled.
- `Weights`, `ByWeight`, `Results`, `MaxCommands`, `Priorities`, `Costs`: the
  inputs that are enumerated.

All configurations say `CHECK_DEADLOCK FALSE`, since the algorithms end. Symmetry is
used for threads and heap keys, and only in runs without liveness properties.

### Data races

A step of a thread in `PairwiseLabelPropagation` is one call on one structure.
That is only right if overlapping calls of two threads touch different cells.
`NoDataRace` states that, from the cells each next call reads and writes, for
every reachable state; it is the distance of the pairs that makes it true, and
the property fails if the matcher freezes one neighbourhood less. The one
exception is the half-edge counter, incremented by all threads without
synchronisation: the increments of a move are one more step, `CountHalfEdges`,
that starts from the value before the move or from the present one. Nothing but
the decision to filter depends on it.

The refinements for many blocks give up that distance. Their threads read blocks
of vertices that other threads move, also for trial moves that will be taken
back. `SimpleRefinement` has these reads and writes as separate steps. Gains may
be outdated then and the cost may rise; the code accepts this and no property
denies it. What must hold nevertheless is `BarrierSound`: at every barrier
boundary lists and block weights are those of the partition, and a pair that was
within its capacities still is.

### What the violated runs show

`topology_swap`: `distance_3_matching.h:45` says that "All endpoints of matched
edges are at distance >= 3 from each other in the quotient graph". Static batches
are computed once per iteration, and `label_propagation_refinement.h:190` filters
a later batch again only when the number of half edges has changed since. A move
can replace one edge of the quotient graph by another: in the run, vertex 1 leaves
block 0, its edge to block 3 becomes an edge between the blocks 1 and 3, and the
number stays the same. The batch {(1, 2), (4, 5)} is then refined unfiltered
although 1 and 4 have come within distance 2. In the instances of `pairwise` no
batch is reached that way, which is why its properties hold there.

`dyn_growth`: when vertices were added since the last mapping, refine-fast
(`DynHeiProMap_solver.h:519`) calls `p_manager.initialize`, which puts every vertex
in block 0; the old mapping is not restored. `README.md:56` promises to update the
mapping "without recomputing everything from scratch".

`dyn_weights`: a partition command (`DynHeiProMap_solver.h:493`) calls `initialize`,
which books the whole weight on block 0, and then `set` for every vertex, which
only adds. Block 0 is too heavy by the weight of the graph afterwards, against
what `assert_state.h:147` asserts. The other caller that sets a whole partition
(`recursive_bisection.h:140`) calls `reset_weights` in between.

### Observations

- `flow_based_refinement.h` applies a cut without comparing costs.
  `CutsKeepPromise` shows that it need not: the penalties of the network stand for
  all edges that leave the region. `simple_flow_based_refinement.h` adds the edges
  between the two sides of its region twice, which makes its cuts inexact; it
  checks the gain before it applies them.
- Where a gap leaves excess behind in the push-relabel algorithm, closures of the
  residual network need not be minimum cuts; `ClosureSound` claims that only
  where no excess stays behind.
- The ratings and the loop for uniform weights of `global_path_algorithm.h` pair
  vertices of one block only (`BlocksKeptApart`); its random matching and its two-hop
  passes pair across blocks. It matters where a graph is coarsened under a partition,
  in the cycles of `global_multisection.h:458`: a coarse vertex gets the block of the
  last of its members, and the other changes block without a gain being asked for.
- `perform_full_refinement` of `recursive_bisection.h:131` hands its capacities to a
  partition manager whose own stay 0; swap refinement rejects every move there.
- The second phase of the push-relabel algorithm is never given work, `dinics.h`
  has no caller, and `HeiProMap_solver.h` does not call `p_manager.contract`, which
  the other drivers do.

### Fairness

`Ends` of the parallel label propagation assumes that the driver takes a step when
it can and that each thread of the parallel loop does: OpenMP threads run until
the barrier. `Ends` of the rebalancer and `RoundEnds` assume that the sequential
loop goes on. Weak fairness of `A` is written as
`<>[]Ready => []<><<A>>_vars` where evaluating `ENABLED A` is expensive; `Ready`
is then the condition under which `A` is enabled. Nothing is assumed about coin
flips or the order of threads.

## Proofs

All theorems hold for every value of the constants that satisfies the assumptions
of the modules: `GraphAssumption` (a finite undirected graph without loops, weights
at least 1 on its edges), `StaticAssumption` and `ListOfAssumption` (a symmetric
quotient graph; the order in which neighbours are listed is any), `MergeAssumption`,
`ClusterAssumption` (the limit is at least the weight of the heaviest vertex),
`HeavyEdgeAssumption`, `KWayMatchingAssumption` (weights of vertices and edges are natural
numbers, edges have the same weight from both ends), `HungarianAssumption` (a sum of costs fits the largest
weight), `DynGraphAssumption`, `LmaxAssumption` (capacities are integers),
`NoEdgeAssumption` (the index that stands for "no edge" is none of an edge),
`OracleAssumption` (blocks are the processors of a hierarchy with at least one level
and no level of size 0, distances are natural numbers; that they are symmetric is
proved), `MaxSweepsAssumption` (at least one sweep), `RebalancerAssumption` (active blocks are blocks,
`NoBlock` is none, and a graph with vertices has at least one try per round),
`SettingsAssumption` (static
matchings are used or not). TLC evaluates each of them on the instances of the runs. Bounds of the runs
on counters and commands are not used. Type correctness is part of every inductive
invariant.

`SetTheorems` holds what the proofs share: sums over finite sets (`SumAdd`,
`SumUpdate`, `SumPlus` and others), positions by rank, minima. The induction they
need is over subsets of a finite set: `SubsetInduction` states it for a set of
sets, with which a property is named by the sets that have it. Loops of the code over
neighbours are folds over sequences in the models. `FoldExists` writes such a fold as
a function of the set of indices visited so far, and `FoldReaches` concludes from one
step of the loop to its end.

### The four structures

`MovesKeepStructures`: from the structures computed from scratch for any partition,
and through any sequence of moves, `StructuresCorrect` holds: block weights and vertex
counts, the boundary lists, the slots of `block_conn` and the linked lists of the
quotient graph are those of the partition. `StructuresCorrect` says what the lists
*contain*; it does not say that a list can be unlinked in the middle, or that the
index of a boundary vertex points at it. The inductive invariant `StructInv` has one
part per structure, which says what it represents:

- `PmInv`: types, and weights and counts as sums over the members of a block.
- `BvInv`: every boundary list has each vertex of the boundary once, `idx` is the
  position of a vertex in its list, and the counter of a vertex is its number of
  neighbours in other blocks (`Listed`). The swap-with-last removal needs the positions.
- `BcInv`: the slots of a vertex represent the weights of its edges by block
  (`Represents`): positive, for different blocks, nothing else.
- `QInv`: the weight of a record is the weight between its two blocks, and for each
  block there is a sequence of records that `head`, `next` and `prev` follow (`Chain`),
  with exactly the records of positive weight (`Threaded`). Linking prepends to that
  sequence, unlinking removes the element at some position; a chain is determined by
  its head, so the walk of the code finds the same records (`ListReached`).

One move passes over all neighbours of a vertex in each structure. `During` (boundary)
and `Amid` (quotient graph) say what is right when some of the neighbours, a set `P`,
have been visited: their counters and records are those after the move, the others
those before. The step of the loop is then a lemma about one neighbour, and the end
is `P = Adj(u)`. `Counting` and `Counted` do the same for the computation from scratch,
which counts every edge at its smaller end; that this is the weight between the blocks
is an exchange of two sums.

### Label propagation

`SweepsAreMonotone` (`ImplementsMonotoneMoves`): every step of the serial label
propagation is a move of `MonotoneMoves` or leaves the partition alone. The gain is
read from the slots, and fitting from the block weights, so the invariant (`SweepInv`)
is the part of `StructInv` for these two; the quotient graph and the boundary lists
decide nothing here. `GainFromSlots` turns the sum over slots into
the sum over neighbours, and since distances are symmetric the objective after the
move is the one before less the gain.

### Pairs of blocks

`PairsKeepStructures` (`StructuresCorrectBetweenPairs`): the local search in a pair
moves vertices in the partition manager only, takes the moves after the best state
back, and books the kept ones in the other structures afterwards, from the partition
*before* the search. The invariant (`PairsInv`) therefore holds `Derived(entry)`,
the structures of the entry partition, while moves are tried (`Trying`), and ties the
partition to it: it is the entry with exactly the tried vertices on their other side,
each tried once (`Searching`). Reverting removes them from that set, and once
the entry is restored the kept moves are applied one by one, each from a block of the
pair to the other one.

`SearchesKeepPromise` (`SearchKeepsPromise`): a gain is computed when a neighbour has
moved and used any number of moves later. `QueueRight` says what keeps the heaps
useful: an entry that touches the other block is exact, and one that does not is
below another entry of its heap, so that the vertex that is chosen is exact
(`ChosenTop`). A vertex that is not next to the one that moves keeps its gain
(`FarMoveGain`); the neighbours get theirs anew (`HeapsRight`). The
cost has then fallen from the entry by the sum of the gains (`GainsAddUp`), times the
distance of the two blocks where only the cut is counted: the blocks of a lowest group are
equally far from all others (`LowestGroupsEquidistant`), which is why the cut decides
there (`MoveGainIsFall`). `BestIs` carries that to the best moment, across taking back
(the kept moves, crossed from the entry) and making again (those that are left, crossed
from where the partition is).

### Rebalancer

`RebalancingIsSound` (`MovesSound`), `LoopsLeaveNothing` (`LoopComplete`) and
`RebalancingKeepsStructures`, about `SpecReb`: any graph, limits and first partition, both
drivers, and any order among entries of the same gain. The queue is a priority queue without
deletion, so it may hold entries from many moves ago. `EntriesFresh` says that an entry
which passes the three tests of `rebalancer.h:318` to `:324` is still true: a vertex that is
not next to the one that moves keeps its gain (`FarGainStays`); one that is next to it
and could be acted on gets a new state id (`Concerned`). A vertex becomes interesting again only
through a neighbour: far from the move the number of neighbours in other blocks stays
(`CutDegreeMoved`), and a move to a block with room overloads none (`MoveRelieves`).

A round is cut off after `MaxInner` tries, and a loop ends after a round without a move. That
such a round was not cut off, nor emptied by dropping entries, is `QueueInv`: as long as a round
has moved nothing it has tried nothing, and the queue is what it was filled with. For
while nothing has moved the entry on top counts and fits (`UntouchedRound`). A loop
therefore ends with an empty first filling, and `BestMoveRight` turns "no move for
any boundary vertex" into "no room", with the gain from the slots on the last layer
(`GainIsCost`) and from the edges elsewhere.

The residual pass works off a list of candidates made before its first move. That is
harmless, since a candidate is moved only if its block is still overloaded, and then to a
block with room (`FirstWithRoom`, `ResidualBestFits`).

### Matchings

`StaticBatchesAreDistanceThree`: two pairs of a batch are at distance at least 3
(`BatchesDistanceThree`). The property is not inductive, since an edge is admitted
by looking at marks and not at the pairs. The invariant adds what the marks mean:
the endpoints of the pairs of a batch are *expanded* (they and their neighbours
carry the distance-1 mark), and marks are *closed* (neighbours of a block with the
distance-1 mark carry the distance-2 mark). `FreezeEndpointKeeps` is the lemma that
freezing keeps this although it skips neighbours that were marked before,
`UnmarkedPairIsFar` that an edge without marks is then far from all pairs.

`CallsAreMaximal` (`CallMaximalDistanceThree`): the same for a call of
`find_matching`, and when it returns no edge that is due can be added. `RoundsAreComplete`
(`RoundComplete`): when nothing is found any more, every edge with an active block
has been matched. `RoundInv` has two parts: `MarksInv`, the meaning of the marks and
that a mark has a chosen pair within two steps as its cause, and `EdgesInv`: the blocks
of an edge not yet used are candidates of this call or the next, and one whose
block has been passed in this call has a frozen end. What has been skipped was
therefore skipped because of a pair, and is not lost.

### Parallel label propagation

`DynamicRacesNot` (`NoDataRace`), `DynamicKeepsStructures`
(`StructuresCorrectAtBarrier`) and `DynamicIsMonotone` (`ImplementsMonotoneMoves`) are
about `SpecDynamic`, the refinement with matchings found on the fly, for every graph,
hierarchy, number of threads and order in which their calls interleave. With
`use_static_matchings` they are not theorems: the batches are filtered by edge counts,
and `topology_swap` shows pairs in flight that share a neighbour.

The *region* of a pair is its two blocks and the blocks of the neighbours of their
vertices. A thread reads and changes the structures of its region only. `CallFinds` and
`FarPairsAreApart` take from the distance-3 matching that the regions of its pairs are
disjoint (`Apart`), and `RegionsMoved` that a move within a pair does not change that:
its vertex takes along only neighbours that belong to the region already. So
`KeepsToTerritory` and `TeamRacesNot` give `NoDataRace`.

Between barriers the structures are those of no single partition: a vertex whose move is
under way is in its new block for the structures already told, and in its old one
for the others. The invariant (`PLPInv`) therefore has a partition of its own for
each structure (`Shown`): the true one, except that the vertices in the hands of
threads past the call on that structure are where they will be (`Shows`). A call moves its
vertex in one of these partitions. What the call reads is around the vertex, where that
partition and the one of `BlockStructures` agree because all other threads are in
regions of their own (`ShownNear`), and the lemmas of `BlockStructuresProofs` about one move
ask for no more. At a barrier nobody is at work and all partitions are the same one.

That no move raises the cost needs the gain to be still right when the last call of a
move is made, after other threads have moved other vertices: `Sure` says so in
the invariant, and `CostFallNear` that moves in other regions cannot change it.
For two blocks of a lowest group the code takes the fall of the edge cut instead of that of the
objective. `LowestGroupsEquidistant` shows that such blocks are equally far from
any third one, so that both agree in sign: their coordinates differ in the
last level only (`GroupCoordinates`), and different blocks have different coordinates
(`CoordinatesTell`), from the ranges that `determine_location` narrows (`Ranges`).

### Pairs by compare-and-swap

`NoVertexMergedTwice` (`MergedOnce`) and `EveryPairFits`: the pairs made by
`merge_when_identity` are disjoint, within one block and within the capacity. The
invariant is about claims: what threads hold between their first successful
compare-and-swap and their last write, and what is already paired, are disjoint
subsets of `used`. `ClaimsPreserve` reduces a step of a thread to what it does to
its own claim. `NoClaimIsLeftBehind` (`NoClaimLeftBehind`): at the end the flags
are those of the pairs, since `used` is exactly the union of claims and pairs.

### Clustering

`CountersAddUpTheorem` (`CountersAddUp`): weights and counts are those of the
clusters at every barrier. A thread writes the cluster of its vertex, the new weight
and the old weight in separate steps; the invariant says that counter plus what all
threads still *owe* it is the weight of the cluster, at any time.
`ClustersFitTheorem` (`ClustersFit`): the overshoot is less than one vertex per other
thread. From the moment a thread has compared a cluster with the limit until it has
added its vertex to the counter it has a *claim* on the cluster; the counter plus all
claims stay within the limit and one heaviest vertex for each other thread
(`WeightInv`), also in a round that starts from an overfull cluster.
`RemapIsDenseTheorem` (`RemapIsDense`): chunks cover the vertices once each, the
prefix sum counts the clusters in use below a number, and so the new number of a
cluster is its rank.

### Heavy edges

`NoEdgePassedOver` (`PassedOverWereTaken`): the invariant records for every position
already visited that its vertex is paired, or that all it could take were paired
before (`VisitInv`). Comparing ratings as fractions, with infinity, is transitive
(`RatingOf` has no 0/0), so a best neighbour exists. `PairsAreContracted`: the
translation gives two vertices one number only if they are a pair within one block.

### Pairs of the k-way partitioner

`PairsMakeCoarseGraph` (`MatchingSound`) and `TwinsAreAlike` (`TwinsButZero`), about one
level of coarsening in `kway_core.h`. The passes over two hops are loops within loops
over lists; what the proof keeps of them is that a matching only *grows* (`Grown`): it stays
mutual, and nobody is matched anew. The lists are filtered ones (`Those`, which is
`SelectSeq` written as a fold, so that `FoldReaches` applies to it) and have every vertex
once (`ThoseOnce`), so that the two ends of a list are different vertices. The
invariant (`KWayInv`) adds what the visits leave behind: the counter is at least the number
of vertices that were visited and are alone, and these are light, at most half the
limit, so that whatever pairs the later passes choose are within it (`GrownIsLight`).
After the last visit all vertices have been visited, hence the counter covers the keys
(`AllSeen`, `AloneCounted`).

For the twins, a mark other than the initial 0 names a vertex whose neighbour carries it
(`TwinsKept`); equal keys mean equally many neighbours (`EqualKeys`), and as many
neighbours that all carry the mark are all its neighbours. Vertex 0 is the exception that the
property names. The coarse graph: `heavy_edge_matching` numbers a pair by the smaller
vertices before it and `coarse_graph` by counting again; both are the rank of the smaller
vertex, so the members of a coarse vertex are those mapped to it, and its edges sum
what the definition sums, in another order.

### Assignment

`AssignmentIsOptimal` (`AssignmentOptimal`): the result is a permutation, and no
other one is cheaper. In the invariant the potentials of a row and a column never
exceed their cost (`PotentialInv`) and are equal to it where a row is assigned and along the search
tree; `minv` is the least slack between the tree and each column outside
(`MinvInv`); ranks that grow from the root show that the path back through `way` has
no cycle, so that flipping it changes no assignment that has still to be read (`FlipInv`).
At the end the assignment costs the sum of all potentials, and any permutation
at least that (`CostAndPotentials`, with `SumReindex`).

### Dynamic graph

`GraphStaysConsistent` (`GraphConsistent`) and `ChangesAreMarked` (`ChangesAreDirty`)
for the commands alone, `MappingKeepsGraph` for graphs that are partitioned, refined
and grow in between. The invariant is `GraphInv` together with `SymmetricBut`, symmetry
except for the entries torn off by a removal by weight. A command changes few
entries of the lists: `OnlyEntry` turns each into a change of the half-edge count
by one and of the weight by a difference, and the rest is arithmetic on sums.

### Only model-checked

- Liveness (`Ends`, `RoundEnds`), which is beyond the prover.
- The parallel label propagation with static matchings. `NoDataRace` and the two other
  properties hold on the instance of `pairwise`; that they hold whenever no edge is
  exchanged for another between two batches is not proved.
- The refinements of `MaxQueue`.
- The structures on the way through a level, in the refinements for many blocks, and in
  the flow-based variant: `StructuresFollowLevel`, `BarrierSound`, `KeptInStep`,
  `CoarseGraphExact`.
- Searches and what they compute: `CutsKeepPromise`,
  `FlowsAndClosuresSound`, `SolvedHeaviest`, `PathMatchingSound`, `FMKeepsPromise`,
  `NoMoveMakesWorse`.
- `CostNeverRises`, `OraclesAgree`, `AlignmentSound`.

## Not modelled

- Reading and writing files, command lines, configuration tables, profiling,
  KaHIP.
- The initial partitioners other than the k-way partitioner: the driver's result
  is any partition of the coarse graph (`Levels!Partition`), which includes theirs.
  Their recursions over the hierarchy are sequential and their imbalances are
  floating point.
- The memory pool. (It counts the size of the free block it hands out and, when it
  comes back, the size asked for, `memory_pool.h:79` and `:101`, so that its count drifts;
  nothing but its statistics reads the count.)
- Moves on a coarse level: `Levels` goes up from any partition of the coarse graph
  instead, with the structures of that partition.
- Floating point: balance targets of the k-way partitioner are rounded integers;
  variance in the preemptive exit of the local search is a free choice.
- `fill_empty_blocks` of the rebalancer, the incremental recomputation of the
  matcher, `Matching::remove`, `dinics.h`: no callers.
- Epochs of 32 bits that wrap around in the matcher.
- `use_edge_cut` switched off for the pairs of label propagation and of the local
  search: two blocks of one lowest group are always compared by their cut, as they are
  by default. Without it they are compared by cost, as any other two blocks.
- The limit of 256 blocks of the serial label propagation for many blocks.
- The order in which the heap of a region that grows by weight takes vertices of equal
  weight: one of them is chosen.

Two hazards of the list have no property. The weight of the cluster that leaves
join (`size_constrained_lp.h:423`) is overwritten with that of the leaves: the
step is in the model and the properties about weights end before it. The chunks
of `boundary_vertex_manger.h:245` may start beyond the last vertex when there are
more threads than chunks are needed, and a length below 0 is then taken as
unsigned: `LevelsAssumption` excludes it, since what follows is undefined.

## Plan

Done: the four block structures and their way through a level, both matchers, all
refinements, the rebalancer, the three coarsenings, the oracles, the flow and
assignment algorithms, the heaps, the k-way partitioner, the dynamic driver; the
proofs above.

Theorems that would come next:

1. `StructuresCorrectBetweenPairs` for the flow-based variant, whose moves come from a cut
   instead of a search.
2. The parallel label propagation with static batches, under the condition that the
   quotient graph has kept its edges since they were computed.
3. Coarse weights are sums (`CoarseGraphExact`).

Models to come: the section and multisection partitioners with their translation
tables, the memory pool, the parallel recomputation of the quotient graph in the
deep driver.
