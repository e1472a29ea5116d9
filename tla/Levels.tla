------------------------------- MODULE Levels -------------------------------
(***************************************************************************)
(* One level of the multilevel scheme (solver/HeiProMap_solver.h,           *)
(* HeiPa_solver.h, DeepHeiProMap_solver.h): a mapping is contracted by      *)
(* threads into a coarse graph (csr_graph.h), the coarse graph gets a       *)
(* partition, or inherits that of the fine one, and uncontraction carries   *)
(* it back.  Block weights and quotient graph are not computed anew then:   *)
(* they must be the same on both levels.                                    *)
(*                                                                         *)
(* The arrays of partition_manager.h are those of the finest level; on the  *)
(* coarse level their first entries are in use.                             *)
(***************************************************************************)
EXTENDS BlockStructures

CONSTANT Threads      (* The number of threads.                              *)

(* The code numbers vertices from 0.  Without the last conjunct a thread of *)
(* BoundaryVertexManager::parallel_reset starts behind the last vertex, and *)
(* the number of entries it clears is a difference below 0 of unsigned      *)
(* numbers.                                                                 *)
ASSUME LevelsAssumption ==
  /\ Threads \in Nat \ {0}
  /\ Vertex = 0 .. Cardinality(Vertex) - 1
  /\ (Threads - 1) * ((Cardinality(Vertex) + Threads - 1) \div Threads) <= Cardinality(Vertex)

VARIABLES
  phase,      (* "fill", "insert", "coarse", "rebuild", or "fine".            *)
  mapping,    (* The coarse vertex of every vertex (utility/mapping.h).      *)
  layout,     (* How the edges of a coarse vertex are collected.             *)
  left,       (* Per thread the vertices it has still to deal with.          *)
  bucket,     (* mapped_vertices, the vertices of every coarse vertex.       *)
  coarse,     (* [vw, rows]: weight and neighbourhood of coarse vertices.    *)
  local       (* thread_boundaries.                                          *)

levelVars == <<phase, mapping, layout, left, bucket, coarse, local>>

N == Cardinality(Vertex)
CoarseN == Cardinality({mapping[u] : u \in Vertex})
CoarseVertex == 0 .. CoarseN - 1

(* What coarsening hands over: coarse vertices are numbered from 0, and     *)
(* vertices of different blocks are kept apart.                             *)
Mappings(p) ==
  {m \in [Vertex -> Vertex] :
    /\ \E c \in Vertex : {m[u] : u \in Vertex} = 0 .. c
    /\ \A u, v \in Vertex : m[u] = m[v] => p[u] = p[v]}

(* Work dealt out to threads 1 .. Threads: x of them in slices that start   *)
(* at multiples of x / Threads, or vertices in chunks rounded up.           *)
Slices(x) ==
  [t \in 1 .. Threads |-> ((t - 1) * x) \div Threads .. (t * x) \div Threads - 1]
Chunks ==
  LET chunk == (N + Threads - 1) \div Threads
  IN  [t \in 1 .. Threads |-> {u \in Vertex : (t - 1) * chunk <= u /\ u < t * chunk}]

AllDone == \A t \in 1 .. Threads : left[t] = {}

-----------------------------------------------------------------------------
(* Contraction.  Vertices enter their bucket at a position fetched by an    *)
(* atomic increment.                                                        *)
Fill(t) ==
  /\ phase = "fill"
  /\ left[t] # {}
  /\ LET u == Min(left[t])
     IN  /\ bucket' = [bucket EXCEPT ![mapping[u]] = Append(@, u)]
         /\ left' = [left EXCEPT ![t] = @ \ {u}]
  /\ UNCHANGED <<structVars, phase, mapping, layout, coarse, local>>

Filled ==
  /\ phase = "fill" /\ AllDone
  /\ phase' = "insert"
  /\ left' = Slices(CoarseN)
  /\ UNCHANGED <<structVars, mapping, layout, bucket, coarse, local>>

(* The edges that leave the bucket of c, in the order they are met.         *)
Leaving(c) ==
  LET ofVertex(u) == [i \in DOMAIN AdjOrder[u] |->
                        [id |-> mapping[AdjOrder[u][i]], w |-> EdgeWeight[u][AdjOrder[u][i]]]]
  IN  SelectSeq(FlattenSeq([i \in DOMAIN bucket[c] |-> ofVertex(bucket[c][i])]),
                LAMBDA e : e.id # c)

DegreeSum(c) == FoldLeft(LAMBDA s, u : s + Len(AdjOrder[u]), 0, bucket[c])

Free == [id |-> N, w |-> 0]

(* A slip of Insert below: a neighbour met before is not looked for.         *)
InsertAtFree(table, e) ==
  LET len == Len(table)
      at(i) == ((e.id + i) % len) + 1
      j == at(Min({i \in 0 .. len - 1 : table[at(i)].id = N}))
  IN  [table EXCEPT ![j] = e]

(* Open addressing in a table of len slots.                                 *)
Insert(table, e) ==
  LET len == Len(table)
      at(i) == ((e.id + i) % len) + 1
      j == at(Min({i \in 0 .. len - 1 : table[at(i)].id \in {e.id, N}}))
  IN  [table EXCEPT ![j] = [id |-> e.id, w |-> @.w + e.w]]

FromTable(len, edges) ==
  SelectSeq(FoldLeft(Insert, [i \in 1 .. len |-> Free], edges), LAMBDA e : e.id # N)

PowerOfTwoFrom(x) == CHOOSE p \in {2 ^ i : i \in 0 .. x} : p >= x /\ (p = 1 \/ p < 2 * x)

(* The four ways to collect them: as they come, with the index of each      *)
(* neighbour remembered (contract); sorted, equal ones merged; in a table   *)
(* of as many slots as there are edges (parallel_contract); in a table of   *)
(* twice as many, rounded up to a power of two (kaminpar_contract).         *)
Layouts == {"seen", "sorted", "exact", "power"}

Collected(c) ==
  LET edges == Leaving(c)
      sorted == SortSeq(edges, LAMBDA e, f : e.id < f.id)
      merge(r, e) == IF r # <<>> /\ Last(r).id = e.id
                     THEN [r EXCEPT ![Len(r)].w = @ + e.w] ELSE Append(r, e)
  IN  CASE layout = "seen"   -> FoldLeft(LAMBDA r, e : BcAdd(r, e.id, e.w), <<>>, edges)
        [] layout = "sorted" -> FoldLeft(merge, <<>>, sorted)
        [] layout = "exact"  -> FromTable(DegreeSum(c), edges)
        [] layout = "power"  -> FromTable(PowerOfTwoFrom(2 * DegreeSum(c)), edges)

InsertEdges(t) ==
  /\ phase = "insert"
  /\ left[t] # {}
  /\ LET c == Min(left[t])
     IN  /\ coarse' = [coarse EXCEPT
              !.vw[c] = FoldLeft(LAMBDA s, u : s + VertexWeight[u], 0, bucket[c]),
              !.rows[c] = IF DegreeSum(c) = 0 THEN <<>> ELSE Collected(c)]
         /\ left' = [left EXCEPT ![t] = @ \ {c}]
  /\ UNCHANGED <<structVars, phase, mapping, layout, bucket, local>>

(* PartitionManager::contract, where the driver calls it: the last vertex   *)
(* of a bucket decides.                                                     *)
Contracted ==
  /\ phase = "insert" /\ AllDone
  /\ LET of(c) == partition[Max({u \in Vertex : mapping[u] = c})]
     IN  /\ partition' = [c \in Vertex |-> IF c \in CoarseVertex THEN of(c) ELSE partition[c]]
         /\ nVertices' = [b \in Block |-> Cardinality({c \in CoarseVertex : of(c) = b})]
  /\ phase' = "coarse"
  /\ layout' = "none" /\ bucket' = <<>>
  /\ UNCHANGED <<bweights, bv, conn, q, halfEdges, mapping, left, coarse, local>>

-----------------------------------------------------------------------------
(* HeiProMapSolver::partition: whatever the initial partitioner returns for *)
(* the coarse graph, the structures are built for it in one pass.           *)
Partition ==
  /\ phase = "coarse" /\ layout = "none"
  /\ \E p \in [CoarseVertex -> Block] :
       LET all == [i \in 1 .. CoarseN |-> i - 1]
           cut(c) == SelectSeq(coarse.rows[c], LAMBDA e : p[e.id] # p[c])
           members(b) == {c \in CoarseVertex : p[c] = b}
           quotient ==
             FoldLeft(LAMBDA s, c :
                        FoldLeft(LAMBDA t, e : IF c < e.id THEN QAddEdge(t, p[c], p[e.id], e.w)
                                               ELSE t, s, cut(c)),
                      QEmpty, all)
       IN  /\ partition' = [c \in Vertex |-> IF c \in CoarseVertex THEN p[c] ELSE partition[c]]
           /\ bweights' = [b \in Block |-> MapThenSumSet(LAMBDA c : coarse.vw[c], members(b))]
           /\ nVertices' = [b \in Block |-> Cardinality(members(b))]
           /\ q' = quotient
           /\ halfEdges' = 2 * Cardinality(QLinked(quotient))
           /\ conn' = [c \in Vertex |->
                IF c \in CoarseVertex
                THEN FoldLeft(LAMBDA s, e : BcAdd(s, p[e.id], e.w), <<>>, coarse.rows[c])
                ELSE <<>>]
           /\ bv' = FoldLeft(LAMBDA s, c : IF cut(c) = <<>> THEN s
                                           ELSE BvEmplace(BvBump(s, c, Len(cut(c))), c, p[c]),
                             BvEmpty, all)
  /\ layout' = "partitioned"
  /\ UNCHANGED <<phase, mapping, left, bucket, coarse, local>>

-----------------------------------------------------------------------------
(* PartitionManager::uncontract; boundaries and slots are cleared, block    *)
(* weights and quotient graph kept.                                         *)
Uncontract ==
  /\ phase = "coarse"
  /\ LET p == [u \in Vertex |-> partition[mapping[u]]]
     IN  /\ partition' = p
         /\ nVertices' = [b \in Block |-> Cardinality(Members(p, b))]
  /\ bv' = [BvEmpty EXCEPT !.idx = bv.idx]
  /\ conn' = [u \in Vertex |-> <<>>]
  /\ local' = [t \in 1 .. Threads |-> [b \in Block |-> <<>>]]
  /\ left' = Chunks
  /\ phase' = "rebuild"
  /\ UNCHANGED <<bweights, q, halfEdges, mapping, layout, bucket, coarse>>

(* A thread deals with its chunk in ascending order: slots for the blocks   *)
(* of other vertices as they are met and then for its own, the number of    *)
(* boundary edges, and its own lists of boundary vertices.                  *)
Rebuild(t) ==
  /\ phase = "rebuild"
  /\ left[t] # {}
  /\ LET slots(u) ==
           LET other == SelectSeq(AdjOrder[u], LAMBDA v : partition[v] # partition[u])
               own == ConnWeight(partition, u, partition[u])
               c == FoldLeft(LAMBDA s, v : BcAdd(s, partition[v], EdgeWeight[u][v]), <<>>, other)
           IN  IF own > 0 THEN BcAdd(c, partition[u], own) ELSE c
     IN  /\ conn' = [u \in Vertex |-> IF u \in left[t] THEN slots(u) ELSE conn[u]]
         /\ bv' = [bv EXCEPT !.count = [u \in Vertex |->
                     IF u \in left[t] THEN CutDegree(partition, u) ELSE @[u]]]
         /\ local' = [local EXCEPT ![t] = [b \in Block |->
                        SelectSeq(Ascending(left[t]),
                                  LAMBDA u : partition[u] = b /\ CutDegree(partition, u) > 0)]]
  /\ left' = [left EXCEPT ![t] = {}]
  /\ UNCHANGED <<partition, bweights, nVertices, q, halfEdges,
                 phase, mapping, layout, bucket, coarse>>

(* parallel_import_boundary_vertices: the lists of the threads one behind   *)
(* the other; then the coarse graph and the mapping are given up.           *)
OffsetOf(b, t) == FoldLeft(LAMBDA s, i : s + Len(local[i][b]), 0, [i \in 1 .. t - 1 |-> i])

Import ==
  /\ phase = "rebuild" /\ AllDone
  /\ LET total(b) == OffsetOf(b, Threads + 1)
         places(b) == {<<t, i>> \in (1 .. Threads) \X (1 .. N) : i <= Len(local[t][b])}
         entry(b, j) == CHOOSE p \in places(b) : OffsetOf(b, p[1]) + p[2] = j
         at(u) == CHOOSE p \in places(partition[u]) : local[p[1]][partition[u]][p[2]] = u
     IN  bv' = [bv EXCEPT
           !.list = [b \in Block |-> [j \in 1 .. total(b) |->
                       local[entry(b, j)[1]][b][entry(b, j)[2]]]],
           !.idx = [u \in Vertex |-> IF bv.count[u] = 0 THEN @[u]
                                     ELSE OffsetOf(partition[u], at(u)[1]) + at(u)[2]]]
  /\ phase' = "fine"
  /\ mapping' = <<>> /\ coarse' = <<>> /\ local' = <<>> /\ layout' = "none"
  /\ UNCHANGED <<partition, bweights, nVertices, conn, q, halfEdges, left, bucket>>

-----------------------------------------------------------------------------
(* Coarsening has ended with a mapping of a graph with partition p: block 0 *)
(* for every vertex in the usual driver.                                    *)
InitLevels(p) ==
  /\ StructFromScratch(p)
  /\ mapping \in Mappings(p)
  /\ layout \in Layouts
  /\ phase = "fill"
  /\ left = Slices(N)
  /\ bucket = [c \in CoarseVertex |-> <<>>]
  /\ coarse = [vw |-> [c \in CoarseVertex |-> 0], rows |-> [c \in CoarseVertex |-> <<>>]]
  /\ local = <<>>

NoLevels ==
  /\ phase = "fine" /\ mapping = <<>> /\ layout = "none" /\ bucket = <<>>
  /\ coarse = <<>> /\ local = <<>> /\ left = [t \in 1 .. Threads |-> {}]

NextLevels ==
  \/ \E t \in 1 .. Threads : Fill(t) \/ InsertEdges(t) \/ Rebuild(t)
  \/ Filled \/ Contracted \/ Partition \/ Uncontract \/ Import

-----------------------------------------------------------------------------
(* The coarse graph is the fine one with the vertices of every bucket taken *)
(* together: weights add up, every neighbouring coarse vertex is listed     *)
(* once with the weight of all edges to it, whatever the order in which     *)
(* threads filled the buckets and the table the edges went through.         *)
CoarseGraphExact ==
  phase = "coarse" =>
    \A c \in CoarseVertex :
      LET between(d) == MapThenSumSet(LAMBDA e : EdgeWeight[e[1]][e[2]],
                                      {e \in Vertex \X Vertex : mapping[e[1]] = c /\ mapping[e[2]] = d})
          row == coarse.rows[c]
      IN  /\ coarse.vw[c] = MapThenSumSet(LAMBDA u : VertexWeight[u], {u \in Vertex : mapping[u] = c})
          /\ \A i, j \in DOMAIN row : row[i].id = row[j].id => i = j
          /\ {row[i].id : i \in DOMAIN row} = {d \in CoarseVertex \ {c} : between(d) > 0}
          /\ \A i \in DOMAIN row : row[i].w = between(row[i].id)

(* After contraction, a new partition and uncontraction the structures are  *)
(* those of the partition of the fine graph, block weights and quotient     *)
(* graph included, which were computed on the coarse one; and they stay so  *)
(* through any moves.                                                       *)
StructuresFollowLevel == phase = "fine" => StructuresCorrect
=============================================================================
