-------------------------- MODULE PartitionManager --------------------------
(***************************************************************************)
(* datastructures/partition_manager.h: the block of every vertex and the   *)
(* weight and size of every block; and, updated before every move of it,   *)
(* datastructures/boundary_vertex_manger.h: per vertex the number of        *)
(* neighbours in other blocks, per block a vector of the vertices with at   *)
(* least one, and per vertex its index in that vector, which removal by     *)
(* swapping with the last element keeps up to date.                         *)
(***************************************************************************)
EXTENDS Graph

CONSTANT Lmax     (* lmax: [Block -> Int], the capacity of every block.      *)

ASSUME LmaxAssumption == Lmax \in [Block -> Int]

VARIABLES
  partition,      (* partition[u], the block of u.                           *)
  bweights,       (* bweights[b], the weight of the vertices in b.           *)
  nVertices       (* n_vertices[b], the number of vertices in b.             *)

pmVars == <<partition, bweights, nVertices>>

PmTypeOK ==
  /\ partition \in [Vertex -> Block]
  /\ bweights \in [Block -> Nat]
  /\ nVertices \in [Block -> Nat]

(* reset_weights, then one increment per vertex.                            *)
PmRecalculated(p) ==
  /\ partition = p
  /\ bweights = [b \in Block |-> BlockWeight(p, b)]
  /\ nVertices = [b \in Block |-> Cardinality(Members(p, b))]

(* A block takes u when the weight it would have stays within its lmax.     *)
Fits(u, b) == bweights[b] + VertexWeight[u] <= Lmax[b]
Overloaded(b) == bweights[b] > Lmax[b]

(* move_serial                                                              *)
PmMove(u, old, new) ==
  /\ partition' = [partition EXCEPT ![u] = new]
  /\ nVertices' = [nVertices EXCEPT ![old] = @ - 1, ![new] = @ + 1]
  /\ bweights' = [bweights EXCEPT ![old] = @ - VertexWeight[u],
                                  ![new] = @ + VertexWeight[u]]

-----------------------------------------------------------------------------
(* assert_bweights and assert_correct_partition_size: the counters of a     *)
(* block are the weight and the number of the vertices that point to it.    *)
CorrectBlockWeights ==
  \A b \in Block :
    /\ bweights[b] = BlockWeight(partition, b)
    /\ nVertices[b] = Cardinality(Members(partition, b))

-----------------------------------------------------------------------------
(* BoundaryVertexManager.                                                   *)
VARIABLE bv       (* [count, list, idx]: m_n_boundary_edges, m_boundaries and *)
                  (* m_vertex_idx (indices from 1 here).                      *)

BvTypeOK ==
  /\ bv.count \in [Vertex -> Nat]
  /\ bv.list \in [Block -> Seq(Vertex)]
  /\ bv.idx \in [Vertex -> Nat]

IsBoundary(u) == bv.count[u] > 0

BvBump(s, u, d) == [s EXCEPT !.count[u] = @ + d]

BvEmplace(s, u, b) ==
  [s EXCEPT !.list[b] = Append(@, u), !.idx[u] = Len(s.list[b]) + 1]

BvRemove(s, u, b) ==
  LET last == Last(s.list[b])
  IN  [s EXCEPT !.list[b] = Front([@ EXCEPT ![s.idx[u]] = last]),
                !.idx[last] = s.idx[u]]

(* The loop body of move for the neighbour v of u, one case per block of v. *)
BvVisit(s, u, v, old, new) ==
  LET near == BvBump(BvBump(s, u, -1), v, -1)
      far  == BvBump(BvBump(s, u, 1), v, 1)
  IN  CASE partition[v] = new ->
             IF near.count[v] = 0 THEN BvRemove(near, v, new) ELSE near
        [] partition[v] = old ->
             IF far.count[v] = 1 THEN BvEmplace(far, v, old) ELSE far
        [] OTHER -> s

(* move: called while partition[u] is still old.                            *)
BvMove(u, old, new) ==
  LET start == IF IsBoundary(u) THEN BvRemove(bv, u, old) ELSE bv
      moved == FoldLeft(LAMBDA s, v : BvVisit(s, u, v, old, new),
                        start, AdjOrder[u])
  IN  bv' = IF moved.count[u] > 0 THEN BvEmplace(moved, u, new) ELSE moved

BvEmpty == [count |-> [u \in Vertex |-> 0],
            list  |-> [b \in Block |-> <<>>],
            idx   |-> [u \in Vertex |-> 0]]

(* compute_from_scratch                                                     *)
BvFromScratch(p) ==
  FoldLeft(LAMBDA s, u : IF CutDegree(p, u) = 0 THEN s
                         ELSE BvEmplace(BvBump(s, u, CutDegree(p, u)), u, p[u]),
           BvEmpty, AllVertices)

-----------------------------------------------------------------------------
(* assert_correct_boundary: the vectors hold exactly the boundary vertices  *)
(* of their blocks, each once, at the index recorded for it, and the        *)
(* counters are the numbers of neighbours in other blocks.                  *)
CorrectBoundary ==
  /\ \A u \in Vertex : bv.count[u] = CutDegree(partition, u)
  /\ \A b \in Block :
       /\ ToSet(bv.list[b]) = BoundaryOf(partition, b)
       /\ \A i \in DOMAIN bv.list[b] : bv.idx[bv.list[b][i]] = i
=============================================================================
