------------------------------- MODULE Graph --------------------------------
(***************************************************************************)
(* The task graph of csr_graph.h as every other component reads it, and    *)
(* the quantities that the incremental structures of the refinement        *)
(* maintain, defined from a partition alone.  The definitions "from a      *)
(* partition" are what the from-scratch computations of                    *)
(* utility/assert_state.h compare those structures with.                   *)
(***************************************************************************)
EXTENDS Integers, FiniteSets, Sequences, SequencesExt

CONSTANTS
  Vertex,        (* The vertices, integers 0 .. n-1 in the code.            *)
  Block,         (* The blocks of the partition, 0 .. k-1 in the code.      *)
  EdgeWeight,    (* edge_w: [Vertex -> [Vertex -> Nat]], 0 where no edge.   *)
  VertexWeight   (* v_weight: [Vertex -> Nat].                              *)

(***************************************************************************)
(* What the graph readers deliver: finitely many vertices and blocks, an   *)
(* undirected graph without self loops, edge weights of at least 1.        *)
(***************************************************************************)
ASSUME GraphAssumption ==
  /\ IsFiniteSet(Vertex) /\ Vertex \subseteq Int
  /\ IsFiniteSet(Block) /\ Block \subseteq Nat
  /\ EdgeWeight \in [Vertex -> [Vertex -> Nat]]
  /\ VertexWeight \in [Vertex -> Nat]
  /\ \A u \in Vertex : EdgeWeight[u][u] = 0
  /\ \A u, v \in Vertex : EdgeWeight[u][v] = EdgeWeight[v][u]

(* A set of integers in ascending order.                                    *)
Ascending(S) ==
  [i \in 1 .. Cardinality(S) |-> CHOOSE x \in S : Cardinality({y \in S : y < x}) = i - 1]

(* The neighbourhood of u, as a set and in the order edges_v stores it.     *)
Adj(u) == {v \in Vertex : EdgeWeight[u][v] > 0}
AdjOrder == [u \in Vertex |-> Ascending(Adj(u))]
AllVertices == Ascending(Vertex)
AllBlocks == Ascending(Block)

-----------------------------------------------------------------------------
(* The quantities a partition p determines.                                 *)

Members(p, b) == {u \in Vertex : p[u] = b}

BlockWeight(p, b) == MapThenSumSet(LAMBDA u : VertexWeight[u], Members(p, b))

CutDegree(p, u) == Cardinality({v \in Adj(u) : p[v] # p[u]})

BoundaryOf(p, b) == {u \in Members(p, b) : CutDegree(p, u) > 0}

ConnWeight(p, u, b) ==
  MapThenSumSet(LAMBDA v : EdgeWeight[u][v], Adj(u) \cap Members(p, b))

ConnectedBlocks(p, u) == {p[v] : v \in Adj(u)}

QuotientWeight(p, a, b) ==
  MapThenSumSet(LAMBDA u : ConnWeight(p, u, b), Members(p, a))

QuotientNeighbours(p, a) ==
  {b \in Block \ {a} : \E u \in Members(p, a) : b \in ConnectedBlocks(p, u)}

-----------------------------------------------------------------------------
(* utility/matching.h, which coarsening uses: the partner of every vertex   *)
(* (itself when there is none), and the numbering of the coarse vertices    *)
(* that results.                                                            *)
Matched(m, u) == m[u] # u
Paired(m, u, v) == [m EXCEPT ![u] = v, ![v] = u]
Pairs(m) == {u \in Vertex : u < m[u]}

(* add for every pair of a set.                                             *)
AddAll(m, pairs) ==
  [u \in Vertex |->
     IF \E p \in pairs : u \in {p[1], p[2]}
     THEN LET p == CHOOSE q \in pairs : u \in {q[1], q[2]}
          IN IF p[1] = u THEN p[2] ELSE p[1]
     ELSE m[u]]

(* set_translation: a pair is numbered by its first vertex; a vertex that   *)
(* no pair or single vertex owns keeps its number.                          *)
Translation(m) ==
  LET first == {u \in Vertex : u <= m[u]}
      owners(x) == {u \in first : x \in {u, m[u]}}
      number(u) == Cardinality({x \in first : x < u})
  IN [x \in Vertex |-> IF owners(x) = {} THEN x ELSE number(Max(owners(x)))]
=============================================================================
