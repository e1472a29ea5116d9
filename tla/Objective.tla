------------------------------ MODULE Objective -----------------------------
(***************************************************************************)
(* utility/qap.h: the communication cost that the mapping minimises, every  *)
(* edge weight times the distance of the blocks of its endpoints.           *)
(***************************************************************************)
EXTENDS Graph, DistanceOracles

CONSTANTS
  Hierarchy,      (* The machine hierarchy; the blocks are its elements.     *)
  Distances,      (* The distance of each of its levels.                     *)
  D               (* What the distance oracle answers for two blocks.        *)

ASSUME OracleAssumption ==
  /\ Hierarchy \in Seq(Nat \ {0}) /\ Hierarchy # <<>>
  /\ Block = 0 .. K(Hierarchy) - 1
  /\ Len(Distances) = Len(Hierarchy)
  /\ D = [a \in Block |-> [b \in Block |-> MatrixDistance(Hierarchy, Distances, a, b)]]
  /\ D \in [Block -> [Block -> Nat]]

(* get_qap: qap[i] is the cost of the edges of the first i vertices.         *)
Qap(p) ==
  LET qap[i \in 0 .. Len(AllVertices)] ==
        IF i = 0 THEN 0
        ELSE LET u == AllVertices[i]
             IN  qap[i - 1] + MapThenSumSet(LAMBDA v : EdgeWeight[u][v] * D[p[u]][p[v]], Adj(u))
  IN  qap[Len(AllVertices)]

(* get_u_qap_delta: how much the cost falls when u moves, from its edges.   *)
CostGain(p, u, old, new) ==
  MapThenSumSet(LAMBDA v : EdgeWeight[u][v] * (D[p[v]][old] - D[p[v]][new]), Adj(u))
=============================================================================
