---------------------------- MODULE MonotoneMoves ---------------------------
(***************************************************************************)
(* What label propagation promises of a partition, whatever structures and  *)
(* threads it uses: vertices move one at a time, to a block whose weight    *)
(* stays within its capacity, and the communication cost never rises.       *)
(***************************************************************************)
EXTENDS Objective

CONSTANT Lmax

VARIABLE part

Init == part \in [Vertex -> Block]

Move(u, b) ==
  /\ part' = [part EXCEPT ![u] = b]
  /\ BlockWeight(part', b) <= Lmax[b]
  /\ Qap(part') <= Qap(part)

Next == \E u \in Vertex, b \in Block : b # part[u] /\ Move(u, b)

Spec == Init /\ [][Next]_part
=============================================================================
