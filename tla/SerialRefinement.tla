-------------------------- MODULE SerialRefinement --------------------------
(***************************************************************************)
(* The two refinements that look at one vertex after the other:             *)
(* refine_impl_serial of refinement/simple_label_propagation_refinement.h   *)
(* ("labels") and refinement/swap_refinement.h ("swap"), which has a pass   *)
(* of single moves and a pass of exchanges.                                 *)
(***************************************************************************)
EXTENDS Objective, PartitionManager

CONSTANT MaxPasses  (* config.max_iteration.                                 *)

VARIABLE job      (* [kind, phase, left, iteration, improved]: left are the   *)
                  (* vertices still to come in the pass.                     *)

InitSerial(kind) ==
  job = [kind |-> kind, phase |-> "move", left |-> Vertex, iteration |-> 1, improved |-> FALSE]

(* Label propagation goes through the vertices in order, the other one      *)
(* shuffles them.                                                           *)
Turn(u) ==
  /\ u \in job.left
  /\ job.kind = "labels" => \A v \in job.left : u <= v
Visited(u, improving) ==
  job' = [job EXCEPT !.left = @ \ {u}, !.improved = @ \/ improving]

CostOfMove(u, b) == CostGain(partition, u, partition[u], b)

(* The blocks next to u that have room for it, and the best of them.        *)
Rooms(u) == {b \in ConnectedBlocks(partition, u) \ {partition[u]} : Fits(u, b)}
Best(u) == {b \in Rooms(u) : \A a \in Rooms(u) : CostOfMove(u, a) <= CostOfMove(u, b)}

(* Ties are broken by chance, a gain of 0 counts when a coin says so; the   *)
(* swap refinement takes gains above 0 only.                                *)
MoveSingle(u) ==
  /\ job.phase = "move" /\ Turn(u)
  /\ \E b \in Best(u) :
       /\ CostOfMove(u, b) > 0 \/ (job.kind = "labels" /\ CostOfMove(u, b) = 0)
       /\ PmMove(u, partition[u], b)
       /\ IF job.kind = "labels" THEN BvMove(u, partition[u], b) ELSE UNCHANGED bv
       /\ Visited(u, CostOfMove(u, b) > 0)

LeaveSingle(u) ==
  /\ job.phase = "move" /\ Turn(u)
  /\ \A b \in Best(u) : CostOfMove(u, b) <= 0
  /\ Visited(u, FALSE) /\ UNCHANGED <<pmVars, bv>>

(* The edge between the two keeps its cost and was counted by both.         *)
SwapGainBothEnds(u, v) == CostOfMove(u, partition[v]) + CostOfMove(v, partition[u])
SwapGain(u, v) ==
  CostOfMove(u, partition[v]) + CostOfMove(v, partition[u])
    - 2 * EdgeWeight[u][v] * D[partition[u]][partition[v]]

Exchangeable(u, v) ==
  /\ partition[u] # partition[v]
  /\ bweights[partition[u]] - VertexWeight[u] + VertexWeight[v] <= Lmax[partition[u]]
  /\ bweights[partition[v]] - VertexWeight[v] + VertexWeight[u] <= Lmax[partition[v]]
  /\ SwapGain(u, v) > 0

(* u is exchanged with the first of its neighbours that gains.              *)
Swap(u) ==
  /\ job.phase = "swap" /\ Turn(u)
  /\ LET partners == SelectSeq(AdjOrder[u], LAMBDA v : Exchangeable(u, v))
         v == Head(partners)
         a == partition[u]
         b == partition[v]
         d == VertexWeight[v] - VertexWeight[u]
     IN IF partners = <<>> THEN Visited(u, FALSE) /\ UNCHANGED pmVars
        ELSE /\ partition' = [partition EXCEPT ![u] = b, ![v] = a]
             /\ bweights' = [bweights EXCEPT ![a] = @ + d, ![b] = @ - d]
             /\ UNCHANGED nVertices
             /\ Visited(u, TRUE)
  /\ UNCHANGED bv

EndPass ==
  /\ job.phase \in {"move", "swap"} /\ job.left = {}
  /\ job' = IF job.kind = "swap" /\ job.phase = "move"
            THEN [job EXCEPT !.phase = "swap", !.left = Vertex]
            ELSE IF job.improved /\ job.iteration < MaxPasses
            THEN [job EXCEPT !.phase = "move", !.left = Vertex,
                             !.iteration = @ + 1, !.improved = FALSE]
            ELSE [job EXCEPT !.phase = "done"]
  /\ UNCHANGED <<pmVars, bv>>

NextSerial ==
  \/ \E u \in Vertex : MoveSingle(u) \/ LeaveSingle(u) \/ Swap(u)
  \/ EndPass

-----------------------------------------------------------------------------
(* Neither a move nor an exchange makes the mapping dearer, also one of two *)
(* neighbours, whose gains both count the edge between them; the swap       *)
(* refinement makes it cheaper with every one.  Blocks within their         *)
(* capacities stay there.                                                   *)
CostNeverRises ==
  [][ /\ Qap(partition') <= Qap(partition)
      /\ job.kind = "swap" /\ partition' # partition => Qap(partition') < Qap(partition)
      /\ \A b \in Block : bweights[b] <= Lmax[b] => bweights'[b] <= Lmax[b] ]_job
=============================================================================
