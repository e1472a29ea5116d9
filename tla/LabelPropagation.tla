-------------------------- MODULE LabelPropagation --------------------------
(***************************************************************************)
(* The serial label propagation of refinement/                              *)
(* label_propagation_refinement.h (refine_impl_serial), one vertex a step.  *)
(***************************************************************************)
EXTENDS BlockStructures

CONSTANT MaxSweeps        (* config.max_iteration.                           *)

ASSUME MaxSweepsAssumption == MaxSweeps \in Nat \ {0}

VARIABLES
  cursor,                 (* Index of the next vertex of this sweep.         *)
  iteration,
  positive                (* positive_move_occurred in this sweep.           *)

lpVars == <<structVars, cursor, iteration, positive>>

(* The connected blocks that have room for u, and the best of them.         *)
Targets(u) == {conn[u][i].id : i \in DOMAIN conn[u]}
Feasible(u) == {b \in Targets(u) \ {partition[u]} : Fits(u, b)}
Gain(u, b) == QapDelta(u, partition[u], b)
BestTargets(u) == {b \in Feasible(u) : \A c \in Feasible(u) : Gain(u, c) <= Gain(u, b)}

InitLP ==
  /\ StructInit
  /\ cursor = 1 /\ iteration = 0 /\ positive = FALSE

(* The last vertex of a sweep decides whether there is another one.         *)
Sweeping == cursor <= Len(AllVertices) /\ iteration < MaxSweeps
Current == AllVertices[cursor]

(* A best target with a positive gain is taken, one with gain 0 on a coin   *)
(* flip; ties between best targets are broken at random.                    *)
MoveToBest ==
  /\ Sweeping
  /\ IsBoundary(Current)
  /\ \E b \in BestTargets(Current) :
       /\ Gain(Current, b) >= 0
       /\ ApplyMove(Current, partition[Current], b)
       /\ positive' = (positive \/ Gain(Current, b) > 0)
  /\ cursor' = cursor + 1
  /\ UNCHANGED iteration

Stay ==
  /\ Sweeping
  /\ \/ ~ IsBoundary(Current)
     \/ \A b \in BestTargets(Current) : Gain(Current, b) <= 0
  /\ cursor' = cursor + 1
  /\ UNCHANGED <<structVars, iteration, positive>>

NextSweep ==
  /\ cursor > Len(AllVertices)
  /\ positive
  /\ iteration + 1 < MaxSweeps
  /\ cursor' = 1 /\ positive' = FALSE /\ iteration' = iteration + 1
  /\ UNCHANGED structVars

NextLP == MoveToBest \/ Stay \/ NextSweep

SpecLP == InitLP /\ [][NextLP]_lpVars

-----------------------------------------------------------------------------
(* The sweeps are over.                                                     *)
AtWill == iteration = MaxSweeps

(* A sweep implements MonotoneMoves: the gains computed from the slots of   *)
(* block_conn are the true change of the cost, and the incremental block    *)
(* weights keep every target within its capacity.  What other steps do to   *)
(* the partition once the iterations are used up is shown as no moves.      *)
Shown == INSTANCE MonotoneMoves WITH
  part <- IF AtWill THEN [v \in Vertex |-> 0] ELSE partition
ImplementsMonotoneMoves == Shown!Spec
=============================================================================
