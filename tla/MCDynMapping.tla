---------------------------- MODULE MCDynMapping ----------------------------
(* Up to three vertices on a machine of three nodes with two cores each:    *)
(* graphs that grow are mapped and refined.  Or commands of every kind on   *)
(* three vertices in any order, one of which may be removed by weight, and  *)
(* nothing is mapped (graphOnly).                                           *)
EXTENDS DynMapping

VARIABLE graphOnly

MCHierarchy == <<2, 3>>
MCDistances == <<1, 10>>
MCResults == {[v \in 0 .. 2 |-> (a * v + a) % 6] : a \in {1, 3, 4}}

MCInit == DynInit /\ graphOnly \in BOOLEAN

MCNext ==
  /\ UNCHANGED graphOnly
  /\ \/ ~ graphOnly /\ DynNext
     \/ graphOnly /\ Next /\ UNCHANGED <<p, previous, last, commands>>

(* Renaming the blocks keeps distances and migrates little.                 *)
AlignmentSound == AlignmentKeepsDistances /\ TopLevelStays

MCSpec == MCInit /\ [][MCNext]_<<dynVars, graphOnly>>
=============================================================================
