------------------------- MODULE MCBlockStructures --------------------------
(* A triangle with weights 1, 2, 1 and a vertex hanging from it, in the     *)
(* four blocks of a 2 x 2 machine, from every partition; capacities that    *)
(* some of the partitions exceed.  Either the serial label propagation      *)
(* runs; or, with the iterations used up, the graph goes down one level and *)
(* up again, by three threads; or vertices are moved at will, from the      *)
(* start or after that.                                                     *)
EXTENDS LabelPropagation, Levels

MCVertex == 0 .. 3
MCBlock == 0 .. 3
MCEdges == {0, 1} :> 1 @@ {1, 2} :> 2 @@ {0, 2} :> 1 @@ {2, 3} :> 3
MCEdgeWeight == [u \in MCVertex |-> [v \in MCVertex |->
                  IF {u, v} \in DOMAIN MCEdges THEN MCEdges[{u, v}] ELSE 0]]
MCVertexWeight == [u \in MCVertex |-> 1 + (u % 2)]
MCLmax == [b \in MCBlock |-> 3]
MCHierarchy == <<2, 2>>
MCDistances == <<1, 10>>
MCD == [a \in MCBlock |-> [b \in MCBlock |-> MatrixDistance(MCHierarchy, MCDistances, a, b)]]

EndedLP == cursor = Len(AllVertices) + 1 /\ iteration = MaxSweeps /\ positive = FALSE

(* The partition of a graph that is contracted: none yet, or two blocks.    *)
MCBefore == {[u \in MCVertex |-> 0], [u \in MCVertex |-> IF u = 3 THEN 2 ELSE 1]}

MCInit ==
  \/ InitLP /\ NoLevels
  \/ StructInit /\ EndedLP /\ NoLevels
  \/ EndedLP /\ \E p \in MCBefore : InitLevels(p)

MCNext ==
  \/ NextLP /\ UNCHANGED levelVars
  \/ AtWill /\ phase = "fine" /\ StructNext /\ UNCHANGED <<cursor, iteration, positive, levelVars>>
  \/ NextLevels /\ UNCHANGED <<cursor, iteration, positive>>

MCSpec == MCInit /\ [][MCNext]_<<lpVars, levelVars>>
=============================================================================
