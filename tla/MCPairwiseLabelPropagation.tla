---------------------- MODULE MCPairwiseLabelPropagation ---------------------
(* Two pairs of blocks, each with two vertices in the first block and one   *)
(* in the second, joined through two blocks between them: their distance is *)
(* exactly 3, and both pairs' moves change what the blocks between see.     *)
EXTENDS PairwiseLabelPropagation

CONSTANT Start     (* The partitions to start from.                          *)

MCVertex == 0 .. 7
MCBlock == 0 .. 5
MCHierarchy == <<2, 3>>
MCDistances == <<1, 3>>
MCD == [a \in MCBlock |-> [b \in MCBlock |-> MatrixDistance(MCHierarchy, MCDistances, a, b)]]
MCEdges == {0, 1} :> 1 @@ {1, 2} :> 2 @@ {2, 3} :> 1 @@ {3, 4} :> 3
           @@ {4, 5} :> 2 @@ {5, 6} :> 2 @@ {6, 7} :> 1 @@ {1, 3} :> 1
MCEdgeWeight == [u \in MCVertex |-> [v \in MCVertex |->
                  IF {u, v} \in DOMAIN MCEdges THEN MCEdges[{u, v}] ELSE 0]]
MCVertexWeight == [u \in MCVertex |-> 1]
MCLmax == [b \in MCBlock |-> IF b < 2 THEN 3 ELSE 2]
MCPartitions ==
  {l @@ 3 :> 2 @@ 4 :> 3 @@ r : l \in [0 .. 2 -> {0, 1}], r \in [5 .. 7 -> {4, 5}]}

MCInit == InitPLP /\ \E p \in Start : StructFromScratch(p)
MCSpec == MCInit /\ [][NextPLP]_plpVars /\ FairPLP
-----------------------------------------------------------------------------
(* Another graph: its quotient graph is the path 2 - 1 - 0 - 3 - 4 - 5.     *)
(* Vertex 1 is the only one of block 0 with an edge to block 3; when it     *)
(* moves to block 1, 0 - 3 goes and 1 - 3 comes: as many half edges, but 1  *)
(* and 4 are now at distance 2.                                             *)
SwapVertex == 0 .. 6
SwapEdges == {0, 1} :> 1 @@ {1, 2} :> 2 @@ {2, 3} :> 1
             @@ {1, 4} :> 1 @@ {4, 5} :> 1 @@ {5, 6} :> 1
SwapEdgeWeight == [u \in SwapVertex |-> [v \in SwapVertex |->
                    IF {u, v} \in DOMAIN SwapEdges THEN SwapEdges[{u, v}] ELSE 0]]
SwapVertexWeight == [u \in SwapVertex |-> 1]
SwapLmax == [b \in MCBlock |-> 2]
SwapPartitions ==
  {0 :> 0 @@ 1 :> 0 @@ 2 :> 1 @@ 3 :> 2 @@ 4 :> 3 @@ 5 :> 4 @@ 6 :> 5}
=============================================================================
