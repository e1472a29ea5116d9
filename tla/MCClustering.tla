---------------------------- MODULE MCClustering ----------------------------
(* The clustering by two threads in two rounds: a vertex with two leaves    *)
(* and a third neighbour in its block, and one vertex of another block; the *)
(* weights 1, 2, 1 and 2 of the block are more than two threads can put     *)
(* into one cluster of capacity 3, and they can put 5 into it.              *)
EXTENDS SizeConstrainedLP, TLC

MCVertex == 0 .. 4
MCBlock == {0, 1}
MCEdges == {{0, 1}, {0, 2}, {0, 3}, {3, 4}}
MCEdgeWeight == [u \in MCVertex |-> [v \in MCVertex |-> IF {u, v} \in MCEdges THEN 1 ELSE 0]]
MCVertexWeight == [u \in MCVertex |-> 1 + (u % 2)]
MCP == [u \in MCVertex |-> IF u = 4 THEN 1 ELSE 0]
MCThreads == Permutations(Thread)
=============================================================================
