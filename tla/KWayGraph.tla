------------------------------ MODULE KWayGraph -----------------------------
(***************************************************************************)
(* kway_partitioner/kway_graph.h: the graphs of the k-way partitioner,     *)
(* records of n (the vertices are 0 .. n - 1), vw (their weights) and ew   *)
(* (the weights of the edges, 0 where there is none), and what the         *)
(* partitioner derives from one and a partition.                           *)
(***************************************************************************)
EXTENDS Integers, FiniteSets, Sequences, SequencesExt, FiniteSetsExt

Ids(G) == 0 .. G.n - 1
Nb(G, v) == {x \in Ids(G) : G.ew[v][x] > 0}
Total(G) == MapThenSumSet(LAMBDA v : G.vw[v], Ids(G))

WeightTo(G, p, v, b) ==
  MapThenSumSet(LAMBDA x : IF p[x] = b THEN G.ew[v][x] ELSE 0, Ids(G))
Internal(G, p, v) == WeightTo(G, p, v, p[v])
External(G, p, v) ==
  MapThenSumSet(LAMBDA x : IF p[x] # p[v] THEN G.ew[v][x] ELSE 0, Ids(G))
Cut(G, p) == MapThenSumSet(LAMBDA v : External(G, p, v), Ids(G)) \div 2
PartWeight(G, p, b) ==
  MapThenSumSet(LAMBDA v : IF p[v] = b THEN G.vw[v] ELSE 0, Ids(G))

(* coarse_graph: vertices with the same number become one; edges within it  *)
(* are left out.                                                            *)
Contracted(G, mapping) ==
  LET coarse == {mapping[v] : v \in Ids(G)}
      of(c) == {v \in Ids(G) : mapping[v] = c}
  IN  [n |-> Cardinality(coarse),
       vw |-> [c \in coarse |-> MapThenSumSet(LAMBDA v : G.vw[v], of(c))],
       ew |-> [c \in coarse |-> [d \in coarse |->
                 IF c = d THEN 0
                 ELSE MapThenSumSet(LAMBDA v : MapThenSumSet(LAMBDA x : G.ew[v][x], of(d)),
                                    of(c))]]]
=============================================================================
