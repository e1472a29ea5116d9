-------------------------- MODULE SizeConstrainedLP --------------------------
(***************************************************************************)
(* coarsening/size_constrained_lp.h: label propagation that clusters the    *)
(* vertices of a level for contraction.  Threads read the cluster of a      *)
(* neighbour and its weight, decide, and only then write their vertex's new *)
(* cluster and, atomically but one by one, the counters.                    *)
(*                                                                         *)
(* Edge ratings only order the clusters a vertex may join.  A thread adds   *)
(* them up while other threads relabel the neighbours, so every cluster     *)
(* that had room when it was read may come out best, and so may staying.    *)
(***************************************************************************)
EXTENDS Graph

CONSTANTS
  P,            (* p_manager: the block of every vertex.                     *)
  MaxW,         (* max_w, the weight a cluster is meant to have at most.     *)
  Thread,
  MaxRounds,    (* config.max_rounds.                                        *)
  MinMoved,     (* The least number of moves that is followed by a round.    *)
  Threads,      (* The number of chunks of the prefix sum in remap_clusters. *)
  NoVertex      (* g.n as leader: no leader yet.                             *)

HeaviestVertex == Max({VertexWeight[u] : u \in Vertex})

(* max_w is at least the weight of the heaviest vertex; vertices are numbered. *)
ASSUME ClusterAssumption ==
  /\ P \in [Vertex -> Block]
  /\ MaxW \in Nat /\ MaxW >= HeaviestVertex
  /\ IsFiniteSet(Thread) /\ Thread # {} /\ Threads \in Nat \ {0}
  /\ Vertex = 0 .. Cardinality(Vertex) - 1
  /\ NoVertex \notin Vertex

VARIABLES
  mapping,      (* mapping[u], the cluster of u.                             *)
  cw, cc,       (* cluster_weights, cluster_count.                           *)
  active, activeNext,
  stage,        (* [name, round, moved]: the loop at hand, n_moved.          *)
  todo,         (* The iterations of that loop no thread has come to yet.    *)
  th            (* The local state of every thread.                          *)

vars == <<mapping, cw, cc, active, activeNext, stage, todo, th>>

(* No loop body at hand; the move of u from one cluster to another; at the  *)
(* leaves of m.                                                             *)
Idle == [pc |-> "idle", u |-> NoVertex, from |-> NoVertex, to |-> NoVertex,
         rest |-> {}, leader |-> NoVertex, w |-> 0]
Move(u, from, to) == [pc |-> "map", u |-> u, from |-> from, to |-> to,
                      rest |-> {}, leader |-> NoVertex, w |-> 0]
AtLeaves(m, leaves) == [pc |-> "leaf", u |-> m, from |-> NoVertex, to |-> NoVertex,
                        rest |-> leaves, leader |-> NoVertex, w |-> 0]

Cluster(m, c) == {u \in Vertex : m[u] = c}
WeightOf(S) == SumFunctionOnSet(VertexWeight, S)

(* init_cluster_state, init_active                                          *)
Init ==
  /\ mapping = [u \in Vertex |-> u]
  /\ cw = VertexWeight
  /\ cc = [u \in Vertex |-> 1]
  /\ active = Vertex /\ activeNext = Vertex
  /\ stage = [name |-> "cluster", round |-> 0, moved |-> 0]
  /\ todo = Vertex
  /\ th = [t \in Thread |-> Idle]

Become(t, r) == th' = [th EXCEPT ![t] = r]
Goto(t, pc) == Become(t, [th[t] EXCEPT !.pc = pc])
Leave(t) == Become(t, Idle)

-----------------------------------------------------------------------------
(* cluster_threaded and the second loop of merge_singletons.                *)

Near(u) == {v \in Adj(u) : P[v] = P[u]}
OpenIgnoresWeight(u) == {mapping[v] : v \in Near(u)} \ {mapping[u]}
Open(u) ==
  {c \in {mapping[v] : v \in Near(u)} \ {mapping[u]} : VertexWeight[u] + cw[c] <= MaxW}

(* The vertices a loop looks at: the active ones, or those still alone.     *)
Due(u) == IF stage.name = "cluster" THEN u \in active ELSE cc[mapping[u]] = 1

Pass(t, u) ==
  /\ stage.name \in {"cluster", "singletons"} /\ th[t].pc = "idle"
  /\ todo' = todo \ {u}
  /\ UNCHANGED <<mapping, cw, cc, active, activeNext, stage, th>>

Decide(t, u) ==
  /\ stage.name \in {"cluster", "singletons"} /\ th[t].pc = "idle"
  /\ Due(u)
  /\ todo' = todo \ {u}
  /\ \E c \in Open(u) : Become(t, Move(u, mapping[u], c))
  /\ UNCHANGED <<mapping, cw, cc, active, activeNext, stage>>

SetMapping(t) ==
  /\ th[t].pc = "map"
  /\ mapping' = [mapping EXCEPT ![th[t].u] = th[t].to]
  /\ Goto(t, "add")
  /\ UNCHANGED <<cw, cc, active, activeNext, stage, todo>>

AddWeight(t) ==
  /\ th[t].pc = "add"
  /\ cw' = [cw EXCEPT ![th[t].to] = @ + VertexWeight[th[t].u]]
  /\ Goto(t, "sub")
  /\ UNCHANGED <<mapping, cc, active, activeNext, stage, todo>>

(* The old cluster, read again after the vertex has been relabelled.        *)
SubWeightReread(t) ==
  /\ th[t].pc = "sub"
  /\ cw' = [cw EXCEPT ![mapping[th[t].u]] = @ - VertexWeight[th[t].u]]
  /\ IF stage.name = "singletons" THEN Goto(t, "inc") /\ UNCHANGED stage
     ELSE /\ stage' = [stage EXCEPT !.moved = @ + 1]
          /\ IF stage.round > 0 THEN Goto(t, "wake") ELSE Leave(t)
  /\ UNCHANGED <<mapping, cc, active, activeNext, todo>>

SubWeight(t) ==
  /\ th[t].pc = "sub"
  /\ cw' = [cw EXCEPT ![th[t].from] = @ - VertexWeight[th[t].u]]
  /\ IF stage.name = "singletons" THEN Goto(t, "inc") /\ UNCHANGED stage
     ELSE /\ stage' = [stage EXCEPT !.moved = @ + 1]
          /\ IF stage.round > 0 THEN Goto(t, "wake") ELSE Leave(t)
  /\ UNCHANGED <<mapping, cc, active, activeNext, todo>>

WakeNeighbours(t) ==
  /\ th[t].pc = "wake"
  /\ activeNext' = activeNext \cup Adj(th[t].u)
  /\ Leave(t)
  /\ UNCHANGED <<mapping, cw, cc, active, stage, todo>>

IncCount(t) ==
  /\ th[t].pc = "inc"
  /\ cc' = [cc EXCEPT ![th[t].to] = @ + 1]
  /\ Goto(t, "dec")
  /\ UNCHANGED <<mapping, cw, active, activeNext, stage, todo>>

DecCount(t) ==
  /\ th[t].pc = "dec"
  /\ cc' = [cc EXCEPT ![th[t].from] = @ - 1]
  /\ Leave(t)
  /\ UNCHANGED <<mapping, cw, active, activeNext, stage, todo>>

-----------------------------------------------------------------------------
(* merge_degree_one_siblings: the leaves of a vertex that are still alone.  *)
Leaves(m) == {v \in Adj(m) : Cardinality(Adj(v)) = 1}

TakeMid(t, m) ==
  /\ stage.name = "siblings" /\ th[t].pc = "idle"
  /\ todo' = todo \ {m}
  /\ Become(t, AtLeaves(m, Leaves(m)))
  /\ UNCHANGED <<mapping, cw, cc, active, activeNext, stage>>

Alone(m, v) == cc[mapping[v]] = 1 /\ P[v] = P[m] /\ VertexWeight[v] <= MaxW

SkipLeaf(t, v) ==
  /\ th[t].pc = "leaf" /\ ~ Alone(th[t].u, v)
  /\ Become(t, [th[t] EXCEPT !.rest = @ \ {v}])
  /\ UNCHANGED <<mapping, cw, cc, active, activeNext, stage, todo>>

NewLeader(t, v) ==
  /\ th[t].pc = "leaf" /\ Alone(th[t].u, v)
  /\ th[t].leader = NoVertex \/ th[t].w + VertexWeight[v] > MaxW
  /\ Become(t, [th[t] EXCEPT !.rest = @ \ {v}, !.leader = v, !.w = VertexWeight[v]])
  /\ UNCHANGED <<mapping, cw, cc, active, activeNext, stage, todo>>

(* The leaf goes to the cluster numbered like its leader.                   *)
FollowLeader(t, v) ==
  LET leader == th[t].leader
      w      == th[t].w + VertexWeight[v]
  IN  /\ th[t].pc = "leaf" /\ Alone(th[t].u, v)
      /\ leader # NoVertex /\ w <= MaxW
      /\ mapping' = [mapping EXCEPT ![v] = leader]
      /\ cw' = [cw EXCEPT ![leader] = w]
      /\ cc' = [cc EXCEPT ![leader] = @ + 1, ![v] = 0]
      /\ Become(t, [th[t] EXCEPT !.rest = @ \ {v}, !.w = w])
      /\ UNCHANGED <<active, activeNext, stage, todo>>

EndMid(t) ==
  /\ th[t].pc = "leaf" /\ th[t].rest = {}
  /\ Leave(t)
  /\ UNCHANGED <<mapping, cw, cc, active, activeNext, stage, todo>>

-----------------------------------------------------------------------------
(* remap_clusters: number the clusters in use from 0, chunk by chunk.       *)
InUse(m) == {m[u] : u \in Vertex}
N == Cardinality(Vertex)
Smaller(a, b) == IF a < b THEN a ELSE b

(* A slip of Chunk below: rounding down leaves the last vertices to nobody. *)
ChunkRoundedDown(tid) ==
  LET size == N \div Threads IN tid * size .. (tid + 1) * size - 1

Chunk(tid) ==
  LET size  == (N + Threads - 1) \div Threads
      start == Smaller(N, tid * size)
  IN  start .. Smaller(N, start + size) - 1

CountBefore(m, tid) ==
  Cardinality(UNION {Chunk(i) \cap InUse(m) : i \in 0 .. tid - 1})

Remap(m, c) ==
  IF \E i \in 0 .. Threads - 1 : c \in Chunk(i)
  THEN LET tid == CHOOSE i \in 0 .. Threads - 1 : c \in Chunk(i)
       IN  CountBefore(m, tid) + Cardinality({x \in Chunk(tid) \cap InUse(m) : x < c})
  ELSE 1
Remapped(m) == [u \in Vertex |-> Remap(m, m[u])]
CoarseN(m) == CountBefore(m, Threads)

(* merge_when_identity, as MergeWhenIdentity proves it: disjoint pairs of   *)
(* neighbours in one block that fit together.                               *)
PairingsOfNeighbours ==
  {m \in [Vertex -> Vertex] : \A u \in Vertex :
     m[u] = u \/ /\ m[u] \in Near(u) /\ VertexWeight[u] + VertexWeight[m[u]] <= MaxW
                 /\ m[m[u]] = m[u]
                 /\ \A v \in Vertex \ {u, m[u]} : m[v] # m[u] /\ m[v] # u}

-----------------------------------------------------------------------------
(* cluster_templated: the barriers between the loops.                       *)
Barrier == todo = {} /\ \A t \in Thread : th[t].pc = "idle"

NextRound ==
  /\ Barrier /\ stage.name = "cluster"
  /\ stage.moved >= MinMoved /\ stage.round + 1 < MaxRounds
  /\ stage' = [name |-> "cluster", round |-> stage.round + 1, moved |-> 0]
  /\ active' = activeNext /\ activeNext' = {}
  /\ todo' = Vertex
  /\ UNCHANGED <<mapping, cw, cc, th>>

(* cluster_count is recomputed, and the vertices alone in their cluster are *)
(* collected.                                                               *)
StartSingletons ==
  /\ Barrier /\ stage.name = "cluster"
  /\ stage.moved < MinMoved \/ stage.round + 1 >= MaxRounds
  /\ stage' = [name |-> "singletons", round |-> 0, moved |-> 0]
  /\ cc' = [c \in Vertex |-> Cardinality(Cluster(mapping, c))]
  /\ todo' = {u \in Vertex : cc'[mapping[u]] = 1}
  /\ UNCHANGED <<mapping, cw, active, activeNext, th>>

StartSiblings ==
  /\ Barrier /\ stage.name = "singletons"
  /\ stage' = [name |-> "siblings", round |-> 0, moved |-> 0]
  /\ todo' = {m \in Vertex : Cardinality(Adj(m)) >= 2}
  /\ UNCHANGED <<mapping, cw, cc, active, activeNext, th>>

CheckIdentity ==
  /\ Barrier /\ stage.name = "siblings"
  /\ IF \A u \in Vertex : mapping[u] = u
     THEN mapping' \in PairingsOfNeighbours ELSE UNCHANGED mapping
  /\ stage' = [stage EXCEPT !.name = "remap"]
  /\ UNCHANGED <<cw, cc, active, activeNext, todo, th>>

RemapClusters ==
  /\ stage.name = "remap"
  /\ mapping' = Remapped(mapping)
  /\ stage' = [stage EXCEPT !.name = "done"]
  /\ UNCHANGED <<cw, cc, active, activeNext, todo, th>>

Step(t) ==
  \/ \E u \in todo : Pass(t, u)
  \/ \E u \in todo : Decide(t, u)
  \/ SetMapping(t) \/ AddWeight(t) \/ SubWeight(t) \/ WakeNeighbours(t)
  \/ IncCount(t) \/ DecCount(t)
  \/ \E m \in todo : TakeMid(t, m)
  \/ \E v \in th[t].rest : SkipLeaf(t, v)
  \/ \E v \in th[t].rest : NewLeader(t, v)
  \/ \E v \in th[t].rest : FollowLeader(t, v)
  \/ EndMid(t)

Next ==
  \/ \E t \in Thread : Step(t)
  \/ NextRound \/ StartSingletons \/ StartSiblings \/ CheckIdentity \/ RemapClusters

Spec == Init /\ [][Next]_vars

-----------------------------------------------------------------------------
(* Contraction merges clusters, so no cluster may reach into two blocks,    *)
(* not even while threads are relabelling.  The weight check and the update *)
(* are not one step, so threads may fill a cluster together; they overshoot *)
(* max_w by less than one vertex per thread, also when a round starts from  *)
(* an overfull cluster.                                                     *)
ClustersFit ==
  /\ \A u, v \in Vertex : mapping[u] = mapping[v] => P[u] = P[v]
  /\ stage.name \in {"cluster", "singletons"} =>
       \A c \in Vertex :
         WeightOf(Cluster(mapping, c)) <= MaxW + (Cardinality(Thread) - 1) * HeaviestVertex

(* Between the loops the atomic updates add up: the weight of a cluster is  *)
(* that of its vertices, and the count that merge_singletons leaves is      *)
(* their number, whatever order they joined and left it in.                 *)
CountersAddUp ==
  Barrier => \A c \in Vertex :
    /\ stage.name \in {"cluster", "singletons"} => cw[c] = WeightOf(Cluster(mapping, c))
    /\ stage.name = "singletons" => cc[c] = Cardinality(Cluster(mapping, c))

(* remap_clusters renumbers the clusters 0 .. coarse_n - 1 and joins none,  *)
(* however the vertices are dealt out to the threads.                       *)
RemapIsDense ==
  stage.name = "remap" =>
    /\ InUse(Remapped(mapping)) = 0 .. CoarseN(mapping) - 1
    /\ \A u, v \in Vertex : Remapped(mapping)[u] = Remapped(mapping)[v] <=> mapping[u] = mapping[v]
=============================================================================
