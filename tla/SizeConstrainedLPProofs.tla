---------------------- MODULE SizeConstrainedLPProofs ----------------------
(***************************************************************************)
(* Proofs about the clustering, for every graph, weight limit and number of *)
(* threads: a cluster stays within one block and overshoots max_w by less   *)
(* than one vertex per thread, the counters add up between the loops, and   *)
(* the renumbering is dense and joins no clusters.                          *)
(*                                                                         *)
(* A thread changes the cluster of its vertex and the counters in separate  *)
(* steps.  The invariant says what every thread still owes the counters,    *)
(* and what it has laid claim to since it compared a cluster with max_w.    *)
(***************************************************************************)
EXTENDS SizeConstrainedLP, SetTheorems

LocalState ==
  [pc : {"idle", "map", "add", "sub", "wake", "inc", "dec", "leaf"},
   u : Vertex \cup {NoVertex}, from : Vertex \cup {NoVertex}, to : Vertex \cup {NoVertex},
   rest : SUBSET Vertex, leader : Vertex \cup {NoVertex}, w : Int]

TypeOK ==
  /\ mapping \in [Vertex -> Vertex]
  /\ cw \in [Vertex -> Int] /\ cc \in [Vertex -> Int]
  /\ active \subseteq Vertex /\ activeNext \subseteq Vertex
  /\ stage \in [name : {"cluster", "singletons", "siblings", "remap", "done"},
                round : Nat, moved : Nat]
  /\ todo \subseteq Vertex
  /\ th \in [Thread -> LocalState]

(* What a thread does in which loop.                                        *)
Relabelling(r) == r.pc \in {"map", "add", "sub", "wake", "inc", "dec"}
Steps ==
  CASE stage.name = "cluster"    -> {"idle", "map", "add", "sub", "wake"}
    [] stage.name = "singletons" -> {"idle", "map", "add", "sub", "inc", "dec"}
    [] stage.name = "siblings"   -> {"idle", "leaf"}
    [] OTHER                     -> {"idle"}

ThreadInv(t) ==
  LET r == th[t] IN
  /\ r.pc \in Steps
  /\ Relabelling(r) =>
       /\ r.u \in Vertex \ todo /\ r.from \in Vertex /\ r.to \in Vertex
       /\ r.from # r.to
       /\ P[r.to] = P[r.u]
       /\ r.pc = "map" => mapping[r.u] = r.from
       /\ r.pc \in {"add", "sub", "inc", "dec"} => mapping[r.u] = r.to
  /\ r.pc = "leaf" => r.u \in Vertex /\ (r.leader # NoVertex => P[r.leader] = P[r.u])

(* No two threads are at the same vertex.                                   *)
Apart == \A s, t \in Thread :
  s # t /\ Relabelling(th[s]) /\ Relabelling(th[t]) => th[s].u # th[t].u

BlockInv ==
  IF stage.name = "done" THEN \A u, v \in Vertex : mapping[u] = mapping[v] => P[u] = P[v]
  ELSE \A u \in Vertex : P[mapping[u]] = P[u]

(* What a thread in state r has yet to do to the counters of cluster c, and *)
(* the weight that it will bring there.                                     *)
Gain(r, c, steps, n) == IF r.pc \in steps /\ r.to = c THEN n ELSE 0
Loss(r, c, steps, n) == IF r.pc \in steps /\ r.from = c THEN n ELSE 0
OwedWeight(r, c) ==
  Gain(r, c, {"add"}, VertexWeight[r.u]) - Loss(r, c, {"add", "sub"}, VertexWeight[r.u])
OwedCount(r, c) ==
  Gain(r, c, {"add", "sub", "inc"}, 1) - Loss(r, c, {"add", "sub", "inc", "dec"}, 1)
Claim(r, c) == Gain(r, c, {"map", "add"}, VertexWeight[r.u])

AllOwedWeight(c) == SumFunctionOnSet([t \in Thread |-> OwedWeight(th[t], c)], Thread)
AllOwedCount(c) == SumFunctionOnSet([t \in Thread |-> OwedCount(th[t], c)], Thread)
Claims(c) == SumFunctionOnSet([t \in Thread |-> Claim(th[t], c)], Thread)

WeightInv == \A c \in Vertex :
  /\ WeightOf(Cluster(mapping, c)) = cw[c] + AllOwedWeight(c)
  /\ cw[c] + Claims(c) <= MaxW + (Cardinality(Thread) - 1) * HeaviestVertex
CountInv == \A c \in Vertex : Cardinality(Cluster(mapping, c)) = cc[c] + AllOwedCount(c)

Relabels == stage.name \in {"cluster", "singletons"}

IInv ==
  /\ TypeOK /\ Apart /\ BlockInv
  /\ \A t \in Thread : ThreadInv(t)
  /\ Relabels => WeightInv
  /\ stage.name = "singletons" => CountInv

-----------------------------------------------------------------------------
(* The constants: max_w is a weight, no vertex is heavier than the heaviest. *)
LEMMA HeaviestIsHeaviest ==
  ASSUME NEW u \in Vertex
  PROVE  HeaviestVertex \in Nat /\ VertexWeight[u] \in Nat /\ VertexWeight[u] <= HeaviestVertex
<1> DEFINE Weights == {VertexWeight[v] : v \in Vertex}
<1>1. Weights \subseteq Nat /\ VertexWeight[u] \in Weights
  BY GraphAssumption
<1>2. IsFiniteSet(Weights)
  <2>1. VertexWeight \in Surjection(Vertex, Weights)
    BY GraphAssumption DEF Surjection
  <2> QED BY <2>1, GraphAssumption, FS_Surjection
<1> HIDE DEF Weights
<1>4. Weights \subseteq Int /\ Weights # {}
  BY <1>1
<1>3. Max(Weights) \in Weights /\ \A x \in Weights : x <= Max(Weights)
  BY <1>2, <1>4, LargestExists
<1> QED BY <1>1, <1>3 DEF HeaviestVertex, Weights

-----------------------------------------------------------------------------
(* The records of a thread.                                                 *)
LEMMA Records ==
  ASSUME NoVertex \notin Vertex
  PROVE  /\ Idle \in LocalState
         /\ \A u, from, to \in Vertex : Move(u, from, to) \in LocalState
         /\ \A m \in Vertex : \A leaves \in SUBSET Vertex : AtLeaves(m, leaves) \in LocalState
         /\ \A r \in LocalState : \A v \in Vertex : \A k \in Int :
              /\ [r EXCEPT !.rest = @ \ {v}, !.leader = v, !.w = k] \in LocalState
              /\ [r EXCEPT !.rest = @ \ {v}, !.w = k] \in LocalState
              /\ [r EXCEPT !.rest = @ \ {v}] \in LocalState
<1>1. Idle \in LocalState
  BY DEF Idle, LocalState
<1>2. \A u, from, to \in Vertex : Move(u, from, to) \in LocalState
  BY DEF Move, LocalState
<1>3. \A m \in Vertex : \A leaves \in SUBSET Vertex : AtLeaves(m, leaves) \in LocalState
  BY DEF AtLeaves, LocalState
<1>4. ASSUME NEW r \in LocalState, NEW v \in Vertex, NEW k \in Int
      PROVE  [r EXCEPT !.rest = @ \ {v}, !.leader = v, !.w = k] \in LocalState
  BY DEF LocalState
<1>5. ASSUME NEW r \in LocalState, NEW v \in Vertex, NEW k \in Int
      PROVE  /\ [r EXCEPT !.rest = @ \ {v}, !.w = k] \in LocalState
             /\ [r EXCEPT !.rest = @ \ {v}] \in LocalState
  BY DEF LocalState
<1> QED BY <1>1, <1>2, <1>3, <1>4, <1>5

(* What a thread may become without the state losing its type.              *)
LEMMA BecomeKeepsType ==
  ASSUME TypeOK, NEW t \in Thread, NEW r \in LocalState, Become(t, r)
  PROVE  /\ th' \in [Thread -> LocalState]
         /\ th'[t] = r /\ \A s \in Thread \ {t} : th'[s] = th[s]
BY DEF TypeOK, Become

LEMMA GotoKeepsType ==
  ASSUME TypeOK, NEW t \in Thread,
         NEW pc \in {"idle", "map", "add", "sub", "wake", "inc", "dec", "leaf"}, Goto(t, pc)
  PROVE  /\ th' \in [Thread -> LocalState]
         /\ th'[t] = [th[t] EXCEPT !.pc = pc] /\ \A s \in Thread \ {t} : th'[s] = th[s]
<1>1. [th[t] EXCEPT !.pc = pc] \in LocalState
  BY DEF TypeOK, LocalState
<1> QED BY <1>1, BecomeKeepsType DEF Goto

LEMMA LeaveKeepsType ==
  ASSUME TypeOK, NoVertex \notin Vertex, NEW t \in Thread, Leave(t)
  PROVE  /\ th' \in [Thread -> LocalState]
         /\ th'[t] = Idle /\ \A s \in Thread \ {t} : th'[s] = th[s]
BY Records, BecomeKeepsType DEF Leave

(* Every step keeps the state well typed.                                   *)
LEMMA StepKeepsType ==
  ASSUME IInv, NEW t \in Thread, Step(t)
  PROVE  TypeOK'
<1> DEFINE me == th[t]
<1>0. ThreadInv(t) /\ TypeOK /\ \A u \in Vertex : VertexWeight[u] \in Nat
  BY GraphAssumption DEF IInv
<1>a. NoVertex \notin Vertex /\ me \in LocalState
  BY <1>0, ClusterAssumption DEF TypeOK
<1>b. Relabelling(me) => me.u \in Vertex /\ me.from \in Vertex /\ me.to \in Vertex
  BY <1>0 DEF ThreadInv
<1>1. ASSUME NEW u \in todo, Pass(t, u) PROVE TypeOK'
  BY <1>0, <1>1 DEF Pass, TypeOK
<1>2. ASSUME NEW u \in todo, Decide(t, u) PROVE TypeOK'
  <2>1. Open(u) \subseteq Vertex /\ mapping[u] \in Vertex /\ u \in Vertex
    BY <1>0 DEF Open, Near, Adj, TypeOK
  <2>2. PICK c \in Open(u) : Become(t, Move(u, mapping[u], c))
    BY <1>2 DEF Decide
  <2>3. th' \in [Thread -> LocalState]
    BY <1>0, <1>a, <2>1, <2>2, Records, BecomeKeepsType
  <2> QED BY <1>0, <1>2, <2>3 DEF Decide, TypeOK
<1>3. CASE SetMapping(t)
  BY <1>0, <1>b, <1>3, GotoKeepsType DEF SetMapping, Relabelling, TypeOK
<1>4. CASE AddWeight(t)
  <2>1. th' \in [Thread -> LocalState]
    BY <1>0, <1>4, GotoKeepsType DEF AddWeight
  <2> QED BY <1>0, <1>b, <1>4, <2>1 DEF AddWeight, Relabelling, TypeOK
<1>5. CASE SubWeight(t)
  <2>1. th' \in [Thread -> LocalState]
    BY <1>0, <1>a, <1>5, GotoKeepsType, LeaveKeepsType DEF SubWeight
  <2>2. /\ stage' \in [name : {"cluster", "singletons", "siblings", "remap", "done"},
                       round : Nat, moved : Nat]
        /\ cw' \in [Vertex -> Int]
    BY <1>0, <1>b, <1>5 DEF SubWeight, Relabelling, TypeOK
  <2> QED BY <1>0, <1>5, <2>1, <2>2 DEF SubWeight, TypeOK
<1>6. CASE WakeNeighbours(t)
  BY <1>0, <1>6, <1>a, LeaveKeepsType DEF WakeNeighbours, Adj, TypeOK
<1>7. CASE IncCount(t)
  <2>1. th' \in [Thread -> LocalState]
    BY <1>0, <1>7, GotoKeepsType DEF IncCount
  <2> QED BY <1>0, <1>b, <1>7, <2>1 DEF IncCount, Relabelling, TypeOK
<1>8. CASE DecCount(t)
  BY <1>0, <1>a, <1>b, <1>8, LeaveKeepsType DEF DecCount, Relabelling, TypeOK
<1>9. ASSUME NEW m \in todo, TakeMid(t, m) PROVE TypeOK'
  <2>1. Leaves(m) \subseteq Vertex /\ m \in Vertex
    BY <1>0 DEF Leaves, Adj, TypeOK
  <2>2. AtLeaves(m, Leaves(m)) \in LocalState
    BY <1>a, <2>1, Records
  <2>3. th' \in [Thread -> LocalState]
    BY <1>0, <1>9, <2>2, BecomeKeepsType DEF TakeMid
  <2> QED BY <1>0, <1>9, <2>3 DEF TakeMid, TypeOK
<1>10. ASSUME NEW v \in me.rest PROVE v \in Vertex /\ VertexWeight[v] \in Int /\ me.w \in Int
  BY <1>0, <1>a DEF LocalState
<1>11. ASSUME NEW v \in me.rest, SkipLeaf(t, v) PROVE TypeOK'
  <2>1. [me EXCEPT !.rest = @ \ {v}] \in LocalState
    BY <1>a, <1>10, Records
  <2>2. th' \in [Thread -> LocalState]
    BY <1>0, <1>11, <2>1, BecomeKeepsType DEF SkipLeaf
  <2> QED BY <1>0, <1>11, <2>2 DEF SkipLeaf, TypeOK
<1>12. ASSUME NEW v \in me.rest, NewLeader(t, v) PROVE TypeOK'
  <2>1. [me EXCEPT !.rest = @ \ {v}, !.leader = v, !.w = VertexWeight[v]] \in LocalState
    BY <1>a, <1>10, Records
  <2>2. th' \in [Thread -> LocalState]
    BY <1>0, <1>12, <2>1, BecomeKeepsType DEF NewLeader
  <2> QED BY <1>0, <1>12, <2>2 DEF NewLeader, TypeOK
<1>13. ASSUME NEW v \in me.rest, FollowLeader(t, v) PROVE TypeOK'
  <2> DEFINE w == me.w + VertexWeight[v]
             leader == me.leader
  <2>1. v \in Vertex /\ leader \in Vertex /\ w \in Int
    BY <1>a, <1>10, <1>13 DEF LocalState, FollowLeader
  <2>2. [me EXCEPT !.rest = @ \ {v}, !.w = w] \in LocalState
    BY <1>a, <2>1, Records
  <2>3. th' \in [Thread -> LocalState]
    BY <1>0, <1>13, <2>2, BecomeKeepsType DEF FollowLeader
  <2>4. mapping' = [mapping EXCEPT ![v] = leader] /\ cw' = [cw EXCEPT ![leader] = w]
        /\ cc' = [cc EXCEPT ![leader] = @ + 1, ![v] = 0]
    BY <1>13 DEF FollowLeader
  <2> HIDE DEF w, leader
  <2>5. cc' \in [Vertex -> Int]
    <3>1. [cc EXCEPT ![leader] = @ + 1] \in [Vertex -> Int]
      BY <1>0, <2>1 DEF TypeOK
    <3> QED BY <1>0, <2>1, <2>4, <3>1 DEF TypeOK
  <2> QED BY <1>0, <1>13, <2>1, <2>3, <2>4, <2>5 DEF FollowLeader, TypeOK
<1>14. CASE EndMid(t)
  BY <1>0, <1>14, <1>a, LeaveKeepsType DEF EndMid, TypeOK
<1> QED BY <1>1, <1>2, <1>3, <1>4, <1>5, <1>6, <1>7, <1>8, <1>9, <1>11, <1>12, <1>13, <1>14
        DEF Step

-----------------------------------------------------------------------------
(* A step of thread t disturbs no other thread when it takes no iteration   *)
(* back and relabels no vertex that another thread is at.                   *)
Sound == TypeOK /\ Apart /\ BlockInv /\ \A t \in Thread : ThreadInv(t)

LEMMA OthersKept ==
  ASSUME Sound, TypeOK', NEW t \in Thread, \A s \in Thread \ {t} : th'[s] = th[s],
         todo' \subseteq todo, stage'.name = stage.name, BlockInv', ThreadInv(t)',
         \A s \in Thread \ {t} : Relabelling(th[s]) =>
            /\ mapping'[th[s].u] = mapping[th[s].u]
            /\ Relabelling(th[t])' => th'[t].u # th[s].u
  PROVE  Sound'
<1>1. Steps' = Steps
  BY DEF Steps
<1>2. ASSUME NEW s \in Thread \ {t} PROVE ThreadInv(s)'
  BY <1>1 DEF ThreadInv, Sound, Relabelling
<1>3. Apart'
  BY DEF Apart, Sound, Relabelling
<1> QED BY <1>2, <1>3 DEF Sound

LEMMA StepKeepsSound ==
  ASSUME IInv, NEW t \in Thread, Step(t)
  PROVE  Sound'
<1> DEFINE me == th[t]
<1>0. Sound /\ TypeOK /\ TypeOK' /\ ThreadInv(t)
  BY StepKeepsType DEF Sound, IInv
<1>a. NoVertex \notin Vertex /\ me \in LocalState
  BY <1>0, ClusterAssumption DEF TypeOK
<1>b. \A s \in Thread \ {t} : Relabelling(me) /\ Relabelling(th[s]) => th[s].u # me.u
  BY <1>0 DEF Sound, Apart
<1>1. ASSUME NEW u \in todo, Pass(t, u) PROVE Sound'
  <2>1. ThreadInv(t)' /\ BlockInv'
    BY <1>0, <1>1 DEF Pass, ThreadInv, BlockInv, Sound, Steps, Relabelling
  <2> QED BY <1>0, <1>1, <1>b, <2>1, OthersKept DEF Pass
<1>2. ASSUME NEW u \in todo, Decide(t, u) PROVE Sound'
  <2>1. u \in Vertex /\ mapping[u] \in Vertex /\ stage.name \in {"cluster", "singletons"}
    BY <1>0, <1>2 DEF TypeOK, Decide
  <2>2. PICK c \in Open(u) : Become(t, Move(u, mapping[u], c))
    BY <1>2 DEF Decide
  <2>3. \A v \in Vertex : P[mapping[v]] = P[v]
    BY <1>0, <2>1 DEF Sound, BlockInv
  <2>4. c \in Vertex /\ c # mapping[u] /\ P[c] = P[u]
    BY <1>0, <2>2, <2>3 DEF Open, Near, Adj, TypeOK
  <2>5. Move(u, mapping[u], c) \in LocalState
    BY <1>a, <2>1, <2>4, Records
  <2>6. th'[t] = Move(u, mapping[u], c) /\ \A s \in Thread \ {t} : th'[s] = th[s]
    BY <1>0, <2>2, <2>5, BecomeKeepsType
  <2>7. mapping' = mapping /\ stage' = stage /\ todo' = todo \ {u}
    BY <1>2 DEF Decide
  <2>8. BlockInv'
    BY <1>0, <2>7 DEF Sound, BlockInv
  <2>9. ThreadInv(t)'
    BY <2>1, <2>4, <2>6, <2>7 DEF ThreadInv, Move, Steps, Relabelling
  <2>10. \A s \in Thread \ {t} : Relabelling(th[s]) => th'[t].u # th[s].u
    BY <1>0, <2>6 DEF Sound, ThreadInv, Move
  <2> QED BY <1>0, <2>6, <2>7, <2>8, <2>9, <2>10, OthersKept
<1>3. CASE SetMapping(t)
  <2>1. th'[t] = [me EXCEPT !.pc = "add"] /\ \A s \in Thread \ {t} : th'[s] = th[s]
    BY <1>0, <1>3, GotoKeepsType DEF SetMapping
  <2>2. /\ Relabelling(me) /\ me.u \in Vertex \ todo /\ me.from \in Vertex /\ me.to \in Vertex
        /\ me.from # me.to /\ P[me.to] = P[me.u]
    BY <1>0, <1>3 DEF SetMapping, ThreadInv, Relabelling
  <2>3. /\ mapping' = [mapping EXCEPT ![me.u] = me.to] /\ stage' = stage /\ todo' = todo
        /\ me.pc = "map"
    BY <1>3 DEF SetMapping
  <2>4. mapping'[me.u] = me.to /\ \A v \in Vertex \ {me.u} : mapping'[v] = mapping[v]
    BY <1>0, <2>2, <2>3 DEF TypeOK
  <2>5. stage.name \in {"cluster", "singletons"}
    BY <1>0, <1>a, <2>3 DEF ThreadInv, Steps, TypeOK
  <2>6. BlockInv'
    BY <1>0, <2>2, <2>3, <2>4, <2>5 DEF Sound, BlockInv
  <2>7. /\ th'[t].pc = "add" /\ th'[t].u = me.u /\ th'[t].from = me.from
        /\ th'[t].to = me.to
    BY <1>a, <2>1 DEF LocalState
  <2>8. ThreadInv(t)'
    BY <2>2, <2>3, <2>4, <2>5, <2>7 DEF ThreadInv, Steps, Relabelling
  <2>9. \A s \in Thread \ {t} : Relabelling(th[s]) =>
          mapping'[th[s].u] = mapping[th[s].u] /\ th'[t].u # th[s].u
    BY <1>0, <1>b, <2>2, <2>4, <2>7 DEF Sound, ThreadInv
  <2> QED BY <1>0, <2>1, <2>3, <2>6, <2>8, <2>9, OthersKept
<1>4. ASSUME NEW pc \in {"sub", "wake", "inc", "dec"}, Goto(t, pc),
             me.pc \in {"add", "sub", "inc"}, stage'.name = stage.name,
             pc \in Steps, UNCHANGED <<mapping, todo>>,
             pc # "wake" => me.pc # "wake"
      PROVE  Sound'
  <2>1. th'[t] = [me EXCEPT !.pc = pc] /\ \A s \in Thread \ {t} : th'[s] = th[s]
    BY <1>0, <1>4, GotoKeepsType
  <2>2. /\ Relabelling(me) /\ me.u \in Vertex \ todo /\ me.from \in Vertex /\ me.to \in Vertex
        /\ me.from # me.to /\ P[me.to] = P[me.u] /\ mapping[me.u] = me.to
    BY <1>0, <1>4 DEF ThreadInv, Relabelling
  <2>3. /\ th'[t].pc = pc /\ th'[t].u = me.u /\ th'[t].from = me.from
        /\ th'[t].to = me.to
    BY <1>a, <2>1 DEF LocalState
  <2>4. BlockInv' /\ Steps' = Steps
    BY <1>0, <1>4 DEF Sound, BlockInv, Steps
  <2>5. ThreadInv(t)'
    BY <1>4, <2>2, <2>3, <2>4 DEF ThreadInv, Relabelling
  <2> QED BY <1>0, <1>b, <1>4, <2>1, <2>2, <2>3, <2>4, <2>5, OthersKept
<1>5. ASSUME Leave(t), stage'.name = stage.name, UNCHANGED <<mapping, todo>> PROVE Sound'
  <2>1. th'[t] = Idle /\ \A s \in Thread \ {t} : th'[s] = th[s]
    BY <1>0, <1>a, <1>5, LeaveKeepsType
  <2>2. BlockInv' /\ ThreadInv(t)'
    BY <1>0, <1>5, <2>1 DEF Sound, BlockInv, ThreadInv, Steps, Relabelling, Idle
  <2>3. ~ Relabelling(th'[t])
    BY <2>1 DEF Relabelling, Idle
  <2> QED BY <1>0, <1>5, <2>1, <2>2, <2>3, OthersKept DEF Relabelling
<1>6. CASE AddWeight(t)
  <2>1. "sub" \in Steps
    BY <1>0, <1>6 DEF ThreadInv, Steps, AddWeight
  <2> QED BY <1>4, <1>6, <2>1 DEF AddWeight
<1>7. CASE SubWeight(t)
  <2>1. stage.name = "singletons" => "inc" \in Steps
    BY DEF Steps
  <2>2. stage.name # "singletons" => stage.name = "cluster"
    BY <1>0, <1>7 DEF ThreadInv, Steps, SubWeight
  <2>3. stage.name = "cluster" => "wake" \in Steps
    BY DEF Steps
  <2>4. stage'.name = stage.name
    BY <1>0, <1>7 DEF SubWeight, TypeOK
  <2> QED BY <1>4, <1>5, <1>7, <2>1, <2>2, <2>3, <2>4 DEF SubWeight
<1>8. CASE WakeNeighbours(t)
  BY <1>5, <1>8 DEF WakeNeighbours
<1>9. CASE IncCount(t)
  <2>1. "dec" \in Steps
    BY <1>0, <1>9 DEF ThreadInv, Steps, IncCount
  <2> QED BY <1>4, <1>9, <2>1 DEF IncCount
<1>10. CASE DecCount(t)
  BY <1>5, <1>10 DEF DecCount
<1>11. CASE EndMid(t)
  BY <1>5, <1>11 DEF EndMid
(* Nobody relabels vertices while the leaves are merged.                    *)
<1>12. ASSUME NEW r \in LocalState, Become(t, r), r.pc = "leaf", r.u \in Vertex,
              r.leader # NoVertex => P[r.leader] = P[r.u],
              stage.name = "siblings", stage' = stage, todo' \subseteq todo, BlockInv'
       PROVE  Sound'
  <2>1. th'[t] = r /\ \A s \in Thread \ {t} : th'[s] = th[s]
    BY <1>0, <1>12, BecomeKeepsType
  <2>2. ThreadInv(t)' /\ ~ Relabelling(th'[t])
    BY <1>12, <2>1 DEF ThreadInv, Relabelling, Steps
  <2>3. \A s \in Thread : ~ Relabelling(th[s])
    BY <1>0, <1>12 DEF Sound, ThreadInv, Steps, Relabelling
  <2> QED BY <1>0, <1>12, <2>1, <2>2, <2>3, OthersKept
<1>13. me.pc = "leaf" => stage.name = "siblings" /\ me.u \in Vertex
                         /\ (me.leader # NoVertex => P[me.leader] = P[me.u])
  BY <1>0 DEF ThreadInv, Steps
<1>14. UNCHANGED <<mapping, stage>> => BlockInv'
  BY <1>0 DEF Sound, BlockInv
<1>15. ASSUME NEW v \in me.rest PROVE v \in Vertex /\ VertexWeight[v] \in Int /\ me.w \in Int
  <2>1. me.rest \subseteq Vertex /\ me.w \in Int
    BY <1>a DEF LocalState
  <2>2. VertexWeight \in [Vertex -> Nat]
    BY GraphAssumption
  <2> QED BY <2>1, <2>2
<1>16. ASSUME NEW m \in todo, TakeMid(t, m) PROVE Sound'
  <2>1. Leaves(m) \subseteq Vertex /\ m \in Vertex
    BY <1>0 DEF Leaves, Adj, TypeOK
  <2>2. AtLeaves(m, Leaves(m)) \in LocalState
    BY <1>a, <2>1, Records
  <2>3. /\ AtLeaves(m, Leaves(m)).pc = "leaf" /\ AtLeaves(m, Leaves(m)).u = m
        /\ AtLeaves(m, Leaves(m)).leader = NoVertex
    BY DEF AtLeaves
  <2> QED BY <1>12, <1>14, <1>16, <2>1, <2>2, <2>3 DEF TakeMid
<1>17. ASSUME NEW v \in me.rest, SkipLeaf(t, v) PROVE Sound'
  <2> DEFINE r == [me EXCEPT !.rest = @ \ {v}]
  <2>1. r \in LocalState /\ r.pc = me.pc /\ r.u = me.u /\ r.leader = me.leader
    BY <1>a, <1>15, Records DEF LocalState
  <2> QED BY <1>12, <1>13, <1>14, <1>17, <2>1 DEF SkipLeaf
<1>18. ASSUME NEW v \in me.rest, NewLeader(t, v) PROVE Sound'
  <2> DEFINE r == [me EXCEPT !.rest = @ \ {v}, !.leader = v, !.w = VertexWeight[v]]
  <2>1. r \in LocalState
    BY <1>a, <1>15, Records
  <2>2. r.pc = me.pc /\ r.u = me.u /\ r.leader = v
    BY <1>a DEF LocalState
  <2>3. P[v] = P[me.u]
    BY <1>18 DEF NewLeader, Alone
  <2> HIDE DEF r
  <2>4. Become(t, r) /\ me.pc = "leaf" /\ UNCHANGED <<mapping, stage, todo>>
    BY <1>18 DEF NewLeader, r
  <2> QED BY <1>12, <1>13, <1>14, <2>1, <2>2, <2>3, <2>4
<1>19. ASSUME NEW v \in me.rest, FollowLeader(t, v) PROVE Sound'
  <2> DEFINE w == me.w + VertexWeight[v]
             r == [me EXCEPT !.rest = @ \ {v}, !.w = w]
  <2>1. w \in Int /\ v \in Vertex
    BY <1>15
  <2>2. r \in LocalState
    BY <1>a, <2>1, Records
  <2>3. r.pc = me.pc /\ r.u = me.u /\ r.leader = me.leader
    BY <1>a DEF LocalState
  <2>4. /\ Become(t, r) /\ me.pc = "leaf" /\ UNCHANGED <<stage, todo>>
        /\ mapping' = [mapping EXCEPT ![v] = me.leader]
        /\ me.leader # NoVertex /\ P[v] = P[me.u]
    BY <1>19 DEF FollowLeader, Alone
  <2> HIDE DEF r
  <2>5. BlockInv'
    <3>1. P[me.leader] = P[v] /\ stage.name # "done"
      BY <1>13, <2>4
    <3>2. mapping'[v] = me.leader /\ \A u \in Vertex \ {v} : mapping'[u] = mapping[u]
      BY <1>0, <2>1, <2>4 DEF TypeOK
    <3> QED BY <1>0, <2>4, <3>1, <3>2 DEF Sound, BlockInv
  <2> QED BY <1>12, <1>13, <2>2, <2>3, <2>4, <2>5
<1> QED BY <1>1, <1>2, <1>3, <1>6, <1>7, <1>8, <1>9, <1>10, <1>11, <1>16, <1>17, <1>18, <1>19
        DEF Step

-----------------------------------------------------------------------------
(* Moving a vertex from one cluster to another moves its weight and one     *)
(* member.                                                                  *)
LEMMA MoveVertex ==
  ASSUME NEW m \in [Vertex -> Vertex], NEW u \in Vertex, NEW to \in Vertex, to # m[u],
         NEW new, new[u] = to, \A v \in Vertex \ {u} : new[v] = m[v], NEW c \in Vertex
  PROVE  /\ WeightOf(Cluster(new, c)) =
              WeightOf(Cluster(m, c)) + (IF c = to THEN VertexWeight[u] ELSE 0)
                                      - (IF c = m[u] THEN VertexWeight[u] ELSE 0)
         /\ Cardinality(Cluster(new, c)) =
              Cardinality(Cluster(m, c)) + (IF c = to THEN 1 ELSE 0)
                                         - (IF c = m[u] THEN 1 ELSE 0)
<1> DEFINE old == Cluster(m, c)
<1>2. IsFiniteSet(Vertex) /\ \A v \in Vertex : VertexWeight[v] \in Int
  BY GraphAssumption
<1>3. old \subseteq Vertex /\ IsFiniteSet(old)
  BY <1>2, FS_Subset DEF Cluster
<1>4. WeightOf(old) \in Int /\ Cardinality(old) \in Int
  BY <1>2, <1>3, SumType, FS_CardinalityType DEF WeightOf
<1> DEFINE Moved ==
             /\ WeightOf(Cluster(new, c)) =
                  WeightOf(old) + (IF c = to THEN VertexWeight[u] ELSE 0)
                                - (IF c = m[u] THEN VertexWeight[u] ELSE 0)
             /\ Cardinality(Cluster(new, c)) =
                  Cardinality(old) + (IF c = to THEN 1 ELSE 0) - (IF c = m[u] THEN 1 ELSE 0)
<1> HIDE DEF old
<1>5. ASSUME c = to PROVE Moved
  <2>1. Cluster(new, c) = old \cup {u} /\ u \notin old
    BY <1>5 DEF Cluster, old
  <2>2. WeightOf(old \cup {u}) = VertexWeight[u] + WeightOf(old)
    BY <1>2, <1>3, <2>1, SumAdd DEF WeightOf
  <2>3. Cardinality(old \cup {u}) = Cardinality(old) + 1
    BY <1>3, <2>1, FS_AddElement
  <2>4. c # m[u]
    BY <1>5
  <2> QED BY <1>2, <1>4, <1>5, <2>1, <2>2, <2>3, <2>4
<1>6. ASSUME c = m[u] PROVE Moved
  <2>1. Cluster(new, c) = old \ {u} /\ u \in old
    BY <1>6 DEF Cluster, old
  <2>2. WeightOf(old) = VertexWeight[u] + WeightOf(old \ {u})
    BY <1>2, <1>3, <2>1, SumRemove DEF WeightOf
  <2>3. Cardinality(old \ {u}) = Cardinality(old) - 1 /\ IsFiniteSet(old \ {u})
    BY <1>3, <2>1, FS_RemoveElement
  <2>4. WeightOf(old \ {u}) \in Int
    BY <1>2, <1>3, <2>3, SumType DEF WeightOf
  <2>5. c # to
    BY <1>6
  <2> QED BY <1>2, <1>4, <1>6, <2>1, <2>2, <2>3, <2>4, <2>5
<1>7. ASSUME c # to, c # m[u] PROVE Moved
  <2>1. Cluster(new, c) = old
    BY <1>7 DEF Cluster, old
  <2> QED BY <1>4, <1>7, <2>1
<1>8. Moved
  BY <1>5, <1>6, <1>7
<1> QED BY <1>8 DEF old

(* What the threads owe and claim are numbers, and a step of thread t       *)
(* changes the totals by what it changes for t.                             *)
LEMMA ShareType ==
  ASSUME NEW r, Relabelling(r) => r.u \in Vertex, NEW c \in Vertex
  PROVE  /\ OwedWeight(r, c) \in Int /\ OwedCount(r, c) \in Int
         /\ Claim(r, c) \in Nat /\ Claim(r, c) <= HeaviestVertex
         /\ OwedWeight(r, c) <= Claim(r, c)
<1>1. CASE Relabelling(r)
  <2>1. /\ VertexWeight[r.u] \in Nat /\ HeaviestVertex \in Nat
        /\ VertexWeight[r.u] <= HeaviestVertex
    BY <1>1, HeaviestIsHeaviest
  <2> QED BY <2>1 DEF OwedWeight, OwedCount, Claim, Gain, Loss
<1>2. CASE ~ Relabelling(r)
  <2>1. HeaviestVertex \in Nat
    BY HeaviestIsHeaviest
  <2> QED BY <1>2, <2>1 DEF Relabelling, OwedWeight, OwedCount, Claim, Gain, Loss
<1> QED BY <1>1, <1>2

LEMMA ShareMoves ==
  ASSUME Sound, Sound', NEW t \in Thread,
         \A s \in Thread \ {t} : th'[s] = th[s], NEW c \in Vertex
  PROVE  /\ AllOwedWeight(c) \in Int /\ AllOwedCount(c) \in Int /\ Claims(c) \in Int
         /\ AllOwedWeight(c)' = AllOwedWeight(c) - OwedWeight(th[t], c) + OwedWeight(th'[t], c)
         /\ AllOwedCount(c)' = AllOwedCount(c) - OwedCount(th[t], c) + OwedCount(th'[t], c)
         /\ Claims(c)' = Claims(c) - Claim(th[t], c) + Claim(th'[t], c)
<1> DEFINE owedW(f) == [s \in Thread |-> OwedWeight(f[s], c)]
           owedC(f) == [s \in Thread |-> OwedCount(f[s], c)]
           claim(f) == [s \in Thread |-> Claim(f[s], c)]
<1>1. IsFiniteSet(Thread)
  BY ClusterAssumption
<1>2. ASSUME NEW s \in Thread
      PROVE  /\ OwedWeight(th[s], c) \in Int /\ OwedCount(th[s], c) \in Int
             /\ Claim(th[s], c) \in Int
  <2>1. Relabelling(th[s]) => th[s].u \in Vertex
    BY DEF Sound, ThreadInv
  <2> QED BY <2>1, ShareType
<1>3. ASSUME NEW s \in Thread
      PROVE  /\ OwedWeight(th'[s], c) \in Int /\ OwedCount(th'[s], c) \in Int
             /\ Claim(th'[s], c) \in Int
  <2>1. Relabelling(th'[s]) => th'[s].u \in Vertex
    BY DEF Sound, ThreadInv, Relabelling
  <2> QED BY <2>1, ShareType
<1>4. /\ \A s \in Thread : owedW(th)[s] \in Int /\ owedW(th')[s] \in Int
      /\ \A s \in Thread \ {t} : owedW(th)[s] = owedW(th')[s]
  BY <1>2, <1>3
<1>5. /\ \A s \in Thread : owedC(th)[s] \in Int /\ owedC(th')[s] \in Int
      /\ \A s \in Thread \ {t} : owedC(th)[s] = owedC(th')[s]
  BY <1>2, <1>3
<1>6. /\ \A s \in Thread : claim(th)[s] \in Int /\ claim(th')[s] \in Int
      /\ \A s \in Thread \ {t} : claim(th)[s] = claim(th')[s]
  BY <1>2, <1>3
<1>7. /\ AllOwedWeight(c) = SumFunctionOnSet(owedW(th), Thread)
      /\ AllOwedWeight(c)' = SumFunctionOnSet(owedW(th'), Thread)
  BY DEF AllOwedWeight, OwedWeight, Gain, Loss
<1>8. /\ AllOwedCount(c) = SumFunctionOnSet(owedC(th), Thread)
      /\ AllOwedCount(c)' = SumFunctionOnSet(owedC(th'), Thread)
  BY DEF AllOwedCount, OwedCount, Gain, Loss
<1>9. /\ Claims(c) = SumFunctionOnSet(claim(th), Thread)
      /\ Claims(c)' = SumFunctionOnSet(claim(th'), Thread)
  BY DEF Claims, Claim, Gain
<1>10. /\ owedW(th)[t] = OwedWeight(th[t], c) /\ owedW(th')[t] = OwedWeight(th'[t], c)
       /\ owedC(th)[t] = OwedCount(th[t], c) /\ owedC(th')[t] = OwedCount(th'[t], c)
       /\ claim(th)[t] = Claim(th[t], c) /\ claim(th')[t] = Claim(th'[t], c)
  OBVIOUS
<1> HIDE DEF owedW, owedC, claim
<1>s. ASSUME NEW f, NEW h, \A s \in Thread : f[s] \in Int /\ h[s] \in Int,
             \A s \in Thread \ {t} : f[s] = h[s]
      PROVE  SumFunctionOnSet(h, Thread) = SumFunctionOnSet(f, Thread) - f[t] + h[t]
  BY <1>1, <1>s, SumUpdate
<1>11. SumFunctionOnSet(owedW(th'), Thread) =
         SumFunctionOnSet(owedW(th), Thread) - owedW(th)[t] + owedW(th')[t]
  BY <1>4, <1>s
<1>12. SumFunctionOnSet(owedC(th'), Thread) =
         SumFunctionOnSet(owedC(th), Thread) - owedC(th)[t] + owedC(th')[t]
  BY <1>5, <1>s
<1>13. SumFunctionOnSet(claim(th'), Thread) =
         SumFunctionOnSet(claim(th), Thread) - claim(th)[t] + claim(th')[t]
  BY <1>6, <1>s
<1>14. AllOwedWeight(c) \in Int /\ AllOwedCount(c) \in Int /\ Claims(c) \in Int
  BY <1>1, <1>4, <1>5, <1>6, <1>7, <1>8, <1>9, SumType
<1> QED BY <1>7, <1>8, <1>9, <1>10, <1>11, <1>12, <1>13, <1>14

-----------------------------------------------------------------------------
(* Weights: a step that settles what a thread owes keeps the equation, and  *)
(* only a decision, which compares the cluster with max_w, claims weight.   *)
Limit == MaxW + (Cardinality(Thread) - 1) * HeaviestVertex

LEMMA OthersClaim ==
  ASSUME Sound, NEW t \in Thread, NEW c \in Vertex, Claim(th[t], c) = 0
  PROVE  Claims(c) <= (Cardinality(Thread) - 1) * HeaviestVertex
<1> DEFINE f == [s \in Thread |-> Claim(th[s], c)]
           others == Thread \ {t}
<1>1. IsFiniteSet(Thread)
  BY ClusterAssumption
<1>2. ASSUME NEW s \in Thread
      PROVE  f[s] \in Int /\ f[s] <= HeaviestVertex
  <2>1. Relabelling(th[s]) => th[s].u \in Vertex
    BY DEF Sound, ThreadInv
  <2> QED BY <2>1, ShareType
<1>3. f[t] = 0 /\ Claims(c) = SumFunctionOnSet(f, Thread)
  BY DEF Claims
<1> HIDE DEF f
<1>4. IsFiniteSet(others) /\ Cardinality(others) = Cardinality(Thread) - 1
  BY <1>1, FS_RemoveElement
<1>5. SumFunctionOnSet(f, Thread) = f[t] + SumFunctionOnSet(f, others)
  BY <1>1, <1>2, SumRemove
<1>6. HeaviestVertex \in Nat
  BY HeaviestIsHeaviest
<1>7. SumFunctionOnSet(f, others) <= Cardinality(others) * HeaviestVertex
  BY <1>2, <1>4, <1>6, SumBound
<1>8. SumFunctionOnSet(f, others) \in Int
  BY <1>2, <1>4, SumType
<1> QED BY <1>3, <1>4, <1>5, <1>7, <1>8

LEMMA StepKeepsStage == ASSUME NEW t \in Thread, TypeOK, Step(t) PROVE stage'.name = stage.name
BY DEF TypeOK, Step, Pass, Decide, SetMapping, AddWeight, SubWeight, WakeNeighbours, IncCount,
       DecCount, TakeMid, SkipLeaf, NewLeader, FollowLeader, EndMid

LEMMA StepKeepsWeights ==
  ASSUME IInv, NEW t \in Thread, Step(t), Sound', Relabels'
  PROVE  WeightInv'
<1> DEFINE me == th[t]
           w == VertexWeight[me.u]
<1> SUFFICES ASSUME NEW c \in Vertex
             PROVE  /\ WeightOf(Cluster(mapping', c)) = cw'[c] + AllOwedWeight(c)'
                    /\ cw'[c] + Claims(c)' <= Limit
  BY DEF WeightInv, Limit, Cluster, WeightOf
<1> DEFINE Goal == /\ WeightOf(Cluster(mapping', c)) = cw'[c] + AllOwedWeight(c)'
                   /\ cw'[c] + Claims(c)' <= Limit
<1>0. Sound /\ TypeOK /\ TypeOK' /\ ThreadInv(t) /\ NoVertex \notin Vertex
  BY ClusterAssumption DEF Sound, IInv
<1>a. stage'.name = stage.name /\ stage.name \in {"cluster", "singletons"}
  BY <1>0, StepKeepsStage DEF Relabels
<1>b. /\ WeightOf(Cluster(mapping, c)) = cw[c] + AllOwedWeight(c)
      /\ cw[c] + Claims(c) <= Limit
      /\ cw[c] \in Int /\ cw'[c] \in Int /\ me \in LocalState
  BY <1>0, <1>a DEF IInv, WeightInv, Relabels, Limit, TypeOK
<1>c. Limit \in Int /\ MaxW \in Int /\ (Cardinality(Thread) - 1) * HeaviestVertex \in Int
  <2>1. HeaviestVertex \in Nat /\ Cardinality(Thread) \in Nat /\ MaxW \in Nat
    BY HeaviestIsHeaviest, FS_CardinalityType, ClusterAssumption
  <2> QED BY <2>1 DEF Limit
<1>d. Relabelling(me) => /\ me.u \in Vertex /\ w \in Nat /\ me.from \in Vertex
                         /\ me.to \in Vertex /\ me.from # me.to
  BY <1>0, GraphAssumption DEF ThreadInv
<1>s. ASSUME \A s \in Thread \ {t} : th'[s] = th[s]
      PROVE  /\ AllOwedWeight(c) \in Int /\ Claims(c) \in Int
             /\ AllOwedWeight(c)' = AllOwedWeight(c) - OwedWeight(th[t], c) + OwedWeight(th'[t], c)
             /\ Claims(c)' = Claims(c) - Claim(th[t], c) + Claim(th'[t], c)
             /\ OwedWeight(th[t], c) \in Int /\ OwedWeight(th'[t], c) \in Int
             /\ Claim(th[t], c) \in Int /\ Claim(th'[t], c) \in Int
  <2>1. /\ Relabelling(th[t]) => th[t].u \in Vertex
        /\ Relabelling(th'[t]) => th'[t].u \in Vertex
    BY <1>0 DEF Sound, ThreadInv, Relabelling
  <2> QED BY <1>0, <1>s, <2>1, ShareMoves, ShareType
(* Steps that neither relabel nor change the weights.                       *)
<1>q. ASSUME UNCHANGED <<mapping, cw>>, \A s \in Thread \ {t} : th'[s] = th[s],
             OwedWeight(th'[t], c) = OwedWeight(th[t], c), Claim(th'[t], c) = Claim(th[t], c)
      PROVE  Goal
  BY <1>b, <1>s, <1>q
<1>1. ASSUME NEW u \in todo, Pass(t, u) PROVE Goal
  BY <1>q, <1>1 DEF Pass
<1>2. ASSUME NEW u \in todo, Decide(t, u) PROVE Goal
  <2>1. u \in Vertex /\ mapping[u] \in Vertex /\ VertexWeight[u] \in Nat
    BY <1>0, GraphAssumption DEF TypeOK
  <2>2. PICK to \in Open(u) : Become(t, Move(u, mapping[u], to))
    BY <1>2 DEF Decide
  <2>3. to \in Vertex /\ VertexWeight[u] + cw[to] <= MaxW
    BY <1>0, <2>2 DEF Open, Near, Adj, TypeOK
  <2>4. th'[t] = Move(u, mapping[u], to) /\ \A s \in Thread \ {t} : th'[s] = th[s]
    BY <1>0, <2>1, <2>2, <2>3, BecomeKeepsType, Records
  <2>5. me.pc = "idle" /\ UNCHANGED <<mapping, cw>>
    BY <1>2 DEF Decide
  <2>6. /\ OwedWeight(th[t], c) = 0 /\ OwedWeight(th'[t], c) = 0 /\ Claim(th[t], c) = 0
        /\ Claim(th'[t], c) = IF c = to THEN VertexWeight[u] ELSE 0
    BY <2>4, <2>5 DEF OwedWeight, Claim, Gain, Loss, Move
  <2>7. CASE c = to
    <3>1. Claims(c) <= (Cardinality(Thread) - 1) * HeaviestVertex
      BY <1>0, <2>6, OthersClaim
    <3>2. cw'[c] + Claims(c)' = VertexWeight[u] + cw[to] + Claims(c)
      BY <1>b, <1>s, <2>1, <2>4, <2>5, <2>6, <2>7
    <3>3. cw'[c] + Claims(c)' <= Limit
      BY <1>b, <1>c, <1>s, <2>1, <2>3, <2>4, <2>7, <3>1, <3>2 DEF Limit
    <3>4. WeightOf(Cluster(mapping', c)) = cw'[c] + AllOwedWeight(c)'
      BY <1>b, <1>s, <2>4, <2>5, <2>6
    <3> QED BY <3>3, <3>4
  <2>8. CASE c # to
    BY <1>q, <2>4, <2>5, <2>6, <2>8
  <2> QED BY <2>7, <2>8
<1>3. CASE SetMapping(t)
  <2>1. th'[t] = [me EXCEPT !.pc = "add"] /\ \A s \in Thread \ {t} : th'[s] = th[s]
    BY <1>0, <1>3, GotoKeepsType DEF SetMapping
  <2>2. /\ th'[t].pc = "add" /\ th'[t].u = me.u /\ th'[t].from = me.from
        /\ th'[t].to = me.to
    BY <1>b, <2>1 DEF LocalState
  <2>3. /\ me.pc = "map" /\ Relabelling(me) /\ me.from = mapping[me.u]
        /\ mapping' = [mapping EXCEPT ![me.u] = me.to] /\ cw' = cw
    BY <1>0, <1>3 DEF SetMapping, ThreadInv, Relabelling
  <2>4. WeightOf(Cluster(mapping', c)) =
          WeightOf(Cluster(mapping, c)) + (IF c = me.to THEN w ELSE 0)
                                        - (IF c = me.from THEN w ELSE 0)
    <3>1. mapping \in [Vertex -> Vertex] /\ me.u \in Vertex /\ me.to \in Vertex
          /\ me.to # mapping[me.u]
          /\ mapping'[me.u] = me.to /\ \A v \in Vertex \ {me.u} : mapping'[v] = mapping[v]
      BY <1>0, <1>d, <2>3 DEF TypeOK
    <3>2. me.from = mapping[me.u]
      BY <2>3
    <3> HIDE DEF me
    <3>3. WeightOf(Cluster(mapping', c)) =
            WeightOf(Cluster(mapping, c)) + (IF c = me.to THEN VertexWeight[me.u] ELSE 0)
                           - (IF c = mapping[me.u] THEN VertexWeight[me.u] ELSE 0)
      BY <3>1, MoveVertex
    <3> QED BY <3>2, <3>3
  <2>5. /\ OwedWeight(th[t], c) = 0 /\ Claim(th'[t], c) = Claim(th[t], c)
        /\ OwedWeight(th'[t], c) = (IF c = me.to THEN w ELSE 0) - (IF c = me.from THEN w ELSE 0)
    BY <2>2, <2>3 DEF OwedWeight, Claim, Gain, Loss
  <2> QED BY <1>b, <1>d, <1>s, <2>1, <2>3, <2>4, <2>5
<1>4. CASE AddWeight(t)
  <2>1. th'[t] = [me EXCEPT !.pc = "sub"] /\ \A s \in Thread \ {t} : th'[s] = th[s]
    BY <1>0, <1>4, GotoKeepsType DEF AddWeight
  <2>2. /\ th'[t].pc = "sub" /\ th'[t].u = me.u /\ th'[t].from = me.from
        /\ th'[t].to = me.to
    BY <1>b, <2>1 DEF LocalState
  <2>3. /\ me.pc = "add" /\ Relabelling(me) /\ mapping' = mapping
        /\ cw' = [cw EXCEPT ![me.to] = @ + w]
    BY <1>4 DEF AddWeight, Relabelling
  <2>4. cw'[c] = cw[c] + (IF c = me.to THEN w ELSE 0)
    BY <1>0, <1>b, <1>d, <2>3 DEF TypeOK
  <2>5. /\ OwedWeight(th'[t], c) = OwedWeight(th[t], c) - (IF c = me.to THEN w ELSE 0)
        /\ Claim(th'[t], c) = Claim(th[t], c) - (IF c = me.to THEN w ELSE 0)
    BY <1>d, <2>2, <2>3 DEF OwedWeight, Claim, Gain, Loss
  <2> QED BY <1>b, <1>c, <1>d, <1>s, <2>1, <2>3, <2>4, <2>5
<1>5. CASE SubWeight(t)
  <2>1. /\ me.pc = "sub" /\ Relabelling(me) /\ mapping' = mapping
        /\ cw' = [cw EXCEPT ![me.from] = @ - w]
    BY <1>5 DEF SubWeight, Relabelling
  <2>2. \/ th'[t] = [me EXCEPT !.pc = "inc"] \/ th'[t] = [me EXCEPT !.pc = "wake"]
        \/ th'[t] = Idle
    BY <1>0, <1>5, GotoKeepsType, LeaveKeepsType DEF SubWeight
  <2>3. th'[t].pc \in {"inc", "wake", "idle"} /\ \A s \in Thread \ {t} : th'[s] = th[s]
    <3>1. th'[t].pc \in {"inc", "wake", "idle"}
      BY <1>b, <2>2 DEF LocalState, Idle
    <3> QED BY <1>0, <1>5, <3>1, GotoKeepsType, LeaveKeepsType DEF SubWeight
  <2>4. cw'[c] = cw[c] - (IF c = me.from THEN w ELSE 0)
    BY <1>0, <1>b, <1>d, <2>1 DEF TypeOK
  <2>5. /\ OwedWeight(th[t], c) = - (IF c = me.from THEN w ELSE 0)
        /\ OwedWeight(th'[t], c) = 0 /\ Claim(th'[t], c) = 0 /\ Claim(th[t], c) = 0
    BY <1>d, <2>1, <2>3 DEF OwedWeight, Claim, Gain, Loss
  <2> QED BY <1>b, <1>c, <1>d, <1>s, <2>1, <2>3, <2>4, <2>5
<1>6. CASE WakeNeighbours(t) \/ DecCount(t)
  <2>1. th'[t] = Idle /\ \A s \in Thread \ {t} : th'[s] = th[s]
    BY <1>0, <1>6, LeaveKeepsType DEF WakeNeighbours, DecCount
  <2>2. me.pc \in {"wake", "dec"} /\ UNCHANGED <<mapping, cw>>
    BY <1>6 DEF WakeNeighbours, DecCount
  <2>3. /\ OwedWeight(th[t], c) = 0 /\ OwedWeight(th'[t], c) = 0
        /\ Claim(th'[t], c) = 0 /\ Claim(th[t], c) = 0
    BY <2>1, <2>2 DEF OwedWeight, Claim, Gain, Loss, Idle
  <2> QED BY <1>q, <2>1, <2>2, <2>3
<1>7. CASE IncCount(t)
  <2>1. th'[t] = [me EXCEPT !.pc = "dec"] /\ \A s \in Thread \ {t} : th'[s] = th[s]
    BY <1>0, <1>7, GotoKeepsType DEF IncCount
  <2>2. me.pc = "inc" /\ th'[t].pc = "dec" /\ UNCHANGED <<mapping, cw>>
    BY <1>b, <1>7, <2>1 DEF IncCount, LocalState
  <2>3. /\ OwedWeight(th[t], c) = 0 /\ OwedWeight(th'[t], c) = 0
        /\ Claim(th'[t], c) = 0 /\ Claim(th[t], c) = 0
    BY <2>2 DEF OwedWeight, Claim, Gain, Loss
  <2> QED BY <1>q, <2>1, <2>2, <2>3
<1>8. me.pc # "leaf"
  BY <1>0, <1>a DEF ThreadInv, Steps
<1> QED
  <2>1. Goal
    BY <1>1, <1>2, <1>3, <1>4, <1>5, <1>6, <1>7, <1>8, <1>a
       DEF Step, TakeMid, SkipLeaf, NewLeader, FollowLeader, EndMid
  <2> QED BY <2>1

-----------------------------------------------------------------------------
(* Counts: the same argument for the number of members, which only the      *)
(* loop over the vertices alone in their cluster keeps up to date.          *)
LEMMA StepKeepsCounts ==
  ASSUME IInv, NEW t \in Thread, Step(t), Sound',
         stage'.name = "singletons"
  PROVE  CountInv'
<1> DEFINE me == th[t]
<1> SUFFICES ASSUME NEW c \in Vertex
             PROVE  Cardinality(Cluster(mapping', c)) = cc'[c] + AllOwedCount(c)'
  BY DEF CountInv, Cluster
<1> DEFINE Goal == Cardinality(Cluster(mapping', c)) = cc'[c] + AllOwedCount(c)'
<1>0. Sound /\ TypeOK /\ TypeOK' /\ ThreadInv(t) /\ NoVertex \notin Vertex
  BY ClusterAssumption DEF Sound, IInv
<1>a. stage.name = "singletons"
  BY <1>0, StepKeepsStage
<1>b. /\ Cardinality(Cluster(mapping, c)) = cc[c] + AllOwedCount(c)
      /\ cc[c] \in Int /\ cc'[c] \in Int /\ me \in LocalState
  BY <1>0, <1>a DEF IInv, CountInv, TypeOK
<1>d. Relabelling(me) => /\ me.u \in Vertex /\ me.from \in Vertex
                         /\ me.to \in Vertex /\ me.from # me.to
  BY <1>0 DEF ThreadInv
<1>s. ASSUME \A s \in Thread \ {t} : th'[s] = th[s]
      PROVE  /\ AllOwedCount(c) \in Int
             /\ AllOwedCount(c)' = AllOwedCount(c) - OwedCount(th[t], c) + OwedCount(th'[t], c)
             /\ OwedCount(th[t], c) \in Int /\ OwedCount(th'[t], c) \in Int
  <2>1. /\ Relabelling(th[t]) => th[t].u \in Vertex
        /\ Relabelling(th'[t]) => th'[t].u \in Vertex
    BY <1>0 DEF Sound, ThreadInv, Relabelling
  <2> QED BY <1>0, <1>s, <2>1, ShareMoves, ShareType
<1>q. ASSUME UNCHANGED <<mapping, cc>>, \A s \in Thread \ {t} : th'[s] = th[s],
             OwedCount(th'[t], c) = OwedCount(th[t], c)
      PROVE  Goal
  BY <1>b, <1>s, <1>q
(* A thread that goes on to pc.                                             *)
<1>g. ASSUME NEW pc \in {"add", "sub", "inc", "dec"}, Goto(t, pc)
      PROVE  /\ th'[t].pc = pc /\ th'[t].u = me.u /\ th'[t].from = me.from
             /\ th'[t].to = me.to /\ \A s \in Thread \ {t} : th'[s] = th[s]
  <2>1. th'[t] = [me EXCEPT !.pc = pc] /\ \A s \in Thread \ {t} : th'[s] = th[s]
    BY <1>0, <1>g, GotoKeepsType
  <2> QED BY <1>b, <2>1 DEF LocalState
<1>1. ASSUME NEW u \in todo, Pass(t, u) PROVE Goal
  BY <1>q, <1>1 DEF Pass
<1>2. ASSUME NEW u \in todo, Decide(t, u) PROVE Goal
  <2>1. u \in Vertex /\ mapping[u] \in Vertex
    BY <1>0 DEF TypeOK
  <2>2. PICK to \in Open(u) : Become(t, Move(u, mapping[u], to))
    BY <1>2 DEF Decide
  <2>3. to \in Vertex
    BY <1>0, <2>2 DEF Open, Near, Adj, TypeOK
  <2>4. th'[t] = Move(u, mapping[u], to) /\ \A s \in Thread \ {t} : th'[s] = th[s]
    BY <1>0, <2>1, <2>2, <2>3, BecomeKeepsType, Records
  <2>5. me.pc = "idle" /\ UNCHANGED <<mapping, cc>>
    BY <1>2 DEF Decide
  <2>6. OwedCount(th[t], c) = 0 /\ OwedCount(th'[t], c) = 0
    BY <2>4, <2>5 DEF OwedCount, Gain, Loss, Move
  <2> QED BY <1>q, <2>4, <2>5, <2>6
<1>3. CASE SetMapping(t)
  <2>1. /\ me.pc = "map" /\ Relabelling(me) /\ me.from = mapping[me.u]
        /\ mapping' = [mapping EXCEPT ![me.u] = me.to] /\ cc' = cc
    BY <1>0, <1>3 DEF SetMapping, ThreadInv, Relabelling
  <2>2. /\ th'[t].pc = "add" /\ th'[t].from = me.from /\ th'[t].to = me.to
        /\ \A s \in Thread \ {t} : th'[s] = th[s]
    BY <1>3, <1>g DEF SetMapping
  <2>3. Cardinality(Cluster(mapping', c)) =
          Cardinality(Cluster(mapping, c)) + (IF c = me.to THEN 1 ELSE 0)
                                           - (IF c = me.from THEN 1 ELSE 0)
    <3>1. mapping \in [Vertex -> Vertex] /\ me.u \in Vertex /\ me.to \in Vertex
          /\ me.to # mapping[me.u]
          /\ mapping'[me.u] = me.to /\ \A v \in Vertex \ {me.u} : mapping'[v] = mapping[v]
      BY <1>0, <1>d, <2>1 DEF TypeOK
    <3>2. me.from = mapping[me.u]
      BY <2>1
    <3> HIDE DEF me
    <3>3. Cardinality(Cluster(mapping', c)) =
            Cardinality(Cluster(mapping, c)) + (IF c = me.to THEN 1 ELSE 0)
                                             - (IF c = mapping[me.u] THEN 1 ELSE 0)
      BY <3>1, MoveVertex
    <3> QED BY <3>2, <3>3
  <2>4. /\ OwedCount(th[t], c) = 0
        /\ OwedCount(th'[t], c) = (IF c = me.to THEN 1 ELSE 0) - (IF c = me.from THEN 1 ELSE 0)
    BY <2>1, <2>2 DEF OwedCount, Gain, Loss
  <2> QED BY <1>b, <1>s, <2>1, <2>2, <2>3, <2>4
<1>4. CASE AddWeight(t)
  <2>1. /\ th'[t].pc = "sub" /\ th'[t].from = me.from /\ th'[t].to = me.to
        /\ \A s \in Thread \ {t} : th'[s] = th[s]
    BY <1>4, <1>g DEF AddWeight
  <2>2. me.pc = "add" /\ UNCHANGED <<mapping, cc>>
    BY <1>4 DEF AddWeight
  <2>3. OwedCount(th'[t], c) = OwedCount(th[t], c)
    BY <2>1, <2>2 DEF OwedCount, Gain, Loss
  <2> QED BY <1>q, <2>1, <2>2, <2>3
<1>5. CASE SubWeight(t)
  <2>1. /\ th'[t].pc = "inc" /\ th'[t].from = me.from /\ th'[t].to = me.to
        /\ \A s \in Thread \ {t} : th'[s] = th[s]
    BY <1>5, <1>a, <1>g DEF SubWeight
  <2>2. me.pc = "sub" /\ UNCHANGED <<mapping, cc>>
    BY <1>5 DEF SubWeight
  <2>3. OwedCount(th'[t], c) = OwedCount(th[t], c)
    BY <2>1, <2>2 DEF OwedCount, Gain, Loss
  <2> QED BY <1>q, <2>1, <2>2, <2>3
<1>6. CASE IncCount(t)
  <2>1. /\ th'[t].pc = "dec" /\ th'[t].from = me.from /\ th'[t].to = me.to
        /\ \A s \in Thread \ {t} : th'[s] = th[s]
    BY <1>6, <1>g DEF IncCount
  <2>2. me.pc = "inc" /\ mapping' = mapping /\ cc' = [cc EXCEPT ![me.to] = @ + 1]
    BY <1>6 DEF IncCount
  <2>3. cc'[c] = cc[c] + (IF c = me.to THEN 1 ELSE 0)
    BY <1>0, <2>2 DEF TypeOK
  <2>4. OwedCount(th'[t], c) = OwedCount(th[t], c) - (IF c = me.to THEN 1 ELSE 0)
    BY <2>1, <2>2 DEF OwedCount, Gain, Loss
  <2> QED BY <1>b, <1>s, <2>1, <2>2, <2>3, <2>4
<1>7. CASE DecCount(t)
  <2>1. th'[t] = Idle /\ \A s \in Thread \ {t} : th'[s] = th[s]
    BY <1>0, <1>7, LeaveKeepsType DEF DecCount
  <2>2. me.pc = "dec" /\ mapping' = mapping /\ cc' = [cc EXCEPT ![me.from] = @ - 1]
    BY <1>7 DEF DecCount
  <2>3. cc'[c] = cc[c] - (IF c = me.from THEN 1 ELSE 0)
    BY <1>0, <2>2 DEF TypeOK
  <2>4. /\ OwedCount(th[t], c) = - (IF c = me.from THEN 1 ELSE 0)
        /\ OwedCount(th'[t], c) = 0
    BY <2>1, <2>2 DEF OwedCount, Gain, Loss, Idle
  <2> QED BY <1>b, <1>s, <2>1, <2>2, <2>3, <2>4
<1>8. me.pc \notin {"leaf", "wake"}
  BY <1>0, <1>a DEF ThreadInv, Steps
<1> QED
  <2>1. Goal
    BY <1>1, <1>2, <1>3, <1>4, <1>5, <1>6, <1>7, <1>8, <1>a
       DEF Step, TakeMid, SkipLeaf, NewLeader, FollowLeader, EndMid, WakeNeighbours
  <2> QED BY <2>1

-----------------------------------------------------------------------------
(* The renumbering.  The chunks cover the vertices, and the chunks before   *)
(* one cover what is below its start.                                       *)
ChunkSize == (N + Threads - 1) \div Threads

LEMMA Division ==
  ASSUME NEW a \in Nat, NEW b \in Nat \ {0}
  PROVE  a \div b \in Nat /\ b * (a \div b) <= a /\ a < b * (a \div b) + b
OBVIOUS

LEMMA ChunksCover ==
  N \in Nat /\ ChunkSize \in Nat /\ N <= Threads * ChunkSize
<1>1. N \in Nat /\ Threads \in Nat \ {0}
  BY GraphAssumption, FS_CardinalityType, ClusterAssumption DEF N
<1>2. N + Threads - 1 \in Nat
  BY <1>1
<1>3. /\ ChunkSize \in Nat /\ Threads * ChunkSize <= N + Threads - 1
      /\ N + Threads - 1 < Threads * ChunkSize + Threads
  BY <1>1, <1>2, Division DEF ChunkSize
<1>4. Threads * ChunkSize \in Nat
  BY <1>1, <1>3
<1> QED BY <1>1, <1>3, <1>4

LEMMA ChunkOf ==
  ASSUME NEW x \in Nat, NEW tid \in Nat, x < tid * ChunkSize, x < N
  PROVE  \E i \in 0 .. tid - 1 : x \in Chunk(i)
<1>1. ChunkSize \in Nat /\ N \in Nat
  BY ChunksCover
<1>2. ChunkSize # 0
  BY <1>1
<1> DEFINE i == x \div ChunkSize
<1>3. i \in Nat /\ ChunkSize * i <= x /\ x < ChunkSize * i + ChunkSize
  BY <1>1, <1>2, Division
<1> HIDE DEF i
<1>4. i < tid
  <2>1. SUFFICES ASSUME i >= tid PROVE FALSE
    BY <1>3
  <2>2. ChunkSize * i >= ChunkSize * tid
    BY <1>1, <1>3, <2>1
  <2>3. ChunkSize * tid = tid * ChunkSize /\ tid * ChunkSize \in Nat /\ ChunkSize * i \in Nat
    BY <1>1, <1>3
  <2> QED BY <1>3, <2>2, <2>3
<1>5. ChunkSize * i = i * ChunkSize /\ i * ChunkSize \in Nat
  BY <1>1, <1>3
<1>6. Chunk(i) = Smaller(N, i * ChunkSize) ..
                 Smaller(N, Smaller(N, i * ChunkSize) + ChunkSize) - 1
  BY DEF Chunk, ChunkSize
<1>7. x \in Chunk(i)
  BY <1>1, <1>3, <1>5, <1>6 DEF Smaller
<1> QED BY <1>3, <1>4, <1>7

LEMMA ChunksBefore ==
  ASSUME NEW tid \in Nat
  PROVE  UNION {Chunk(i) : i \in 0 .. tid - 1} = 0 .. Smaller(N, tid * ChunkSize) - 1
<1>1. ChunkSize \in Nat /\ N \in Nat /\ tid * ChunkSize \in Nat
  BY ChunksCover
<1>2. ASSUME NEW i \in 0 .. tid - 1, NEW x \in Chunk(i)
      PROVE  x \in 0 .. Smaller(N, tid * ChunkSize) - 1
  <2>1. i * ChunkSize \in Nat /\ i * ChunkSize + ChunkSize <= tid * ChunkSize
    <3>1. (i + 1) * ChunkSize <= tid * ChunkSize
      BY <1>1
    <3>2. (i + 1) * ChunkSize = i * ChunkSize + ChunkSize
      BY <1>1
    <3> QED BY <1>1, <3>1, <3>2
  <2>2. Chunk(i) = Smaller(N, i * ChunkSize) ..
                   Smaller(N, Smaller(N, i * ChunkSize) + ChunkSize) - 1
    BY DEF Chunk, ChunkSize
  <2> QED BY <1>1, <1>2, <2>1, <2>2 DEF Smaller
<1>3. ASSUME NEW x \in 0 .. Smaller(N, tid * ChunkSize) - 1
      PROVE  \E i \in 0 .. tid - 1 : x \in Chunk(i)
  <2>1. x \in Nat /\ x < tid * ChunkSize /\ x < N
    BY <1>1 DEF Smaller
  <2> QED BY <2>1, ChunkOf
<1> QED BY <1>2, <1>3

LEMMA CountsBelow ==
  ASSUME NEW m \in [Vertex -> Vertex], NEW tid \in Nat
  PROVE  CountBefore(m, tid) = Cardinality({x \in InUse(m) : x < tid * ChunkSize})
<1>1. InUse(m) \subseteq 0 .. N - 1
  BY ClusterAssumption DEF InUse, N
<1>2. ChunkSize \in Nat /\ N \in Nat /\ tid * ChunkSize \in Nat
  BY ChunksCover
<1>3. UNION {Chunk(i) \cap InUse(m) : i \in 0 .. tid - 1} =
        (UNION {Chunk(i) : i \in 0 .. tid - 1}) \cap InUse(m)
  OBVIOUS
<1>4. (0 .. Smaller(N, tid * ChunkSize) - 1) \cap InUse(m) =
        {x \in InUse(m) : x < tid * ChunkSize}
  BY <1>1, <1>2 DEF Smaller
<1> QED BY <1>3, <1>4, ChunksBefore DEF CountBefore

(* The new number of a cluster is the number of clusters in use before it.  *)
LEMMA RemapIsRank ==
  ASSUME NEW m \in [Vertex -> Vertex], NEW c \in Vertex
  PROVE  Remap(m, c) = Cardinality({x \in InUse(m) : x < c})
<1>1. ChunkSize \in Nat /\ N \in Nat /\ N <= Threads * ChunkSize /\ Threads \in Nat
  BY ChunksCover, ClusterAssumption
<1>2. c \in Nat /\ c < N /\ c < Threads * ChunkSize
  BY <1>1, ClusterAssumption DEF N
<1>3. \E i \in 0 .. Threads - 1 : c \in Chunk(i)
  BY <1>1, <1>2, ChunkOf
<1> DEFINE tid == CHOOSE i \in 0 .. Threads - 1 : c \in Chunk(i)
           below == {x \in InUse(m) : x < tid * ChunkSize}
           rest == {x \in Chunk(tid) \cap InUse(m) : x < c}
<1>4. tid \in 0 .. Threads - 1 /\ c \in Chunk(tid)
  BY <1>3
<1>5. Remap(m, c) = CountBefore(m, tid) + Cardinality(rest)
  BY <1>3 DEF Remap
<1> HIDE DEF tid
<1>6. tid \in Nat /\ tid * ChunkSize \in Nat
  BY <1>1, <1>4
<1>7. CountBefore(m, tid) = Cardinality(below)
  BY <1>6, CountsBelow
<1>8. InUse(m) \subseteq 0 .. N - 1 /\ IsFiniteSet(InUse(m))
  <2>1. InUse(m) \subseteq Vertex
    BY DEF InUse
  <2> QED BY <2>1, GraphAssumption, FS_Subset, ClusterAssumption DEF N
<1>9. Chunk(tid) = Smaller(N, tid * ChunkSize) ..
                   Smaller(N, Smaller(N, tid * ChunkSize) + ChunkSize) - 1
  BY DEF Chunk, ChunkSize
<1>10. \A x \in InUse(m) : x < c <=> x < tid * ChunkSize \/ (x \in Chunk(tid) /\ x < c)
  BY <1>1, <1>2, <1>4, <1>6, <1>8, <1>9 DEF Smaller
<1>11. {x \in InUse(m) : x < c} = below \cup rest
  BY <1>10
<1>12. below \cap rest = {}
  BY <1>1, <1>4, <1>6, <1>8, <1>9 DEF Smaller
<1>13. IsFiniteSet(below) /\ IsFiniteSet(rest)
  BY <1>8, FS_Subset
<1>14. Cardinality(below \cup rest) = Cardinality(below) + Cardinality(rest) - Cardinality({})
  BY <1>12, <1>13, FS_Union
<1>15. Cardinality(below) \in Nat /\ Cardinality(rest) \in Nat /\ Cardinality({}) = 0
  BY <1>13, FS_CardinalityType, FS_EmptySet
<1> HIDE DEF below, rest
<1>16. Remap(m, c) = Cardinality(below \cup rest)
  BY <1>5, <1>7, <1>14, <1>15
<1> QED BY <1>11, <1>16

LEMMA RemapDense ==
  ASSUME NEW m \in [Vertex -> Vertex]
  PROVE  /\ Remapped(m) \in [Vertex -> Vertex]
         /\ InUse(Remapped(m)) = 0 .. CoarseN(m) - 1
         /\ \A u, v \in Vertex : Remapped(m)[u] = Remapped(m)[v] <=> m[u] = m[v]
<1> DEFINE S == InUse(m)
           rank == [c \in S |-> Cardinality(Below(S, c))]
<1>0. N \in Nat /\ Vertex = 0 .. N - 1 /\ IsFiniteSet(Vertex)
  BY GraphAssumption, FS_CardinalityType, ClusterAssumption DEF N
<1>1. S \subseteq Vertex /\ IsFiniteSet(S) /\ S \subseteq Int
  <2>1. S \subseteq Vertex
    BY DEF InUse
  <2> HIDE DEF S
  <2>2. IsFiniteSet(S)
    BY <1>0, <2>1, FS_Subset
  <2> QED BY <1>0, <2>1, <2>2
<1>2. \A u \in Vertex : Remapped(m)[u] = rank[m[u]] /\ m[u] \in S
  BY RemapIsRank DEF Remapped, InUse, Below
<1>3. CoarseN(m) = Cardinality(S)
  <2>1. CoarseN(m) = Cardinality({x \in S : x < Threads * ChunkSize})
    BY CountsBelow, ClusterAssumption DEF CoarseN
  <2>2. N <= Threads * ChunkSize /\ Threads * ChunkSize \in Nat
    BY <1>0, ChunksCover, ClusterAssumption
  <2>3. \A x \in Vertex : x < Threads * ChunkSize
    BY <1>0, <2>2
  <2>4. {x \in S : x < Threads * ChunkSize} = S
    BY <1>1, <2>3
  <2> QED BY <2>1, <2>4
<1>4. Cardinality(S) \in Nat /\ Cardinality(S) <= N
  <2> HIDE DEF S
  <2>1. Cardinality(S) <= Cardinality(Vertex)
    BY <1>0, <1>1, FS_Subset
  <2> QED BY <1>0, <1>1, <2>1, FS_CardinalityType DEF N
<1>5. rank = [c \in S |-> rank[c]] /\ \A c \in S : rank[c] = Cardinality(Below(S, c))
  OBVIOUS
<1> HIDE DEF S, rank
<1>6. /\ \A a, b \in S : rank[a] = rank[b] => a = b
      /\ \A c \in S : rank[c] \in 0 .. Cardinality(S) - 1
      /\ \A n \in 0 .. Cardinality(S) - 1 : \E c \in S : rank[c] = n
  BY <1>1, <1>5, RanksAreDense
<1>7. InUse(Remapped(m)) = 0 .. Cardinality(S) - 1
  <2>1. InUse(Remapped(m)) = {rank[m[u]] : u \in Vertex}
    BY <1>2 DEF InUse
  <2>2. S = {m[u] : u \in Vertex}
    BY DEF S, InUse
  <2>3. ASSUME NEW u \in Vertex PROVE rank[m[u]] \in 0 .. Cardinality(S) - 1
    BY <1>2, <1>6
  <2>4. ASSUME NEW n \in 0 .. Cardinality(S) - 1 PROVE \E u \in Vertex : rank[m[u]] = n
    <3>1. PICK c \in S : rank[c] = n
      BY <1>6
    <3> QED BY <2>2, <3>1
  <2> QED BY <2>1, <2>3, <2>4
<1>8. \A u, v \in Vertex : Remapped(m)[u] = Remapped(m)[v] <=> m[u] = m[v]
  BY <1>2, <1>6
<1>9. \A u \in Vertex : Remapped(m)[u] \in Vertex
  <2>1. \A u \in Vertex : Remapped(m)[u] \in 0 .. Cardinality(S) - 1
    BY <1>2, <1>6
  <2> QED BY <1>0, <1>4, <2>1
<1>10. Remapped(m) \in [Vertex -> Vertex]
  BY <1>9 DEF Remapped
<1> QED BY <1>3, <1>7, <1>8, <1>10

-----------------------------------------------------------------------------
(* The barriers.  A thread without a loop body owes and claims nothing.     *)
Resting == \A t \in Thread : th[t].pc = "idle"

LEMMA RestingOweNothing ==
  ASSUME Resting, NEW c \in Vertex
  PROVE  AllOwedWeight(c) = 0 /\ AllOwedCount(c) = 0 /\ Claims(c) = 0
<1>1. IsFiniteSet(Thread)
  BY ClusterAssumption
<1>2. ASSUME NEW t \in Thread
      PROVE  OwedWeight(th[t], c) = 0 /\ OwedCount(th[t], c) = 0 /\ Claim(th[t], c) = 0
  BY DEF Resting, OwedWeight, OwedCount, Claim, Gain, Loss
<1> DEFINE owedW == [t \in Thread |-> OwedWeight(th[t], c)]
           owedC == [t \in Thread |-> OwedCount(th[t], c)]
           claim == [t \in Thread |-> Claim(th[t], c)]
<1>3. \A t \in Thread : owedW[t] = 0 /\ owedC[t] = 0 /\ claim[t] = 0
  BY <1>2
<1>4. /\ AllOwedWeight(c) = SumFunctionOnSet(owedW, Thread)
      /\ AllOwedCount(c) = SumFunctionOnSet(owedC, Thread)
      /\ Claims(c) = SumFunctionOnSet(claim, Thread)
  BY DEF AllOwedWeight, AllOwedCount, Claims
<1> HIDE DEF owedW, owedC, claim
<1> QED BY <1>1, <1>3, <1>4, SumZero

LEMMA RestingIsSound ==
  ASSUME TypeOK', Resting', BlockInv' PROVE Sound'
<1>1. Apart'
  BY DEF Apart, Resting, Relabelling
<1>2. \A t \in Thread : ThreadInv(t)'
  BY DEF ThreadInv, Resting, Relabelling, Steps
<1> QED BY <1>1, <1>2 DEF Sound

LEMMA InitEstablishes == ASSUME Init PROVE IInv
<1>1. TypeOK /\ Resting /\ BlockInv
  <2>1. th \in [Thread -> LocalState] /\ Resting
    BY Records, ClusterAssumption DEF Init, Resting, Idle
  <2>2. TypeOK
    BY <2>1, GraphAssumption DEF Init, TypeOK
  <2>3. BlockInv
    BY DEF Init, BlockInv
  <2> QED BY <2>1, <2>2, <2>3
<1>2. Sound
  <2>1. Apart
    BY <1>1 DEF Apart, Resting, Relabelling
  <2>2. \A t \in Thread : ThreadInv(t)
    BY <1>1 DEF ThreadInv, Resting, Relabelling, Steps
  <2> QED BY <1>1, <2>1, <2>2 DEF Sound
<1>3. ASSUME NEW c \in Vertex
      PROVE  /\ WeightOf(Cluster(mapping, c)) = cw[c] + AllOwedWeight(c)
             /\ cw[c] + Claims(c) <= MaxW + (Cardinality(Thread) - 1) * HeaviestVertex
  <2>1. Cluster(mapping, c) = {} \cup {c}
    BY DEF Init, Cluster
  <2>2. \A x \in {} \cup {c} : VertexWeight[x] \in Int
    BY GraphAssumption
  <2>3. IsFiniteSet({}) /\ c \notin {}
    BY FS_EmptySet
  <2>4. SumFunctionOnSet(VertexWeight, {} \cup {c})
          = VertexWeight[c] + SumFunctionOnSet(VertexWeight, {})
    BY <2>2, <2>3, SumAdd
  <2>5. WeightOf(Cluster(mapping, c)) = VertexWeight[c]
    BY <2>1, <2>4, SumEmpty, GraphAssumption DEF WeightOf
  <2>6. cw[c] = VertexWeight[c] /\ AllOwedWeight(c) = 0 /\ Claims(c) = 0
    BY <1>1, RestingOweNothing DEF Init
  <2>7. /\ VertexWeight[c] \in Nat /\ HeaviestVertex \in Nat /\ MaxW \in Nat
        /\ VertexWeight[c] <= MaxW
    BY HeaviestIsHeaviest, ClusterAssumption
  <2>8. Cardinality(Thread) - 1 \in Nat
    BY FS_CardinalityType, FS_EmptySet, ClusterAssumption
  <2>9. (Cardinality(Thread) - 1) * HeaviestVertex \in Nat
    BY <2>7, <2>8
  <2> QED BY <2>5, <2>6, <2>7, <2>9
<1>4. WeightInv
  BY <1>3 DEF WeightInv
<1>5. stage.name # "singletons"
  BY DEF Init
<1> QED BY <1>2, <1>4, <1>5 DEF IInv, Sound

(* From one loop to the next no thread moves, and the counters are left     *)
(* alone or counted anew.                                                   *)
LEMMA BarrierKeeps ==
  ASSUME IInv,
         NextRound \/ StartSingletons \/ StartSiblings \/ CheckIdentity \/ RemapClusters
  PROVE  IInv'
<1>0. TypeOK /\ Sound
  BY DEF IInv, Sound
<1>1. Resting
  BY <1>0 DEF Barrier, NextRound, StartSingletons, StartSiblings, CheckIdentity, RemapClusters,
              Sound, ThreadInv, Steps, Resting
<1>2. Resting' /\ th' = th
  BY <1>1 DEF NextRound, StartSingletons, StartSiblings, CheckIdentity, RemapClusters, Resting
<1>3. ASSUME UNCHANGED <<mapping, cw>>, stage.name = "cluster" PROVE WeightInv'
  <2>1. WeightInv
    BY <1>3 DEF IInv, Relabels
  <2>2. \A c \in Vertex : AllOwedWeight(c)' = AllOwedWeight(c) /\ Claims(c)' = Claims(c)
    BY <1>2 DEF AllOwedWeight, Claims
  <2>3. \A c \in Vertex : Cluster(mapping, c)' = Cluster(mapping, c)
    BY <1>3 DEF Cluster
  <2> QED BY <1>3, <2>1, <2>2, <2>3 DEF WeightInv
<1>4. CASE NextRound
  <2>1. TypeOK'
    BY <1>0, <1>4 DEF NextRound, TypeOK
  <2>2. BlockInv'
    BY <1>0, <1>4 DEF NextRound, BlockInv, Sound
  <2>3. Sound'
    BY <1>2, <2>1, <2>2, RestingIsSound
  <2>4. WeightInv' /\ stage'.name = "cluster"
    BY <1>3, <1>4 DEF NextRound
  <2> QED BY <2>3, <2>4 DEF IInv, Sound
<1>5. CASE StartSingletons
  <2>1. \A c \in Vertex : Cardinality(Cluster(mapping, c)) \in Nat
    BY GraphAssumption, FS_Subset, FS_CardinalityType DEF Cluster
  <2>2. TypeOK'
    BY <1>0, <1>5, <2>1 DEF StartSingletons, TypeOK
  <2>3. BlockInv'
    BY <1>0, <1>5 DEF StartSingletons, BlockInv, Sound
  <2>4. Sound'
    BY <1>2, <2>2, <2>3, RestingIsSound
  <2>5. WeightInv'
    BY <1>3, <1>5 DEF StartSingletons
  <2>6. \A c \in Vertex : AllOwedCount(c) = 0 /\ AllOwedCount(c)' = AllOwedCount(c)
    BY <1>1, <1>2, RestingOweNothing DEF AllOwedCount
  <2>7. \A c \in Vertex : /\ cc'[c] = Cardinality(Cluster(mapping, c))
                          /\ Cluster(mapping, c)' = Cluster(mapping, c)
    BY <1>5 DEF StartSingletons, Cluster
  <2> HIDE DEF StartSingletons
  <2>8. CountInv'
    BY <2>1, <2>6, <2>7 DEF CountInv
  <2> QED BY <2>4, <2>5, <2>8 DEF IInv, Sound
<1>6. CASE StartSiblings
  <2>1. TypeOK'
    BY <1>0, <1>6 DEF StartSiblings, TypeOK
  <2>2. BlockInv'
    BY <1>0, <1>6 DEF StartSiblings, BlockInv, Sound
  <2>3. Sound' /\ stage'.name = "siblings"
    BY <1>2, <1>6, <2>1, <2>2, RestingIsSound DEF StartSiblings
  <2> QED BY <2>3 DEF IInv, Sound, Relabels
<1>7. CASE CheckIdentity
  <2>1. stage'.name = "remap" /\ stage.name = "siblings"
    BY <1>0, <1>7 DEF CheckIdentity, TypeOK
  <2>2. mapping' \in [Vertex -> Vertex] /\ \A u \in Vertex : P[mapping'[u]] = P[u]
    <3>1. CASE mapping' = mapping
      BY <1>0, <2>1, <3>1 DEF Sound, TypeOK, BlockInv
    <3>2. CASE mapping' \in PairingsOfNeighbours
      BY <3>2 DEF PairingsOfNeighbours, Near
    <3> QED BY <1>7, <3>1, <3>2 DEF CheckIdentity
  <2>3. TypeOK'
    BY <1>0, <1>7, <2>2 DEF CheckIdentity, TypeOK
  <2>4. BlockInv'
    BY <2>1, <2>2 DEF BlockInv
  <2> QED BY <1>2, <2>1, <2>3, <2>4, RestingIsSound DEF IInv, Sound, Relabels
<1>8. CASE RemapClusters
  <2>1. stage'.name = "done" /\ stage.name = "remap" /\ mapping' = Remapped(mapping)
    BY <1>0, <1>8 DEF RemapClusters, TypeOK
  <2>2. mapping \in [Vertex -> Vertex] /\ \A u \in Vertex : P[mapping[u]] = P[u]
    BY <1>0, <2>1 DEF Sound, BlockInv, TypeOK
  <2>3. /\ mapping' \in [Vertex -> Vertex]
        /\ \A u, v \in Vertex : mapping'[u] = mapping'[v] <=> mapping[u] = mapping[v]
    BY <2>1, <2>2, RemapDense
  <2>4. TypeOK'
    BY <1>0, <1>8, <2>3 DEF RemapClusters, TypeOK
  <2>5. BlockInv'
    BY <2>1, <2>2, <2>3 DEF BlockInv
  <2> QED BY <1>2, <2>1, <2>4, <2>5, RestingIsSound DEF IInv, Sound, Relabels
<1> QED BY <1>4, <1>5, <1>6, <1>7, <1>8

LEMMA StepPreserves == ASSUME IInv, [Next]_vars PROVE IInv'
<1>1. ASSUME NEW t \in Thread, Step(t) PROVE IInv'
  <2>1. Sound' /\ stage'.name = stage.name
    BY <1>1, StepKeepsSound, StepKeepsStage DEF IInv
  <2>2. Relabels' => WeightInv'
    BY <1>1, <2>1, StepKeepsWeights
  <2>3. stage'.name = "singletons" => CountInv'
    BY <1>1, <2>1, StepKeepsCounts
  <2> QED BY <2>1, <2>2, <2>3 DEF IInv, Sound
<1>2. ASSUME UNCHANGED vars PROVE IInv'
  <2>1. TypeOK' /\ Apart' /\ BlockInv'
    BY <1>2 DEF vars, IInv, TypeOK, Apart, BlockInv
  <2>2. \A t \in Thread : ThreadInv(t)'
    BY <1>2 DEF vars, IInv, ThreadInv, Steps
  <2>3. Relabels' => WeightInv'
    BY <1>2 DEF vars, IInv, Relabels, WeightInv, Cluster, AllOwedWeight, Claims
  <2>4. stage'.name = "singletons" => CountInv'
    BY <1>2 DEF vars, IInv, CountInv, Cluster, AllOwedCount
  <2> QED BY <2>1, <2>2, <2>3, <2>4 DEF IInv
<1> QED BY <1>1, <1>2, BarrierKeeps DEF Next

(* Every reachable state satisfies the inductive invariant.                 *)
THEOREM Inductive == Spec => []IInv
<1>1. Init => IInv
  BY InitEstablishes
<1>2. IInv /\ [Next]_vars => IInv'
  BY StepPreserves
<1> QED BY <1>1, <1>2, PTL DEF Spec

-----------------------------------------------------------------------------
(* A cluster never reaches into two blocks, and the weight of its vertices  *)
(* exceeds max_w by less than one vertex per other thread: what its         *)
(* counters show and the threads have laid claim to is what the limit       *)
(* bounds, and that is at least what its vertices weigh.                    *)
THEOREM ClustersFitTheorem == Spec => []ClustersFit
<1>1. ASSUME IInv PROVE ClustersFit
  <2>1. \A u, v \in Vertex : mapping[u] = mapping[v] => P[u] = P[v]
    BY <1>1 DEF IInv, BlockInv
  <2>2. ASSUME Relabels, NEW c \in Vertex
        PROVE  WeightOf(Cluster(mapping, c)) <= MaxW + (Cardinality(Thread) - 1) * HeaviestVertex
    <3> DEFINE owed == [t \in Thread |-> OwedWeight(th[t], c)]
               claim == [t \in Thread |-> Claim(th[t], c)]
    <3>1. IsFiniteSet(Thread)
      BY ClusterAssumption
    <3>2. \A t \in Thread : Relabelling(th[t]) => th[t].u \in Vertex
      BY <1>1 DEF IInv, ThreadInv
    <3>3. \A t \in Thread : owed[t] \in Int /\ claim[t] \in Int /\ owed[t] <= claim[t]
      BY <3>2, ShareType
    <3>4. AllOwedWeight(c) = SumFunctionOnSet(owed, Thread)
          /\ Claims(c) = SumFunctionOnSet(claim, Thread)
      BY DEF AllOwedWeight, Claims
    <3> HIDE DEF owed, claim
    <3>5. AllOwedWeight(c) \in Int /\ Claims(c) \in Int /\ AllOwedWeight(c) <= Claims(c)
      BY <3>1, <3>3, <3>4, SumType, SumMonotone
    <3>6. /\ WeightOf(Cluster(mapping, c)) = cw[c] + AllOwedWeight(c)
          /\ cw[c] + Claims(c) <= Limit /\ cw[c] \in Int
      BY <1>1, <2>2 DEF IInv, WeightInv, Limit, TypeOK
    <3>7. Limit \in Int
      <4>1. HeaviestVertex \in Int /\ Cardinality(Thread) \in Int /\ MaxW \in Int
        BY <3>1, HeaviestIsHeaviest, FS_CardinalityType, ClusterAssumption
      <4> QED BY <4>1 DEF Limit
    <3>8. WeightOf(Cluster(mapping, c)) <= Limit
      BY <3>5, <3>6, <3>7
    <3> QED BY <3>8 DEF Limit
  <2> QED BY <2>1, <2>2 DEF ClustersFit, Relabels
<1> QED BY <1>1, Inductive, PTL

(* Whatever order the threads join and leave clusters in, between the loops *)
(* a cluster's weight and count are those of its vertices.                  *)
THEOREM CountersAddUpTheorem == Spec => []CountersAddUp
<1>1. ASSUME IInv PROVE CountersAddUp
  <2> SUFFICES ASSUME Barrier, NEW c \in Vertex
               PROVE  /\ Relabels => cw[c] = WeightOf(Cluster(mapping, c))
                      /\ stage.name = "singletons" => cc[c] = Cardinality(Cluster(mapping, c))
    BY DEF CountersAddUp, Relabels
  <2>1. AllOwedWeight(c) = 0 /\ AllOwedCount(c) = 0
    BY RestingOweNothing DEF Barrier, Resting
  <2>2. cw[c] \in Int /\ cc[c] \in Int
    BY <1>1 DEF IInv, TypeOK
  <2> QED BY <1>1, <2>1, <2>2 DEF IInv, WeightInv, CountInv
<1> QED BY <1>1, Inductive, PTL

(* The clusters in use get the numbers 0 .. coarse_n - 1, and two vertices  *)
(* the same one only when they were in one cluster, for every number of     *)
(* vertices and of chunks.                                                  *)
THEOREM RemapIsDenseTheorem == Spec => []RemapIsDense
<1>1. ASSUME IInv PROVE RemapIsDense
  BY <1>1, RemapDense DEF IInv, TypeOK, RemapIsDense
<1> QED BY <1>1, Inductive, PTL
=============================================================================
