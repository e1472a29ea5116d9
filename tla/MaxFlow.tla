------------------------------- MODULE MaxFlow -------------------------------
(***************************************************************************)
(* utility/push_relabel.h (PushRelabel) and the search for a balanced cut   *)
(* of utility/flow.h (ResidualFlowNetwork, SCCGraph), as the flow based     *)
(* refinements use them: a preflow is pushed to the target, the labels give *)
(* a cut, and other cuts are read off the residual network.                 *)
(*                                                                         *)
(* Parallel arcs are one arc here; arcs are visited in the order of their   *)
(* heads.                                                                   *)
(***************************************************************************)
EXTENDS Integers, FiniteSets, Sequences, SequencesExt, TLC

CONSTANTS
  N,              (* The number of nodes, source and target included.        *)
  Networks,       (* The capacities: functions [Node -> [Node -> Nat]].      *)
  NodeWeight,     (* The weight of every node but source and target.         *)
  Limits,         (* The weights that a side may have.                       *)
  Average,        (* avg_weight.                                             *)
  ExactLimit      (* Up to so many free components all closures are tried.   *)

Node == 0 .. N - 1
S == N - 2
T == N - 1
Inner == Node \ {S, T}

FlowAssumption ==
  /\ N \in Nat /\ N > 2
  /\ Networks \subseteq [Node -> [Node -> Nat]]
  /\ NodeWeight \in [Inner -> Nat] /\ Limits \subseteq Nat
  /\ Average \in Nat /\ ExactLimit \in Nat

VARIABLES
  net,            (* The network that was built.                             *)
  cap,            (* The residual capacities.                                *)
  excess, height,
  cur,            (* The first arc that has not been looked at, by its head. *)
  cnt,            (* How many nodes have a height.                           *)
  fifo,           (* The active nodes; those in it are in_fifo.              *)
  at,             (* The node being discharged, or one of the values below.  *)
  work,
  scc,            (* The components of the residual network: [scc, n, ...].  *)
  closure         (* What find_best_closure was asked and returned.          *)

flowVars == <<net, cap, excess, height, cur, cnt, fifo, at, work, scc, closure>>

Nobody == -1      (* Between two nodes.                                      *)
Built == -2
Labelled == -3    (* maxflow has returned.                                   *)
Condensed == -4   (* The components are known.                               *)
Searched == -5    (* find_best_closure has returned.                         *)

WorkLimit == IF (6 * N) \div 10 < 1 THEN 1 ELSE (6 * N) \div 10
Heads(u) == SelectSeq([i \in 1 .. N |-> i - 1], LAMBDA v : net[u][v] + net[v][u] > 0)
NoClosure == [found |-> FALSE, left |-> {}, limit |-> <<0, 0>>]

InitFlow ==
  /\ net \in Networks /\ cap = net
  /\ excess = [v \in Node |-> 0] /\ height = [v \in Node |-> 0]
  /\ cur = [v \in Node |-> 0] /\ cnt = [x \in 0 .. 2 * N |-> 0]
  /\ fifo = <<>> /\ work = 0 /\ at = Built /\ scc = <<>> /\ closure = NoClosure

Enqueue(queue, u) == IF Contains(queue, u) THEN queue ELSE Append(queue, u)

(* global_relabel: a search from the target against residual arcs.          *)
Leads(c, w, v) == c[w][v] > 0

Levels(c) ==
  LET meet(v, r, w) ==
        IF w \in DOMAIN r.level \/ w = S \/ ~ Leads(c, w, v) THEN r
        ELSE [order |-> Append(r.order, w), level |-> (w :> r.level[v] + 1) @@ r.level]
      visit(s, i) ==
        IF i > Len(s.order) THEN s
        ELSE FoldLeft(LAMBDA r, w : meet(s.order[i], r, w), s, Heads(s.order[i]))
  IN  FoldLeft(visit, [order |-> <<T>>, level |-> (T :> 0)], [i \in 1 .. N |-> i])

Relabelled(c, e, queue, oldCur) ==
  LET found == Levels(c)
      h == [v \in Node |-> IF v \in DOMAIN found.level THEN found.level[v] ELSE N]
  IN /\ height' = h
     /\ cnt' = [x \in 0 .. 2 * N |->
                  Cardinality({v \in DOMAIN found.level : found.level[v] = x})]
     /\ cur' = [v \in Node |-> IF v \in DOMAIN found.level \ {T} THEN 0 ELSE oldCur[v]]
     /\ fifo' = FoldLeft(LAMBDA r, w : IF w # T /\ e[w] > 0 THEN Enqueue(r, w) ELSE r,
                         queue, found.order)
     /\ work' = 0

(* build, the saturation of the arcs of the source, and the first           *)
(* global_relabel.                                                          *)
Saturate ==
  /\ at = Built
  /\ cap' = [u \in Node |-> [v \in Node |->
               IF u = S THEN 0 ELSE IF v = S THEN net[u][S] + net[S][u] ELSE net[u][v]]]
  /\ excess' = [v \in Node |-> net[S][v]]
  /\ Relabelled(cap', excess', SelectSeq(Heads(S), LAMBDA v : v # T /\ net[S][v] > 0), cur)
  /\ at' = Nobody
  /\ UNCHANGED <<net, scc, closure>>

(* The head of the queue is taken out.                                      *)
Pop ==
  /\ at = Nobody /\ work < WorkLimit /\ fifo # <<>>
  /\ fifo' = Tail(fifo)
  /\ at' = IF excess[Head(fifo)] > 0 THEN Head(fifo) ELSE Nobody
  /\ UNCHANGED <<net, cap, excess, height, cur, cnt, work, scc, closure>>

(* discharge: the first arc from cur on that leads one level down.          *)
Admissible(u) ==
  SelectSeq(Heads(u), LAMBDA v : v >= cur[u] /\ cap[u][v] > 0 /\ height[u] = height[v] + 1)

Push ==
  /\ at \in Node /\ Admissible(at) # <<>>
  /\ LET v == Head(Admissible(at))
         d == IF excess[at] < cap[at][v] THEN excess[at] ELSE cap[at][v]
     IN /\ cap' = [cap EXCEPT ![at][v] = @ - d, ![v][at] = @ + d]
        /\ excess' = [excess EXCEPT ![at] = @ - d, ![v] = @ + d]
        /\ fifo' = IF excess[v] = 0 /\ v \notin {S, T} THEN Enqueue(fifo, v) ELSE fifo
        /\ cur' = [cur EXCEPT ![at] = v]
        /\ at' = IF excess[at] = d THEN Nobody ELSE at
  /\ UNCHANGED <<net, height, cnt, work, scc, closure>>

(* gap: no node is left at height h, so the ones above it are cut off.      *)
Above(h, x) == {v \in Inner : x[v] > h /\ x[v] < N}
Gap(h, x) == Above(h, x)

Relabel ==
  /\ at \in Node /\ Admissible(at) = <<>>
  /\ LET down == {height[v] + 1 : v \in {x \in Node : cap[at][x] > 0}}
         new == Min(down \cup {2 * N})
         raised == [height EXCEPT ![at] = new]
         counted == [[cnt EXCEPT ![height[at]] = @ - 1] EXCEPT ![new] = @ + 1]
         lost == IF counted[height[at]] = 0 THEN Gap(height[at], raised) ELSE {}
     IN /\ height' = [v \in Node |-> IF v \in lost THEN N + 1 ELSE raised[v]]
        /\ cnt' = [x \in 0 .. 2 * N |->
                     counted[x] - Cardinality({v \in lost : raised[v] = x})
                     + IF x = N + 1 THEN Cardinality(lost) ELSE 0]
        /\ cur' = [cur EXCEPT ![at] = 0]
        /\ work' = work + 1
        /\ at' = IF height'[at] >= N THEN Nobody ELSE at
  /\ UNCHANGED <<net, cap, excess, fifo, scc, closure>>

GlobalRelabel ==
  /\ at = Nobody /\ work >= WorkLimit
  /\ Relabelled(cap, excess, fifo, cur)
  /\ UNCHANGED <<net, cap, excess, at, scc, closure>>

(* The second phase takes the active nodes below height N.  There is none   *)
(* (see FlowIsMinCut).                                                      *)
LeftForPhaseTwo == {v \in Inner : excess[v] > 0 /\ height[v] < N}
Finish ==
  /\ at = Nobody /\ work < WorkLimit /\ fifo = <<>> /\ LeftForPhaseTwo = {}
  /\ at' = Labelled
  /\ UNCHANGED <<net, cap, excess, height, cur, cnt, fifo, work, scc, closure>>

-----------------------------------------------------------------------------
(* dfs_non_recursive (Gabow): index are the visited nodes, open those that  *)
(* have no component yet, path the candidates for the root of one.          *)
Out(u) == SelectSeq(Heads(u), LAMBDA v : cap[u][v] > 0)

Visit(g, u) ==
  [g EXCEPT !.index = (u :> Cardinality(DOMAIN g.index)) @@ @,
            !.open = Append(@, u), !.path = Append(@, u),
            !.stack = Append(@, [v |-> u, i |-> 1])]

Backtrack(g) ==
  LET v == Last(g.stack).v
      from == SelectInSeq(g.open, LAMBDA x : x = v)
      done == ToSet(SubSeq(g.open, from, Len(g.open)))
  IN  IF Last(g.path) # v THEN [g EXCEPT !.stack = Front(@)]
      ELSE [g EXCEPT !.stack = Front(@), !.path = Front(@),
                     !.open = SubSeq(@, 1, from - 1),
                     !.scc = [x \in done |-> g.n] @@ @, !.n = @ + 1]

(* A slip of Shortened below: only the top of path is looked at.            *)
ShortenedOnce(g, u) ==
  IF g.index[Last(g.path)] > g.index[u] THEN [g EXCEPT !.path = Front(@)] ELSE g
Shortened(g, u) == [g EXCEPT !.path = SelectSeq(@, LAMBDA x : g.index[x] <= g.index[u])]

Explore(g) ==
  LET top == Last(g.stack)
      u == Out(top.v)[top.i]
      next == [g EXCEPT !.stack[Len(g.stack)].i = @ + 1]
      unvisited == Node \ DOMAIN g.index
  IN  IF g.stack = <<>> THEN (IF unvisited = {} THEN g ELSE Visit(g, Min(unvisited)))
      ELSE IF top.i > Len(Out(top.v)) THEN Backtrack(g)
      ELSE IF u \in unvisited THEN Visit(next, u)
      ELSE IF u \notin DOMAIN g.scc THEN Shortened(next, u) ELSE next

(* Every node is started or visited once and left once, every arc is        *)
(* looked at once.                                                          *)
Components ==
  FoldLeft(LAMBDA g, i : Explore(g),
           [index |-> <<>>, open |-> <<>>, path |-> <<>>, stack |-> <<>>, scc |-> <<>>, n |-> 0],
           [i \in 1 .. N * (N + 2) |-> i])

Condense ==
  /\ at = Labelled /\ at' = Condensed
  /\ scc' = Components
  /\ UNCHANGED <<net, cap, excess, height, cur, cnt, fifo, work, closure>>

(* reduce: what the source reaches and what reaches the target.             *)
Edges(g) == {e \in (0 .. g.n - 1) \X (0 .. g.n - 1) :
               e[1] # e[2] /\ \E u, v \in Node : cap[u][v] > 0 /\ e = <<g.scc[u], g.scc[v]>>}
Reached(E, from, n) ==
  FoldLeft(LAMBDA R, i : R \cup {e[2] : e \in {x \in E : x[1] \in R}}, from, [i \in 1 .. n |-> i])
Forced(g) == Reached(Edges(g), {g.scc[S]}, g.n)
Barred(g) == Reached({<<e[2], e[1]>> : e \in Edges(g)}, {g.scc[T]}, g.n)
Free(g) == (0 .. g.n - 1) \ (Forced(g) \cup Barred(g))

(* find_best_closure_exact: all sets with the successors of their members.  *)
Closed(g, X) == \A e \in Edges(g) : e[1] \in X /\ e[2] \in Free(g) => e[2] \in X

(* find_best_closure: the roots leave first, in a random topological order. *)
(* The best closure of several orders is the best of one of them.           *)
Topological(g) ==
  {o \in [1 .. Cardinality(Free(g)) -> Free(g)] :
     /\ \A i, j \in DOMAIN o : i # j => o[i] # o[j]
     /\ \A e \in Edges(g), i, j \in DOMAIN o : e = <<o[i], o[j]>> => i < j}
ClosuresAlong(o) == {{o[j] : j \in i .. Len(o)} : i \in 1 .. Len(o) + 1}

Candidates(g) ==
  IF Cardinality(Free(g)) <= ExactLimit THEN {{X \in SUBSET Free(g) : Closed(g, X)}}
  ELSE {ClosuresAlong(o) : o \in Topological(g)}

NodesOf(g, X) == {v \in Inner : g.scc[v] \in X}
WeightOf(A) == MapThenSumSet(LAMBDA v : NodeWeight[v], A)
FitsIn(A, limit) == WeightOf(A) <= limit[1] /\ WeightOf(Inner \ A) <= limit[2]
Square(x) == x * x
Imbalance(A) == Square(WeightOf(A) - Average) + Square(WeightOf(Inner \ A) - Average)

FindClosure ==
  /\ at = Condensed /\ at' = Searched
  /\ \E limit \in Limits \X Limits, C \in Candidates(scc) :
       LET fitting == {A \in {NodesOf(scc, X \cup Forced(scc)) : X \in C} : FitsIn(A, limit)}
       IN IF fitting = {} THEN closure' = [NoClosure EXCEPT !.limit = limit]
          ELSE \E A \in fitting :
                 /\ \A B \in fitting : Imbalance(A) <= Imbalance(B)
                 /\ closure' = [found |-> TRUE, left |-> A, limit |-> limit]
  /\ UNCHANGED <<net, cap, excess, height, cur, cnt, fifo, work, scc>>

NextFlow ==
  \/ Saturate \/ Pop \/ Push \/ Relabel \/ GlobalRelabel \/ Finish \/ Condense \/ FindClosure

-----------------------------------------------------------------------------
CutOf(A) == MapThenSumSet(LAMBDA e : net[e[1]][e[2]], (A \cup {S}) \X (Node \ (A \cup {S})))
MinCut == Min({CutOf(A) : A \in SUBSET Inner})

(* However the gaps, the relabelling and the searches in between interact:  *)
(* at the end the flow has the value of the minimum cut, the labels         *)
(* (what_label) are a minimum cut, and nothing is left to the second phase. *)
FlowIsMinCut ==
  at = Nobody /\ fifo = <<>> /\ work < WorkLimit =>
    /\ excess[T] = MinCut
    /\ CutOf({v \in Inner : height[v] >= N}) = MinCut
    /\ LeftForPhaseTwo = {}

(* The components are those of mutual reachability.                         *)
ReachedFrom(u) == Reached({e \in Node \X Node : cap[e[1]][e[2]] > 0}, {u}, N)
ComponentsStrong ==
  at = Condensed =>
    \A u, v \in Node :
      (scc.scc[u] = scc.scc[v]) <=> (u \in ReachedFrom(v) /\ v \in ReachedFrom(u))

(* The closure that is found lets no residual arc out and keeps both limits. *)
(* Where no excess stays behind it is a minimum cut, and with few components *)
(* the best balanced one of all that fit.                                    *)
Drained == \A v \in Inner : excess[v] = 0
ClosureSound ==
  at = Searched =>
    /\ closure.found =>
         /\ FitsIn(closure.left, closure.limit)
         /\ \A u \in closure.left \cup {S}, v \in Node \ (closure.left \cup {S}) : cap[u][v] = 0
         /\ Drained => CutOf(closure.left) = MinCut
    /\ Drained /\ Cardinality(Free(scc)) <= ExactLimit =>
         \A A \in SUBSET Inner :
           CutOf(A) = MinCut /\ FitsIn(A, closure.limit) =>
             closure.found /\ Imbalance(closure.left) <= Imbalance(A)
=============================================================================
