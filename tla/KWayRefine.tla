----------------------------- MODULE KWayRefine -----------------------------
(***************************************************************************)
(* kway_partitioner/kway_core.h, multilevel_partition after the coarsest   *)
(* graph has been partitioned: refinement of all blocks at once, and        *)
(* balancing where blocks are too heavy, on the coarse graph and, after     *)
(* projection, on the graph itself (Greedy_KWayCutOptimize).                *)
(* kway_block_conn.h: per vertex, the weights to the other blocks, a list   *)
(* of the blocks with a weight (locator_list) and their places (locator).   *)
(***************************************************************************)
EXTENDS KWayGraph

CONSTANTS
  Hierarchies,   (* Records of fine, coarse and mapping: two graphs and the *)
                 (* coarse vertices of the fine ones.                       *)
  Blocks,        (* k                                                       *)
  ImbNum, ImbDen,(* imb as a fraction.                                      *)
  Slack,         (* What is_balanced grants between levels, in parts of     *)
                 (* ImbDen: 0.02 there.                                     *)
  Passes         (* max_iter                                                *)

Block == 0 .. Blocks - 1
RefineAssumption == Blocks \in Nat \ {0, 1} /\ ImbNum >= ImbDen /\ ImbDen > 0 /\ Passes > 0

VARIABLES
  levels,        (* The two graphs.                                         *)
  g,             (* The graph at hand.                                      *)
  step,          (* What is done: see Plan.                                 *)
  s,             (* part, conn, int, ext, bnd, pw and mincut.               *)
  run            (* The optimisation under way.                             *)

krVars == <<levels, g, step, s, run>>

NoConn == [w |-> [b \in Block |-> 0], list |-> <<>>, loc |-> [b \in Block |-> 0]]

(* BlockConn::update: a block that gets a weight takes the next place, one  *)
(* that loses it gives its place to the last.                               *)
Freed(c, id) ==
  LET last == Last(c.list)
      pos == c.loc[id]
  IN  [list |-> Front([c.list EXCEPT ![pos] = last]),
       loc |-> [c.loc EXCEPT ![last] = pos, ![id] = 0]]
Update(c, id, delta) ==
  LET w == [c.w EXCEPT ![id] = @ + delta]
  IN  CASE c.w[id] = 0 /\ w[id] > 0 ->
             [w |-> w, list |-> Append(c.list, id), loc |-> [c.loc EXCEPT ![id] = Len(c.list) + 1]]
        [] c.w[id] > 0 /\ w[id] = 0 ->
             [w |-> w, list |-> Freed(c, id).list, loc |-> Freed(c, id).loc]
        [] OTHER -> [c EXCEPT !.w = w]

(* The blocks around a vertex, in the order of its row.                     *)
ConnOf(G, p, v) ==
  FoldLeft(LAMBDA c, x : IF p[x] = p[v] THEN c ELSE Update(c, p[x], G.ew[v][x]),
           NoConn, SetToSortSeq(Nb(G, v), <))

AtBorder(mode, int, ext) == ext > 0 /\ (mode = "refine" => ext >= int)
Border(G, mode, int, ext) == {v \in Ids(G) : AtBorder(mode, int[v], ext[v])}

(* ComputeKWayPartitionParams                                               *)
Computed(G, p) ==
  LET int == [v \in Ids(G) |-> Internal(G, p, v)]
      ext == [v \in Ids(G) |-> External(G, p, v)]
  IN  [part |-> p, int |-> int, ext |-> ext, conn |-> [v \in Ids(G) |-> ConnOf(G, p, v)],
       bnd |-> Border(G, "refine", int, ext),
       pw |-> [b \in Block |-> PartWeight(G, p, b)], mincut |-> Cut(G, p)]

(* ProjectKWayPartition: below a coarse vertex without external edges there *)
(* are none either.                                                         *)
Projected(G, mapping, c) ==
  LET p == [v \in Ids(G) |-> c.part[mapping[v]]]
      inner(v) == c.ext[mapping[v]] = 0
      ext == [v \in Ids(G) |-> IF inner(v) THEN 0 ELSE External(G, p, v)]
      int == [v \in Ids(G) |-> MapThenSumSet(LAMBDA x : G.ew[v][x], Ids(G)) - ext[v]]
  IN  [part |-> p, int |-> int, ext |-> ext, pw |-> c.pw, mincut |-> c.mincut,
       conn |-> [v \in Ids(G) |-> IF inner(v) THEN NoConn ELSE ConnOf(G, p, v)],
       bnd |-> Border(G, "refine", int, ext)]

-----------------------------------------------------------------------------
(* Greedy_KWayCutOptimize                                                   *)

Heaviest(pw) == Max({pw[b] : b \in Block})
Balanced(pw, slack) == Heaviest(pw) * Blocks * ImbDen <= (ImbNum + slack) * Total(g)

(* max_p_weight and min_p_weight; refinement takes the imbalance it finds.  *)
Bounds(mode, pw) ==
  IF mode = "refine" /\ ~ Balanced(pw, 0)
  THEN [max |-> Heaviest(pw),
        min |-> (Total(g) * Total(g)) \div (Blocks * Blocks * Heaviest(pw))]
  ELSE [max |-> (ImbNum * Total(g)) \div (ImbDen * Blocks),
        min |-> (ImbDen * Total(g)) \div (ImbNum * Blocks)]

(* rgain, times a thousand: 1000 / sqrt(n) for the number of blocks n.      *)
InvRoot == <<1000, 707, 577>>
Gain(t, v) ==
  LET n == Len(t.conn[v].list)
  IN  (IF n = 0 THEN 0 ELSE t.ext[v] * InvRoot[n]) - 1000 * t.int[v]
Gains(t, S) == [v \in S |-> Gain(t, v)]

OptimizeOver(mode, t, passes) ==
  [mode |-> mode, max |-> Bounds(mode, t.pw).max, min |-> Bounds(mode, t.pw).min,
   left |-> passes, queue |-> <<>>, moved |-> {}, moves |-> 0, oldcut |-> t.mincut, busy |-> FALSE]

(* Whether u may go to a block, for a move that wins and for one that wins  *)
(* nothing; a block that remains lighter than the old one was may always    *)
(* take it.                                                                 *)
Lighter(u, b) == s.pw[b] < s.pw[s.part[u]] - g.vw[u]
RoomFor(u, b) ==
  /\ s.pw[s.part[u]] - g.vw[u] >= run.min \/ Lighter(u, b)
  /\ s.pw[b] + g.vw[u] <= run.max \/ Lighter(u, b)
Acceptable(u, b) ==
  IF run.mode = "balance" THEN Lighter(u, b)
  ELSE \/ s.conn[u].w[b] > s.int[u] /\ RoomFor(u, b)
       \/ s.conn[u].w[b] = s.int[u] /\ Lighter(u, b)
PreferredAnyWeight(u, b, c) == s.conn[u].w[b] > s.conn[u].w[c]
Preferred(u, b, c) ==
  IF run.mode = "balance" THEN s.pw[b] < s.pw[c]
  ELSE \/ s.conn[u].w[b] > s.conn[u].w[c] /\ RoomFor(u, b)
       \/ s.conn[u].w[b] = s.conn[u].w[c] /\ s.pw[b] < s.pw[c]

(* From the last place of the list to the first: the first acceptable one,  *)
(* then any preferred to the choice so far.                                 *)
None == -1
Choice(u) ==
  FoldLeft(LAMBDA c, b : IF c = None THEN IF Acceptable(u, b) THEN b ELSE None
                         ELSE IF Preferred(u, b, c) THEN b ELSE c,
           None, Reverse(s.conn[u].list))

(* UpdateMovedVertexInfoAndBND and UpdateAdjacentVertexInfoAndBND           *)
MovedConn(c, old, new, int) == Update(Update(c, new, -c.w[new]), old, int)
NearConn(c, me, old, new, w) ==
  LET without == IF me # old THEN Update(c, old, -w) ELSE c
  IN  IF me # new THEN Update(without, new, w) ELSE without

BorderAfter(bnd, touched, mode, int, ext) ==
  (bnd \ touched) \cup {x \in touched : AtBorder(mode, int[x], ext[x])}

Moved(u, new) ==
  LET old == s.part[u]
      near == Nb(g, u)
      own == {x \in near : s.part[x] \in {old, new}}
      sign(x) == IF s.part[x] = new THEN 1 ELSE -1
      int == [x \in Ids(g) |-> IF x = u THEN s.conn[u].w[new]
                ELSE IF x \in own THEN s.int[x] + sign(x) * g.ew[u][x] ELSE s.int[x]]
      ext == [x \in Ids(g) |-> IF x = u THEN s.ext[u] + s.int[u] - s.conn[u].w[new]
                ELSE IF x \in own THEN s.ext[x] - sign(x) * g.ew[u][x] ELSE s.ext[x]]
  IN  [part |-> [s.part EXCEPT ![u] = new], int |-> int, ext |-> ext,
       conn |-> [x \in Ids(g) |->
                   IF x = u THEN MovedConn(s.conn[u], old, new, s.int[u])
                   ELSE IF x \in near THEN NearConn(s.conn[x], s.part[x], old, new, g.ew[u][x])
                   ELSE s.conn[x]],
       bnd |-> BorderAfter(s.bnd, own \cup {u}, run.mode, int, ext),
       pw |-> [s.pw EXCEPT ![new] = @ + g.vw[u], ![old] = @ - g.vw[u]],
       mincut |-> s.mincut - (s.conn[u].w[new] - s.int[u])]

(* The neighbours whose gain may have changed and that have not moved.      *)
Stirred(u, t) ==
  {x \in Nb(g, u) \ (run.moved \cup {u}) :
     \/ s.part[x] \in {s.part[u], t.part[u]}
     \/ Len(s.conn[x].list) # Len(t.conn[x].list)}
Requeued(queue, t, near) ==
  LET still == {x \in near : AtBorder(run.mode, t.int[x], t.ext[x])}
  IN  [x \in (DOMAIN queue \ near) \cup still |-> IF x \in near THEN Gain(t, x) ELSE queue[x]]

-----------------------------------------------------------------------------
InitRefine ==
  /\ levels \in Hierarchies /\ g = levels.coarse
  /\ \E p \in {f \in [Ids(g) -> Block] : {f[v] : v \in Ids(g)} = Block} : s = Computed(g, p)
  /\ step = "coarse" /\ run = OptimizeOver("refine", s, Passes)

AllWithin == \A b \in Block : s.pw[b] >= run.min /\ s.pw[b] <= run.max

StartPass ==
  /\ ~ run.busy /\ run.left > 0 /\ ~ (run.mode = "balance" /\ AllWithin)
  /\ run' = [run EXCEPT !.busy = TRUE, !.queue = Gains(s, s.bnd), !.moved = {}, !.moves = 0,
                        !.oldcut = s.mincut]
  /\ UNCHANGED <<levels, g, step, s>>

Pop ==
  /\ run.busy
  /\ \E u \in DOMAIN run.queue :
       LET rest == [x \in DOMAIN run.queue \ {u} |-> run.queue[x]]
           popped == [run EXCEPT !.moved = @ \cup {u}, !.queue = rest]
       IN /\ \A x \in DOMAIN run.queue : run.queue[x] <= run.queue[u]
          /\ IF Choice(u) = None THEN run' = popped /\ UNCHANGED s
             ELSE /\ s' = Moved(u, Choice(u))
                  /\ run' = [popped EXCEPT !.moves = @ + 1,
                                           !.queue = Requeued(rest, s', Stirred(u, s'))]
  /\ UNCHANGED <<levels, g, step>>

EndPass ==
  /\ run.busy /\ run.queue = <<>>
  /\ run' = [run EXCEPT !.busy = FALSE,
               !.left = IF run.moves = 0 \/ (run.mode = "refine" /\ s.mincut = run.oldcut)
                        THEN 0 ELSE @ - 1]
  /\ UNCHANGED <<levels, g, step, s>>

OptimizeEnds == ~ run.busy /\ (run.left = 0 \/ (run.mode = "balance" /\ AllWithin))

(* compute_boundary, before and after balancing.                            *)
WithBorder(mode, t) == [t EXCEPT !.bnd = Border(g, mode, t.int, t.ext)]
Optimize(mode, t, passes) ==
  s' = WithBorder(mode, t) /\ run' = OptimizeOver(mode, s', passes)

(* From level to level; the graph itself is balanced before it is refined   *)
(* if need be, and again at the end.                                        *)
EndCoarse ==
  /\ step = "coarse" /\ OptimizeEnds
  /\ g' = levels.fine
  /\ LET t == Projected(levels.fine, levels.mapping, s)
     IN IF Balanced(t.pw, Slack)
        THEN s' = t /\ run' = OptimizeOver("refine", t, Passes) /\ step' = "fine"
        ELSE /\ s' = [t EXCEPT !.bnd = Border(levels.fine, "balance", t.int, t.ext)]
             /\ run' = OptimizeOver("balance", t, 1) /\ step' = "balance"
  /\ UNCHANGED levels

Refine ==
  \/ step = "balance" /\ step' = "fine"
  \/ step = "again" /\ step' = "last"
RefineAfterBalance ==
  /\ OptimizeEnds /\ Refine
  /\ Optimize("refine", s, Passes)
  /\ UNCHANGED <<levels, g>>

EndFine ==
  /\ step = "fine" /\ OptimizeEnds
  /\ IF Balanced(s.pw, 0) THEN step' = "done" /\ UNCHANGED <<s, run>>
     ELSE Optimize("balance", s, 3) /\ step' = "again"
  /\ UNCHANGED <<levels, g>>

EndLast ==
  /\ step = "last" /\ OptimizeEnds /\ step' = "done"
  /\ UNCHANGED <<levels, g, s, run>>

Next == StartPass \/ Pop \/ EndPass \/ EndCoarse \/ RefineAfterBalance \/ EndFine \/ EndLast

NextRefine == step # "done" /\ Next

-----------------------------------------------------------------------------
(* After every move, on both levels and in both modes, all that is kept per *)
(* vertex and in sum is what the partition says: no block loses its place   *)
(* in a list or keeps one it should not have, and the queue holds the       *)
(* boundary vertices that may still move at their present gains.            *)
KWaySound ==
  LET c == Computed(g, s.part)
  IN  /\ [s EXCEPT !.conn = c.conn, !.bnd = c.bnd] = c
      /\ s.bnd = Border(g, run.mode, c.int, c.ext)
      /\ \A v \in Ids(g) :
           /\ s.conn[v].w = c.conn[v].w
           /\ \A b \in Block :
                IF s.conn[v].w[b] = 0 THEN s.conn[v].loc[b] = 0
                ELSE \E i \in DOMAIN s.conn[v].list :
                       s.conn[v].list[i] = b /\ s.conn[v].loc[b] = i
           /\ Len(s.conn[v].list) = Cardinality({b \in Block : s.conn[v].w[b] > 0})
      /\ run.busy => run.queue = Gains(s, s.bnd \ run.moved)

(* Refinement never cuts more, and no move of either mode makes a block     *)
(* heavier than the heaviest one or than the bound, even when the target is *)
(* the second choice of the loop.                                           *)
NoMoveMakesWorse ==
  [][g' = g /\ s' # s =>
       /\ run.mode = "refine" => s'.mincut <= s.mincut
       /\ \A b \in Block : s'.pw[b] > s.pw[b] =>
            s'.pw[b] <= (IF run.mode = "refine" THEN run.max ELSE Heaviest(s.pw))]_krVars
=============================================================================
