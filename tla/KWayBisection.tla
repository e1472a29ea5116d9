---------------------------- MODULE KWayBisection ---------------------------
(***************************************************************************)
(* kway_partitioner/kway_core.h, recursive_bisection: a graph is contracted *)
(* once, its coarse graph is split in two by growing a side around a random *)
(* vertex, the best of some tries is balanced and refined there and, after  *)
(* projection, on the graph itself; the sides become graphs of their own.   *)
(*                                                                         *)
(* Shares are 1/k for every block to come: floating point rounding is left  *)
(* out.  Whatever order the heap gives vertices of equal gain may occur.    *)
(***************************************************************************)
EXTENDS KWayGraph

CONSTANTS
  Jobs,          (* The graphs to partition, with the numbers of blocks.    *)
  Pairings(_),   (* The numberings of heavy_edge_matching for a graph.      *)
  UbNum, UbDen,  (* ubfactor as a fraction.                                 *)
  FMLimit,       (* limit of FM_2WayCutRefine, 15 for small graphs there.   *)
  MaxIter,       (* Its passes, 3 there.                                    *)
  Tries          (* niparts                                                 *)

BisectionAssumption ==
  /\ \A job \in Jobs : job.k > 1
  /\ UbNum >= UbDen /\ UbDen > 0
  /\ FMLimit \in Nat /\ MaxIter \in Nat \ {0} /\ Tries \in Nat \ {0}

VARIABLES
  todo,          (* The graphs yet to bisect, the present one first, with   *)
                 (* the labels of their vertices, the number of their       *)
                 (* blocks and the first of these.                          *)
  mapping,       (* Of its vertices to those of the coarse graph.           *)
  g,             (* The graph at hand, coarse or not.                       *)
  place, stage,
  grow,          (* The side being grown: queue, touched, drain, side.      *)
  b,             (* part, int, ext, bnd (the boundary) and pw of g.         *)
  mincut,
  ls,            (* The local search under way.                             *)
  best,          (* The tries made, and the best of them.                   *)
  kpart,         (* The partition.                                          *)
  cuts,          (* Ghost: what the bisections cut in sum.                  *)
  whole          (* The job: g and k.                                       *)

biVars == <<todo, mapping, g, place, stage, grow, b, mincut, ls, best, kpart, cuts, whole>>

Now == Head(todo)
Floor(num, den) == num \div den
Target ==
  LET left == Floor(Total(g) * (Now.k \div 2), Now.k)
  IN  [s \in 0 .. 1 |-> IF s = 0 THEN left ELSE Total(g) - left]
RightBlocks == Now.k - Now.k \div 2
MaxRight == Floor(UbNum * Total(g) * RightBlocks, UbDen * Now.k)
MinRight == Floor(UbDen * Total(g) * RightBlocks, UbNum * Now.k)
Distance(x) == IF x < 0 THEN -x ELSE x
Diff(pw) == Distance(Target[0] - pw[0])

(* Compute2WayPartitionParams: isolated vertices count as boundary.         *)
Border(G, ext) == {v \in Ids(G) : ext[v] > 0 \/ Nb(G, v) = {}}
Weights(G, p) == [s \in 0 .. 1 |-> PartWeight(G, p, s)]
Computed(G, p) ==
  LET ext == [v \in Ids(G) |-> External(G, p, v)]
  IN  [part |-> p, int |-> [v \in Ids(G) |-> Internal(G, p, v)], ext |-> ext,
       bnd |-> Border(G, ext), pw |-> Weights(G, p)]

(* Project2WayPartition: the vertices of a coarse vertex that is not at the *)
(* boundary have no external edges.                                         *)
Projected(G, c) ==
  LET p == [v \in Ids(G) |-> c.part[mapping[v]]]
      inner(v) == mapping[v] \notin c.bnd
      ext == [v \in Ids(G) |-> IF inner(v) THEN 0 ELSE External(G, p, v)]
  IN  [part |-> p, ext |-> ext, bnd |-> Border(G, ext), pw |-> c.pw,
       int |-> [v \in Ids(G) |-> MapThenSumSet(LAMBDA x : G.ew[v][x], Ids(G)) - ext[v]]]

(* A vertex changes sides: its own degrees swap, those of its neighbours    *)
(* change, and both may enter or leave the boundary.                        *)
BorderOnlyLoses(bnd, touched, ext) == bnd \ {x \in touched : ext[x] = 0 /\ Nb(g, x) # {}}
BorderAfter(bnd, touched, ext) ==
  BorderOnlyLoses(bnd, touched, ext) \cup {x \in touched : ext[x] > 0}

Moved(s, v) ==
  LET to == 1 - s.part[v]
      near == Nb(g, v)
      change(x) == IF s.part[x] = to THEN g.ew[v][x] ELSE -g.ew[v][x]
      ext == [x \in Ids(g) |-> IF x = v THEN s.int[v]
                               ELSE IF x \in near THEN s.ext[x] - change(x) ELSE s.ext[x]]
  IN  [part |-> [s.part EXCEPT ![v] = to],
       int |-> [x \in Ids(g) |-> IF x = v THEN s.ext[v]
                                 ELSE IF x \in near THEN s.int[x] + change(x) ELSE s.int[x]],
       ext |-> ext,
       bnd |-> BorderAfter(s.bnd, near \cup {v}, ext),
       pw |-> [s.pw EXCEPT ![to] = @ + g.vw[v], ![1 - to] = @ - g.vw[v]]]

Gain(s, v) == s.ext[v] - s.int[v]
Gains(s, S) == [v \in S |-> Gain(s, v)]

(* erase, update or insert, for the neighbours that may still move.         *)
Requeued(queue, s, near) ==
  LET still == {x \in near : s.ext[x] > 0}
  IN  [x \in (DOMAIN queue \ near) \cup still |-> IF x \in near THEN Gain(s, x) ELSE queue[x]]

Highest(queue, S) == {v \in S : \A x \in S : queue[x] <= queue[v]}

-----------------------------------------------------------------------------
NoGrowth == <<>>
NoSearch == [kind |-> "none"]
NoTry == [tries |-> 0, cut |-> 0, part |-> <<>>]

(* multilevel_bisection of the first graph of a list.                       *)
Begins(list) ==
  /\ todo' = list
  /\ \E m \in Pairings(Head(list).g) : mapping' = m /\ g' = Contracted(Head(list).g, m)
  /\ place' = "try" /\ stage' = "seed" /\ best' = NoTry

InitBisection ==
  /\ whole \in Jobs
  /\ todo = <<[g |-> whole.g, label |-> [v \in Ids(whole.g) |-> v], k |-> whole.k, first |-> 0]>>
  /\ \E m \in Pairings(whole.g) : mapping = m /\ g = Contracted(whole.g, m)
  /\ place = "try" /\ stage = "seed"
  /\ grow = NoGrowth /\ b = <<>> /\ mincut = 0 /\ ls = NoSearch
  /\ best = NoTry
  /\ kpart = [v \in Ids(whole.g) |-> 0] /\ cuts = 0

-----------------------------------------------------------------------------
(* bisection: side 0 grows in breadth-first order, from a random vertex     *)
(* again when it cannot go on.                                              *)
grown == <<todo, mapping, g, place, b, mincut, ls, best, kpart, cuts, whole>>

Seed ==
  /\ stage = "seed"
  /\ \E v \in Ids(g) :
       grow' = [queue |-> <<v>>, touched |-> {v}, drain |-> FALSE, side |-> {}, full |-> FALSE]
  /\ stage' = "grow"
  /\ UNCHANGED grown

Side(S) == MapThenSumSet(LAMBDA v : g.vw[v], S)
Stuck == grow.queue = <<>> /\ (grow.drain \/ grow.touched = Ids(g))

Reseed ==
  /\ stage = "grow" /\ ~ grow.full /\ grow.queue = <<>> /\ ~ Stuck
  /\ \E v \in Ids(g) \ grow.touched :
       grow' = [grow EXCEPT !.queue = <<v>>, !.touched = @ \cup {v}]
  /\ UNCHANGED <<stage, grown>>

Grow ==
  /\ stage = "grow" /\ ~ grow.full /\ grow.queue # <<>>
  /\ LET v == Head(grow.queue)
         right == Total(g) - Side(grow.side)
     IN \/ /\ grow.side # {} /\ right - g.vw[v] < MinRight
           /\ grow' = [grow EXCEPT !.queue = Tail(@), !.drain = TRUE]
        \/ /\ grow.side = {} \/ right - g.vw[v] >= MinRight
           /\ IF right - g.vw[v] <= MaxRight
              THEN grow' = [grow EXCEPT !.side = @ \cup {v}, !.full = TRUE]
              ELSE \E s \in SetToSeqs(Nb(g, v) \ grow.touched) :
                     grow' = [grow EXCEPT !.queue = Tail(@) \o s, !.side = @ \cup {v},
                                          !.touched = @ \cup ToSet(s), !.drain = FALSE]
  /\ UNCHANGED <<stage, grown>>

(* No side stays empty.                                                     *)
EndGrowth ==
  /\ stage = "grow" /\ (grow.full \/ Stuck)
  /\ \E v \in Ids(g) :
       LET side == IF grow.side = Ids(g) THEN grow.side \ {v} ELSE grow.side
           p == [x \in Ids(g) |-> IF x \in side THEN 0 ELSE 1]
       IN /\ grow.side # Ids(g) => v = 0
          /\ b' = Computed(g, p) /\ mincut' = Cut(g, p)
  /\ grow' = NoGrowth /\ stage' = "balance"
  /\ UNCHANGED <<todo, mapping, g, place, ls, best, kpart, cuts, whole>>

-----------------------------------------------------------------------------
(* balance_bisection, by boundary vertices or, when there are none, by any. *)

searched == <<todo, mapping, g, place, grow, best, kpart, cuts, whole>>

Lopsided ==
  /\ \E s \in 0 .. 1 : UbDen * 2 * b.pw[s] > UbNum * Total(g)
  /\ Distance(Total(g) * (Now.k \div 2) - b.pw[0] * Now.k) >= Now.k * ((3 * Total(g)) \div g.n)

PassOver(s, cut) ==
  [kind |-> "fm", queue |-> Gains(s, s.bnd), swaps |-> <<>>, cut |-> cut, kept |-> 0,
   min |-> cut, init |-> cut, mindiff |-> Diff(s.pw)]
SearchOver(s, cut) ==
  PassOver(s, cut) @@
  [pass |-> 1, orig |-> Diff(s.pw), began |-> cut,
   slack |-> LET w == s.pw[0] + s.pw[1]
             IN Min({w \div 20, (2 * w) \div g.n})]

Candidates(from, room) == {v \in Ids(g) : b.part[v] = from /\ g.vw[v] <= room}

StartBalance ==
  /\ stage = "balance"
  /\ IF ~ Lopsided THEN ls' = SearchOver(b, mincut) /\ stage' = "fm"
     ELSE LET from == IF b.pw[0] < Target[0] THEN 1 ELSE 0
              all == Candidates(from, Diff(b.pw))
              near == IF b.bnd = {} THEN all ELSE all \cap b.bnd
          IN /\ ls' = [kind |-> IF b.bnd = {} THEN "general" ELSE "boundary", from |-> from,
                       room |-> Diff(b.pw), moved |-> {}, queue |-> Gains(b, near)]
             /\ stage' = "balancing"
  /\ UNCHANGED <<b, mincut, searched>>

FitsTarget(v) == b.pw[1 - ls.from] + g.vw[v] <= Target[1 - ls.from]

BalanceMove ==
  /\ stage = "balancing"
  /\ \E v \in Highest(ls.queue, DOMAIN ls.queue) :
       LET s == Moved(b, v)
           rest == [x \in DOMAIN ls.queue \ {v} |-> ls.queue[x]]
           near == (Nb(g, v) \cap Candidates(ls.from, ls.room)) \ ls.moved
       IN /\ FitsTarget(v)
          /\ b' = s /\ mincut' = mincut - Gain(b, v)
          /\ ls' = [ls EXCEPT !.moved = @ \cup {v},
                              !.queue = IF ls.kind = "boundary" THEN Requeued(rest, s, near)
                                        ELSE Gains(s, DOMAIN rest)]
  /\ UNCHANGED <<stage, searched>>

EndBalance ==
  /\ stage = "balancing"
  /\ DOMAIN ls.queue = {} \/ \E v \in Highest(ls.queue, DOMAIN ls.queue) : ~ FitsTarget(v)
  /\ ls' = SearchOver(b, mincut) /\ stage' = "fm"
  /\ UNCHANGED <<b, mincut, searched>>

-----------------------------------------------------------------------------
(* FM_2WayCutRefine: the vertex of highest gain leaves the side that is     *)
(* heavier by its target; the best moment is kept, what came after is       *)
(* undone.                                                                  *)
HeavySide == IF Target[0] - b.pw[0] < Target[1] - b.pw[1] THEN 0 ELSE 1
Waiting == {v \in DOMAIN ls.queue : b.part[v] = HeavySide}

BetterCutAlone(cut, diff) == cut < ls.min
Better(cut, diff) ==
  \/ cut < ls.min /\ diff <= ls.orig + ls.slack
  \/ cut = ls.min /\ diff < ls.mindiff

FMMove ==
  /\ stage = "fm" /\ Len(ls.swaps) < g.n
  /\ \E v \in Highest(ls.queue, Waiting) :
       LET s == Moved(b, v)
           cut == ls.cut - Gain(b, v)
           better == Better(cut, Diff(s.pw))
           rest == [x \in DOMAIN ls.queue \ {v} |-> ls.queue[x]]
           near == Nb(g, v) \ ToSet(ls.swaps)
           moved == [ls EXCEPT !.cut = cut, !.swaps = Append(@, v),
                               !.queue = Requeued(rest, s, near)]
       IN \/ /\ better
             /\ ls' = [moved EXCEPT !.min = cut, !.mindiff = Diff(s.pw),
                                    !.kept = Len(ls.swaps) + 1]
             /\ b' = s /\ stage' = stage
          \/ /\ ~ better /\ Len(ls.swaps) - ls.kept < FMLimit
             /\ ls' = moved /\ b' = s /\ stage' = stage
          \/ /\ ~ better /\ Len(ls.swaps) - ls.kept >= FMLimit
             /\ stage' = "undo" /\ UNCHANGED <<ls, b>>
  /\ UNCHANGED <<mincut, searched>>

FMStop ==
  /\ stage = "fm" /\ (Waiting = {} \/ Len(ls.swaps) = g.n)
  /\ stage' = "undo"
  /\ UNCHANGED <<b, mincut, ls, searched>>

ToUndo == Len(ls.swaps) > ls.kept

Undo ==
  /\ stage = "undo" /\ ToUndo
  /\ b' = Moved(b, Last(ls.swaps))
  /\ ls' = [ls EXCEPT !.swaps = Front(@)]
  /\ UNCHANGED <<stage, mincut, searched>>

Finished == ls.kept <= 1 \/ ls.min = ls.init \/ ls.pass = MaxIter

NextPass ==
  /\ stage = "undo" /\ ~ ToUndo /\ ~ Finished
  /\ mincut' = ls.min
  /\ ls' = PassOver(b, ls.min) @@ [ls EXCEPT !.pass = @ + 1]
  /\ stage' = "fm"
  /\ UNCHANGED <<b, searched>>

FMEnds == stage = "undo" /\ ~ ToUndo /\ Finished /\ ls' = NoSearch

-----------------------------------------------------------------------------
(* What follows a refinement: another try, the coarse graph with the best   *)
(* of them, the graph itself, the graphs of the two sides.                  *)

EndTry ==
  /\ place = "try" /\ FMEnds
  /\ LET won == IF best.tries = 0 \/ best.cut > ls.min
                THEN [tries |-> best.tries + 1, cut |-> ls.min, part |-> b.part]
                ELSE [best EXCEPT !.tries = @ + 1]
     IN IF won.tries < Tries /\ won.cut # 0
        THEN best' = won /\ stage' = "seed" /\ mincut' = ls.min /\ UNCHANGED <<place, b>>
        ELSE /\ b' = Computed(g, won.part) /\ mincut' = Cut(g, won.part) /\ best' = NoTry
             /\ place' = "coarse" /\ stage' = "balance"
  /\ UNCHANGED <<todo, mapping, g, grow, kpart, cuts, whole>>

EndCoarse ==
  /\ place = "coarse" /\ FMEnds
  /\ g' = Now.g /\ b' = Projected(Now.g, b) /\ mincut' = ls.min
  /\ place' = "fine" /\ stage' = "balance"
  /\ UNCHANGED <<todo, mapping, grow, best, kpart, cuts, whole>>

(* split_graph: the rows of vertices that are not at the boundary are       *)
(* copied as they are; of the others, the edges within the side.            *)
Row(v) == IF v \notin b.bnd THEN Nb(g, v) ELSE {x \in Nb(g, v) : b.part[x] = b.part[v]}
SplitOff(s) ==
  LET mine == SetToSortSeq({v \in Ids(g) : b.part[v] = s}, <)
      rename(v) == Cardinality({x \in Ids(g) : x < v /\ b.part[x] = b.part[v]})
      ids == 0 .. Len(mine) - 1
  IN  [g |-> [n |-> Len(mine), vw |-> [i \in ids |-> g.vw[mine[i + 1]]],
              ew |-> [i \in ids |-> [j \in ids |->
                        MapThenSumSet(LAMBDA x : IF rename(x) = j THEN g.ew[mine[i + 1]][x] ELSE 0,
                                      Row(mine[i + 1]))]]],
       label |-> [i \in ids |-> Now.label[mine[i + 1]]],
       k |-> IF s = 0 THEN Now.k \div 2 ELSE RightBlocks,
       first |-> IF s = 0 THEN Now.first ELSE Now.first + Now.k \div 2]

EndFine ==
  /\ place = "fine" /\ FMEnds
  /\ mincut' = ls.min /\ cuts' = cuts + ls.min
  /\ kpart' = [v \in DOMAIN kpart |->
                 IF \E i \in Ids(g) : Now.label[i] = v
                 THEN Now.first + b.part[CHOOSE i \in Ids(g) : Now.label[i] = v] ELSE kpart[v]]
  /\ LET parts == SelectSeq(<<SplitOff(0), SplitOff(1)>>, LAMBDA t : t.k > 1 /\ t.g.n > 0)
         left == parts \o Tail(todo)
     IN IF left # <<>> THEN Begins(left)
        ELSE todo' = <<>> /\ stage' = "done" /\ UNCHANGED <<mapping, g, place, best>>
  /\ b' = <<>>
  /\ UNCHANGED <<grow, whole>>

NextBisection ==
  \/ Seed \/ Reseed \/ Grow \/ EndGrowth
  \/ StartBalance \/ BalanceMove \/ EndBalance
  \/ FMMove \/ FMStop \/ Undo \/ NextPass
  \/ EndTry \/ EndCoarse \/ EndFine

-----------------------------------------------------------------------------
(* Between any two moves, in balancing, in local search, while moves are    *)
(* undone and after projection, degrees, boundary, weights and the running  *)
(* cut are those of the partition, and the queue holds exactly the vertices *)
(* that may still move, at their present gains: the code erases and updates *)
(* entries without asking whether they are there.                           *)
BisectionSound ==
  stage \in {"balance", "balancing", "fm", "undo"} =>
    LET c == Computed(g, b.part)
    IN /\ b = c
       /\ stage \in {"balance", "balancing"} => mincut = Cut(g, b.part)
       /\ stage = "fm" => ls.cut = Cut(g, b.part)
       /\ stage = "undo" /\ ~ ToUndo => ls.min = Cut(g, b.part)
       /\ stage = "fm" => ls.queue = Gains(b, b.bnd \ ToSet(ls.swaps))
       /\ stage = "balancing" /\ ls.kind = "boundary" =>
            ls.queue = Gains(b, (b.bnd \cap Candidates(ls.from, ls.room)) \ ls.moved)

(* A local search does not end with a larger cut than it began with, and    *)
(* leaves the balance by no more than a twentieth or two average vertices.  *)
FMKeepsPromise ==
  [][stage = "undo" /\ stage' # "undo" =>
       Cut(g, b.part) <= ls.began /\ Diff(b.pw) <= ls.orig + ls.slack]_biVars

(* The graphs of the sides leave out the cut edges and nothing else, also   *)
(* by the rows copied unread, and the labels lead back through all levels:  *)
(* what the partition cuts is what the bisections report in sum.            *)
CutsAddUp ==
  stage = "done" =>
    /\ Cut(whole.g, kpart) = cuts
    /\ \A v \in Ids(whole.g) : kpart[v] \in 0 .. whole.k - 1
=============================================================================
