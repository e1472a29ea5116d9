------------------------------ MODULE Rebalancer -----------------------------
(***************************************************************************)
(* rebalance/rebalancer.h: bring overloaded blocks back within their        *)
(* capacity.  A queue holds the best move of every boundary vertex of an    *)
(* overloaded block.  Entries are never removed from its middle: a vertex's *)
(* state id tells the entry that counts from the outdated ones.             *)
(***************************************************************************)
EXTENDS BlockStructures

CONSTANTS
  Active,         (* The blocks with a hierarchy level (is_active).          *)
  NoBlock,        (* m_k as best_id: no move.                                *)
  MaxInner        (* The bound 10 * n on the moves tried per round.          *)

ASSUME RebalancerAssumption ==
  /\ Active \subseteq Block /\ NoBlock \notin Block
  /\ MaxInner \in Nat /\ (Vertex # {} => MaxInner > 0)

VARIABLES
  pass,           (* The loop or residual pass it is at.                     *)
  lastLayer,      (* rebalance_last_layer is running, not just rebalance.    *)
  heap,           (* global_queue, a set of entries [u, move, sid].          *)
  stateIds,       (* state_ids[u].                                           *)
  inner,          (* [tried, moved, filled]: inner_iter and move_made of     *)
                  (* this round, and whether its queue has been filled.      *)
  residual        (* [cands, under]: what is left of candidates and of       *)
                  (* underloaded from ul_idx on.                             *)

ctlVars == <<pass, lastLayer, heap, stateIds, inner, residual>>
rebVars == <<structVars, ctlVars>>

NewRound == [tried |-> 0, moved |-> FALSE, filled |-> FALSE]
NoResidual == [cands |-> <<>>, under |-> <<>>]

(* The gain from the edges of u; the last layer's loop has the same sum     *)
(* from the slots of block_conn.                                            *)
GainOf(u, new) ==
  IF pass = "global" THEN QapDelta(u, partition[u], new)
  ELSE CostGain(partition, u, partition[u], new)

(* Of the targets that have room for u, in the order given: the first one   *)
(* with the best gain, and among those with the smallest weight.            *)
Options(u, targets) ==
  {[best |-> targets[i], qap |-> GainOf(u, targets[i]), at |-> i] :
     i \in {j \in DOMAIN targets : Fits(u, targets[j])}}

Beats(m, o) ==
  \/ m.qap > o.qap
  \/ m.qap = o.qap /\ bweights[m.best] < bweights[o.best]
  \/ m.qap = o.qap /\ bweights[m.best] = bweights[o.best] /\ m.at <= o.at

NoMove == [best |-> NoBlock, qap |-> 0, at |-> 0]
Moves == [best : Block, qap : Int, at : Nat]
Best[options \in SUBSET Moves] ==
  IF options = {} THEN NoMove
  ELSE CHOOSE m \in options : \A o \in options : Beats(m, o)

(* get_local_best_move: only the blocks of neighbours.                      *)
LocalOptions(u) == Options(u, [i \in DOMAIN AdjOrder[u] |-> partition[AdjOrder[u][i]]])
LocalBest(u) == Best[LocalOptions(u)]

(* get_best_move: any active block when no neighbour's block has room.      *)
AnyOptions(u) == {o \in Options(u, AllBlocks) : o.best \in Active \ {partition[u]}}
GlobalBest(u) == IF LocalOptions(u) = {} THEN Best[AnyOptions(u)] ELSE LocalBest(u)

BestMove(u) == IF pass = "global" THEN GlobalBest(u) ELSE LocalBest(u)

Refreshed(S, ids) == [u \in Vertex |-> IF u \in S THEN ids[u] + 1 ELSE ids[u]]

(* The new entries of the vertices of S, under the state ids of ids.        *)
NewEntries(S, ids) ==
  {e \in {[u |-> u, move |-> BestMove(u), sid |-> ids[u]] : u \in S} : e.move.best # NoBlock}

BoundaryOfOverloaded ==
  UNION {ToSet(bv.list[b]) : b \in {x \in Block : Overloaded(x)}}

-----------------------------------------------------------------------------
(* rebalance for a coarse level, rebalance_last_layer for the finest one,   *)
(* with a second loop at the end.                                           *)
NextPass ==
  CASE pass = "local" -> "residual"
    [] pass \in {"residual", "candidates"} -> IF lastLayer THEN "global" ELSE "done"
    [] pass = "global" -> "done"

InitReb ==
  /\ pass = "local" /\ lastLayer \in BOOLEAN
  /\ heap = {} /\ stateIds = [u \in Vertex |-> 0]
  /\ inner = NewRound /\ residual = NoResidual

InLoop == pass \in {"local", "global"}

(* A slip of FillHeap below: move_made and inner_iter are not reset.         *)
FillHeapKeepsMoved ==
  /\ InLoop /\ ~ inner.filled
  /\ stateIds' = Refreshed(BoundaryOfOverloaded, stateIds)
  /\ heap' = NewEntries(BoundaryOfOverloaded, stateIds')
  /\ inner' = [inner EXCEPT !.filled = TRUE]
  /\ UNCHANGED <<structVars, pass, lastLayer, residual>>

FillHeap ==
  /\ InLoop /\ ~ inner.filled
  /\ stateIds' = Refreshed(BoundaryOfOverloaded, stateIds)
  /\ heap' = NewEntries(BoundaryOfOverloaded, stateIds')
  /\ inner' = [NewRound EXCEPT !.filled = TRUE]
  /\ UNCHANGED <<structVars, pass, lastLayer, residual>>

(* The entry the queue hands out: one of those with the highest gain.       *)
Top(m) == m \in heap /\ \A e \in heap : e.move.qap <= m.move.qap
Popping(m) ==
  /\ InLoop /\ inner.filled
  /\ Top(m)
  /\ inner.tried < MaxInner

CurrentOf(m) == stateIds[m.u] = m.sid
Live(m) == IsBoundary(m.u) /\ Overloaded(partition[m.u]) /\ CurrentOf(m)

Tried == [inner EXCEPT !.tried = @ + 1]

DropOutdated(m) ==
  /\ Popping(m) /\ ~ Live(m)
  /\ heap' = heap \ {m}
  /\ inner' = Tried
  /\ UNCHANGED <<structVars, pass, lastLayer, stateIds, residual>>

(* The target has filled up: look for another one.                          *)
Retarget(m) ==
  /\ Popping(m) /\ Live(m) /\ ~ Fits(m.u, m.move.best)
  /\ stateIds' = Refreshed({m.u}, stateIds)
  /\ heap' = (heap \ {m}) \cup NewEntries({m.u}, stateIds')
  /\ inner' = Tried
  /\ UNCHANGED <<structVars, pass, lastLayer, residual>>

(* The move, and new entries for the neighbours it concerns.                *)
Concerned(u) == {v \in Adj(u) : IsBoundary(v) /\ Overloaded(partition[v])}

MoveTopKeepsIds(m) ==
  /\ Popping(m) /\ Live(m) /\ Fits(m.u, m.move.best)
  /\ ApplyMove(m.u, partition[m.u], m.move.best)
  /\ UNCHANGED <<pass, lastLayer, residual, stateIds>>
  /\ heap' = (heap \ {m}) \cup (NewEntries(Concerned(m.u), stateIds))'
  /\ inner' = [Tried EXCEPT !.moved = TRUE]

MoveTop(m) ==
  /\ Popping(m) /\ Live(m) /\ Fits(m.u, m.move.best)
  /\ ApplyMove(m.u, partition[m.u], m.move.best)
  /\ UNCHANGED <<pass, lastLayer, residual>>
  /\ stateIds' = Refreshed((Concerned(m.u))', stateIds)
  /\ heap' = (heap \ {m}) \cup (NewEntries(Concerned(m.u), stateIds))'
  /\ inner' = [Tried EXCEPT !.moved = TRUE]

(* A slip of EndRound below: one round only.                                *)
EndRoundOnce ==
  /\ InLoop /\ inner.filled
  /\ heap = {} \/ inner.tried >= MaxInner
  /\ heap' = {}
  /\ inner' = [inner EXCEPT !.filled = FALSE]
  /\ pass' = NextPass
  /\ stateIds' = [u \in Vertex |-> 0]
  /\ UNCHANGED <<structVars, lastLayer, residual>>

(* A round that moved something is followed by another one.                 *)
EndRound ==
  /\ InLoop /\ inner.filled
  /\ heap = {} \/ inner.tried >= MaxInner
  /\ heap' = {}
  /\ inner' = [inner EXCEPT !.filled = FALSE]
  /\ IF inner.moved THEN UNCHANGED <<pass, stateIds>>
     ELSE /\ pass' = NextPass
          /\ stateIds' = [u \in Vertex |-> 0]
  /\ UNCHANGED <<structVars, lastLayer, residual>>

-----------------------------------------------------------------------------
(* resolve_residual_overloads                                               *)
StartResidual ==
  /\ pass = "residual"
  /\ LET cands == FoldLeft(LAMBDA s, b : s \o bv.list[b], <<>>,
                           Ascending({b \in Active : Overloaded(b)}))
         under == Ascending({b \in Active : bweights[b] < Lmax[b]})
     IN  IF cands = <<>> \/ under = <<>>
         THEN pass' = NextPass /\ UNCHANGED residual
         ELSE /\ pass' = "candidates"
              /\ residual' = [cands |-> cands, under |-> under]
  /\ UNCHANGED <<structVars, lastLayer, heap, stateIds, inner>>

(* The first neighbouring block with the best gain.                         *)
ResidualBest(u) ==
  LET open == {o \in LocalOptions(u) : o.best # partition[u]}
  IN  IF open = {} THEN NoBlock
      ELSE (CHOOSE m \in open : \A o \in open :
              m.qap > o.qap \/ (m.qap = o.qap /\ m.at <= o.at)).best

(* ul_idx moves past the blocks without room for u, for all candidates.     *)
FromFirstFitting(u) ==
  LET i == SelectInSeq(residual.under, LAMBDA b : Fits(u, b))
  IN  IF i = 0 THEN <<>> ELSE SubSeq(residual.under, i, Len(residual.under))

PassCandidate ==
  /\ pass = "candidates" /\ residual.cands # <<>>
  /\ ~ Overloaded(partition[Head(residual.cands)])
  /\ residual' = [residual EXCEPT !.cands = Tail(@)]
  /\ UNCHANGED <<structVars, pass, lastLayer, heap, stateIds, inner>>

ResolveCandidate ==
  /\ pass = "candidates" /\ residual.cands # <<>>
  /\ LET u     == Head(residual.cands)
         near  == ResidualBest(u)
         under == IF near = NoBlock THEN FromFirstFitting(u) ELSE residual.under
         best  == IF near = NoBlock /\ under # <<>> THEN Head(under) ELSE near
     IN  /\ Overloaded(partition[u])
         /\ residual' = [cands |-> Tail(residual.cands), under |-> under]
         /\ IF best = NoBlock THEN UNCHANGED structVars
            ELSE ApplyMove(u, partition[u], best)
  /\ UNCHANGED <<pass, lastLayer, heap, stateIds, inner>>

EndResidual ==
  /\ pass = "candidates" /\ residual.cands = <<>>
  /\ pass' = NextPass
  /\ residual' = NoResidual
  /\ UNCHANGED <<structVars, lastLayer, heap, stateIds, inner>>

NextReb ==
  \/ FillHeap \/ EndRound
  \/ \E m \in heap : DropOutdated(m)
  \/ \E m \in heap : Retarget(m)
  \/ \E m \in heap : MoveTop(m)
  \/ StartResidual \/ PassCandidate \/ ResolveCandidate \/ EndResidual

SpecReb == StructInit /\ InitReb /\ [][NextReb]_rebVars

(* There is a next step until the last pass is done, and it is taken.       *)
Running == pass # "done"
FairReb == <>[]Running => []<><<NextReb>>_rebVars

-----------------------------------------------------------------------------
(* An entry that would be acted on has the gain its move has now, although  *)
(* the vertex's neighbours may have moved since it was pushed: every move   *)
(* that changes it outdates the entry through the state id.                 *)
EntriesFresh ==
  \A m \in heap : Live(m) =>
    m.move.best # partition[m.u] /\ m.move.qap = CostGain(partition, m.u, partition[m.u], m.move.best)

(* What the queue decides by may be older than the moves around it: every   *)
(* step finds only entries that are still true, and no move fills a block   *)
(* beyond its capacity: what is above its capacity after a step was so      *)
(* before, and has not grown.                                               *)
StepSound ==
  /\ EntriesFresh
  /\ \A b \in Block : BlockWeight(partition', b) > Lmax[b] =>
       BlockWeight(partition', b) <= BlockWeight(partition, b)
MovesSound == [][Running => StepSound]_rebVars

(* When a loop is done it has left nothing it could have moved: no boundary *)
(* vertex of an overloaded block has room in a neighbour's block, and after *)
(* the last layer's loop in no active block.                                *)
LoopComplete ==
  /\ pass = "residual" =>
       \A u \in BoundaryOfOverloaded : \A v \in Adj(u) : ~ Fits(u, partition[v])
  /\ pass = "done" /\ lastLayer =>
       \A u \in BoundaryOfOverloaded : \A b \in Active : ~ Fits(u, b)

(* Rebalancing ends, however often it has to look for new targets.          *)
Ends == <>(~ Running)
=============================================================================
