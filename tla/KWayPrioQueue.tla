---------------------------- MODULE KWayPrioQueue ----------------------------
(***************************************************************************)
(* kway_partitioner/kway_prio_queue.h and kway_indexed_prio_queue.h: the   *)
(* heap of the k-way partitioner.  A node is not placed while it is        *)
(* sifted: the hole moves and the node is written where it stops.          *)
(***************************************************************************)
EXTENDS Integers, FiniteSets, Sequences, SequencesExt, TLC

CONSTANTS Nodes, Priorities

PrioQueueAssumption == IsFiniteSet(Nodes) /\ Priorities \subseteq Int

VARIABLES
  heap,         (* Nodes [key, val], up to the size n.                      *)
  locator,      (* The position of every value, -1 when not in the heap.    *)
  taken         (* Ghost: the key of the node that top_pop removed last.    *)

vars == <<heap, locator, taken>>

n == Cardinality(DOMAIN heap)
Slots == 0 .. Cardinality(Nodes) - 1
Nowhere == -1

Parent(i) == (i - 1) \div 2
LeftOf(i) == 2 * i + 1

(* siftUp: where the hole at i stops for a key, by the positions it visits. *)
PathUp(h, i, key) ==
  LET up[j \in Slots] ==
        IF j = 0 \/ ~ (key > h[Parent(j)].key) THEN <<j>> ELSE <<j>> \o up[Parent(j)]
  IN up[i]

(* siftDown, in a heap of size nodes.                                       *)
BestChildFirst(h, j, size, key) ==
  IF LeftOf(j) < size /\ h[LeftOf(j)].key > key THEN {LeftOf(j)} ELSE {}
BestChild(h, j, size, key) ==
  LET l == LeftOf(j)
      r == l + 1
  IN IF l >= size THEN {}
     ELSE IF h[l].key > key THEN IF r < size /\ h[r].key > h[l].key THEN {r} ELSE {l}
     ELSE IF r < size /\ h[r].key > key THEN {r} ELSE {}

PathDown(h, i, size, key) ==
  LET down[j \in Slots] ==
        LET best == BestChild(h, j, size, key)
        IN <<j>> \o IF best = {} THEN <<>> ELSE down[CHOOSE c \in best : TRUE]
  IN down[i]

(* The nodes on the path move one step against it and the node takes its    *)
(* end (placeAt).                                                           *)
Placed(h, size, loc, path, node) ==
  LET m == Len(path)
      at(j) == CHOOSE k \in 1 .. m : path[k] = j
      moved == [j \in 0 .. size - 1 |->
                  IF j \notin ToSet(path) THEN h[j]
                  ELSE IF j = path[m] THEN node ELSE h[path[at(j) + 1]]]
  IN /\ heap' = moved
     /\ locator' = [x \in Nodes |->
                      IF \E k \in 1 .. m : moved[path[k]].val = x
                      THEN path[CHOOSE k \in 1 .. m : moved[path[k]].val = x]
                      ELSE loc[x]]

contains(x) == locator[x] # Nowhere
Shorter == [i \in 0 .. n - 2 |-> heap[i]]

-----------------------------------------------------------------------------
Init ==
  /\ heap = <<>>
  /\ locator = [x \in Nodes |-> Nowhere]
  /\ taken = 0

insert(x, key) ==
  /\ ~ contains(x) /\ UNCHANGED taken
  /\ Placed(heap, n + 1, locator, PathUp(heap, n, key), [key |-> key, val |-> x])

(* Sifts a node that takes the place i in a heap of size nodes; the code    *)
(* compares it with the node that was there.                                *)
PathFrom(i, size, key) ==
  IF key > heap[i].key THEN PathUp(heap, i, key) ELSE PathDown(heap, i, size, key)

erase(x) ==
  /\ contains(x) /\ UNCHANGED taken
  /\ LET loc == [locator EXCEPT ![x] = Nowhere]
         last == heap[n - 1]
     IN IF last.val = x THEN locator' = loc /\ heap' = Shorter
        ELSE Placed(heap, n - 1, loc, PathFrom(locator[x], n - 1, last.key), last)

update(x, key) ==
  /\ contains(x) /\ UNCHANGED taken
  /\ LET i == locator[x]
     IN IF key = heap[i].key THEN UNCHANGED <<heap, locator>>
        ELSE Placed(heap, n, locator, PathFrom(i, n, key), [key |-> key, val |-> x])

updateOrInsert(x, key) == update(x, key) \/ insert(x, key)

top_pop ==
  /\ n > 0
  /\ taken' = heap[0].key
  /\ LET loc == [locator EXCEPT ![heap[0].val] = Nowhere]
         last == heap[n - 1]
     IN IF n = 1 THEN locator' = loc /\ heap' = Shorter
        ELSE Placed(heap, n - 1, loc, PathDown(heap, 0, n - 1, last.key), last)

reset ==
  /\ taken' = 0
  /\ heap' = <<>>
  /\ locator' = [x \in Nodes |->
                   IF x \in {heap[i].val : i \in 0 .. n - 1} THEN Nowhere ELSE locator[x]]

Next ==
  \/ \E x \in Nodes : \/ \E key \in Priorities : updateOrInsert(x, key)
                      \/ erase(x)
  \/ top_pop \/ reset

Spec == Init /\ [][Next]_vars

-----------------------------------------------------------------------------

(* To the local searches it is a queue from which the vertex with the       *)
(* highest gain is taken.                                                   *)
Queue == INSTANCE MaxQueue WITH
  Keys <- Nodes, entries <- [x \in {y \in Nodes : contains(y)} |-> heap[locator[x]].key]

ImplementsMaxQueue == Queue!QueueSpec
=============================================================================
