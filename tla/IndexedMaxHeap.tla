--------------------------- MODULE IndexedMaxHeap ---------------------------
(***************************************************************************)
(* utility/indexed_max_heap.h: the heap of the refinements, the rebalancer *)
(* and the recursive bisection.  m_indices is not initialised, and clear   *)
(* leaves it as it is: only the iteration counters tell which of its       *)
(* entries are valid.  The iteration is 64 bits wide and never wraps here. *)
(***************************************************************************)
EXTENDS Integers, FiniteSets, Sequences, SequencesExt, FiniteSetsExt

CONSTANTS
  Keys,         (* The keys below the largest capacity.                     *)
  Priorities,
  MinCapacity,  (* The capacity to begin with.                              *)
  MaxIteration  (* Bound: calls of clear.                                   *)

HeapAssumption ==
  IsFiniteSet(Keys) /\ Priorities \subseteq Nat /\ MinCapacity \in Nat /\ MaxIteration \in Nat

VARIABLES
  valid,        (* The keys below m_n, the capacity.                        *)
  heap,         (* m_heap up to m_heap_size, from index 1 on here.          *)
  indices,      (* m_indices.                                               *)
  iteration,    (* m_iteration.                                             *)
  counter,      (* m_iteration_counter.                                     *)
  taken         (* Ghost: the value of the node that pop removed last.      *)

vars == <<valid, heap, indices, iteration, counter, taken>>

MaxN == Cardinality(Keys)
TOMBSTONE == 0   (* Index 0 is not in use here.                             *)

entry_exists(k) == counter[k] = iteration /\ indices[k] # TOMBSTONE

-----------------------------------------------------------------------------
(* Heap and indices change together: s is the record of both.               *)

Here == [heap |-> heap, indices |-> indices]
Becomes(s) == heap' = s.heap /\ indices' = s.indices

(* swap_nodes along the positions of a path.                                *)
swap_nodes(s, a, b) ==
  [heap |-> [s.heap EXCEPT ![a] = s.heap[b], ![b] = s.heap[a]],
   indices |-> [s.indices EXCEPT ![s.heap[a].key] = b, ![s.heap[b].key] = a]]
Along(s, path) ==
  FoldLeft(LAMBDA r, j : swap_nodes(r, path[j], path[j + 1]), s, [j \in 1 .. Len(path) - 1 |-> j])

bubble_up(s, index) ==
  LET rise[i \in 1 .. MaxN] ==
        IF i = 1 \/ s.heap[index].val <= s.heap[i \div 2].val THEN <<i>>
        ELSE <<i>> \o rise[i \div 2]
  IN Along(s, rise[index])

(* The child that is largest, the left one of two equal ones.               *)
LeftChild(h, i) == IF 2 * i <= Len(h) THEN {2 * i} ELSE {}
LargestChild(h, i) ==
  {c \in {2 * i, 2 * i + 1} \cap 1 .. Len(h) :
     \A d \in {2 * i, 2 * i + 1} \cap 1 .. Len(h) :
       h[d].val < h[c].val \/ (h[d].val = h[c].val /\ c <= d)}

bubble_down(s, index) ==
  LET sink[i \in 1 .. MaxN] ==
        LET below == {c \in LargestChild(s.heap, i) : s.heap[c].val > s.heap[index].val}
        IN <<i>> \o IF below = {} THEN <<>> ELSE sink[CHOOSE c \in below : TRUE]
  IN Along(s, sink[index])

Appended(s, k, val) ==
  [heap |-> Append(s.heap, [key |-> k, val |-> val]),
   indices |-> [s.indices EXCEPT ![k] = Len(s.heap) + 1]]

(* The last node takes the place i of a node that goes.                     *)
LastTo(s, i) ==
  LET gone == s.heap[i].key
      last == s.heap[Len(s.heap)]
      without == [s.indices EXCEPT ![gone] = TOMBSTONE]
  IN IF i = Len(s.heap) THEN [heap |-> Front(s.heap), indices |-> without]
     ELSE [heap |-> Front([s.heap EXCEPT ![i] = last]),
           indices |-> [without EXCEPT ![last.key] = i]]

-----------------------------------------------------------------------------
(* Uninitialised indices that look like a position of the heap.            *)
Garbage == {[k \in Keys |-> 1]}

Init ==
  /\ valid \in {S \in SUBSET Keys : Cardinality(S) = MinCapacity}
  /\ heap = <<>>
  /\ indices \in Garbage
  /\ iteration = 1
  /\ counter = [k \in Keys |-> 0]
  /\ taken = 0

push(k, val) ==
  /\ k \in valid /\ ~ entry_exists(k)
  /\ counter' = [counter EXCEPT ![k] = iteration]
  /\ Becomes(bubble_up(Appended(Here, k, val), Len(heap) + 1))
  /\ UNCHANGED <<valid, iteration, taken>>

(* The nodes are appended as they come and sifted from the last parent on.  *)
(* Callers fill an empty heap this way.                                     *)
Heapified(s) ==
  FoldLeft(bubble_down, s, Reverse([j \in 1 .. Len(s.heap) \div 2 |-> j]))

push_many_heapify(new, val) ==
  /\ heap = <<>> /\ new # {}
  /\ counter' = [k \in Keys |-> IF k \in new THEN iteration ELSE counter[k]]
  /\ Becomes(Heapified(FoldSet(LAMBDA k, s : Appended(s, k, val[k]), Here, new)))
  /\ UNCHANGED <<valid, iteration, taken>>

(* update; increment writes the sum the same way.                           *)
SetVal(s, i, val) == bubble_down(bubble_up([s EXCEPT !.heap[i].val = val], i), i)
update(k, val) ==
  /\ k \in valid /\ entry_exists(k)
  /\ Becomes(SetVal(Here, indices[k], val))
  /\ UNCHANGED <<valid, iteration, counter, taken>>

Sifted(s, i) == IF i > Len(s.heap) THEN s ELSE bubble_down(bubble_up(s, i), i)
SiftedDown(s, i) == IF i > Len(s.heap) THEN s ELSE bubble_down(s, i)
Removed(s, i) == Sifted(LastTo(s, i), i)
remove(k) ==
  /\ k \in valid /\ entry_exists(k)
  /\ Becomes(Removed(Here, indices[k]))
  /\ UNCHANGED <<valid, iteration, counter, taken>>

pop ==
  /\ heap # <<>>
  /\ Becomes(SiftedDown(LastTo(Here, 1), 1))
  /\ taken' = heap[1].val
  /\ UNCHANGED <<valid, iteration, counter>>

NextIteration(i) == i + 1
clear ==
  /\ iteration < MaxIteration
  /\ heap' = <<>>
  /\ iteration' = NextIteration(iteration)
  /\ taken' = 0
  /\ UNCHANGED <<valid, indices, counter>>

(* ensure_capacity for more keys than before initialises anew.              *)
ensure_capacity(larger) ==
  /\ valid \subseteq larger /\ valid # larger
  /\ valid' = larger /\ heap' = <<>> /\ iteration' = 1
  /\ indices' \in Garbage
  /\ counter' = [k \in Keys |-> 0]
  /\ taken' = 0

(* Only the entries of nodes in the heap are copied to the larger arrays.   *)
grow(larger) ==
  /\ valid \subseteq larger /\ valid # larger
  /\ valid' = larger
  /\ LET present == {heap[i].key : i \in 1 .. Len(heap)}
     IN /\ \E g \in Garbage :
             indices' = [k \in Keys |-> IF k \in present THEN indices[k] ELSE g[k]]
        /\ counter' = [k \in Keys |-> IF k \in present THEN counter[k] ELSE 0]
  /\ UNCHANGED <<heap, iteration, taken>>

Next ==
  \/ \E k \in Keys : \/ \E val \in Priorities : push(k, val) \/ update(k, val)
                     \/ remove(k)
  \/ \E new \in SUBSET valid : \E val \in [new -> Priorities] : push_many_heapify(new, val)
  \/ pop \/ clear
  \/ \E larger \in SUBSET Keys : grow(larger) \/ ensure_capacity(larger)

Spec == Init /\ [][Next]_vars

-----------------------------------------------------------------------------

(* The heap is a queue of priorities from which the highest one is taken.   *)
Queue == INSTANCE MaxQueue WITH
  entries <- [k \in {x \in valid : entry_exists(x)} |-> heap[indices[k]].val]

ImplementsMaxQueue == Queue!QueueSpec
=============================================================================
