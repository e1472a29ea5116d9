------------------------------ MODULE MaxQueue ------------------------------
(***************************************************************************)
(* What the users of the heaps rely on: a set of keys with priorities that *)
(* can be changed and removed one by one, and of which one with the        *)
(* highest priority is taken.                                              *)
(***************************************************************************)
EXTENDS Integers, Functions

CONSTANTS Keys, Priorities

VARIABLES
  entries,      (* The priorities of the keys in the queue.                 *)
  taken         (* The priority of the key that was taken last since Clear. *)

queueVars == <<entries, taken>>

Empty == [x \in {} |-> 0]

Highest == {x \in DOMAIN entries :
              \A y \in DOMAIN entries : entries[y] <= entries[x]}

Insert(x) ==
  /\ x \notin DOMAIN entries /\ UNCHANGED taken
  /\ \E prio \in Priorities :
       entries' = [y \in DOMAIN entries \cup {x} |-> IF y = x THEN prio ELSE entries[y]]

InsertAll ==
  /\ UNCHANGED taken
  /\ \E new \in SUBSET (Keys \ DOMAIN entries) : \E prios \in [new -> Priorities] :
       entries' = [y \in DOMAIN entries \cup new |-> IF y \in new THEN prios[y] ELSE entries[y]]

Change(x) ==
  /\ x \in DOMAIN entries /\ UNCHANGED taken
  /\ \E prio \in Priorities : entries' = [entries EXCEPT ![x] = prio]

Remove(x) ==
  /\ x \in DOMAIN entries /\ UNCHANGED taken
  /\ entries' = Restrict(entries, DOMAIN entries \ {x})

TakeHighest ==
  \E x \in Highest : /\ entries' = Restrict(entries, DOMAIN entries \ {x})
                     /\ taken' = entries[x]

Clear == entries' = Empty /\ taken' = 0

QueueNext ==
  \/ \E x \in Keys : Insert(x) \/ Change(x) \/ Remove(x)
  \/ InsertAll \/ TakeHighest \/ Clear

QueueSpec == entries = Empty /\ taken = 0 /\ [][QueueNext]_queueVars
=============================================================================
