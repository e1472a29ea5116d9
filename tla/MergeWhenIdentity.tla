-------------------------- MODULE MergeWhenIdentity --------------------------
(***************************************************************************)
(* coarsening/size_constrained_lp.h (merge_when_identity): when label       *)
(* propagation has left every vertex alone, threads pair neighbours up.  A  *)
(* thread claims both ends of a pair by compare-and-swap on used, first its *)
(* own vertex, and gives its own vertex back when the other one is lost.    *)
(***************************************************************************)
EXTENDS Graph, TLAPS

CONSTANTS
  P,           (* p_manager: the block of every vertex.                      *)
  MaxW,        (* max_w, the weight a cluster may have.                      *)
  Thread,
  NoVertex     (* vertex_t(-1), the value of best_b while there is none.     *)

ASSUME MergeAssumption == P \in [Vertex -> Block] /\ MaxW \in Nat /\ NoVertex \notin Vertex

VARIABLES
  mapping,     (* mapping[u], the vertex u is merged with, or u.             *)
  used,        (* The vertices a with used[a] = 1.                           *)
  todo,        (* The vertices that no thread has come to yet.               *)
  th           (* [pc, a, best, rest]: where a thread is, its vertex, best_b, *)
               (* and the neighbours it has still to look at.                *)

vars == <<mapping, used, todo, th>>

Idle == [pc |-> "idle", a |-> NoVertex, best |-> NoVertex, rest |-> {}]

MergeableAlone(a, b) == b \in Adj(a) /\ P[b] = P[a] /\ VertexWeight[b] <= MaxW

Mergeable(a, b) ==
  b \in Adj(a) /\ P[b] = P[a] /\ VertexWeight[a] + VertexWeight[b] <= MaxW

Init ==
  /\ mapping = [u \in Vertex |-> u]
  /\ used = {}
  /\ todo = Vertex
  /\ th = [t \in Thread |-> Idle]

Goto(t, pc) == th' = [th EXCEPT ![t].pc = pc]
Leave(t) == th' = [th EXCEPT ![t] = Idle]

Take(t, a) ==
  /\ th[t].pc = "idle"
  /\ todo' = todo \ {a}
  /\ IF a \in used THEN UNCHANGED th
     ELSE th' = [th EXCEPT ![t] = [pc |-> "scan", a |-> a, best |-> NoVertex, rest |-> Adj(a)]]
  /\ UNCHANGED <<mapping, used>>

(* One neighbour: used is read while other threads write it.                *)
Better(t, b) ==
  /\ b \notin used /\ Mergeable(th[t].a, b)
  /\ \/ th[t].best = NoVertex
     \/ EdgeWeight[th[t].a][b] > EdgeWeight[th[t].a][th[t].best]

Scan(t, b) ==
  /\ th[t].pc = "scan"
  /\ th' = [th EXCEPT ![t].rest = @ \ {b}, ![t].best = IF Better(t, b) THEN b ELSE @]
  /\ UNCHANGED <<mapping, used, todo>>

EndScan(t) ==
  /\ th[t].pc = "scan" /\ th[t].rest = {}
  /\ IF th[t].best = NoVertex THEN Leave(t) ELSE Goto(t, "claim a")
  /\ UNCHANGED <<mapping, used, todo>>

ClaimA(t) ==
  /\ th[t].pc = "claim a"
  /\ IF th[t].a \in used THEN Leave(t) /\ UNCHANGED used
     ELSE used' = used \cup {th[t].a} /\ Goto(t, "claim b")
  /\ UNCHANGED <<mapping, todo>>

(* A slip of ClaimB below: the flag is stored without looking at it.        *)
ClaimBBlindly(t) ==
  /\ th[t].pc = "claim b"
  /\ used' = used \cup {th[t].best}
  /\ Goto(t, "pair")
  /\ UNCHANGED <<mapping, todo>>

ClaimB(t) ==
  /\ th[t].pc = "claim b"
  /\ IF th[t].best \in used THEN Goto(t, "release") /\ UNCHANGED used
     ELSE used' = used \cup {th[t].best} /\ Goto(t, "pair")
  /\ UNCHANGED <<mapping, todo>>

(* A slip of Release below: the vertex claimed first is kept.               *)
ReleaseKeeps(t) ==
  /\ th[t].pc = "release"
  /\ Leave(t)
  /\ UNCHANGED <<mapping, used, todo>>

Release(t) ==
  /\ th[t].pc = "release"
  /\ used' = used \ {th[t].a}
  /\ Leave(t)
  /\ UNCHANGED <<mapping, todo>>

Pair(t) ==
  /\ th[t].pc = "pair"
  /\ mapping' = [mapping EXCEPT ![th[t].a] = th[t].best]
  /\ Leave(t)
  /\ UNCHANGED <<used, todo>>

Step(t) ==
  \/ \E a \in todo : Take(t, a)
  \/ \E b \in th[t].rest : Scan(t, b)
  \/ EndScan(t) \/ ClaimA(t) \/ ClaimB(t) \/ Release(t) \/ Pair(t)

Next == \E t \in Thread : Step(t)

Spec == Init /\ [][Next]_vars

-----------------------------------------------------------------------------
Merged == {a \in Vertex : mapping[a] # a}
PairOf(a) == {a, mapping[a]}

(* The clusters that result are pairs: no vertex is merged twice, whether   *)
(* as the one that was visited or as the neighbour it chose.                *)
MergedOnce == \A a, c \in Merged : a # c => PairOf(a) \cap PairOf(c) = {}

(* Pairs respect the partition and the size constraint.                     *)
PairsFit == \A a \in Merged :
  P[mapping[a]] = P[a] /\ VertexWeight[a] + VertexWeight[mapping[a]] <= MaxW

(* When the threads are done, exactly the merged vertices are marked used:  *)
(* no failed attempt has left its claim behind.                             *)
Done == todo = {} /\ \A t \in Thread : th[t].pc = "idle"
NoClaimLeftBehind == Done => used = UNION {PairOf(a) : a \in Merged}

-----------------------------------------------------------------------------
(* Proof that the pairs are disjoint, that they fit and that no claim is    *)
(* left behind, for any graph and any number of threads.  The invariant is  *)
(* about claims: a thread between its first successful compare-and-swap and *)
(* its last write holds one or two vertices, and what threads hold and what *)
(* is already paired are disjoint and make up used.                         *)
PC == {"idle", "scan", "claim a", "claim b", "release", "pair"}

TypeOK ==
  /\ mapping \in [Vertex -> Vertex]
  /\ used \subseteq Vertex
  /\ todo \subseteq Vertex
  /\ th \in [Thread -> [pc : PC, a : Vertex \cup {NoVertex},
                        best : Vertex \cup {NoVertex}, rest : SUBSET Vertex]]

Holds(t) ==
  IF th[t].pc \in {"claim b", "release"} THEN {th[t].a}
  ELSE IF th[t].pc = "pair" THEN {th[t].a, th[t].best} ELSE {}

(* A thread that scans has a vertex, and its best neighbour can be merged   *)
(* with it; from the end of the scan on it has one.                         *)
Choice(t) ==
  /\ th[t].pc # "idle" => th[t].a \in Vertex
  /\ th[t].best # NoVertex => Mergeable(th[t].a, th[t].best)
  /\ th[t].pc \in PC \ {"idle", "scan"} => th[t].best # NoVertex

ClaimInv ==
  /\ \A a \in Merged : PairOf(a) \subseteq used /\ Mergeable(a, mapping[a])
  /\ MergedOnce
  /\ \A t \in Thread : Holds(t) \subseteq used /\ Choice(t)
  /\ \A t \in Thread : \A a \in Merged : Holds(t) \cap PairOf(a) = {}
  /\ \A s, t \in Thread : s # t => Holds(s) \cap Holds(t) = {}
  /\ \A x \in used : (\E a \in Merged : x \in PairOf(a)) \/ (\E t \in Thread : x \in Holds(t))

IInv == TypeOK /\ ClaimInv

-----------------------------------------------------------------------------
(* Only vertices other than itself are a vertex's partners.                 *)
LEMMA PartnerIsAnother ==
  ASSUME GraphAssumption, NEW a \in Vertex, NEW b, Mergeable(a, b)
  PROVE  b \in Vertex /\ b # a
BY DEF GraphAssumption, Mergeable, Adj

(* In the initial state nothing is merged or claimed.                       *)
LEMMA InitEstablishes == ASSUME Init PROVE IInv
<1>1. TypeOK
  BY DEF Init, TypeOK, Idle, PC
<1>2. Merged = {}
  BY DEF Init, Merged
<1>3. \A t \in Thread : th[t] = Idle
  BY DEF Init
<1>4. ASSUME NEW t \in Thread PROVE Holds(t) = {} /\ Choice(t)
  <2>1. th[t].pc = "idle" /\ th[t].best = NoVertex
    BY <1>3 DEF Idle
  <2> QED BY <2>1 DEF Holds, Choice
<1>5. used = {}
  BY DEF Init
<1> QED BY <1>1, <1>2, <1>4, <1>5 DEF IInv, ClaimInv, MergedOnce

(* A step of thread t that leaves the mapping alone preserves the           *)
(* invariant when what t holds afterwards is claimed and disjoint from what *)
(* the others hold and from the pairs, and nothing else is claimed.         *)
LEMMA ClaimsPreserve ==
  ASSUME IInv, TypeOK', NEW t \in Thread, mapping' = mapping,
         \A s \in Thread \ {t} : th'[s] = th[s],
         Choice(t)', Holds(t)' \subseteq used', used' \subseteq (used \ Holds(t)) \cup Holds(t)',
         \A a \in Merged : Holds(t)' \cap PairOf(a) = {} /\ PairOf(a) \subseteq used',
         \A s \in Thread \ {t} : Holds(t)' \cap Holds(s) = {} /\ Holds(s) \subseteq used'
  PROVE  IInv'
<1>1. Merged' = Merged /\ \A a : PairOf(a)' = PairOf(a)
  BY DEF Merged, PairOf
<1>2. \A s \in Thread \ {t} : Holds(s)' = Holds(s) /\ (Choice(s)' <=> Choice(s))
  BY DEF Holds, Choice
<1>3. MergedOnce'
  BY <1>1 DEF IInv, ClaimInv, MergedOnce
<1>4. \A a \in Merged' : PairOf(a)' \subseteq used' /\ Mergeable(a, mapping'[a])
  BY <1>1 DEF IInv, ClaimInv
<1>5. \A s \in Thread : Holds(s)' \subseteq used' /\ Choice(s)'
  BY <1>2 DEF IInv, ClaimInv
<1>6. \A s \in Thread : \A a \in Merged' : Holds(s)' \cap PairOf(a)' = {}
  BY <1>1, <1>2 DEF IInv, ClaimInv
<1>7. \A r, s \in Thread : r # s => Holds(r)' \cap Holds(s)' = {}
  BY <1>2 DEF IInv, ClaimInv
<1>8. ASSUME NEW x \in used'
      PROVE  (\E a \in Merged' : x \in PairOf(a)') \/ (\E s \in Thread : x \in Holds(s)')
  <2>1. CASE x \in Holds(t)'
    BY <2>1
  <2>2. CASE x \in used /\ x \notin Holds(t)
    <3>1. (\E a \in Merged : x \in PairOf(a)) \/ (\E s \in Thread : x \in Holds(s))
      BY <2>2 DEF IInv, ClaimInv
    <3> QED BY <1>1, <1>2, <2>2, <3>1
  <2> QED BY <1>8, <2>1, <2>2
<1> QED BY <1>3, <1>4, <1>5, <1>6, <1>7, <1>8 DEF IInv, ClaimInv

(* Every step of a thread preserves the invariant: a claim succeeds only on *)
(* a vertex nobody holds, and only a holder releases or merges.             *)
LEMMA StepPreserves ==
  ASSUME GraphAssumption, MergeAssumption, IInv, NEW t \in Thread, Step(t)
  PROVE  IInv'
<1> DEFINE me == th[t]
           Fields == [pc : PC, a : Vertex \cup {NoVertex},
                      best : Vertex \cup {NoVertex}, rest : SUBSET Vertex]
<1>1. me \in Fields /\ th \in [Thread -> Fields]
  BY DEF IInv, TypeOK
<1>2. Holds(t) \subseteq used /\ Choice(t)
  BY DEF IInv, ClaimInv
<1>3. \A a \in Merged : Holds(t) \cap PairOf(a) = {} /\ PairOf(a) \subseteq used
  BY DEF IInv, ClaimInv
<1>4. \A s \in Thread \ {t} : Holds(s) \subseteq used /\ Holds(t) \cap Holds(s) = {}
  BY DEF IInv, ClaimInv
<1>5. ASSUME NEW a \in todo, Take(t, a) PROVE IInv'
  <2>1. a \in Vertex
    BY <1>5 DEF IInv, TypeOK
  <2>2. CASE a \in used
    <3>1. TypeOK' /\ th' = th /\ used' = used /\ mapping' = mapping
      BY <1>5, <2>2 DEF Take, IInv, TypeOK
    <3>2. Holds(t)' = Holds(t) /\ (Choice(t)' <=> Choice(t))
      BY <3>1 DEF Holds, Choice
    <3> QED BY <3>1, <3>2, <1>2, <1>3, <1>4, ClaimsPreserve
  <2>3. CASE a \notin used
    <3> DEFINE new == [pc |-> "scan", a |-> a, best |-> NoVertex, rest |-> Adj(a)]
    <3>1. th' = [th EXCEPT ![t] = new] /\ used' = used /\ mapping' = mapping
          /\ todo' \subseteq Vertex
      BY <1>5, <2>3 DEF Take, IInv, TypeOK
    <3>2. new \in Fields
      BY <2>1 DEF PC, Adj
    <3>3. TypeOK' /\ th'[t] = new /\ \A s \in Thread \ {t} : th'[s] = th[s]
      BY <1>1, <3>1, <3>2 DEF IInv, TypeOK
    <3>4. Holds(t)' = {} /\ Choice(t)' /\ Holds(t) = {}
      BY <1>5, <2>1, <3>3 DEF Holds, Choice, PC, Take
    <3> QED BY <3>1, <3>3, <3>4, <1>3, <1>4, ClaimsPreserve
  <2> QED BY <2>2, <2>3
<1>6. ASSUME NEW b \in me.rest, Scan(t, b) PROVE IInv'
  <2> DEFINE new == [me EXCEPT !.rest = @ \ {b}, !.best = IF Better(t, b) THEN b ELSE @]
  <2>1. th' = [th EXCEPT ![t] = new] /\ UNCHANGED <<mapping, used, todo>>
    BY <1>1, <1>6 DEF Scan
  <2>2. new \in Fields /\ new.pc = "scan" /\ new.a = me.a
        /\ new.best = IF Better(t, b) THEN b ELSE me.best
    BY <1>1, <1>6 DEF Scan
  <2>3. TypeOK' /\ th'[t] = new /\ \A s \in Thread \ {t} : th'[s] = th[s]
    BY <1>1, <2>1, <2>2 DEF IInv, TypeOK
  <2>4. Holds(t)' = {} /\ Holds(t) = {}
    BY <1>6, <2>2, <2>3 DEF Holds, Scan
  <2>5. Choice(t)'
    BY <1>2, <1>6, <2>2, <2>3 DEF Choice, PC, Better, Scan
  <2> QED BY <2>1, <2>3, <2>4, <2>5, <1>3, <1>4, ClaimsPreserve
<1>7. ASSUME NEW pc \in PC \ {"idle"}, Holds(t) = {}, Goto(t, pc), UNCHANGED <<mapping, todo>>,
             me.best # NoVertex, me.pc # "idle",
             LET h == IF pc = "claim b" THEN {me.a} ELSE {}
             IN  pc # "pair" /\ pc # "release" /\ used' = used \cup h /\ h \cap used = {}
      PROVE  IInv'
  <2>1. th'[t] = [me EXCEPT !.pc = pc] /\ \A s \in Thread \ {t} : th'[s] = th[s]
    BY <1>1, <1>7 DEF Goto
  <2>2. me.a \in Vertex
    BY <1>2, <1>7 DEF Choice
  <2>3. TypeOK'
    BY <1>1, <1>7, <2>2 DEF Goto, IInv, TypeOK
  <2>4. Holds(t)' = IF pc = "claim b" THEN {me.a} ELSE {}
    BY <1>1, <1>7, <2>1 DEF Holds
  <2>5. Choice(t)'
    BY <1>1, <1>2, <1>7, <2>1 DEF Choice
  <2> QED BY <1>7, <2>1, <2>3, <2>4, <2>5, <1>3, <1>4, ClaimsPreserve
<1>8. ASSUME Leave(t), UNCHANGED <<mapping, todo>>, used' = used \ Holds(t)
      PROVE  IInv'
  <2>1. th'[t] = Idle /\ \A s \in Thread \ {t} : th'[s] = th[s]
    BY <1>1, <1>8 DEF Leave
  <2>2. Idle \in Fields
    BY DEF Idle, PC
  <2>3. TypeOK'
    BY <1>1, <1>8, <2>2 DEF Leave, IInv, TypeOK
  <2>4. Holds(t)' = {} /\ Choice(t)'
    BY <2>1 DEF Holds, Choice, Idle, PC
  <2> QED BY <1>8, <2>1, <2>3, <2>4, <1>3, <1>4, ClaimsPreserve
<1>9. CASE EndScan(t)
  <2>1. Holds(t) = {}
    BY <1>9 DEF EndScan, Holds
  <2> QED BY <1>7, <1>8, <1>9, <2>1 DEF EndScan, PC
<1>10. CASE ClaimA(t)
  <2>1. Holds(t) = {} /\ me.best # NoVertex
    BY <1>2, <1>10 DEF ClaimA, Holds, Choice, PC
  <2> QED BY <1>7, <1>8, <1>10, <2>1 DEF ClaimA, PC
<1>11. CASE ClaimB(t)
  <2>1. Holds(t) = {me.a} /\ me.a \in Vertex /\ me.best \in Vertex
    BY <1>1, <1>2, <1>11 DEF ClaimB, Holds, Choice, PC
  <2> DEFINE pc == IF me.best \in used THEN "release" ELSE "pair"
             got == IF me.best \in used THEN {} ELSE {me.best}
  <2>2. Goto(t, pc) /\ used' = used \cup got /\ UNCHANGED <<mapping, todo>>
    BY <1>11 DEF ClaimB
  <2>3. th'[t] = [me EXCEPT !.pc = pc] /\ \A s \in Thread \ {t} : th'[s] = th[s]
    BY <1>1, <2>2 DEF Goto
  <2>4. TypeOK'
    BY <1>1, <2>1, <2>2 DEF Goto, IInv, TypeOK, PC
  <2>5. Holds(t)' = {me.a} \cup got
    BY <1>1, <2>3 DEF Holds
  <2>6. Choice(t)'
    BY <1>1, <1>2, <1>11, <2>3 DEF Choice, ClaimB, PC
  <2>7. got \cap used = {}
    OBVIOUS
  <2> HIDE DEF got
  <2> QED BY <1>2, <1>3, <1>4, <2>1, <2>2, <2>3, <2>4, <2>5, <2>6, <2>7, ClaimsPreserve
<1>12. CASE Release(t)
  <2>1. Holds(t) = {me.a}
    BY <1>12 DEF Release, Holds
  <2> QED BY <1>8, <1>12, <2>1 DEF Release
<1>13. CASE Pair(t)
  <2>0. me.a \in Vertex /\ Mergeable(me.a, me.best)
    BY <1>2, <1>13 DEF Pair, Choice, PC
  <2>a. PICK a \in Vertex, b \in Vertex : a = me.a /\ b = me.best
    BY <2>0, PartnerIsAnother
  <2>1. Holds(t) = {a, b} /\ a \in Vertex /\ Mergeable(a, b)
    BY <1>13, <2>0, <2>a DEF Pair, Holds
  <2>2. b \in Vertex /\ b # a
    BY <2>1, PartnerIsAnother
  <2>3. mapping' = [mapping EXCEPT ![a] = b] /\ UNCHANGED <<used, todo>>
        /\ th' = [th EXCEPT ![t] = Idle]
    BY <1>13, <2>a DEF Pair, Leave
  <2>4. mapping'[a] = b /\ \A c \in Vertex \ {a} : mapping'[c] = mapping[c]
    BY <2>1, <2>3 DEF IInv, TypeOK
  <2>5. Idle \in Fields
    BY DEF Idle, PC
  <2>6. TypeOK'
    BY <1>1, <2>2, <2>3, <2>5 DEF IInv, TypeOK
  <2>7. th'[t] = Idle /\ \A s \in Thread \ {t} : th'[s] = th[s]
    BY <1>1, <2>3
  <2>8. Holds(t)' = {} /\ Choice(t)'
    BY <2>7 DEF Holds, Choice, Idle, PC
  <2>9. \A s \in Thread \ {t} : Holds(s)' = Holds(s) /\ (Choice(s)' <=> Choice(s))
    BY <2>7 DEF Holds, Choice
  <2>10. Merged' = Merged \cup {a} /\ a \notin Merged
    <3>1. a \notin Merged
      BY <1>3, <2>1 DEF PairOf
    <3> QED BY <2>1, <2>2, <2>4, <3>1 DEF Merged
  <2>11. PairOf(a)' = Holds(t)
    BY <2>1, <2>4 DEF PairOf
  <2>12. \A c \in Merged : PairOf(c)' = PairOf(c) /\ mapping'[c] = mapping[c]
    BY <2>4, <2>10 DEF PairOf, Merged
  <2>13. \A c \in Merged' : PairOf(c)' \subseteq used' /\ Mergeable(c, mapping'[c])
    BY <1>2, <2>1, <2>3, <2>4, <2>10, <2>11, <2>12 DEF IInv, ClaimInv
  <2>14. MergedOnce'
    BY <1>3, <2>10, <2>11, <2>12 DEF IInv, ClaimInv, MergedOnce
  <2>15. \A s \in Thread : Holds(s)' \subseteq used' /\ Choice(s)'
    BY <2>3, <2>8, <2>9 DEF IInv, ClaimInv
  <2>16. \A s \in Thread : \A c \in Merged' : Holds(s)' \cap PairOf(c)' = {}
    BY <1>4, <2>8, <2>9, <2>10, <2>11, <2>12 DEF IInv, ClaimInv
  <2>17. \A r, s \in Thread : r # s => Holds(r)' \cap Holds(s)' = {}
    BY <2>8, <2>9 DEF IInv, ClaimInv
  <2>18. ASSUME NEW x \in used'
         PROVE  (\E c \in Merged' : x \in PairOf(c)') \/ (\E s \in Thread : x \in Holds(s)')
    <3>1. (\E c \in Merged : x \in PairOf(c)) \/ (\E s \in Thread : x \in Holds(s))
      BY <2>3, <2>18 DEF IInv, ClaimInv
    <3>2. CASE x \in Holds(t)
      BY <2>10, <2>11, <3>2
    <3>3. CASE \E c \in Merged : x \in PairOf(c)
      BY <2>10, <2>12, <3>3
    <3>4. CASE \E s \in Thread \ {t} : x \in Holds(s)
      BY <2>9, <3>4
    <3> QED BY <3>1, <3>2, <3>3, <3>4
  <2> QED BY <2>6, <2>13, <2>14, <2>15, <2>16, <2>17, <2>18 DEF IInv, ClaimInv
<1> QED BY <1>5, <1>6, <1>9, <1>10, <1>11, <1>12, <1>13 DEF Step

(* Every reachable state satisfies the invariant.                           *)
THEOREM Inductive == Spec => []IInv
<1>1. Init => IInv
  BY InitEstablishes
<1>2. IInv /\ [Next]_vars => IInv'
  <2>1. ASSUME IInv, NEW t \in Thread, Step(t) PROVE IInv'
    BY <2>1, StepPreserves, GraphAssumption, MergeAssumption
  <2>2. ASSUME IInv, UNCHANGED vars PROVE IInv'
    <3>1. UNCHANGED <<mapping, used, todo, th>>
      BY <2>2 DEF vars
    <3>2. TypeOK' /\ Merged' = Merged /\ (MergedOnce' <=> MergedOnce)
      BY <2>2, <3>1 DEF IInv, TypeOK, Merged, MergedOnce, PairOf
    <3>3. \A a : PairOf(a)' = PairOf(a)
      BY <3>1 DEF PairOf
    <3>4. \A t : Holds(t)' = Holds(t) /\ (Choice(t)' <=> Choice(t))
      BY <3>1 DEF Holds, Choice
    <3> QED BY <2>2, <3>1, <3>2, <3>3, <3>4 DEF IInv, ClaimInv
  <2> QED BY <2>1, <2>2 DEF Next
<1> QED BY <1>1, <1>2, PTL DEF Spec

(* No vertex is merged twice, however many threads claim it.                *)
THEOREM NoVertexMergedTwice == Spec => []MergedOnce
<1>1. IInv => MergedOnce
  BY DEF IInv, ClaimInv
<1> QED BY <1>1, Inductive, PTL

(* A thread that loses the second vertex gives the first one back: when all *)
(* threads are done, used marks exactly the vertices of the pairs.          *)
THEOREM NoClaimIsLeftBehind == Spec => []NoClaimLeftBehind
<1>1. ASSUME IInv PROVE NoClaimLeftBehind
  <2> SUFFICES ASSUME Done PROVE used = UNION {PairOf(a) : a \in Merged}
    BY DEF NoClaimLeftBehind
  <2>1. \A t \in Thread : Holds(t) = {}
    BY DEF Done, Holds
  <2>2. \A x \in used : \E a \in Merged : x \in PairOf(a)
    BY <1>1, <2>1 DEF IInv, ClaimInv
  <2>3. \A a \in Merged : PairOf(a) \subseteq used
    BY <1>1 DEF IInv, ClaimInv
  <2> HIDE DEF Merged, PairOf
  <2> QED BY <2>2, <2>3
<1> QED BY <1>1, Inductive, PTL

(* Every pair stays in its block and within the size constraint, without    *)
(* the overshoot that the rounds of label propagation allow themselves.     *)
THEOREM EveryPairFits == Spec => []PairsFit
<1>1. IInv => PairsFit
  BY DEF IInv, ClaimInv, PairsFit, Mergeable
<1> QED BY <1>1, Inductive, PTL
=============================================================================
