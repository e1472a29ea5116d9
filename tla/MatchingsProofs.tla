------------------------ MODULE MatchingsProofs ------------------------
(***************************************************************************)
(* Proof that every batch of compute_static_matchings is a distance-3       *)
(* matching, for every quotient graph and every number of blocks and        *)
(* batches.  The invariant relates the marks of a batch to its pairs: the   *)
(* d1 marks contain the endpoints and their neighbours, and the d2 marks    *)
(* everything one step from a d1 mark, although neighbours that already     *)
(* have a d1 mark are not expanded again.                                   *)
(*                                                                          *)
(* Then the same of every call of find_matching, that no call stops before  *)
(* it is maximal, and that a round ends only with every edge matched.       *)
(*                                                                          *)
(* Last, what the matchings are for: threads that refine the pairs of such  *)
(* a matching do not race, leave the structures right at every barrier,     *)
(* and make moves that fit and do not raise the cost.                       *)
(***************************************************************************)
EXTENDS Matchings, PairwiseLabelPropagation, BlockStructuresProofs

TypeOK ==
  /\ nbr \in [Blocks -> SUBSET Blocks]
  /\ Symmetric(Blocks, nbr)
  /\ todo \subseteq Blocks \X Blocks
  /\ batch \in [1 .. Rounds -> [pairs : SUBSET (Blocks \X Blocks), frozen : MarksOf(Blocks)]]

BatchInv(b) ==
  /\ Closed(nbr, batch[b].frozen)
  /\ \A p \in batch[b].pairs : /\ Expanded(nbr, batch[b].frozen, p[1])
                               /\ Expanded(nbr, batch[b].frozen, p[2])
  /\ DistanceThree(nbr, batch[b].pairs)

IInv == TypeOK /\ \A b \in 1 .. Rounds : BatchInv(b)

-----------------------------------------------------------------------------
(* The first free batch exists whenever a batch is free.                    *)
LEMMA FirstFreeExists ==
  ASSUME NEW S, S \subseteq Nat, S # {}
  PROVE  \E b \in S : IsFirst(b, S)
<1>1. PICK b \in S : \A c \in S : ~ (<<c, b>> \in OpToRel(<, Nat))
  BY WFMin, NatLessThanWellFounded
<1>2. \A c \in S : ~ (c < b)
  BY <1>1 DEF OpToRel
<1> QED BY <1>2 DEF IsFirst

-----------------------------------------------------------------------------
(* The state of the batches is well typed and the quotient graph stays      *)
(* symmetric in every reachable state.                                      *)
LEMMA InitEstablishes == ASSUME StaticAssumption, InitStatic PROVE IInv
<1>1. PICK E \in SUBSET Host :
        /\ nbr = NbrOf(E)
        /\ todo = {p \in Blocks \X Blocks : p[1] < p[2] /\ {p[1], p[2]} \in E}
  BY DEF InitStatic
<1>2. nbr \in [Blocks -> SUBSET Blocks] /\ Symmetric(Blocks, nbr)
  BY <1>1 DEF NbrOf, Symmetric
<1>3. batch = [b \in 1 .. Rounds |-> [pairs |-> {}, frozen |-> NothingFrozen]]
  BY DEF InitStatic, NoBatches
<1>4. TypeOK
  BY <1>1, <1>2, <1>3 DEF TypeOK, MarksOf, NothingFrozen
<1>5. ASSUME NEW b \in 1 .. Rounds PROVE BatchInv(b)
  BY <1>3 DEF BatchInv, Closed, DistanceThree, NothingFrozen
<1> QED BY <1>4, <1>5 DEF IInv

(* Placing an edge preserves the invariant: the batch it goes to has no     *)
(* mark on its endpoints, and it is expanded in that batch.                 *)
LEMMA StepPreserves ==
  ASSUME StaticAssumption, IInv, [NextStatic]_staticVars PROVE IInv'
<1>1. CASE UNCHANGED staticVars
  BY <1>1 DEF staticVars, IInv, TypeOK, BatchInv
<1>2. ASSUME NEW p \in todo, Place(p) PROVE IInv'
  <2> DEFINE u == p[1]
             v == p[2]
             free == FreeBatches(batch, u, v)
             b == CHOOSE c \in free : IsFirst(c, free)
  <2>1. u \in Blocks /\ v \in Blocks /\ p = <<u, v>>
    BY <1>2 DEF IInv, TypeOK
  <2>2. nbr' = nbr /\ todo' \subseteq Blocks \X Blocks
    BY <1>2 DEF Place, IInv, TypeOK
  <2>3. CASE free = {}
    <3>1. batch' = batch
      BY <1>2, <2>3 DEF Place, PlaceEdge
    <3> QED BY <2>2, <3>1 DEF IInv, TypeOK, BatchInv
  <2>4. CASE free # {}
    <3>1. free \subseteq 1 .. Rounds
      BY DEF FreeBatches, IInv, TypeOK
    <3>2. b \in free
      BY <2>4, <3>1, FirstFreeExists DEF StaticAssumption
    <3>3. b \in 1 .. Rounds /\ u \notin batch[b].frozen.d2 /\ v \notin batch[b].frozen.d2
      BY <3>1, <3>2 DEF FreeBatches
    <3> DEFINE f == batch[b].frozen
               f1 == FreezeEndpoint(nbr, f, u)
               f2 == FreezeEndpoint(nbr, f1, v)
               new == [pairs |-> batch[b].pairs \cup {<<u, v>>}, frozen |-> f2]
    <3>4. batch' = [batch EXCEPT ![b] = new]
      BY <1>2, <2>4 DEF Place, PlaceEdge, PlaceInto, Freeze
    <3> HIDE DEF b, u, v
    <3>5. f \in MarksOf(Blocks) /\ Closed(nbr, f) /\ nbr \in [Blocks -> SUBSET Blocks] /\ Symmetric(Blocks, nbr)
      BY <3>3 DEF IInv, TypeOK, BatchInv
    <3>6. f1 \in MarksOf(Blocks) /\ Closed(nbr, f1) /\ Expanded(nbr, f1, u)
          /\ f.d1 \subseteq f1.d1
      BY <2>1, <3>5, FreezeEndpointKeeps
    <3>7. f2 \in MarksOf(Blocks) /\ Closed(nbr, f2) /\ Expanded(nbr, f2, v)
          /\ f1.d1 \subseteq f2.d1
      BY <2>1, <3>5, <3>6, FreezeEndpointKeeps
    <3> HIDE DEF f1, f2
    <3>8. TypeOK'
      <4>1. batch[b].pairs \in SUBSET (Blocks \X Blocks)
        BY <3>3 DEF IInv, TypeOK
      <4>2. new \in [pairs : SUBSET (Blocks \X Blocks), frozen : MarksOf(Blocks)]
        BY <2>1, <3>7, <4>1
      <4> QED BY <2>2, <3>4, <4>2 DEF IInv, TypeOK
    <3>9. ASSUME NEW c \in 1 .. Rounds PROVE BatchInv(c)'
      <4>1. CASE c # b
        <5>1. batch'[c] = batch[c]
          BY <3>4, <4>1 DEF IInv, TypeOK
        <5> QED BY <2>2, <5>1 DEF IInv, BatchInv
      <4>2. CASE c = b
        <5>1. batch'[c] = new
          BY <3>3, <3>4, <4>2 DEF IInv, TypeOK
        <5>2. batch'[c].frozen = f2 /\ batch'[c].pairs = batch[b].pairs \cup {<<u, v>>}
          BY <5>1
        <5>3. \A r \in batch[b].pairs :
                Expanded(nbr, f, r[1]) /\ Expanded(nbr, f, r[2])
                /\ r[1] \in Blocks /\ r[2] \in Blocks
          BY <3>3 DEF IInv, BatchInv, TypeOK
        <5>4. ASSUME NEW r \in batch'[c].pairs
              PROVE  Expanded(nbr, f2, r[1]) /\ Expanded(nbr, f2, r[2])
          BY <3>6, <3>7, <5>2, <5>3 DEF Expanded
        <5>5. \A r \in batch[b].pairs : \A x \in {r[1], r[2]}, y \in {u, v} :
                y \notin Within2(nbr, x) /\ x \notin Within2(nbr, y)
          <6> SUFFICES ASSUME NEW r \in batch[b].pairs,
                              NEW x \in {r[1], r[2]}, NEW y \in {u, v}
                       PROVE  y \notin Within2(nbr, x) /\ x \notin Within2(nbr, y)
            OBVIOUS
          <6>1. x \in Blocks /\ Expanded(nbr, f, x)
            BY <5>3
          <6>2. y \in Blocks /\ y \notin f.d2
            BY <2>1, <3>3
          <6> HIDE DEF f
          <6> QED BY <3>5, <6>1, <6>2, UnmarkedPairIsFar
        <5>6. DistanceThree(nbr, batch[b].pairs)
          BY <3>3 DEF IInv, BatchInv
        <5>7. DistanceThree(nbr, batch'[c].pairs)
          BY <5>2, <5>5, <5>6 DEF DistanceThree
        <5> QED BY <2>2, <3>7, <5>2, <5>4, <5>7 DEF BatchInv
      <4> QED BY <4>1, <4>2
    <3> QED BY <3>8, <3>9 DEF IInv
  <2> QED BY <2>3, <2>4
<1> QED BY <1>1, <1>2 DEF NextStatic

(* Every reachable state satisfies the inductive invariant.                 *)
THEOREM Inductive == SpecStatic => []IInv
<1>1. InitStatic => IInv
  BY InitEstablishes, StaticAssumption
<1>2. IInv /\ [NextStatic]_staticVars => IInv'
  BY StepPreserves, StaticAssumption
<1> QED BY <1>1, <1>2, PTL DEF SpecStatic

(* No two pairs of a batch are within distance 2 of each other, whatever    *)
(* the quotient graph: the worker threads of label propagation may take any *)
(* two pairs of a batch at the same time.                                   *)
THEOREM StaticBatchesAreDistanceThree == SpecStatic => []BatchesDistanceThree
<1>1. IInv => BatchesDistanceThree
  BY DEF IInv, BatchInv, BatchesDistanceThree
<1> QED BY <1>1, Inductive, PTL

-----------------------------------------------------------------------------
(* The calls of find_matching.  Whatever has a mark is near a pair of this  *)
(* call, and an edge still to be matched has its smaller block among the    *)
(* candidates of this call or of the next one; when it was visited before,  *)
(* one of its blocks has a mark.                                            *)
RoundTypeOK ==
  /\ nbr \in [Blocks -> SUBSET Blocks] /\ Symmetric(Blocks, nbr) /\ \A x \in Blocks : x \notin nbr[x]
  /\ loop \in CallsOf(Blocks) /\ cand \in Seq(Blocks) /\ found \in BOOLEAN

Awaiting(m, u, v) == v \in nbr[u] /\ Valid(activeThisRound, u, v) /\ {u, v} \notin m.used

EdgesInv(m, c) ==
  /\ m.used \subseteq ValidEdges
  /\ \A u, v \in Blocks : Awaiting(m, u, v) =>
       /\ u \in ToSet(c) \cup ToSet(m.next)
       /\ u \in ToSet(c) \/ u \in m.frozen.d2 \/ v \in m.frozen.d2

RoundInv ==
  /\ RoundTypeOK /\ MarksInv(nbr, loop) /\ EdgesInv(loop, cand)
  /\ ~ found => loop.used = ValidEdges

(* The lists hold the neighbours.                                          *)
LEMMA ListsAreNeighbours ==
  ASSUME ListOfAssumption, RoundTypeOK, NEW u \in Blocks
  PROVE  Lists(nbr)[u] \in Seq(Blocks) /\ ToSet(Lists(nbr)[u]) = nbr[u]
<1>1. nbr[u] \in SUBSET Blocks
  BY DEF RoundTypeOK
<1>2. ListOf(nbr[u]) \in Seq(nbr[u]) /\ ToSet(ListOf(nbr[u])) = nbr[u]
  BY <1>1 DEF ListOfAssumption
<1> QED BY <1>1, <1>2 DEF Lists

(* What a visit leaves to be matched is still among the candidates.         *)
LEMMA VisitKeeps ==
  ASSUME ListOfAssumption, RoundTypeOK, MarksInv(nbr, loop), EdgesInv(loop, cand),
         NEW u \in Blocks, NEW rest \in Seq(Blocks), ToSet(cand) = {u} \cup ToSet(rest)
  PROVE  LET m == VisitCandidate(nbr, Lists(nbr), activeThisRound, loop, u)
         IN  m \in CallsOf(Blocks) /\ MarksInv(nbr, m) /\ EdgesInv(m, rest)
<1> DEFINE unused == Unused(Lists(nbr), activeThisRound, loop, u)
           m == VisitCandidate(nbr, Lists(nbr), activeThisRound, loop, u)
<1> SUFFICES m \in CallsOf(Blocks) /\ MarksInv(nbr, m) /\ EdgesInv(m, rest)
  OBVIOUS
<1>1. loop \in CallsOf(Blocks) /\ Ordered(Blocks, nbr, Lists(nbr))
  <2>1. \A x \in Blocks : Lists(nbr)[x] \in Seq(Blocks) /\ ToSet(Lists(nbr)[x]) = nbr[x]
    BY ListsAreNeighbours
  <2> QED BY <2>1 DEF RoundTypeOK, Ordered
<1>2. AfterVisit(Blocks, nbr, loop, u, unused, m)
  BY <1>1, CandidateVisited
<1>3. unused = {x \in nbr[u] : Awaiting(loop, u, x)}
  <2>1. ToSet(Lists(nbr)[u]) = nbr[u]
    BY ListsAreNeighbours
  <2> QED BY <2>1 DEF Unused, Awaiting
<1>4. ASSUME NEW a \in Blocks, NEW b \in Blocks, Awaiting(loop, a, b)
      PROVE  /\ a = u \/ a \in ToSet(rest) \cup ToSet(loop.next)
             /\ a = u \/ a \in ToSet(rest) \/ a \in loop.frozen.d2 \/ b \in loop.frozen.d2
             /\ a = u => b \in unused
  <2>1. b \in nbr[a]
    BY <1>4 DEF Awaiting
  <2> QED BY <1>3, <1>4, <2>1 DEF EdgesInv
<1>5. loop.used \subseteq ValidEdges
  BY DEF EdgesInv
<1> HIDE DEF unused, m
<1>6. /\ m \in CallsOf(Blocks) /\ MarksInv(nbr, m)
      /\ ToSet(loop.next) \subseteq ToSet(m.next) /\ loop.frozen.d2 \subseteq m.frozen.d2
  BY <1>2 DEF AfterVisit
<1>7. CASE /\ m.used = loop.used
           /\ unused # {} => u \in ToSet(m.next)
           /\ u \in m.frozen.d2 \/ unused \subseteq m.frozen.d2
  <2>1. ASSUME NEW a \in Blocks, NEW b \in Blocks, Awaiting(m, a, b)
        PROVE  /\ a \in ToSet(rest) \cup ToSet(m.next)
               /\ a \in ToSet(rest) \/ a \in m.frozen.d2 \/ b \in m.frozen.d2
    <3>1. Awaiting(loop, a, b)
      BY <1>7, <2>1 DEF Awaiting
    <3> QED BY <1>4, <1>6, <1>7, <3>1
  <2>2. EdgesInv(m, rest)
    BY <1>5, <1>7, <2>1 DEF EdgesInv
  <2> QED BY <1>6, <2>2
<1>8. ASSUME NEW v \in unused, m.used = loop.used \cup {{u, v}},
             u \in ToSet(m.next), u \in m.frozen.d2
      PROVE  EdgesInv(m, rest)
  <2>1. ASSUME NEW a \in Blocks, NEW b \in Blocks, Awaiting(m, a, b)
        PROVE  /\ a \in ToSet(rest) \cup ToSet(m.next)
               /\ a \in ToSet(rest) \/ a \in m.frozen.d2 \/ b \in m.frozen.d2
    <3>1. Awaiting(loop, a, b)
      BY <1>8, <2>1 DEF Awaiting
    <3> QED BY <1>4, <1>6, <1>8, <3>1
  <2>2. v \in nbr[u] /\ Valid(activeThisRound, u, v) /\ v \in Blocks
    BY <1>3, <1>8 DEF Awaiting, RoundTypeOK
  <2>3. {u, v} \in ValidEdges
    BY <2>2 DEF ValidEdges
  <2> QED BY <1>5, <1>8, <2>1, <2>3 DEF EdgesInv
<1> QED BY <1>2, <1>6, <1>7, <1>8 DEF AfterVisit

(* The first call of a round starts from all candidates.                    *)
LEMMA RoundInitEstablishes ==
  ASSUME StaticAssumption, ListOfAssumption, InitRound PROVE RoundInv
<1>1. PICK E \in SUBSET Host : nbr = NbrOf(E)
  BY DEF InitRound
<1>2. /\ loop = [matching |-> {}, frozen |-> [d1 |-> {}, d2 |-> {}], used |-> {}, next |-> <<>>]
      /\ cand = ListOf(Candidates(Lists(nbr), activeThisRound)) /\ found = TRUE
  BY DEF InitRound, StartCall, NothingFrozen
<1>3. nbr \in [Blocks -> SUBSET Blocks] /\ Symmetric(Blocks, nbr) /\ \A x \in Blocks : x \notin nbr[x]
  BY <1>1 DEF NbrOf, Symmetric
<1>4. loop \in CallsOf(Blocks)
  BY <1>2 DEF CallsOf, MarksOf
<1>5. DOMAIN Lists(nbr) = Blocks /\ Candidates(Lists(nbr), activeThisRound) \in SUBSET Blocks
  BY DEF Lists, Candidates
<1>6. cand \in Seq(Blocks) /\ ToSet(cand) = Candidates(Lists(nbr), activeThisRound)
  <2>1. /\ ListOf(Candidates(Lists(nbr), activeThisRound)) \in Seq(Candidates(Lists(nbr), activeThisRound))
        /\ ToSet(ListOf(Candidates(Lists(nbr), activeThisRound))) = Candidates(Lists(nbr), activeThisRound)
    BY <1>5 DEF ListOfAssumption
  <2> QED BY <1>2, <1>5, <2>1
<1>7. RoundTypeOK
  BY <1>2, <1>3, <1>4, <1>6 DEF RoundTypeOK
<1>8. MarksInv(nbr, loop)
  BY <1>2 DEF MarksInv, Closed, DistanceThree
<1>9. EdgesInv(loop, cand)
  <2>1. ASSUME NEW u \in Blocks, NEW v \in Blocks, Awaiting(loop, u, v) PROVE u \in ToSet(cand)
    <3>1. v \in ToSet(Lists(nbr)[u]) /\ Valid(activeThisRound, u, v)
      BY <1>7, <2>1, ListsAreNeighbours DEF Awaiting
    <3> QED BY <1>5, <1>6, <3>1 DEF Candidates
  <2> QED BY <1>2, <2>1 DEF EdgesInv
<1> QED BY <1>2, <1>7, <1>8, <1>9 DEF RoundInv

(* Visits and returns keep every edge accounted for.                        *)
LEMMA RoundStepPreserves ==
  ASSUME ListOfAssumption, RoundInv, [NextRound]_roundVars PROVE RoundInv'
<1>0. /\ RoundTypeOK /\ MarksInv(nbr, loop) /\ EdgesInv(loop, cand) /\ cand \in Seq(Blocks)
      /\ ~ found => loop.used = ValidEdges
  BY DEF RoundInv, RoundTypeOK
<1>1. SUFFICES ASSUME nbr' = nbr, activeThisRound' = activeThisRound, NEW k \in CallsOf(Blocks), loop' = k,
                      NEW c \in Seq(Blocks), cand' = c, MarksInv(nbr, k), EdgesInv(k, c),
                      found' \in BOOLEAN, ~ found' => k.used = ValidEdges
               PROVE  RoundInv'
  <2>1. CASE Visit
    <3> DEFINE u == Head(cand)
               rest == Tail(cand)
    <3>1. u \in Blocks /\ rest \in Seq(Blocks) /\ ToSet(cand) = {u} \cup ToSet(rest)
      <4>1. cand # <<>>
        BY <2>1 DEF Visit
      <4>2. /\ u \in Blocks /\ rest \in Seq(Blocks) /\ Len(cand) \in Nat /\ Len(cand) > 0
            /\ Len(rest) = Len(cand) - 1 /\ u = cand[1]
            /\ \A k \in 1 .. Len(rest) : rest[k] = cand[k + 1]
        BY <1>0, <4>1
      <4> HIDE DEF u, rest
      <4>3. ASSUME NEW k \in 1 .. Len(cand), k # 1 PROVE cand[k] \in ToSet(rest)
        <5>1. k - 1 \in 1 .. Len(rest) /\ rest[k - 1] = cand[k]
          BY <4>2, <4>3
        <5> QED BY <4>2, <5>1 DEF ToSet
      <4>4. ASSUME NEW k \in 1 .. Len(rest) PROVE rest[k] \in ToSet(cand)
        <5>1. k + 1 \in 1 .. Len(cand) /\ rest[k] = cand[k + 1]
          BY <4>2
        <5> QED BY <1>0, <5>1 DEF ToSet
      <4>5. DOMAIN cand = 1 .. Len(cand) /\ DOMAIN rest = 1 .. Len(rest)
        BY <4>2, <1>0
      <4>6. /\ ToSet(cand) = {cand[k] : k \in 1 .. Len(cand)}
            /\ ToSet(rest) = {rest[k] : k \in 1 .. Len(rest)}
        BY <4>5 DEF ToSet
      <4>7. \A x \in ToSet(cand) : x = u \/ x \in ToSet(rest)
        BY <4>2, <4>3, <4>6
      <4>8. \A x \in ToSet(rest) : x \in ToSet(cand)
        BY <4>4, <4>6
      <4>9. 1 \in 1 .. Len(cand) /\ u = cand[1]
        BY <4>2
      <4>10. u \in ToSet(cand)
        BY <4>6, <4>9
      <4> QED BY <4>2, <4>7, <4>8, <4>10
    <3> HIDE DEF u, rest
    <3>2. LET m == VisitCandidate(nbr, Lists(nbr), activeThisRound, loop, u)
          IN  m \in CallsOf(Blocks) /\ MarksInv(nbr, m) /\ EdgesInv(m, rest)
      BY <1>0, <3>1, VisitKeeps
    <3>3. /\ loop' = VisitCandidate(nbr, Lists(nbr), activeThisRound, loop, u) /\ cand' = rest
          /\ nbr' = nbr /\ activeThisRound' = activeThisRound /\ found' = TRUE
      BY <1>0, <2>1 DEF Visit, u, rest, RoundTypeOK
    <3> QED BY <1>1, <3>1, <3>2, <3>3
  <2>2. CASE Return
    <3> DEFINE k == StartCall(loop.used)
    <3>1. /\ cand = <<>> /\ loop' = k /\ cand' = loop.next /\ nbr' = nbr /\ activeThisRound' = activeThisRound
          /\ found' = (loop.matching # {})
      BY <2>2 DEF Return
    <3>2. k = [matching |-> {}, frozen |-> [d1 |-> {}, d2 |-> {}], used |-> loop.used, next |-> <<>>]
      BY DEF StartCall, NothingFrozen
    <3> HIDE DEF k
    <3>3. k \in CallsOf(Blocks) /\ loop.next \in Seq(Blocks)
      BY <1>0, <3>2 DEF RoundTypeOK, CallsOf, MarksOf
    <3>4. MarksInv(nbr, k)
      BY <3>2 DEF MarksInv, Closed, DistanceThree
    <3>5. ToSet(cand) = {}
      BY <3>1 DEF ToSet
    <3>6. EdgesInv(k, loop.next)
      <4>1. \A a, b \in Blocks : Awaiting(k, a, b) => Awaiting(loop, a, b)
        BY <3>2 DEF Awaiting
      <4> QED BY <1>0, <3>2, <3>5, <4>1 DEF EdgesInv
    <3>7. ASSUME loop.matching = {} PROVE loop.used = ValidEdges
      <4>1. loop.frozen.d2 = {}
        BY <1>0, <3>7 DEF MarksInv
      <4>2. \A a, b \in Blocks : ~ Awaiting(loop, a, b)
        BY <1>0, <3>5, <4>1 DEF EdgesInv
      <4>3. ASSUME NEW e \in ValidEdges PROVE e \in loop.used
        <5>1. PICK a \in e, b \in e : e = {a, b} /\ b \in nbr[a] /\ Valid(activeThisRound, a, b)
          BY <4>3 DEF ValidEdges
        <5>2. a \in Blocks /\ b \in Blocks
          BY <4>3 DEF ValidEdges
        <5> QED BY <4>2, <5>1, <5>2 DEF Awaiting
      <4> QED BY <1>0, <4>3 DEF EdgesInv
    <3> QED BY <1>1, <3>1, <3>2, <3>3, <3>4, <3>6, <3>7
  <2>3. CASE UNCHANGED roundVars
    BY <1>0, <1>1, <2>3 DEF roundVars, callVars, RoundTypeOK
  <2> QED BY <2>1, <2>2, <2>3 DEF NextRound
<1>2. RoundTypeOK'
  BY <1>0, <1>1 DEF RoundTypeOK
<1>3. MarksInv(nbr, loop)' /\ EdgesInv(loop, cand)'
  BY <1>1 DEF MarksInv, EdgesInv, Awaiting, ValidEdges
<1> QED BY <1>1, <1>2, <1>3 DEF RoundInv, ValidEdges

(* What is true between any two candidates of any call.                     *)
THEOREM RoundInductive == SpecRound => []RoundInv
<1>1. InitRound => RoundInv
  BY RoundInitEstablishes, StaticAssumption, ListOfAssumption
<1>2. RoundInv /\ [NextRound]_roundVars => RoundInv'
  BY RoundStepPreserves, ListOfAssumption
<1> QED BY <1>1, <1>2, PTL DEF SpecRound

(* Every call of find_matching returns a distance-3 matching to which no    *)
(* edge can be added, whatever the quotient graph and the order of lists.   *)
THEOREM CallsAreMaximal == SpecRound => []CallMaximalDistanceThree
<1>1. ASSUME RoundInv PROVE CallMaximalDistanceThree
  <2>1. MarksInv(nbr, loop) /\ EdgesInv(loop, cand)
    BY <1>1 DEF RoundInv
  <2>2. ASSUME cand = <<>>, NEW e \in ValidEdges \ loop.used
        PROVE  \E p \in loop.matching :
                 \E x \in e : x \in Within2(nbr, p[1]) \cup Within2(nbr, p[2])
    <3>1. PICK a, b \in e : a \in Blocks /\ b \in Blocks /\ Awaiting(loop, a, b)
      BY <2>2 DEF ValidEdges, Awaiting
    <3>2. ToSet(cand) = {}
      BY <2>2 DEF ToSet
    <3>3. PICK x \in e : x \in loop.frozen.d2
      BY <2>1, <3>1, <3>2 DEF EdgesInv
    <3> QED BY <2>1, <3>3 DEF MarksInv
  <2> QED BY <2>1, <2>2 DEF CallMaximalDistanceThree, MarksInv
<1> QED BY <1>1, RoundInductive, PTL

(* A round that is over has matched every edge with an active block.        *)
THEOREM RoundsAreComplete == SpecRound => []RoundComplete
<1>1. RoundInv => RoundComplete
  BY DEF RoundInv, RoundComplete
<1> QED BY <1>1, RoundInductive, PTL

-----------------------------------------------------------------------------
(* The parallel loop over the pairs of a matching.                          *)

PairOf(p) == {p[1], p[2]}

(* The blocks that the refinement of p reads or changes: its own, and those *)
(* of the neighbours of their vertices.                                     *)
Region(part, p) ==
  {b \in Block : \/ b \in PairOf(p)
                 \/ \E v \in Vertex : part[v] \in PairOf(p) /\ \E w \in Adj(v) : part[w] = b}

Apart(part, M) == \A p, r \in M : p # r => Region(part, p) \cap Region(part, r) = {}

Moving == {"bv", "q", "count", "bc", "pm"}

Locals ==
  [pc : Moving \cup {"idle", "eval"}, pair : BlockPairs \cup {<<>>}, todo : Seq(Vertex),
   from : Nat, to : Nat, moved : BOOLEAN, relinks : BOOLEAN, seen : Int, delta : Int]

(* What was decided about a vertex still holds while it is being moved.     *)
Sure(part, w, r) ==
  /\ r.todo # <<>>
  /\ r.from \in PairOf(r.pair) /\ r.to \in PairOf(r.pair) /\ r.from # r.to
  /\ part[Head(r.todo)] = r.from
  /\ CostFall(part, Head(r.todo), r.to) >= 0
  /\ w[r.to] + VertexWeight[Head(r.todo)] <= Lmax[r.to]

AtWork(part, w, M, Q, r) ==
  r.pc # "idle" =>
    /\ r.pair \in M \ Q
    /\ \A v \in ToSet(r.todo) : part[v] \in PairOf(r.pair)
    /\ r.pc \in Moving => Sure(part, w, r)

(* Every thread that is not idle has a pair of the matching to itself, and  *)
(* no two pairs share a neighbour.                                          *)
Team(part, w, M, Q, h) ==
  /\ h \in [Thread -> Locals]
  /\ M \subseteq BlockPairs /\ Q \subseteq M /\ Apart(part, M)
  /\ \A t \in Thread : AtWork(part, w, M, Q, h[t])
  /\ \A s, t \in Thread :
       s # t /\ h[s].pc # "idle" /\ h[t].pc # "idle" => h[s].pair # h[t].pair

(* A structure that the calls of S come after shows the vertices of the     *)
(* threads at those calls in their new blocks, all others where they are.   *)
InFlight(h, S) == {t \in Thread : h[t].pc \in S}

Shows(part, h, S, p) ==
  /\ p \in [Vertex -> Block]
  /\ \A t \in InFlight(h, S) : p[Head(h[t].todo)] = h[t].to
  /\ \A v \in Vertex : (\A t \in InFlight(h, S) : v # Head(h[t].todo)) => p[v] = part[v]

-----------------------------------------------------------------------------
(* The blocks of a pair.                                                    *)
LEMMA PairsOfBlocks ==
  ASSUME NEW p \in BlockPairs
  PROVE  /\ p[1] \in Block /\ p[2] \in Block /\ p[1] # p[2] /\ p = <<p[1], p[2]>>
         /\ PairOf(p) \subseteq Block /\ ToSet(p) = PairOf(p)
<1>1. p[1] \in Block /\ p[2] \in Block /\ p[1] # p[2] /\ p = <<p[1], p[2]>>
  BY DEF BlockPairs
<1>2. ToSet(<<p[1], p[2]>>) = {p[1], p[2]}
  BY DEF ToSet
<1> QED BY <1>1, <1>2 DEF PairOf

(* The parts of what a thread remembers.                                    *)
LEMMA LocalFields ==
  ASSUME NEW r \in Locals
  PROVE  /\ r.pc \in Moving \cup {"idle", "eval"} /\ r.pair \in BlockPairs \cup {<<>>}
         /\ r.todo \in Seq(Vertex) /\ r.from \in Nat /\ r.to \in Nat /\ r.moved \in BOOLEAN
         /\ r.relinks \in BOOLEAN /\ r.seen \in Int /\ r.delta \in Int
BY DEF Locals

(* A thread with vertices left has a current one.                           *)
LEMMA HeadIn ==
  ASSUME NEW S, NEW l \in Seq(S), l # <<>>
  PROVE  Head(l) \in S /\ Head(l) \in ToSet(l) /\ Tail(l) \in Seq(S) /\ ToSet(Tail(l)) \subseteq ToSet(l)
<1>1. Len(l) \in Nat /\ Len(l) > 0 /\ DOMAIN l = 1 .. Len(l) /\ Head(l) = l[1]
  BY EmptySeq
<1>2. /\ Tail(l) \in Seq(S) /\ DOMAIN Tail(l) = 1 .. Len(l) - 1
      /\ \A i \in 1 .. Len(l) - 1 : Tail(l)[i] = l[i + 1]
  BY <1>1
<1>3. Head(l) \in ToSet(l)
  BY <1>1 DEF ToSet
<1>4. ASSUME NEW i \in 1 .. Len(l) - 1 PROVE Tail(l)[i] \in ToSet(l)
  <2>1. i + 1 \in DOMAIN l
    BY <1>1
  <2> QED BY <1>2, <2>1 DEF ToSet
<1>5. ToSet(Tail(l)) \subseteq ToSet(l)
  <2>1. ToSet(Tail(l)) = {Tail(l)[i] : i \in 1 .. Len(l) - 1}
    BY <1>2 DEF ToSet
  <2> QED BY <1>4, <2>1
<1> QED BY <1>1, <1>2, <1>3, <1>5

(* A vertex of a pair and its neighbours are in the region of the pair.     *)
LEMMA RegionHas ==
  ASSUME NEW part \in [Vertex -> Block], NEW p \in BlockPairs,
         NEW v \in Vertex, part[v] \in PairOf(p)
  PROVE  /\ PairOf(p) \subseteq Region(part, p)
         /\ \A w \in Adj(v) \cup {v} : w \in Vertex /\ part[w] \in Region(part, p)
<1>1. PairOf(p) \subseteq Region(part, p)
  BY PairsOfBlocks DEF Region
<1>2. ASSUME NEW w \in Adj(v) PROVE w \in Vertex /\ part[w] \in Region(part, p)
  <2>1. w \in Vertex /\ part[w] \in Block
    BY Neighbourhoods
  <2> QED BY <2>1 DEF Region
<1> QED BY <1>1, <1>2

(* Moving a vertex between the blocks of a pair changes no region.          *)
LEMMA RegionsMoved ==
  ASSUME NEW part \in [Vertex -> Block], NEW p \in BlockPairs,
         NEW u \in Vertex, part[u] \in PairOf(p), NEW new \in PairOf(p), new # part[u],
         NEW r \in BlockPairs, r = p \/ Region(part, p) \cap Region(part, r) = {}
  PROVE  Region(Moved(part, u, new), r) = Region(part, r)
<1> DEFINE m == Moved(part, u, new)
<1>1. new \in Block /\ PairOf(p) \subseteq Block
  BY PairsOfBlocks
<1>2. m \in [Vertex -> Block] /\ m[u] = new /\ \A v \in Vertex \ {u} : m[v] = part[v]
  BY <1>1, MembersMoved
<1> HIDE DEF m
<1>3. PairOf(p) \subseteq Region(part, p) /\ PairOf(r) \subseteq Region(part, r)
  BY PairsOfBlocks DEF Region
<1>4. \A v \in Vertex : m[v] \in PairOf(r) <=> part[v] \in PairOf(r)
  <2>1. TAKE v \in Vertex
  <2>2. CASE v # u
    BY <1>2, <2>2
  <2>3. CASE v = u /\ r = p
    BY <1>2, <2>3
  <2>4. CASE v = u /\ Region(part, p) \cap Region(part, r) = {}
    BY <1>2, <1>3, <2>4
  <2> QED BY <2>2, <2>3, <2>4
<1>5. ASSUME NEW v \in Vertex, part[v] \in PairOf(r), NEW w \in Adj(v)
      PROVE  /\ m[w] \in Region(part, r)
             /\ part[w] \in PairOf(r) \/ part[w] = m[w]
  <2>1. w \in Vertex /\ part[w] \in Region(part, r)
    BY <1>5, RegionHas
  <2>2. CASE w # u
    BY <1>2, <2>1, <2>2
  <2>3. CASE w = u /\ r = p
    BY <1>2, <1>3, <2>3
  <2>4. CASE w = u /\ Region(part, p) \cap Region(part, r) = {}
    BY <1>3, <2>1, <2>4
  <2> QED BY <2>2, <2>3, <2>4
<1>6. ASSUME NEW b \in Region(m, r) PROVE b \in Region(part, r)
  <2>1. CASE b \in PairOf(r)
    BY <1>3, <2>1
  <2>2. CASE b \notin PairOf(r)
    <3>1. PICK v \in Vertex : m[v] \in PairOf(r) /\ \E w \in Adj(v) : m[w] = b
      BY <1>6, <2>2 DEF Region
    <3>2. PICK w \in Adj(v) : m[w] = b
      BY <3>1
    <3> QED BY <1>4, <1>5, <3>1, <3>2
  <2> QED BY <2>1, <2>2
<1>7. ASSUME NEW b \in Region(part, r) PROVE b \in Region(m, r)
  <2>1. b \in Block
    BY <1>7 DEF Region
  <2>2. CASE b \in PairOf(r)
    BY <2>1, <2>2 DEF Region
  <2>3. CASE b \notin PairOf(r)
    <3>1. PICK v \in Vertex : part[v] \in PairOf(r) /\ \E w \in Adj(v) : part[w] = b
      BY <1>7, <2>3 DEF Region
    <3>2. m[v] \in PairOf(r) /\ \E w \in Adj(v) : m[w] = b
      BY <1>4, <1>5, <2>3, <3>1
    <3> QED BY <2>1, <3>2 DEF Region
  <2> QED BY <2>2, <2>3
<1> QED BY <1>6, <1>7 DEF m

(* Endpoints of pairs at distance 3 share no neighbours.                    *)
LEMMA FarPairsAreApart ==
  ASSUME NEW part \in [Vertex -> Block], NEW n \in [Block -> SUBSET Block], Symmetric(Block, n),
         \A x \in Block : n[x] = QuotientNeighbours(part, x),
         NEW M \in SUBSET BlockPairs, DistanceThree(n, M)
  PROVE  Apart(part, M)
<1> SUFFICES ASSUME NEW p \in M, NEW r \in M, p # r,
                    NEW b \in Region(part, p), b \in Region(part, r)
             PROVE  FALSE
  BY DEF Apart
<1>1. ASSUME NEW e \in M, NEW c \in Region(part, e)
      PROVE  \E x \in PairOf(e) : c = x \/ c \in n[x]
  <2>1. CASE c \in PairOf(e)
    BY <2>1
  <2>2. CASE c \notin PairOf(e)
    <3>1. PICK v \in Vertex : part[v] \in PairOf(e) /\ \E w \in Adj(v) : part[w] = c
      BY <2>2 DEF Region
    <3>2. c \in Block /\ part[v] \in Block /\ c # part[v]
      BY <2>2, <3>1 DEF Region
    <3>3. c \in QuotientNeighbours(part, part[v])
      BY <3>1, <3>2 DEF QuotientNeighbours, Members, ConnectedBlocks
    <3> QED BY <3>1, <3>2, <3>3
  <2> QED BY <2>1, <2>2
<1>2. PICK x \in PairOf(p) : b = x \/ b \in n[x]
  BY <1>1
<1>3. PICK y \in PairOf(r) : b = y \/ b \in n[y]
  BY <1>1
<1>4. x \in Block /\ y \in Block /\ b \in Block
  BY PairsOfBlocks DEF Region
<1>5. y \in Within2(n, x)
  <2>1. b \in n[y] => y \in n[b]
    BY <1>4 DEF Symmetric
  <2> QED BY <1>2, <1>3, <2>1 DEF Within2
<1> QED BY <1>5 DEF DistanceThree, PairOf

(* A thread at work has a pair of the matching, and where it is moving a    *)
(* vertex, that vertex is in its pair.                                      *)
LEMMA AtWorkHas ==
  ASSUME NEW part \in [Vertex -> Block], NEW w, NEW M, NEW Q, NEW h, Team(part, w, M, Q, h),
         NEW t \in Thread, h[t].pc # "idle"
  PROVE  /\ h[t] \in Locals /\ h[t].pair \in BlockPairs /\ h[t].pair \in M \ Q
         /\ \A v \in ToSet(h[t].todo) : v \in Vertex /\ part[v] \in PairOf(h[t].pair)
         /\ h[t].pc \in Moving => /\ Sure(part, w, h[t])
                                  /\ Head(h[t].todo) \in Vertex
                                  /\ Head(h[t].todo) \in ToSet(h[t].todo)
                                  /\ part[Head(h[t].todo)] \in PairOf(h[t].pair)
                                  /\ h[t].to \in Block
<1>1. /\ h[t] \in Locals /\ h[t].pair \in M \ Q /\ M \subseteq BlockPairs
      /\ \A v \in ToSet(h[t].todo) : part[v] \in PairOf(h[t].pair)
      /\ h[t].pc \in Moving => Sure(part, w, h[t])
  BY DEF Team, AtWork
<1>2. h[t].todo \in Seq(Vertex)
  BY <1>1, LocalFields
<1>3. \A v \in ToSet(h[t].todo) : v \in Vertex
  BY <1>2 DEF ToSet
<1>4. h[t].pc \in Moving => Head(h[t].todo) \in Vertex /\ Head(h[t].todo) \in ToSet(h[t].todo)
  BY <1>1, <1>2, HeadIn DEF Sure
<1>5. h[t].pc \in Moving => h[t].to \in Block
  BY <1>1, PairsOfBlocks DEF Sure
<1> QED BY <1>1, <1>3, <1>4, <1>5

(* What a thread works on is out of the reach of the others.                *)
LEMMA OthersAway ==
  ASSUME NEW part \in [Vertex -> Block], NEW w, NEW M, NEW Q, NEW h, Team(part, w, M, Q, h),
         NEW s \in Thread, NEW t \in Thread, s # t, h[s].pc # "idle", h[t].pc # "idle"
  PROVE  /\ PairOf(h[s].pair) \cap PairOf(h[t].pair) = {}
         /\ \A v \in Vertex : part[v] \in PairOf(h[t].pair) =>
              \A x \in Adj(v) \cup {v} : part[x] \notin PairOf(h[s].pair)
         /\ Region(part, h[s].pair) \cap Region(part, h[t].pair) = {}
<1>1. /\ h[s].pair \in BlockPairs /\ h[s].pair \in M
      /\ h[t].pair \in BlockPairs /\ h[t].pair \in M
  BY AtWorkHas
<1>2. h[s].pair # h[t].pair
  BY DEF Team
<1>3. Region(part, h[s].pair) \cap Region(part, h[t].pair) = {}
  BY <1>1, <1>2 DEF Team, Apart
<1>4. PairOf(h[s].pair) \subseteq Region(part, h[s].pair)
      /\ PairOf(h[t].pair) \subseteq Region(part, h[t].pair)
  BY <1>1, PairsOfBlocks DEF Region
<1>5. ASSUME NEW v \in Vertex, part[v] \in PairOf(h[t].pair), NEW x \in Adj(v) \cup {v}
      PROVE  part[x] \notin PairOf(h[s].pair)
  <2>1. part[x] \in Region(part, h[t].pair)
    BY <1>1, <1>5, RegionHas
  <2> QED BY <1>3, <1>4, <2>1
<1> QED BY <1>3, <1>4, <1>5

(* Around a vertex of its pair a thread sees in a structure what is in the  *)
(* partition, unless the vertex is in flight itself.                        *)
LEMMA ShownNear ==
  ASSUME NEW part \in [Vertex -> Block], NEW w, NEW M, NEW Q, NEW h, Team(part, w, M, Q, h),
         NEW S \in SUBSET Moving, NEW p, Shows(part, h, S, p),
         NEW t \in Thread, h[t].pc # "idle", h[t].pc \notin S,
         NEW v \in Vertex, part[v] \in PairOf(h[t].pair), NEW x \in Adj(v) \cup {v}
  PROVE  x \in Vertex /\ p[x] = part[x]
<1>1. x \in Vertex
  BY Neighbourhoods
<1>2. ASSUME NEW s \in InFlight(h, S) PROVE x # Head(h[s].todo)
  <2>1. s \in Thread /\ s # t /\ h[s].pc \in Moving /\ h[s].pc # "idle"
    BY <1>2 DEF InFlight, Moving
  <2>2. part[Head(h[s].todo)] \in PairOf(h[s].pair)
    BY <2>1, AtWorkHas
  <2>3. part[x] \notin PairOf(h[s].pair)
    BY <2>1, OthersAway
  <2> QED BY <2>2, <2>3
<1> QED BY <1>1, <1>2 DEF Shows

(* The structures a step does not touch still show the same.                *)
LEMMA ShowsKept ==
  ASSUME NEW part, NEW h, NEW S, NEW p, Shows(part, h, S, p), NEW t \in Thread,
         NEW k, \A s \in Thread \ {t} : k[s] = h[s],
         k[t].pc \in S => h[t].pc \in S,
         h[t].pc \in S => /\ k[t].pc \in S /\ k[t].to = h[t].to
                          /\ Head(k[t].todo) = Head(h[t].todo)
  PROVE  Shows(part, k, S, p)
<1>1. \A s \in Thread : s \in InFlight(k, S) <=> s \in InFlight(h, S)
  BY DEF InFlight
<1>2. \A s \in InFlight(k, S) : k[s].to = h[s].to /\ Head(k[s].todo) = Head(h[s].todo)
  BY DEF InFlight
<1>3. InFlight(h, S) \subseteq Thread /\ InFlight(k, S) \subseteq Thread
  BY DEF InFlight
<1> QED BY <1>1, <1>2, <1>3 DEF Shows

(* The structure that a move has just updated shows the vertex in its new   *)
(* block.                                                                   *)
LEMMA ShowsEntered ==
  ASSUME NEW part \in [Vertex -> Block], NEW w, NEW M, NEW Q, NEW h, Team(part, w, M, Q, h),
         NEW S \in SUBSET Moving, NEW p, Shows(part, h, S, p),
         NEW t \in Thread, h[t].pc \in Moving, h[t].pc \notin S,
         NEW k, \A s \in Thread \ {t} : k[s] = h[s],
         k[t].pc \in S, k[t].to = h[t].to, Head(k[t].todo) = Head(h[t].todo)
  PROVE  Shows(part, k, S, Moved(p, Head(h[t].todo), h[t].to))
<1> DEFINE u == Head(h[t].todo)
           m == Moved(p, u, h[t].to)
<1>1. h[t].pc # "idle" /\ u \in Vertex /\ h[t].to \in Block /\ part[u] \in PairOf(h[t].pair)
  <2>1. h[t].pc # "idle"
    BY DEF Moving
  <2> QED BY <2>1, AtWorkHas
<1>2. p \in [Vertex -> Block]
  BY DEF Shows
<1>3. m \in [Vertex -> Block] /\ m[u] = h[t].to /\ \A v \in Vertex \ {u} : m[v] = p[v]
  BY <1>1, <1>2 DEF Moved
<1> HIDE DEF m
<1>4. ASSUME NEW s \in InFlight(h, S)
      PROVE  s \in Thread \ {t} /\ Head(h[s].todo) \in Vertex \ {u}
  <2>1. s \in Thread /\ s # t /\ h[s].pc \in Moving /\ h[s].pc # "idle"
    BY <1>4 DEF InFlight, Moving
  <2>2. Head(h[s].todo) \in Vertex /\ part[Head(h[s].todo)] \in PairOf(h[s].pair)
    BY <2>1, AtWorkHas
  <2>3. part[u] \notin PairOf(h[s].pair)
    BY <1>1, <2>1, OthersAway
  <2> QED BY <2>1, <2>2, <2>3
<1>5. \A s \in Thread : s \in InFlight(k, S) <=> s = t \/ s \in InFlight(h, S)
  BY DEF InFlight
<1>6. ASSUME NEW s \in InFlight(k, S) PROVE m[Head(k[s].todo)] = k[s].to
  <2>0. s \in Thread
    BY <1>6 DEF InFlight
  <2>1. CASE s = t
    BY <1>3, <2>1
  <2>2. CASE s # t
    <3>1. s \in InFlight(h, S) /\ k[s] = h[s]
      BY <1>5, <1>6, <2>0, <2>2
    <3>2. p[Head(h[s].todo)] = h[s].to
      BY <3>1 DEF Shows
    <3> QED BY <1>3, <1>4, <3>1, <3>2
  <2> QED BY <2>1, <2>2
<1>7. ASSUME NEW v \in Vertex, \A s \in InFlight(k, S) : v # Head(k[s].todo)
      PROVE  m[v] = part[v]
  <2>1. v # u
    <3>1. t \in InFlight(k, S)
      BY <1>5
    <3> QED BY <1>7, <3>1
  <2>2. ASSUME NEW s \in InFlight(h, S) PROVE v # Head(h[s].todo)
    <3>1. s \in InFlight(k, S) /\ k[s] = h[s]
      BY <1>4, <1>5, <2>2
    <3> QED BY <1>7, <3>1
  <2>3. p[v] = part[v]
    BY <2>2 DEF Shows
  <2> QED BY <1>3, <2>1, <2>3
<1>8. Shows(part, k, S, m)
  BY <1>3, <1>6, <1>7 DEF Shows
<1> QED BY <1>8 DEF m

(* Once the partition has the vertex in its new block, every structure      *)
(* shows it where it is.                                                    *)
LEMMA ShowsLanded ==
  ASSUME NEW part \in [Vertex -> Block], NEW h, NEW S, NEW p, Shows(part, h, S, p),
         NEW t \in Thread, h[t].pc \in S, Head(h[t].todo) \in Vertex,
         NEW k, \A s \in Thread \ {t} : k[s] = h[s], k[t].pc \notin S
  PROVE  Shows(Moved(part, Head(h[t].todo), h[t].to), k, S, p)
<1> DEFINE u == Head(h[t].todo)
           m == Moved(part, u, h[t].to)
<1>1. m[u] = h[t].to /\ \A v \in Vertex \ {u} : m[v] = part[v]
  BY DEF Moved
<1> HIDE DEF m
<1>2. \A s \in Thread : s \in InFlight(h, S) <=> s = t \/ s \in InFlight(k, S)
  BY DEF InFlight
<1>3. \A s \in InFlight(k, S) : s \in Thread /\ s # t /\ k[s] = h[s]
  BY DEF InFlight
<1>4. t \in InFlight(h, S)
  BY <1>2
<1>5. p[u] = h[t].to
  BY <1>4 DEF Shows
<1>6. ASSUME NEW s \in InFlight(k, S) PROVE p[Head(k[s].todo)] = k[s].to
  <2>1. s \in InFlight(h, S) /\ k[s] = h[s]
    BY <1>2, <1>3, <1>6
  <2> QED BY <2>1 DEF Shows
<1>7. ASSUME NEW v \in Vertex, \A s \in InFlight(k, S) : v # Head(k[s].todo)
      PROVE  p[v] = m[v]
  <2>1. CASE v = u
    BY <1>1, <1>5, <2>1
  <2>2. CASE v # u
    <3>1. ASSUME NEW s \in InFlight(h, S) PROVE v # Head(h[s].todo)
      <4>1. s \in Thread
        BY <3>1 DEF InFlight
      <4>2. CASE s = t
        BY <2>2, <4>2
      <4>3. CASE s # t
        BY <1>2, <1>3, <1>7, <3>1, <4>1, <4>3
      <4> QED BY <4>2, <4>3
    <3>2. p[v] = part[v]
      BY <3>1 DEF Shows
    <3> QED BY <1>1, <2>2, <3>2
  <2> QED BY <2>1, <2>2
<1>8. Shows(m, k, S, p)
  <2>1. p \in [Vertex -> Block]
    BY DEF Shows
  <2> QED BY <1>6, <1>7, <2>1 DEF Shows
<1> QED BY <1>8 DEF m

(* A step of one thread that leaves the partition alone.                    *)
LEMMA TeamStep ==
  ASSUME NEW part, NEW w, NEW M, NEW Q, NEW h, Team(part, w, M, Q, h), NEW t \in Thread,
         NEW k \in [Thread -> Locals], \A s \in Thread \ {t} : k[s] = h[s],
         k[t].pc # "idle" => /\ h[t].pc # "idle" /\ k[t].pair = h[t].pair
                             /\ \A v \in ToSet(k[t].todo) : part[v] \in PairOf(k[t].pair)
                             /\ k[t].pc \in Moving => Sure(part, w, k[t])
  PROVE  Team(part, w, M, Q, k)
<1>1. ASSUME NEW s \in Thread PROVE AtWork(part, w, M, Q, k[s])
  <2>1. AtWork(part, w, M, Q, h[s])
    BY DEF Team
  <2>2. CASE s = t
    BY <2>1, <2>2 DEF AtWork
  <2>3. CASE s # t
    <3>1. k[s] = h[s]
      BY <2>3
    <3> QED BY <2>1, <3>1
  <2> QED BY <2>2, <2>3
<1>2. ASSUME NEW s \in Thread, NEW r \in Thread, s # r, k[s].pc # "idle", k[r].pc # "idle"
      PROVE  k[s].pair # k[r].pair
  <2>1. \A x \in {s, r} : h[x].pc # "idle" /\ k[x].pair = h[x].pair
    BY <1>2
  <2> QED BY <1>2, <2>1 DEF Team
<1> QED BY <1>1, <1>2 DEF Team

(* A thread takes a pair that nobody works on.                              *)
LEMMA TeamTakes ==
  ASSUME NEW part, NEW w, NEW M, NEW Q, NEW h, Team(part, w, M, Q, h), NEW t \in Thread,
         NEW e \in Q,
         NEW k \in [Thread -> Locals], \A s \in Thread \ {t} : k[s] = h[s],
         k[t].pc = "eval", k[t].pair = e, \A v \in ToSet(k[t].todo) : part[v] \in PairOf(e)
  PROVE  Team(part, w, M, Q \ {e}, k)
<1>1. M \subseteq BlockPairs /\ Q \subseteq M /\ Apart(part, M)
  BY DEF Team
<1>2. \A s \in Thread \ {t} : k[s].pc # "idle" => k[s].pair # e /\ k[s].pair \in M \ Q
  BY DEF Team, AtWork
<1>3. ASSUME NEW s \in Thread PROVE AtWork(part, w, M, Q \ {e}, k[s])
  <2>1. CASE s = t
    BY <1>1, <2>1 DEF AtWork, Moving
  <2>2. CASE s # t
    <3>1. k[s] = h[s] /\ AtWork(part, w, M, Q, h[s])
      BY <2>2 DEF Team
    <3> QED BY <3>1 DEF AtWork
  <2> QED BY <2>1, <2>2
<1>4. ASSUME NEW s \in Thread, NEW r \in Thread, s # r, k[s].pc # "idle", k[r].pc # "idle"
      PROVE  k[s].pair # k[r].pair
  <2>1. CASE s = t
    BY <1>2, <1>4, <2>1
  <2>2. CASE r = t
    BY <1>2, <1>4, <2>2
  <2>3. CASE s # t /\ r # t
    BY <1>4, <2>3 DEF Team
  <2> QED BY <2>1, <2>2, <2>3
<1> QED BY <1>1, <1>3, <1>4 DEF Team

(* The cost that a move saves depends on the neighbours of the vertex.      *)
LEMMA CostFallNear ==
  ASSUME NEW part \in [Vertex -> Block], NEW m \in [Vertex -> Block], NEW x \in Vertex,
         NEW new \in Block, \A v \in Adj(x) \cup {x} : m[v] = part[v]
  PROVE  CostFall(m, x, new) = CostFall(part, x, new)
<1> DEFINE f == EdgeGain(part, x, new)
           g == EdgeGain(m, x, new)
<1>1. \A v \in Vertex : f[v] \in Int
  BY CostFallType
<1>2. ASSUME NEW v \in Vertex PROVE f[v] = g[v]
  <2>1. CASE v \in Adj(x)
    BY <2>1 DEF EdgeGain
  <2>2. CASE v \notin Adj(x)
    <3>1. EdgeWeight[x][v] = 0
      BY <2>2, GraphAssumption DEF Adj
    <3>2. D[part[v]][part[x]] \in Int /\ D[part[v]][new] \in Int
          /\ D[m[v]][m[x]] \in Int /\ D[m[v]][new] \in Int
      BY DistancesSymmetric
    <3> QED BY <3>1, <3>2 DEF EdgeGain
  <2> QED BY <2>1, <2>2
<1>3. IsFiniteSet(Vertex)
  BY GraphAssumption
<1> HIDE DEF f, g
<1>4. SumFunctionOnSet(f, Vertex) = SumFunctionOnSet(g, Vertex)
  BY <1>1, <1>2, <1>3, SumAgree
<1> QED BY <1>4 DEF f, g, CostFall

(* A vertex changes block, and its thread goes on with the next one.        *)
LEMMA TeamMoved ==
  ASSUME NEW part \in [Vertex -> Block], NEW w, NEW M, NEW Q, NEW h, Team(part, w, M, Q, h),
         NEW t \in Thread, h[t].pc \in Moving,
         NEW x, \A b \in Block : b \notin PairOf(h[t].pair) => x[b] = w[b],
         NEW k \in [Thread -> Locals], \A s \in Thread \ {t} : k[s] = h[s],
         k[t].pc = "eval", k[t].pair = h[t].pair, ToSet(k[t].todo) \subseteq ToSet(h[t].todo)
  PROVE  Team(Moved(part, Head(h[t].todo), h[t].to), x, M, Q, k)
<1> DEFINE u == Head(h[t].todo)
           new == h[t].to
           e == h[t].pair
           m == Moved(part, u, new)
<1>1. h[t].pc # "idle"
  BY DEF Moving
<1>2. /\ e \in BlockPairs /\ e \in M \ Q /\ u \in Vertex /\ part[u] \in PairOf(e)
      /\ new \in PairOf(e) /\ new # part[u] /\ new \in Block
      /\ \A v \in ToSet(h[t].todo) : v \in Vertex /\ part[v] \in PairOf(e)
  BY <1>1, AtWorkHas DEF Sure
<1>3. m \in [Vertex -> Block] /\ m[u] = new /\ \A v \in Vertex \ {u} : m[v] = part[v]
  BY <1>2, MembersMoved
<1>4. M \subseteq BlockPairs /\ Q \subseteq M /\ Apart(part, M)
  BY DEF Team
<1>5. ASSUME NEW r \in M PROVE Region(m, r) = Region(part, r)
  <2>1. r \in BlockPairs /\ (r = e \/ Region(part, e) \cap Region(part, r) = {})
    BY <1>2, <1>4 DEF Apart
  <2> QED BY <1>2, <2>1, RegionsMoved
<1>6. Apart(m, M)
  BY <1>4, <1>5 DEF Apart
<1> HIDE DEF m, u, new, e
<1>7. ASSUME NEW s \in Thread, s # t, h[s].pc # "idle"
      PROVE  /\ \A v \in ToSet(h[s].todo) : v \in Vertex \ {u} /\ m[v] \in PairOf(h[s].pair)
             /\ h[s].pc \in Moving => Sure(m, x, h[s])
  <2>1. /\ \A v \in ToSet(h[s].todo) : v \in Vertex /\ part[v] \in PairOf(h[s].pair)
        /\ h[s].pair \in BlockPairs
        /\ h[s].pc \in Moving => /\ Sure(part, w, h[s])
                                 /\ Head(h[s].todo) \in Vertex
                                 /\ Head(h[s].todo) \in ToSet(h[s].todo)
                                 /\ h[s].to \in Block
    BY <1>7, AtWorkHas
  <2>2. /\ PairOf(h[s].pair) \cap PairOf(e) = {}
        /\ \A v \in Vertex : part[v] \in PairOf(h[s].pair) =>
             \A y \in Adj(v) \cup {v} : part[y] \notin PairOf(e)
    BY <1>1, <1>7, OthersAway DEF e
  <2>3. ASSUME NEW v \in ToSet(h[s].todo)
        PROVE  v \in Vertex \ {u} /\ \A y \in Adj(v) \cup {v} : m[y] = part[y]
    <3>1. \A y \in Adj(v) \cup {v} : y \in Vertex /\ y # u
      BY <1>2, <2>1, <2>2, Neighbourhoods
    <3> QED BY <1>3, <2>1, <3>1
  <2>4. ASSUME h[s].pc \in Moving PROVE Sure(m, x, h[s])
    <3> DEFINE y == Head(h[s].todo)
    <3>1. /\ h[s].todo # <<>>
          /\ h[s].from \in PairOf(h[s].pair) /\ h[s].to \in PairOf(h[s].pair)
          /\ h[s].from # h[s].to
          /\ part[y] = h[s].from /\ CostFall(part, y, h[s].to) >= 0
          /\ w[h[s].to] + VertexWeight[y] <= Lmax[h[s].to]
      BY <2>1, <2>4 DEF Sure
    <3>2. y \in Vertex /\ \A z \in Adj(y) \cup {y} : m[z] = part[z]
      BY <2>1, <2>3, <2>4
    <3>3. h[s].to \in Block
      BY <2>1, <2>4
    <3>4. CostFall(m, y, h[s].to) = CostFall(part, y, h[s].to)
      BY <1>3, <3>2, <3>3, CostFallNear
    <3>5. x[h[s].to] = w[h[s].to]
      BY <2>2, <3>1, <3>3 DEF e
    <3>6. m[y] = h[s].from
      BY <3>1, <3>2
    <3> QED BY <3>1, <3>4, <3>5, <3>6 DEF Sure
  <2> QED BY <2>1, <2>3, <2>4
<1>8. ASSUME NEW s \in Thread PROVE AtWork(m, x, M, Q, k[s])
  <2>1. CASE s # t /\ h[s].pc # "idle"
    <3>1. k[s] = h[s] /\ h[s].pair \in M \ Q
      BY <2>1 DEF Team, AtWork
    <3> QED BY <1>7, <2>1, <3>1 DEF AtWork
  <2>2. CASE s # t /\ h[s].pc = "idle"
    BY <2>2 DEF AtWork
  <2>3. CASE s = t
    <3>1. ASSUME NEW v \in ToSet(k[t].todo) PROVE m[v] \in PairOf(e)
      <4>1. v \in Vertex /\ part[v] \in PairOf(e)
        BY <1>2, <3>1
      <4> QED BY <1>2, <1>3, <4>1
    <3>2. k[t].pair = e /\ k[t].pc \notin Moving
      BY DEF e, Moving
    <3> QED BY <1>2, <2>3, <3>1, <3>2 DEF AtWork
  <2> QED BY <2>1, <2>2, <2>3
<1>9. ASSUME NEW s \in Thread, NEW r \in Thread, s # r, k[s].pc # "idle", k[r].pc # "idle"
      PROVE  k[s].pair # k[r].pair
  <2>1. \A y \in {s, r} : h[y].pc # "idle" /\ k[y].pair = h[y].pair
    BY <1>1, <1>9
  <2> QED BY <1>9, <2>1 DEF Team
<1>10. Team(m, x, M, Q, k)
  BY <1>4, <1>6, <1>8, <1>9 DEF Team
<1> QED BY <1>10 DEF m, u, new

(* A new matching, before any thread has taken a pair.                      *)
LEMMA TeamAtRest ==
  ASSUME NEW part, NEW w, NEW M \in SUBSET BlockPairs, Apart(part, M),
         NEW h \in [Thread -> Locals], \A t \in Thread : h[t].pc = "idle"
  PROVE  Team(part, w, M, M, h)
BY DEF Team, AtWork

(* The cells of the blocks in the region of a pair and of their vertices.   *)
Territory(part, e) ==
  {"list", "links", "weight"} \X Region(part, e)
    \cup {"count", "conn", "partition"} \X {v \in Vertex : part[v] \in Region(part, e)}

(* A thread at work keeps to the territory of its pair.                     *)
LEMMA KeepsToTerritory ==
  ASSUME partition \in [Vertex -> Block], NEW w, NEW M, NEW Q, Team(partition, w, M, Q, th),
         NEW t \in Thread, th[t].pc # "idle"
  PROVE  Reads(t) \cup Writes(t) \subseteq Territory(partition, th[t].pair)
<1> DEFINE e == th[t].pair
           u == Current(t)
           near == Adj(u)
           R == Region(partition, e)
           V == {v \in Vertex : partition[v] \in R}
           blocks == {"list", "links", "weight"}
           vertices == {"count", "conn", "partition"}
<1>1. /\ th[t] \in Locals /\ e \in BlockPairs
      /\ \A v \in ToSet(th[t].todo) : v \in Vertex /\ partition[v] \in PairOf(e)
      /\ th[t].pc \in Moving => u \in Vertex /\ partition[u] \in PairOf(e)
  BY AtWorkHas DEF Current
<1>2. th[t].pc \in Moving \cup {"eval"} /\ th[t].todo \in Seq(Vertex)
  BY <1>1, LocalFields
<1>3. PairOf(e) \subseteq R /\ ToSet(e) = PairOf(e)
  BY <1>1, PairsOfBlocks DEF Region
<1>4. CASE th[t].pc = "eval" /\ th[t].todo = <<>>
  <2>1. ~ Evaluating(t) /\ Reads(t) = {} /\ Writes(t) = {}
    BY <1>4 DEF Evaluating, Reads, Writes
  <2> QED BY <2>1
<1>5. CASE th[t].pc \in Moving \/ th[t].todo # <<>>
  <2>1. u \in Vertex /\ partition[u] \in PairOf(e)
    <3>1. CASE th[t].pc \in Moving
      BY <1>1, <3>1
    <3>2. CASE th[t].todo # <<>>
      BY <1>1, <1>2, <3>2, HeadIn DEF Current
    <3> QED BY <1>5, <3>1, <3>2
  <2>2. \A v \in near \cup {u} : v \in V
    BY <1>1, <2>1, RegionHas
  <2>3. {u} \subseteq V /\ near \subseteq V /\ {partition[v] : v \in near} \subseteq R
    BY <2>2
  <2> HIDE DEF e, u, near, R, V
  <2>4. Evaluating(t) => Reads(t) = Cells("partition", {u}) \cup Cells("conn", {u})
                                      \cup Cells("weight", PairOf(e))
    BY <1>3 DEF Reads, Evaluating, u, e
  <2>5. th[t].pc \in {"bv", "q"} => Reads(t) = Cells("partition", near)
    BY DEF Reads, Evaluating, near, u
  <2>6. ~ Evaluating(t) /\ th[t].pc \notin {"bv", "q"} => Reads(t) = {}
    BY <1>2 DEF Reads, Moving
  <2>7. Reads(t) \subseteq blocks \X R \cup vertices \X V
    BY <1>3, <2>3, <2>4, <2>5, <2>6 DEF Cells
  <2>8. th[t].pc = "bv" => Writes(t) = Cells("count", {u} \cup {v \in near : partition[v] \in PairOf(e)})
                                         \cup Cells("list", PairOf(e))
    BY <1>3 DEF Writes, near, u, e
  <2>9. th[t].pc = "q" => Writes(t) = Cells("links", PairOf(e) \cup {partition[v] : v \in near})
    BY <1>3 DEF Writes, near, u, e
  <2>10. th[t].pc = "bc" => Writes(t) = Cells("conn", near)
    BY DEF Writes, near, u
  <2>11. th[t].pc = "pm" => Writes(t) = Cells("partition", {u}) \cup Cells("weight", PairOf(e))
    BY <1>3 DEF Writes, near, u, e
  <2>12. th[t].pc \notin {"bv", "q", "bc", "pm"} => Writes(t) = {}
    BY DEF Writes
  <2>13. Writes(t) \subseteq blocks \X R \cup vertices \X V
    <3>1. CASE th[t].pc = "bv"
      BY <1>3, <2>3, <2>8, <3>1 DEF Cells
    <3>2. CASE th[t].pc = "q"
      BY <1>3, <2>3, <2>9, <3>2 DEF Cells
    <3>3. CASE th[t].pc = "bc"
      BY <1>3, <2>3, <2>10, <3>3 DEF Cells
    <3>4. CASE th[t].pc = "pm"
      BY <1>3, <2>3, <2>11, <3>4 DEF Cells
    <3> QED BY <2>12, <3>1, <3>2, <3>3, <3>4
  <2> QED BY <2>7, <2>13 DEF Territory, V, R, e
<1> QED BY <1>2, <1>4, <1>5

(* Calls of two threads of a team touch different cells.                    *)
LEMMA TeamRacesNot ==
  ASSUME partition \in [Vertex -> Block], NEW w, Team(partition, w, matching, queue, th)
  PROVE  NoDataRace
<1> SUFFICES ASSUME NEW s \in Thread, NEW t \in Thread, s # t
             PROVE  Writes(s) \cap (Reads(t) \cup Writes(t)) = {}
  BY DEF NoDataRace
<1>1. CASE th[s].pc = "idle"
  BY <1>1 DEF Writes
<1>2. CASE th[s].pc # "idle" /\ th[t].pc # "idle"
  <2> DEFINE X == Territory(partition, th[s].pair)
             Y == Territory(partition, th[t].pair)
  <2>1. Writes(s) \subseteq X /\ Reads(t) \cup Writes(t) \subseteq Y
    BY <1>2, KeepsToTerritory
  <2>2. Region(partition, th[s].pair) \cap Region(partition, th[t].pair) = {}
    BY <1>2, OthersAway
  <2>3. X \cap Y = {}
    BY <2>2 DEF Territory
  <2> QED BY <2>1, <2>3
<1>3. CASE th[s].pc # "idle" /\ th[t].pc = "idle"
  <2> DEFINE e == th[s].pair
             waiting == UNION {ToSet(p) : p \in queue}
  <2>1. Reads(t) = Cells("list", waiting) /\ Writes(t) = {}
    <3>1. ~ Evaluating(t) /\ th[t].pc = "idle"
      BY <1>3 DEF Evaluating
    <3> QED BY <3>1 DEF Reads, Writes
  <2>2. Writes(s) \subseteq Territory(partition, e)
    BY <1>3, KeepsToTerritory
  <2>3. e \in BlockPairs /\ e \in matching \ queue
    BY <1>3, AtWorkHas
  <2>4. ASSUME NEW p \in queue PROVE ToSet(p) \cap Region(partition, e) = {}
    <3>1. p \in BlockPairs /\ p \in matching /\ p # e /\ Apart(partition, matching)
      BY <2>3 DEF Team
    <3>2. ToSet(p) = PairOf(p) /\ PairOf(p) \subseteq Region(partition, p)
      BY <3>1, PairsOfBlocks DEF Region
    <3>3. Region(partition, e) \cap Region(partition, p) = {}
      BY <2>3, <3>1 DEF Apart
    <3> QED BY <3>2, <3>3
  <2>5. waiting \cap Region(partition, e) = {}
    BY <2>4
  <2> HIDE DEF waiting, e
  <2>6. Cells("list", waiting) \cap Territory(partition, e) = {}
    BY <2>5 DEF Cells, Territory
  <2> QED BY <2>1, <2>2, <2>6
<1> QED BY <1>1, <1>2, <1>3

-----------------------------------------------------------------------------
(* The invariant of the refinement with dynamic matchings.                  *)

AfterBoundary == {"q", "count", "bc", "pm"}
AfterQuotient == {"count", "bc", "pm"}
AfterConn == {"pm"}

(* Each structure is right for the partition with the vertices that its     *)
(* calls have moved already in their new blocks.                            *)
Shown(part, h, s, g, c) ==
  /\ \E p : Shows(part, h, AfterBoundary, p) /\ BvInv(p, s)
  /\ \E p : Shows(part, h, AfterQuotient, p) /\ QInv(p, g)
  /\ \E p : Shows(part, h, AfterConn, p) /\ BcInv(p, c)

StructShown ==
  /\ PmInv(partition, bweights, nVertices)
  /\ conn = [v \in Vertex |-> conn[v]] /\ halfEdges \in Int
  /\ Shown(partition, th, bv, q, conn)

RoundStates == [phase : {"start", "next", "run", "end", "done"}, iteration : Nat,
           positive : BOOLEAN, static : {FALSE}]

Driven ==
  /\ round \in RoundStates
  /\ dynamic \in [cand : Seq(Block), used : SUBSET (SUBSET Block)]
  /\ round.phase # "run" => \A t \in Thread : th[t].pc = "idle"

PLPInv == Driven /\ StructShown /\ Team(partition, bweights, matching, queue, th)

-----------------------------------------------------------------------------
(* A structure shows the partition when no call it comes after is under     *)
(* way.                                                                     *)
LEMMA InPartition ==
  ASSUME StructShown
  PROVE  partition \in [Vertex -> Block]
BY DEF StructShown, PmInv

(* A step of one thread outside the calls that update the structures.       *)
LEMMA ShownKept ==
  ASSUME NEW part, NEW h, NEW s, NEW g, NEW c, Shown(part, h, s, g, c), NEW t \in Thread,
         NEW k, \A x \in Thread \ {t} : k[x] = h[x],
         \/ h[t].pc \in {"idle", "eval"} /\ k[t].pc \in {"idle", "eval", "bv"}
         \/ /\ h[t].pc = "count" /\ k[t].pc = "bc"
            /\ k[t].to = h[t].to /\ k[t].todo = h[t].todo
  PROVE  Shown(part, k, s, g, c)
<1>1. /\ h[t].pc \in AfterBoundary <=> k[t].pc \in AfterBoundary
      /\ h[t].pc \in AfterQuotient <=> k[t].pc \in AfterQuotient
      /\ h[t].pc \in AfterConn <=> k[t].pc \in AfterConn
  BY DEF AfterBoundary, AfterQuotient, AfterConn
<1>2. h[t].pc \in AfterBoundary \cup AfterQuotient \cup AfterConn =>
        k[t].to = h[t].to /\ Head(k[t].todo) = Head(h[t].todo)
  BY DEF AfterBoundary, AfterQuotient, AfterConn
<1>3. PICK p : Shows(part, h, AfterBoundary, p) /\ BvInv(p, s)
  BY DEF Shown
<1>4. PICK r : Shows(part, h, AfterQuotient, r) /\ QInv(r, g)
  BY DEF Shown
<1>5. PICK d : Shows(part, h, AfterConn, d) /\ BcInv(d, c)
  BY DEF Shown
<1>6. Shows(part, k, AfterBoundary, p)
  BY <1>1, <1>2, <1>3, ShowsKept
<1>7. Shows(part, k, AfterQuotient, r)
  BY <1>1, <1>2, <1>4, ShowsKept
<1>8. Shows(part, k, AfterConn, d)
  BY <1>1, <1>2, <1>5, ShowsKept
<1> QED BY <1>3, <1>4, <1>5, <1>6, <1>7, <1>8 DEF Shown

(* When no thread is moving a vertex every structure is right for the       *)
(* partition there is.                                                      *)
LEMMA ShownAtRest ==
  ASSUME StructShown, \A t \in Thread : th[t].pc \notin Moving
  PROVE  StructInv
<1>1. ASSUME NEW S \in SUBSET Moving, NEW p, Shows(partition, th, S, p)
      PROVE  p = partition
  <2>1. InFlight(th, S) = {}
    BY DEF InFlight
  <2>2. p \in [Vertex -> Block] /\ \A v \in Vertex : p[v] = partition[v]
    BY <1>1, <2>1 DEF Shows
  <2> QED BY <2>2, InPartition
<1>2. AfterBoundary \in SUBSET Moving /\ AfterQuotient \in SUBSET Moving
      /\ AfterConn \in SUBSET Moving
  BY DEF AfterBoundary, AfterQuotient, AfterConn, Moving
<1>3. Shown(partition, th, bv, q, conn)
  BY DEF StructShown
<1>4. BvInv(partition, bv)
  BY <1>1, <1>2, <1>3 DEF Shown
<1>5. QInv(partition, q)
  BY <1>1, <1>2, <1>3 DEF Shown
<1>6. BcInv(partition, conn)
  BY <1>1, <1>2, <1>3 DEF Shown
<1> QED BY <1>4, <1>5, <1>6 DEF StructShown, StructInv, Derived

(* The next call of a thread.                                               *)
LEMMA Advanced ==
  ASSUME NEW t \in Thread, th[t] \in Locals, th[t].pc # "idle", th[t].todo # <<>>
  PROVE  /\ Advance(t) \in Locals
         /\ Advance(t).pair = th[t].pair /\ Advance(t).from = th[t].from
         /\ Advance(t).to = th[t].to
         /\ th[t].pc = "eval" => Advance(t).pc = "bv"
         /\ th[t].pc = "bv" => Advance(t).pc = "q"
         /\ th[t].pc = "q" => Advance(t).pc = "count"
         /\ th[t].pc = "count" => Advance(t).pc = "bc"
         /\ th[t].pc = "bc" => Advance(t).pc = "pm"
         /\ th[t].pc = "pm" => Advance(t).pc = "eval" /\ Advance(t).todo = Tail(th[t].todo)
         /\ th[t].pc # "pm" => Advance(t).todo = th[t].todo
<1>1. th[t].pc \in {"eval", "bv", "q", "count", "bc", "pm"} /\ th[t].todo \in Seq(Vertex)
  BY LocalFields DEF Moving
<1>2. Tail(th[t].todo) \in Seq(Vertex)
  BY <1>1, HeadIn
<1>3. /\ NextCall("eval") = "bv" /\ NextCall("bv") = "q" /\ NextCall("q") = "count"
      /\ NextCall("count") = "bc" /\ NextCall("bc") = "pm" /\ NextCall("pm") = "eval"
  BY DEF NextCall, After
<1> DEFINE c == NextCall(th[t].pc)
           l == IF c = "eval" THEN Tail(th[t].todo) ELSE th[t].todo
<1>4. Advance(t) = [th[t] EXCEPT !.pc = c, !.todo = l]
  BY DEF Advance
<1>5. c \in Moving \cup {"eval"} /\ l \in Seq(Vertex)
  BY <1>1, <1>2, <1>3 DEF Moving
<1>6. (th[t].pc = "pm" <=> c = "eval")
  BY <1>1, <1>3
<1>7. (th[t].pc = "pm" => l = Tail(th[t].todo)) /\ (th[t].pc # "pm" => l = th[t].todo)
  BY <1>6
<1>8. /\ th[t].pc = "eval" => c = "bv"
      /\ th[t].pc = "bv" => c = "q"
      /\ th[t].pc = "q" => c = "count"
      /\ th[t].pc = "count" => c = "bc"
      /\ th[t].pc = "bc" => c = "pm"
      /\ th[t].pc = "pm" => c = "eval"
  BY <1>3
<1> HIDE DEF c, l
<1> QED BY <1>4, <1>5, <1>7, <1>8 DEF Locals

-----------------------------------------------------------------------------
(* A thread at work works in the parallel loop.                             *)
LEMMA AtWorkRuns ==
  ASSUME PLPInv, NEW t \in Thread, th[t].pc # "idle"
  PROVE  round.phase = "run"
BY DEF PLPInv, Driven

(* An idle thread takes a pair that nobody else has.                        *)
LEMMA TakeKeeps ==
  ASSUME PLPInv, NEW t \in Thread, NEW e \in queue, Take(t, e)
  PROVE  PLPInv'
<1> DEFINE visits == bv.list[e[1]] \o bv.list[e[2]]
           r == [Idle EXCEPT !.pc = "eval", !.pair = e, !.todo = visits]
<1>1. /\ Driven /\ StructShown /\ Team(partition, bweights, matching, queue, th)
      /\ partition \in [Vertex -> Block]
  BY InPartition DEF PLPInv
<1>2. /\ th' = [th EXCEPT ![t] = r] /\ th[t].pc = "idle" /\ round.phase = "run"
      /\ queue' = queue \ {e}
      /\ UNCHANGED structVars /\ UNCHANGED <<round, dynamic, matching>>
  BY DEF Take
<1>3. e \in BlockPairs /\ e[1] \in Block /\ e[2] \in Block
  BY <1>1, PairsOfBlocks DEF Team
<1>4. PICK p : Shows(partition, th, AfterBoundary, p) /\ BvInv(p, bv)
  BY <1>1 DEF StructShown, Shown
<1>5. ASSUME NEW b \in PairOf(e)
      PROVE  /\ bv.list[b] \in Seq(Vertex)
             /\ \A v \in ToSet(bv.list[b]) : v \in Vertex /\ partition[v] \in PairOf(e)
  <2>1. b \in Block
    BY <1>3, PairsOfBlocks
  <2>2. bv.list[b] \in Seq(Vertex) /\ ToSet(bv.list[b]) = BoundaryOf(p, b)
    BY <1>4, <2>1 DEF BvInv, BvStates, Listed, Boundaries
  <2>3. ASSUME NEW v \in BoundaryOf(p, b) PROVE v \in Vertex /\ partition[v] = b
    <3>1. v \in Vertex /\ p[v] = b
      BY <2>3 DEF BoundaryOf, Members
    <3>2. ASSUME NEW s \in InFlight(th, AfterBoundary) PROVE v # Head(th[s].todo)
      <4>1. s \in Thread /\ th[s].pc \in Moving /\ th[s].pc # "idle"
        BY <3>2 DEF InFlight, AfterBoundary, Moving
      <4>2. p[Head(th[s].todo)] = th[s].to
        BY <1>4, <3>2 DEF Shows
      <4>3. th[s].to \in PairOf(th[s].pair) /\ th[s].pair \in matching \ queue
        BY <1>1, <4>1, AtWorkHas DEF Sure
      <4>4. PairOf(th[s].pair) \cap PairOf(e) = {}
        <5>1. Region(partition, th[s].pair) \cap Region(partition, e) = {}
          BY <1>1, <4>3 DEF Team, Apart
        <5>2. th[s].pair \in BlockPairs
          BY <1>1, <4>1, AtWorkHas
        <5>3. PairOf(th[s].pair) \subseteq Region(partition, th[s].pair)
              /\ PairOf(e) \subseteq Region(partition, e)
          BY <1>3, <5>2, PairsOfBlocks DEF Region
        <5> QED BY <5>1, <5>3
      <4> QED BY <3>1, <4>2, <4>3, <4>4
    <3> QED BY <1>4, <3>1, <3>2 DEF Shows
  <2> QED BY <2>2, <2>3
<1>6. visits \in Seq(Vertex) /\ \A v \in ToSet(visits) : partition[v] \in PairOf(e)
  <2> DEFINE l == bv.list[e[1]]
             m == bv.list[e[2]]
  <2>1. /\ l \in Seq(Vertex) /\ m \in Seq(Vertex)
        /\ \A v \in ToSet(l) \cup ToSet(m) : partition[v] \in PairOf(e)
    BY <1>5 DEF PairOf
  <2> HIDE DEF l, m
  <2>2. /\ l \o m \in Seq(Vertex) /\ DOMAIN (l \o m) = 1 .. Len(l) + Len(m)
        /\ Len(l) \in Nat /\ Len(m) \in Nat
        /\ \A i \in 1 .. Len(l) + Len(m) :
             (l \o m)[i] = IF i <= Len(l) THEN l[i] ELSE m[i - Len(l)]
    BY <2>1
  <2>3. ASSUME NEW i \in 1 .. Len(l) + Len(m) PROVE (l \o m)[i] \in ToSet(l) \cup ToSet(m)
    <3>1. CASE i <= Len(l)
      BY <2>1, <2>2, <3>1 DEF ToSet
    <3>2. CASE ~ i <= Len(l)
      <4>1. i - Len(l) \in DOMAIN m
        BY <2>1, <2>2, <3>2
      <4> QED BY <2>2, <3>2, <4>1 DEF ToSet
    <3> QED BY <3>1, <3>2
  <2>4. \A v \in ToSet(l \o m) : v \in ToSet(l) \cup ToSet(m)
    BY <2>2, <2>3 DEF ToSet
  <2> QED BY <2>1, <2>2, <2>4 DEF l, m
<1> HIDE DEF visits
<1>7. r \in Locals /\ r.pc = "eval" /\ r.pair = e /\ r.todo = visits
  <2>1. Idle \in Locals
    BY DEF Idle, Locals
  <2>2. "eval" \in Moving \cup {"idle", "eval"} /\ e \in BlockPairs \cup {<<>>}
    BY <1>3
  <2> QED BY <1>6, <2>1, <2>2 DEF Locals
<1> HIDE DEF r
<1>8. /\ th' \in [Thread -> Locals] /\ th'[t] = r /\ \A s \in Thread \ {t} : th'[s] = th[s]
  BY <1>1, <1>2, <1>7 DEF Team
<1>9. Team(partition, bweights, matching, queue \ {e}, th')
  BY <1>1, <1>6, <1>7, <1>8, TeamTakes
<1>10. Shown(partition, th', bv, q, conn)
  <2>1. Shown(partition, th, bv, q, conn)
    BY <1>1 DEF StructShown
  <2> QED BY <1>2, <1>7, <1>8, <2>1, ShownKept
<1> QED BY <1>1, <1>2, <1>9, <1>10 DEF PLPInv, Driven, StructShown, structVars

(* The vertex at hand and the two blocks of its pair.                       *)
LEMMA AtHand ==
  ASSUME PLPInv, NEW t \in Thread, Evaluating(t)
  PROVE  /\ th[t] \in Locals /\ th[t].pair \in BlockPairs /\ th[t].todo # <<>>
         /\ Current(t) \in Vertex /\ partition[Current(t)] \in PairOf(th[t].pair)
         /\ Opposite(t) \in PairOf(th[t].pair) /\ Opposite(t) \in Block
         /\ Opposite(t) # partition[Current(t)]
         /\ PairOf(th[t].pair) = {partition[Current(t)], Opposite(t)}
<1>1. /\ Team(partition, bweights, matching, queue, th) /\ partition \in [Vertex -> Block]
      /\ th[t].pc = "eval" /\ th[t].todo # <<>>
  BY InPartition DEF PLPInv, Evaluating
<1>2. /\ th[t] \in Locals /\ th[t].pair \in BlockPairs
      /\ \A v \in ToSet(th[t].todo) : v \in Vertex /\ partition[v] \in PairOf(th[t].pair)
  BY <1>1, AtWorkHas
<1>3. Current(t) \in ToSet(th[t].todo)
  BY <1>1, <1>2, LocalFields, HeadIn DEF Current
<1>4. partition[Current(t)] \in PairOf(th[t].pair)
  BY <1>2, <1>3
<1>5. /\ th[t].pair[1] \in Block /\ th[t].pair[2] \in Block /\ th[t].pair[1] # th[t].pair[2]
  BY <1>2, PairsOfBlocks
<1>6. Opposite(t) = IF partition[Current(t)] = th[t].pair[1] THEN th[t].pair[2] ELSE th[t].pair[1]
  BY DEF Opposite
<1> QED BY <1>1, <1>2, <1>3, <1>4, <1>5, <1>6 DEF PairOf

(* Around a vertex a structure shows what is in the partition.              *)
SameNear(p, v) == \A x \in Adj(v) \cup {v} : p[x] = partition[x]

(* A structure shows the partition around a vertex that is being moved.     *)
LEMMA ShownAround ==
  ASSUME Team(partition, bweights, matching, queue, th), partition \in [Vertex -> Block],
         NEW S \in SUBSET Moving, NEW p, Shows(partition, th, S, p),
         NEW t \in Thread, th[t].pc # "idle", th[t].pc \notin S,
         NEW v \in Vertex, partition[v] \in PairOf(th[t].pair)
  PROVE  SameNear(p, v)
<1> SUFFICES ASSUME NEW x \in Adj(v) \cup {v}
             PROVE  p[x] = partition[x]
  BY DEF SameNear
<1> QED BY ShownNear

(* The gain of a pair, computed while other threads move vertices, tells    *)
(* whether the cost would rise.                                             *)
LEMMA PairGainSure ==
  ASSUME PLPInv, NEW t \in Thread, Evaluating(t), PairGain(t) >= 0
  PROVE  CostFall(partition, Current(t), Opposite(t)) >= 0
<1> DEFINE u == Current(t)
           old == partition[u]
           new == Opposite(t)
           e == th[t].pair
<1>1. /\ Team(partition, bweights, matching, queue, th) /\ partition \in [Vertex -> Block]
      /\ th[t].pc = "eval"
  BY InPartition DEF PLPInv, Evaluating
<1>2. /\ u \in Vertex /\ old \in PairOf(e) /\ new \in PairOf(e) /\ new \in Block
      /\ new # old /\ e \in BlockPairs /\ PairOf(e) = {old, new} /\ old \in Block
  BY <1>1, AtHand
<1>3. PICK d : Shows(partition, th, AfterConn, d) /\ BcInv(d, conn)
  BY DEF PLPInv, StructShown, Shown
<1>4. d \in [Vertex -> Block]
  BY <1>3 DEF Shows
<1>5. AfterConn \in SUBSET Moving /\ th[t].pc # "idle" /\ th[t].pc \notin AfterConn
  BY <1>1 DEF AfterConn, Moving
<1>6. \A v \in Adj(u) \cup {u} : d[v] = partition[v]
  <2>1. u \in Vertex /\ partition[u] \in PairOf(th[t].pair)
    BY <1>2
  <2>2. /\ Team(partition, bweights, matching, queue, th) /\ partition \in [Vertex -> Block]
        /\ Shows(partition, th, AfterConn, d)
    BY <1>1, <1>3
  <2> HIDE DEF u
  <2>3. SameNear(d, u)
    BY <1>5, <2>1, <2>2, ShownAround
  <2> QED BY <2>3 DEF SameNear
<1>7. d[u] = old /\ Represents(conn[u], Conns(d, u))
  BY <1>2, <1>3, <1>6 DEF BcInv
<1>8. CostFall(d, u, new) = CostFall(partition, u, new)
  BY <1>1, <1>2, <1>4, <1>6, CostFallNear
<1> HIDE DEF u, old, new, e
<1>9. CASE ~ LastLevelPair(Hierarchy, e[1], e[2])
  <2>1. PairGain(t) = QapDelta(u, old, new)
    BY <1>9 DEF PairGain, u, old, new, e
  <2>2. QapDelta(u, d[u], new) = CostFall(d, u, new)
    BY <1>2, <1>4, <1>7, GainFromSlots
  <2> QED BY <1>7, <1>8, <2>1, <2>2 DEF u, new
<1>10. CASE LastLevelPair(Hierarchy, e[1], e[2])
  <2>1. PairGain(t) = CutDelta(u, old, new)
    BY <1>10 DEF PairGain, u, old, new, e
  <2>2. CutDelta(u, d[u], new) = ConnWeight(d, u, new) - ConnWeight(d, u, d[u])
    BY <1>2, <1>4, <1>7, CutFromSlots
  <2> DEFINE x == ConnWeight(d, u, new) - ConnWeight(d, u, old)
  <2>3. x \in Int
    <3>1. ConnWeight(d, u, new) \in Int /\ ConnWeight(d, u, old) \in Int
      BY <1>2, ConnIsSum
    <3> QED BY <3>1
  <2>4. x >= 0
    BY <1>7, <2>1, <2>2
  <2>5. /\ \A b \in Block \ {old, new} : D[b][old] = D[b][new]
        /\ D[new][new] = 0 /\ D[old][old] = 0 /\ D[old][new] \in Nat
    <3>1. e[1] \in Block /\ e[2] \in Block /\ e[1] # e[2] /\ {old, new} = {e[1], e[2]}
      BY <1>2, PairsOfBlocks DEF PairOf
    <3>2. \A b \in Block \ {e[1], e[2]} : D[b][e[1]] = D[b][e[2]]
      BY <1>10, <3>1, LowestGroupsEquidistant
    <3>3. \A b \in Block : D[b][b] = 0
      BY OracleAssumption DEF MatrixDistance
    <3> QED BY <1>2, <3>1, <3>2, <3>3, DistancesSymmetric
  <2>6. CostFall(d, u, new) = D[old][new] * x
    <3>1. \A b \in Block \ {d[u], new} : D[b][d[u]] = D[b][new]
      BY <1>7, <2>5
    <3> QED BY <1>2, <1>4, <1>7, <2>5, <3>1, CutIsCost
  <2> HIDE DEF x
  <2>7. D[old][new] * x >= 0
    BY <2>3, <2>4, <2>5
  <2> QED BY <1>8, <2>6, <2>7 DEF u, new
<1> QED BY <1>9, <1>10

-----------------------------------------------------------------------------
(* A vertex that cannot be moved or gains nothing is passed over.           *)
LEMMA SkipKeeps ==
  ASSUME PLPInv, NEW t \in Thread, Skip(t)
  PROVE  PLPInv'
<1> DEFINE r == [th[t] EXCEPT !.todo = Tail(@)]
<1>1. /\ Driven /\ StructShown /\ Team(partition, bweights, matching, queue, th)
      /\ th \in [Thread -> Locals]
  BY DEF PLPInv, Team
<1>2. /\ th' = [th EXCEPT ![t] = r] /\ Evaluating(t) /\ th[t].pc = "eval" /\ th[t].todo # <<>>
      /\ UNCHANGED structVars /\ UNCHANGED ctlVars
  BY <1>1 DEF Skip, Evaluating
<1>3. th[t].todo \in Seq(Vertex) /\ Tail(th[t].todo) \in Seq(Vertex)
      /\ ToSet(Tail(th[t].todo)) \subseteq ToSet(th[t].todo)
  BY <1>1, <1>2, LocalFields, HeadIn
<1>4. r \in Locals /\ r.pc = "eval" /\ r.pair = th[t].pair /\ r.todo = Tail(th[t].todo)
  BY <1>1, <1>2, <1>3 DEF Locals
<1> HIDE DEF r
<1>5. /\ th' \in [Thread -> Locals] /\ th'[t] = r /\ \A s \in Thread \ {t} : th'[s] = th[s]
  BY <1>1, <1>2, <1>4
<1>6. Team(partition, bweights, matching, queue, th')
  <2>1. \A v \in ToSet(r.todo) : partition[v] \in PairOf(r.pair)
    BY <1>1, <1>2, <1>3, <1>4 DEF Team, AtWork
  <2>2. r.pc \notin Moving
    BY <1>4 DEF Moving
  <2> QED BY <1>1, <1>2, <1>4, <1>5, <2>1, <2>2, TeamStep
<1>7. Shown(partition, th', bv, q, conn)
  <2>1. Shown(partition, th, bv, q, conn)
    BY <1>1 DEF StructShown
  <2> QED BY <1>2, <1>4, <1>5, <2>1, ShownKept
<1>8. round.phase = "run"
  BY <1>2, AtWorkRuns
<1> QED BY <1>1, <1>2, <1>6, <1>7, <1>8 DEF PLPInv, Driven, StructShown, structVars, ctlVars

(* The decision to move a vertex still holds when its first call is made:   *)
(* the gain was not negative, and the target had room.                      *)
LEMMA DecideKeeps ==
  ASSUME PLPInv, NEW t \in Thread, Decide(t)
  PROVE  PLPInv'
<1> DEFINE u == Current(t)
           a == Advance(t)
           x == (a.moved \/ PairGain(t) > 0)
           r == [a EXCEPT !.from = partition[u], !.to = Opposite(t), !.moved = x]
<1>1. /\ Driven /\ StructShown /\ Team(partition, bweights, matching, queue, th)
      /\ th \in [Thread -> Locals] /\ partition \in [Vertex -> Block]
  BY InPartition DEF PLPInv, Team
<1>2. /\ th' = [th EXCEPT ![t] = r] /\ Evaluating(t) /\ th[t].pc = "eval" /\ th[t].todo # <<>>
      /\ Fits(u, Opposite(t)) /\ PairGain(t) >= 0
      /\ UNCHANGED structVars /\ UNCHANGED ctlVars
  BY <1>1 DEF Decide, Evaluating, Movable
<1>3. /\ u \in Vertex /\ partition[u] \in PairOf(th[t].pair) /\ partition[u] \in Nat
      /\ Opposite(t) \in PairOf(th[t].pair) /\ Opposite(t) \in Nat
      /\ Opposite(t) # partition[u]
  <2>1. Block \subseteq Nat
    BY GraphAssumption
  <2> QED BY <1>1, <1>2, <2>1, AtHand
<1>4. CostFall(partition, u, Opposite(t)) >= 0
  BY <1>2, PairGainSure
<1>5. a \in Locals /\ a.pc = "bv" /\ a.pair = th[t].pair /\ a.todo = th[t].todo
  BY <1>1, <1>2, Advanced
<1>6. x \in BOOLEAN
  OBVIOUS
<1> HIDE DEF a, x
<1>7. /\ r \in Locals /\ r.pc = "bv" /\ r.pair = th[t].pair /\ r.todo = th[t].todo
      /\ r.from = partition[u] /\ r.to = Opposite(t)
  BY <1>3, <1>5, <1>6 DEF Locals
<1> HIDE DEF r
<1>8. /\ th' \in [Thread -> Locals] /\ th'[t] = r /\ \A s \in Thread \ {t} : th'[s] = th[s]
  BY <1>1, <1>2, <1>7
<1>9. Team(partition, bweights, matching, queue, th')
  <2>1. \A v \in ToSet(r.todo) : partition[v] \in PairOf(r.pair)
    BY <1>1, <1>2, <1>7 DEF Team, AtWork
  <2>2. Sure(partition, bweights, r)
    BY <1>2, <1>3, <1>4, <1>7 DEF Sure, Fits, Current
  <2> QED BY <1>1, <1>2, <1>7, <1>8, <2>1, <2>2, TeamStep
<1>10. Shown(partition, th', bv, q, conn)
  <2>1. Shown(partition, th, bv, q, conn)
    BY <1>1 DEF StructShown
  <2> QED BY <1>2, <1>7, <1>8, <2>1, ShownKept
<1>11. round.phase = "run"
  BY <1>2, AtWorkRuns
<1> QED BY <1>1, <1>2, <1>9, <1>10, <1>11 DEF PLPInv, Driven, StructShown, structVars, ctlVars

(* A thread without vertices left gives its pair back.                      *)
LEMMA EndPairKeeps ==
  ASSUME PLPInv, NEW t \in Thread, EndPair(t)
  PROVE  PLPInv'
<1>1. /\ Driven /\ StructShown /\ Team(partition, bweights, matching, queue, th)
      /\ th \in [Thread -> Locals]
  BY DEF PLPInv, Team
<1>2. /\ th' = [th EXCEPT ![t] = Idle] /\ th[t].pc = "eval"
      /\ UNCHANGED structVars /\ UNCHANGED <<dynamic, matching, queue>>
      /\ round' = round \/ round' = [round EXCEPT !.positive = TRUE]
  BY DEF EndPair
<1>3. Idle \in Locals /\ Idle.pc = "idle"
  BY DEF Idle, Locals
<1>4. /\ th' \in [Thread -> Locals] /\ th'[t].pc = "idle"
      /\ \A s \in Thread \ {t} : th'[s] = th[s]
  BY <1>1, <1>2, <1>3
<1>5. Team(partition, bweights, matching, queue, th')
  BY <1>1, <1>4, TeamStep
<1>6. Shown(partition, th', bv, q, conn)
  <2>1. Shown(partition, th, bv, q, conn)
    BY <1>1 DEF StructShown
  <2> QED BY <1>2, <1>4, <2>1, ShownKept
<1>7. round.phase = "run"
  BY <1>2, AtWorkRuns
<1>8. round' \in RoundStates /\ round'.phase = "run"
  BY <1>1, <1>2, <1>7 DEF Driven, RoundStates
<1> QED BY <1>1, <1>2, <1>5, <1>6, <1>8 DEF PLPInv, Driven, StructShown, structVars

(* The count of half edges changes nothing that the others read.            *)
LEMMA CountKeeps ==
  ASSUME PLPInv, NEW t \in Thread, CountHalfEdges(t)
  PROVE  PLPInv'
<1> DEFINE a == Advance(t)
<1>1. /\ Driven /\ StructShown /\ Team(partition, bweights, matching, queue, th)
      /\ th \in [Thread -> Locals] /\ partition \in [Vertex -> Block]
  BY InPartition DEF PLPInv, Team
<1>2. /\ th' = [th EXCEPT ![t] = a] /\ th[t].pc = "count"
      /\ UNCHANGED <<partition, bweights, nVertices, bv, conn, q>> /\ UNCHANGED ctlVars
      /\ halfEdges' \in IF th[t].relinks THEN {halfEdges + th[t].delta, th[t].seen + th[t].delta}
                        ELSE {halfEdges}
  BY DEF CountHalfEdges
<1>3. th[t].pc \in Moving /\ Sure(partition, bweights, th[t])
      /\ \A v \in ToSet(th[t].todo) : partition[v] \in PairOf(th[t].pair)
  <2>1. th[t].pc \in Moving /\ th[t].pc # "idle"
    BY <1>2 DEF Moving
  <2> QED BY <1>1, <2>1, AtWorkHas
<1>4. /\ a \in Locals /\ a.pc = "bc" /\ a.pair = th[t].pair /\ a.todo = th[t].todo
      /\ a.from = th[t].from /\ a.to = th[t].to
  BY <1>1, <1>2, <1>3, Advanced DEF Sure
<1> HIDE DEF a
<1>5. /\ th' \in [Thread -> Locals] /\ th'[t] = a /\ \A s \in Thread \ {t} : th'[s] = th[s]
  BY <1>1, <1>2, <1>4
<1>6. Team(partition, bweights, matching, queue, th')
  <2>1. Sure(partition, bweights, a)
    BY <1>3, <1>4 DEF Sure
  <2> QED BY <1>1, <1>2, <1>3, <1>4, <1>5, <2>1, TeamStep
<1>7. Shown(partition, th', bv, q, conn)
  <2>1. Shown(partition, th, bv, q, conn)
    BY <1>1 DEF StructShown
  <2> QED BY <1>2, <1>4, <1>5, <2>1, ShownKept
<1>8. halfEdges' \in Int
  <2>1. halfEdges \in Int /\ th[t].delta \in Int /\ th[t].seen \in Int
    BY <1>1, LocalFields DEF StructShown
  <2> QED BY <1>2, <2>1
<1>9. round.phase = "run"
  BY <1>2, AtWorkRuns
<1> QED BY <1>1, <1>2, <1>6, <1>7, <1>8, <1>9 DEF PLPInv, Driven, StructShown, ctlVars

(* A call that updates a structure for the vertex at hand.                  *)
LEMMA AtCall ==
  ASSUME PLPInv, NEW t \in Thread, th[t].pc \in Moving
  PROVE  /\ Driven /\ StructShown /\ Team(partition, bweights, matching, queue, th)
         /\ th \in [Thread -> Locals] /\ partition \in [Vertex -> Block]
         /\ round.phase = "run" /\ th[t].pc # "idle"
         /\ Sure(partition, bweights, th[t]) /\ th[t].todo # <<>>
         /\ \A v \in ToSet(th[t].todo) : partition[v] \in PairOf(th[t].pair)
         /\ Current(t) = Head(th[t].todo) /\ Current(t) \in Vertex
         /\ partition[Current(t)] = th[t].from /\ th[t].from \in PairOf(th[t].pair)
         /\ th[t].to \in Block /\ th[t].to # th[t].from
<1>1. /\ Driven /\ StructShown /\ Team(partition, bweights, matching, queue, th)
      /\ th \in [Thread -> Locals] /\ partition \in [Vertex -> Block] /\ th[t].pc # "idle"
  BY InPartition DEF PLPInv, Team, Moving
<1>2. /\ Sure(partition, bweights, th[t]) /\ Head(th[t].todo) \in Vertex
      /\ \A v \in ToSet(th[t].todo) : partition[v] \in PairOf(th[t].pair)
      /\ th[t].to \in Block
  BY <1>1, AtWorkHas
<1>3. round.phase = "run"
  BY <1>1, AtWorkRuns
<1> QED BY <1>1, <1>2, <1>3 DEF Sure, Current

(* Such a call, before the last, keeps the team.                            *)
LEMMA CallKeepsTeam ==
  ASSUME PLPInv, NEW t \in Thread, th[t].pc \in {"bv", "q", "bc"},
         NEW a \in Locals, th' = [th EXCEPT ![t] = a], a.pc \in Moving,
         a.pair = th[t].pair, a.todo = th[t].todo, a.from = th[t].from, a.to = th[t].to
  PROVE  /\ th' \in [Thread -> Locals] /\ th'[t] = a /\ \A s \in Thread \ {t} : th'[s] = th[s]
         /\ Team(partition, bweights, matching, queue, th')
<1>1. th[t].pc \in Moving
  BY DEF Moving
<1>2. /\ Team(partition, bweights, matching, queue, th) /\ th \in [Thread -> Locals]
      /\ Sure(partition, bweights, th[t]) /\ th[t].pc # "idle"
      /\ \A v \in ToSet(th[t].todo) : partition[v] \in PairOf(th[t].pair)
  BY <1>1, AtCall
<1>3. /\ th' \in [Thread -> Locals] /\ th'[t] = a /\ \A s \in Thread \ {t} : th'[s] = th[s]
  BY <1>2
<1>4. Sure(partition, bweights, a)
  BY <1>2 DEF Sure
<1> QED BY <1>2, <1>3, <1>4, TeamStep

(* bv_manager.move while other threads are at other calls.                  *)
LEMMA MoveBoundaryKeeps ==
  ASSUME PLPInv, NEW t \in Thread, MoveBoundary(t)
  PROVE  PLPInv'
<1> DEFINE a == Advance(t)
           u == Current(t)
           new == th[t].to
<1>1. /\ th' = [th EXCEPT ![t] = a] /\ th[t].pc = "bv" /\ th[t].pc \in Moving
      /\ BvMove(u, th[t].from, new)
      /\ UNCHANGED <<partition, bweights, nVertices, conn, q, halfEdges>> /\ UNCHANGED ctlVars
  BY DEF MoveBoundary, Moving
<1>2. /\ Driven /\ StructShown /\ Team(partition, bweights, matching, queue, th)
      /\ th \in [Thread -> Locals] /\ partition \in [Vertex -> Block]
      /\ round.phase = "run" /\ th[t].pc # "idle" /\ th[t].todo # <<>>
      /\ u = Head(th[t].todo) /\ u \in Vertex /\ partition[u] = th[t].from
      /\ th[t].from \in PairOf(th[t].pair) /\ new \in Block /\ new # th[t].from
  BY <1>1, AtCall
<1>3. /\ a \in Locals /\ a.pc = "q" /\ a.pair = th[t].pair /\ a.todo = th[t].todo
      /\ a.from = th[t].from /\ a.to = th[t].to
  BY <1>1, <1>2, Advanced
<1> HIDE DEF a, u, new
<1>4. /\ th'[t] = a /\ \A s \in Thread \ {t} : th'[s] = th[s]
      /\ Team(partition, bweights, matching, queue, th')
  BY <1>1, <1>3, CallKeepsTeam DEF Moving
<1>5. PICK p : Shows(partition, th, AfterBoundary, p) /\ BvInv(p, bv)
  BY <1>2 DEF StructShown, Shown
<1>6. AfterBoundary \in SUBSET Moving /\ th[t].pc \notin AfterBoundary /\ a.pc \in AfterBoundary
  BY <1>1, <1>3 DEF AfterBoundary, Moving
<1>7. \A v \in Adj(u) \cup {u} : p[v] = partition[v]
  <2>1. partition[u] \in PairOf(th[t].pair)
    BY <1>2
  <2>2. SameNear(p, u)
    BY <1>2, <1>5, <1>6, <2>1, ShownAround
  <2> QED BY <2>2 DEF SameNear
<1>8. BvInv(Moved(p, u, new), bv')
  <2>1. p \in [Vertex -> Block] /\ p[u] = th[t].from
    BY <1>2, <1>5, <1>7 DEF Shows
  <2> QED BY <1>1, <1>2, <1>5, <1>7, <2>1, BvMoveKeeps
<1>9. Shows(partition, th', AfterBoundary, Moved(p, u, new))
  BY <1>1, <1>2, <1>3, <1>4, <1>5, <1>6, ShowsEntered DEF new
<1>10. PICK r : Shows(partition, th, AfterQuotient, r) /\ QInv(r, q)
  BY <1>2 DEF StructShown, Shown
<1>11. PICK d : Shows(partition, th, AfterConn, d) /\ BcInv(d, conn)
  BY <1>2 DEF StructShown, Shown
<1>12. Shows(partition, th', AfterQuotient, r) /\ Shows(partition, th', AfterConn, d)
  <2>1. th'[t].to = th[t].to /\ Head(th'[t].todo) = Head(th[t].todo)
    BY <1>1, <1>3, <1>4
  <2>2. th[t].pc \notin AfterQuotient /\ th'[t].pc \notin AfterQuotient
    BY <1>1, <1>3, <1>4 DEF AfterQuotient
  <2>3. Shows(partition, th', AfterQuotient, r)
    BY <1>4, <1>10, <2>1, <2>2, ShowsKept
  <2>4. th[t].pc \notin AfterConn /\ th'[t].pc \notin AfterConn
    BY <1>1, <1>3, <1>4 DEF AfterConn
  <2>5. Shows(partition, th', AfterConn, d)
    BY <1>4, <1>11, <2>1, <2>4, ShowsKept
  <2> QED BY <2>3, <2>5
<1>13. Shown(partition, th', bv', q, conn)
  BY <1>8, <1>9, <1>10, <1>11, <1>12 DEF Shown
<1> QED BY <1>1, <1>2, <1>4, <1>13 DEF PLPInv, Driven, StructShown, ctlVars

(* q_graph.move while other threads are at other calls.                     *)
LEMMA MoveQuotientKeeps ==
  ASSUME PLPInv, NEW t \in Thread, MoveQuotient(t)
  PROVE  PLPInv'
<1> DEFINE g == QMoved(Current(t), th[t].from, th[t].to)
           relinks == QRelinks(Current(t), th[t].from, th[t].to)
           delta == QHalfEdgesDelta(q, g)
           b == Advance(t)
           a == [b EXCEPT !.relinks = relinks, !.seen = halfEdges, !.delta = delta]
           u == Current(t)
           new == th[t].to
<1>1. /\ th' = [th EXCEPT ![t] = a] /\ th[t].pc = "q" /\ th[t].pc \in Moving
      /\ q' = g
      /\ UNCHANGED <<partition, bweights, nVertices, bv, conn, halfEdges>> /\ UNCHANGED ctlVars
  BY DEF MoveQuotient, Moving
<1>2. /\ Driven /\ StructShown /\ Team(partition, bweights, matching, queue, th)
      /\ th \in [Thread -> Locals] /\ partition \in [Vertex -> Block]
      /\ round.phase = "run" /\ th[t].pc # "idle" /\ th[t].todo # <<>>
      /\ u = Head(th[t].todo) /\ u \in Vertex /\ partition[u] = th[t].from
      /\ th[t].from \in PairOf(th[t].pair) /\ new \in Block /\ new # th[t].from
  BY <1>1, AtCall
<1>3. /\ b \in Locals /\ b.pc = "count" /\ b.pair = th[t].pair /\ b.todo = th[t].todo
      /\ b.from = th[t].from /\ b.to = th[t].to
  BY <1>1, <1>2, Advanced
<1>4. relinks \in BOOLEAN
  BY Zenon DEF QRelinks
<1>5. delta \in Int /\ halfEdges \in Int
  BY <1>2, LinkedCounted DEF QHalfEdgesDelta, StructShown
<1> HIDE DEF b, relinks, delta
<1>6. /\ a \in Locals /\ a.pc = "count" /\ a.pair = th[t].pair /\ a.todo = th[t].todo
      /\ a.from = th[t].from /\ a.to = th[t].to
  BY <1>3, <1>4, <1>5 DEF Locals
<1> HIDE DEF a, u, new, g
<1>7. /\ th'[t] = a /\ \A s \in Thread \ {t} : th'[s] = th[s]
      /\ Team(partition, bweights, matching, queue, th')
  BY <1>1, <1>6, CallKeepsTeam DEF Moving
<1>8. PICK r : Shows(partition, th, AfterQuotient, r) /\ QInv(r, q)
  BY <1>2 DEF StructShown, Shown
<1>9. AfterQuotient \in SUBSET Moving /\ th[t].pc \notin AfterQuotient /\ a.pc \in AfterQuotient
  BY <1>1, <1>6 DEF AfterQuotient, Moving
<1>10. \A v \in Adj(u) \cup {u} : r[v] = partition[v]
  <2>1. partition[u] \in PairOf(th[t].pair)
    BY <1>2
  <2>2. SameNear(r, u)
    BY <1>2, <1>8, <1>9, <2>1, ShownAround
  <2> QED BY <2>2 DEF SameNear
<1>11. QInv(Moved(r, u, new), q')
  <2>1. r \in [Vertex -> Block] /\ r[u] = th[t].from
    BY <1>2, <1>8, <1>10 DEF Shows
  <2>2. QInv(Moved(r, u, new), QMoved(u, r[u], new))
    BY <1>2, <1>8, <1>10, <2>1, QMoveKeeps
  <2> QED BY <1>1, <2>1, <2>2 DEF g, u, new
<1>12. Shows(partition, th', AfterQuotient, Moved(r, u, new))
  BY <1>1, <1>2, <1>6, <1>7, <1>8, <1>9, ShowsEntered DEF new
<1>13. PICK p : Shows(partition, th, AfterBoundary, p) /\ BvInv(p, bv)
  BY <1>2 DEF StructShown, Shown
<1>14. PICK d : Shows(partition, th, AfterConn, d) /\ BcInv(d, conn)
  BY <1>2 DEF StructShown, Shown
<1>15. Shows(partition, th', AfterBoundary, p) /\ Shows(partition, th', AfterConn, d)
  <2>1. th'[t].to = th[t].to /\ Head(th'[t].todo) = Head(th[t].todo)
    BY <1>1, <1>6, <1>7
  <2>2. th[t].pc \in AfterBoundary /\ th'[t].pc \in AfterBoundary
    BY <1>1, <1>6, <1>7 DEF AfterBoundary
  <2>3. Shows(partition, th', AfterBoundary, p)
    BY <1>7, <1>13, <2>1, <2>2, ShowsKept
  <2>4. th[t].pc \notin AfterConn /\ th'[t].pc \notin AfterConn
    BY <1>1, <1>6, <1>7 DEF AfterConn
  <2>5. Shows(partition, th', AfterConn, d)
    BY <1>7, <1>14, <2>1, <2>4, ShowsKept
  <2> QED BY <2>3, <2>5
<1>16. Shown(partition, th', bv, q', conn)
  BY <1>11, <1>12, <1>13, <1>14, <1>15 DEF Shown
<1> QED BY <1>1, <1>2, <1>7, <1>16 DEF PLPInv, Driven, StructShown, ctlVars

(* block_conn.move while other threads are at other calls.                  *)
LEMMA MoveConnKeeps ==
  ASSUME PLPInv, NEW t \in Thread, MoveConn(t)
  PROVE  PLPInv'
<1> DEFINE a == Advance(t)
           u == Current(t)
           new == th[t].to
<1>1. /\ th' = [th EXCEPT ![t] = a] /\ th[t].pc = "bc" /\ th[t].pc \in Moving
      /\ BcMove(u, th[t].from, new)
      /\ UNCHANGED <<partition, bweights, nVertices, bv, q, halfEdges>> /\ UNCHANGED ctlVars
  BY DEF MoveConn, Moving
<1>2. /\ Driven /\ StructShown /\ Team(partition, bweights, matching, queue, th)
      /\ th \in [Thread -> Locals] /\ partition \in [Vertex -> Block]
      /\ round.phase = "run" /\ th[t].pc # "idle" /\ th[t].todo # <<>>
      /\ u = Head(th[t].todo) /\ u \in Vertex /\ partition[u] = th[t].from
      /\ th[t].from \in PairOf(th[t].pair) /\ new \in Block /\ new # th[t].from
  BY <1>1, AtCall
<1>3. /\ a \in Locals /\ a.pc = "pm" /\ a.pair = th[t].pair /\ a.todo = th[t].todo
      /\ a.from = th[t].from /\ a.to = th[t].to
  BY <1>1, <1>2, Advanced
<1> HIDE DEF a, u, new
<1>4. /\ th'[t] = a /\ \A s \in Thread \ {t} : th'[s] = th[s]
      /\ Team(partition, bweights, matching, queue, th')
  BY <1>1, <1>3, CallKeepsTeam DEF Moving
<1>5. PICK d : Shows(partition, th, AfterConn, d) /\ BcInv(d, conn)
  BY <1>2 DEF StructShown, Shown
<1>6. AfterConn \in SUBSET Moving /\ th[t].pc \notin AfterConn /\ a.pc \in AfterConn
  BY <1>1, <1>3 DEF AfterConn, Moving
<1>7. d[u] = partition[u]
  <2>1. partition[u] \in PairOf(th[t].pair)
    BY <1>2
  <2>2. SameNear(d, u)
    BY <1>2, <1>5, <1>6, <2>1, ShownAround
  <2> QED BY <2>2 DEF SameNear
<1>8. BcInv(Moved(d, u, new), conn')
  <2>1. d \in [Vertex -> Block] /\ d[u] = th[t].from
    BY <1>2, <1>5, <1>7 DEF Shows
  <2> QED BY <1>1, <1>2, <1>5, <2>1, BcMoveKeeps
<1>9. Shows(partition, th', AfterConn, Moved(d, u, new))
  BY <1>1, <1>2, <1>3, <1>4, <1>5, <1>6, ShowsEntered DEF new
<1>10. PICK p : Shows(partition, th, AfterBoundary, p) /\ BvInv(p, bv)
  BY <1>2 DEF StructShown, Shown
<1>11. PICK r : Shows(partition, th, AfterQuotient, r) /\ QInv(r, q)
  BY <1>2 DEF StructShown, Shown
<1>12. Shows(partition, th', AfterBoundary, p) /\ Shows(partition, th', AfterQuotient, r)
  <2>1. th'[t].to = th[t].to /\ Head(th'[t].todo) = Head(th[t].todo)
    BY <1>1, <1>3, <1>4
  <2>2. th[t].pc \in AfterBoundary /\ th'[t].pc \in AfterBoundary
    BY <1>1, <1>3, <1>4 DEF AfterBoundary
  <2>3. Shows(partition, th', AfterBoundary, p)
    BY <1>4, <1>10, <2>1, <2>2, ShowsKept
  <2>4. th[t].pc \in AfterQuotient /\ th'[t].pc \in AfterQuotient
    BY <1>1, <1>3, <1>4 DEF AfterQuotient
  <2>5. Shows(partition, th', AfterQuotient, r)
    BY <1>4, <1>11, <2>1, <2>4, ShowsKept
  <2> QED BY <2>3, <2>5
<1>13. Shown(partition, th', bv, q, conn')
  BY <1>8, <1>9, <1>10, <1>11, <1>12 DEF Shown
<1>14. conn' = [v \in Vertex |-> conn'[v]]
  BY <1>1 DEF BcMove
<1> QED BY <1>1, <1>2, <1>4, <1>13, <1>14 DEF PLPInv, Driven, StructShown, ctlVars

(* The last call puts the vertex into its new block, whose capacity it      *)
(* keeps, and the cost does not rise.                                       *)
LEMMA MovePartitionKeeps ==
  ASSUME PLPInv, NEW t \in Thread, MovePartition(t)
  PROVE  /\ PLPInv'
         /\ \E u \in Vertex, b \in Block :
              /\ b # partition[u]
              /\ partition' = [partition EXCEPT ![u] = b]
              /\ BlockWeight(partition', b) <= Lmax[b]
              /\ Qap(partition') <= Qap(partition)
<1> DEFINE a == Advance(t)
           u == Current(t)
           new == th[t].to
<1>1. /\ th' = [th EXCEPT ![t] = a] /\ th[t].pc = "pm" /\ th[t].pc \in Moving
      /\ PmMove(u, th[t].from, new)
      /\ UNCHANGED <<bv, conn, q, halfEdges>> /\ UNCHANGED ctlVars
  BY DEF MovePartition, Moving
<1>2. /\ Driven /\ StructShown /\ Team(partition, bweights, matching, queue, th)
      /\ th \in [Thread -> Locals] /\ partition \in [Vertex -> Block]
      /\ round.phase = "run" /\ th[t].pc # "idle" /\ th[t].todo # <<>>
      /\ Sure(partition, bweights, th[t])
      /\ u = Head(th[t].todo) /\ u \in Vertex /\ partition[u] = th[t].from
      /\ th[t].from \in PairOf(th[t].pair) /\ new \in Block /\ new # th[t].from
  BY <1>1, AtCall
<1>3. /\ a \in Locals /\ a.pc = "eval" /\ a.pair = th[t].pair /\ a.todo = Tail(th[t].todo)
  BY <1>1, <1>2, Advanced
<1>4. ToSet(Tail(th[t].todo)) \subseteq ToSet(th[t].todo)
  BY <1>2, LocalFields, HeadIn
<1> HIDE DEF a, u, new
<1>5. /\ th' \in [Thread -> Locals] /\ th'[t] = a /\ \A s \in Thread \ {t} : th'[s] = th[s]
  BY <1>1, <1>2, <1>3
<1>6. /\ PmInv(partition', bweights', nVertices')
      /\ partition' = Moved(partition, u, new)
      /\ bweights'[new] = bweights[new] + VertexWeight[u]
      /\ \A b \in Block : b # partition[u] /\ b # new => bweights'[b] = bweights[b]
  BY <1>1, <1>2, PmMoveKeeps DEF StructShown
<1>7. Team(partition', bweights', matching, queue, th')
  <2>1. \A b \in Block : b \notin PairOf(th[t].pair) => bweights'[b] = bweights[b]
    BY <1>2, <1>6 DEF Sure, new
  <2>2. /\ th'[t].pc = "eval" /\ th'[t].pair = th[t].pair
        /\ ToSet(th'[t].todo) \subseteq ToSet(th[t].todo)
    BY <1>3, <1>4, <1>5
  <2>3. ASSUME NEW x, \A b \in Block : b \notin PairOf(th[t].pair) => x[b] = bweights[b],
               NEW k \in [Thread -> Locals], \A s \in Thread \ {t} : k[s] = th[s],
               k[t].pc = "eval", k[t].pair = th[t].pair,
               ToSet(k[t].todo) \subseteq ToSet(th[t].todo)
        PROVE  Team(Moved(partition, Head(th[t].todo), th[t].to), x, matching, queue, k)
    <3>1. th[t].pc \in Moving /\ Team(partition, bweights, matching, queue, th)
      BY <1>1, <1>2
    <3>2. partition \in [Vertex -> Block]
      BY <1>2
    <3> QED BY <2>3, <3>1, <3>2, TeamMoved
  <2>5. Team(Moved(partition, Head(th[t].todo), th[t].to), bweights', matching, queue, th')
    BY <1>5, <2>1, <2>2, <2>3
  <2>4. partition' = Moved(partition, Head(th[t].todo), th[t].to)
    BY <1>2, <1>6 DEF new
  <2> QED BY <2>4, <2>5
<1>8. /\ th[t].pc \in AfterBoundary /\ th[t].pc \in AfterQuotient /\ th[t].pc \in AfterConn
      /\ a.pc \notin AfterBoundary /\ a.pc \notin AfterQuotient /\ a.pc \notin AfterConn
  BY <1>1, <1>3 DEF AfterBoundary, AfterQuotient, AfterConn
<1>9. PICK p : Shows(partition, th, AfterBoundary, p) /\ BvInv(p, bv)
  BY <1>2 DEF StructShown, Shown
<1>10. PICK r : Shows(partition, th, AfterQuotient, r) /\ QInv(r, q)
  BY <1>2 DEF StructShown, Shown
<1>11. PICK d : Shows(partition, th, AfterConn, d) /\ BcInv(d, conn)
  BY <1>2 DEF StructShown, Shown
<1>12. /\ Shows(partition', th', AfterBoundary, p) /\ Shows(partition', th', AfterQuotient, r)
       /\ Shows(partition', th', AfterConn, d)
  BY <1>2, <1>5, <1>6, <1>8, <1>9, <1>10, <1>11, ShowsLanded DEF new
<1>13. Shown(partition', th', bv, q, conn)
  BY <1>9, <1>10, <1>11, <1>12 DEF Shown
<1>14. PLPInv'
  BY <1>1, <1>2, <1>6, <1>7, <1>13 DEF PLPInv, Driven, StructShown, ctlVars
<1>15. BlockWeight(partition', new) <= Lmax[new]
  BY <1>2, <1>6 DEF Sure, PmInv, new
<1>16. Qap(partition') = Qap(partition) - 2 * CostFall(partition, u, new)
  BY <1>2, <1>6, QapMoved
<1>17. Qap(partition) \in Int
  <2>1. Qap(partition) = SumFunctionOnSet(Row(partition), Vertex)
    BY <1>2, QapIsSum
  <2>2. \A x \in Vertex : Row(partition)[x] \in Int
    BY <1>2, RowIsSum
  <2>3. IsFiniteSet(Vertex)
    BY GraphAssumption
  <2> QED BY <2>1, <2>2, <2>3, SumType
<1>18. CostFall(partition, u, new) \in Int /\ CostFall(partition, u, new) >= 0
  <2>1. CostFall(partition, u, new) \in Int
    BY <1>2, CostFallType
  <2> QED BY <1>2, <2>1 DEF Sure, new
<1>19. Qap(partition') <= Qap(partition)
  BY <1>16, <1>17, <1>18
<1>20. partition' = [partition EXCEPT ![u] = new]
  BY <1>6 DEF Moved
<1> QED BY <1>2, <1>14, <1>15, <1>19, <1>20

(* find_matching, called while no thread works, returns pairs that share    *)
(* no neighbour.                                                            *)
LEMMA MatchedPairsAreApart ==
  ASSUME PLPInv, round.phase # "run", NEW first \in Seq(Block),
         NEW used \in SUBSET (SUBSET Block),
         NEW m, m = FindMatching(Nbr, Order, active, first, used)
  PROVE  /\ m.next \in Seq(Block) /\ m.used \in SUBSET (SUBSET Block)
         /\ Team(partition, bweights, m.matching, m.matching, th)
<1>1. /\ Driven /\ StructShown /\ Team(partition, bweights, matching, queue, th)
      /\ partition \in [Vertex -> Block] /\ halfEdges \in Int
      /\ th \in [Thread -> Locals] /\ \A t \in Thread : th[t].pc = "idle"
  BY InPartition DEF PLPInv, Driven, StructShown, Team
<1>2. QInv(partition, q)
  BY <1>1, ShownAtRest DEF Moving, StructInv, Derived
<1>3. Ordered(Block, Nbr, Order)
  BY <1>1, <1>2, QuotientOrdered DEF Nbr, Order
<1>4. m \in Found(Block, Nbr)
  BY <1>3, CallFinds
<1>5. /\ m.next \in Seq(Block) /\ m.used \in SUBSET (SUBSET Block)
      /\ m.matching \in SUBSET (Block \X Block) /\ DistanceThree(Nbr, m.matching)
      /\ \A p \in m.matching : p[1] < p[2]
  BY <1>4 DEF Found, CallsOf, MarksInv
<1>6. m.matching \in SUBSET BlockPairs
  <2>1. \A x, y \in Block : x < y => x # y
    BY GraphAssumption
  <2> QED BY <1>5, <2>1 DEF BlockPairs
<1>7. Apart(partition, m.matching)
  <2>1. Nbr \in [Block -> SUBSET Block] /\ Symmetric(Block, Nbr)
    BY <1>3 DEF Ordered
  <2>2. \A x \in Block : Nbr[x] = QuotientNeighbours(partition, x)
    BY <1>1, <1>2, QInvSuffices DEF CorrectQuotientGraph, Nbr
  <2> QED BY <1>1, <1>5, <1>6, <2>1, <2>2, FarPairsAreApart
<1> QED BY <1>1, <1>5, <1>6, <1>7, TeamAtRest

(* The blocks to try first.                                                 *)
LEMMA CandidatesAreBlocks ==
  ASSUME NEW act
  PROVE  Ascending(Candidates(Order, act)) \in Seq(Block)
<1> DEFINE C == Candidates(Order, act)
<1>1. C \in SUBSET Block
  BY DEF Candidates, Order
<1>2. IsFiniteSet(C)
  BY <1>1, GraphAssumption, FS_Subset
<1>3. C \subseteq Int
  <2>1. \A x \in Block : x \in Int
    BY GraphAssumption
  <2> QED BY <1>1, <2>1
<1> HIDE DEF C
<1>4. Ascending(C) \in Seq(C)
  BY <1>2, <1>3, AscendingLists
<1>5. Ascending(C) \in Seq(Block)
  BY <1>1, <1>4
<1> QED BY <1>5 DEF C

(* The structures and the threads do not see a step of the driver.          *)
LEMMA DriverKeeps ==
  ASSUME PLPInv, UNCHANGED <<structVars, th>>, round' \in RoundStates,
         dynamic' \in [cand : Seq(Block), used : SUBSET (SUBSET Block)],
         \A t \in Thread : th[t].pc = "idle",
         Team(partition, bweights, matching', queue', th)
  PROVE  PLPInv'
<1>1. StructShown
  BY DEF PLPInv
<1> QED BY <1>1 DEF PLPInv, Driven, StructShown, structVars

(* An iteration starts from the candidates that are active.                 *)
LEMMA StartDynamicKeeps ==
  ASSUME PLPInv, StartDynamic
  PROVE  PLPInv'
<1> DEFINE first == Ascending(Candidates(Order, active))
           m == FindMatching(Nbr, Order, active, first, {})
<1>1. /\ round.phase = "start" /\ dynamic' = [cand |-> m.next, used |-> m.used]
      /\ UNCHANGED <<structVars, th>>
      /\ \/ /\ matching' = m.matching /\ queue' = m.matching
            /\ round' = [round EXCEPT !.phase = "run"]
         \/ UNCHANGED <<matching, queue>> /\ round' = [round EXCEPT !.phase = "done"]
  BY DEF StartDynamic, Refine
<1>2. first \in Seq(Block)
  BY CandidatesAreBlocks
<1>3. /\ Driven /\ round \in RoundStates /\ Team(partition, bweights, matching, queue, th)
      /\ \A t \in Thread : th[t].pc = "idle"
  BY <1>1 DEF PLPInv, Driven
<1> HIDE DEF first
<1>4. m = FindMatching(Nbr, Order, active, first, {}) /\ {} \in SUBSET (SUBSET Block)
  OBVIOUS
<1> HIDE DEF m
<1>5. /\ m.next \in Seq(Block) /\ m.used \in SUBSET (SUBSET Block)
      /\ Team(partition, bweights, m.matching, m.matching, th)
  <2>1. round.phase # "run"
    BY <1>1
  <2> QED BY <1>2, <1>4, <2>1, MatchedPairsAreApart
<1>6. round' \in RoundStates
  BY <1>1, <1>3 DEF RoundStates
<1>7. Team(partition, bweights, matching', queue', th)
  BY <1>1, <1>3, <1>5
<1>8. dynamic' \in [cand : Seq(Block), used : SUBSET (SUBSET Block)]
  BY <1>1, <1>5
<1> QED BY <1>1, <1>3, <1>6, <1>7, <1>8, DriverKeeps

(* The next matching is far apart and the threads are idle.                 *)
LEMMA NextMatchingKeeps ==
  ASSUME PLPInv, NextMatching
  PROVE  PLPInv'
<1> DEFINE m == FindMatching(Nbr, Order, active, dynamic.cand, dynamic.used)
<1>1. /\ round.phase = "next" /\ dynamic' = [cand |-> m.next, used |-> m.used]
      /\ UNCHANGED <<structVars, th>>
      /\ \/ /\ matching' = m.matching /\ queue' = m.matching
            /\ round' = [round EXCEPT !.phase = "run"]
         \/ UNCHANGED <<matching, queue>> /\ round' = [round EXCEPT !.phase = "end"]
  BY DEF NextMatching, Refine
<1>2. /\ Driven /\ round \in RoundStates /\ Team(partition, bweights, matching, queue, th)
      /\ \A t \in Thread : th[t].pc = "idle"
      /\ dynamic.cand \in Seq(Block) /\ dynamic.used \in SUBSET (SUBSET Block)
  BY <1>1 DEF PLPInv, Driven
<1>3. m = FindMatching(Nbr, Order, active, dynamic.cand, dynamic.used)
  OBVIOUS
<1> HIDE DEF m
<1>4. /\ m.next \in Seq(Block) /\ m.used \in SUBSET (SUBSET Block)
      /\ Team(partition, bweights, m.matching, m.matching, th)
  <2>1. round.phase # "run"
    BY <1>1
  <2> QED BY <1>2, <1>3, <2>1, MatchedPairsAreApart
<1>5. round' \in RoundStates
  BY <1>1, <1>2 DEF RoundStates
<1>6. Team(partition, bweights, matching', queue', th)
  BY <1>1, <1>2, <1>4
<1>7. dynamic' \in [cand : Seq(Block), used : SUBSET (SUBSET Block)]
  BY <1>1, <1>4
<1> QED BY <1>1, <1>2, <1>5, <1>6, <1>7, DriverKeeps

(* An iteration ends with all threads idle.                                 *)
LEMMA EndIterationKeeps ==
  ASSUME PLPInv, EndIteration
  PROVE  PLPInv'
<1>1. /\ round.phase # "run" /\ UNCHANGED <<structVars, th>> /\ UNCHANGED <<dynamic, matching, queue>>
      /\ round' = IF round.positive /\ round.iteration + 1 < MaxIteration
              THEN [round EXCEPT !.phase = "start", !.iteration = @ + 1, !.positive = FALSE]
              ELSE [round EXCEPT !.phase = "done"]
  BY DEF EndIteration
<1>2. /\ Driven /\ round \in RoundStates /\ Team(partition, bweights, matching, queue, th)
      /\ \A t \in Thread : th[t].pc = "idle"
      /\ dynamic \in [cand : Seq(Block), used : SUBSET (SUBSET Block)]
  BY <1>1 DEF PLPInv, Driven
<1>3. round' \in RoundStates
  <2>1. CASE round' = [round EXCEPT !.phase = "done"]
    BY <1>2, <2>1 DEF RoundStates
  <2>2. CASE round' = [round EXCEPT !.phase = "start", !.iteration = @ + 1, !.positive = FALSE]
    <3> DEFINE i == round.iteration + 1
    <3>1. i \in Nat
      BY <1>2 DEF RoundStates
    <3> HIDE DEF i
    <3>2. [round EXCEPT !.phase = "start", !.iteration = i] \in RoundStates
      BY <1>2, <3>1 DEF RoundStates
    <3> DEFINE r == [round EXCEPT !.phase = "start", !.iteration = i]
    <3>3. [r EXCEPT !.positive = FALSE] = [round EXCEPT !.phase = "start", !.iteration = i, !.positive = FALSE]
      BY <1>2 DEF RoundStates
    <3> HIDE DEF r
    <3>4. r \in RoundStates
      BY <3>2 DEF r
    <3>5. [r EXCEPT !.positive = FALSE] \in RoundStates
      BY <3>4 DEF RoundStates
    <3> QED BY <2>2, <3>3, <3>5 DEF i
  <2> QED BY <1>1, <2>1, <2>2
<1> QED BY <1>1, <1>2, <1>3, DriverKeeps

(* The threads of a matching have all ended.                                *)
LEMMA JoinKeeps ==
  ASSUME PLPInv, Join
  PROVE  PLPInv'
<1>1. /\ \A t \in Thread : th[t].pc = "idle"
      /\ UNCHANGED <<structVars, th>> /\ UNCHANGED <<dynamic, matching, queue>>
      /\ round' = [round EXCEPT !.phase = "next"]
  BY DEF Join
<1>2. /\ Driven /\ round \in RoundStates /\ Team(partition, bweights, matching, queue, th)
      /\ dynamic \in [cand : Seq(Block), used : SUBSET (SUBSET Block)]
  BY DEF PLPInv, Driven
<1>3. round' \in RoundStates
  BY <1>1, <1>2 DEF RoundStates
<1> QED BY <1>1, <1>2, <1>3, DriverKeeps

-----------------------------------------------------------------------------
(* The refinement starts with structures computed from the partition and    *)
(* no thread at work.                                                       *)
LEMMA PLPInvInit ==
  ASSUME StructInit, InitPLP, ~ round.static
  PROVE  PLPInv
<1>1. StructInv
  BY StructuresFromScratch DEF StructInit
<1>2. partition \in [Vertex -> Block]
  BY <1>1 DEF StructInv, PmInv
<1>3. Idle \in Locals /\ Idle.pc = "idle"
  BY DEF Idle, Locals
<1>4. th \in [Thread -> Locals] /\ \A t \in Thread : th[t].pc = "idle"
  BY <1>3 DEF InitPLP
<1>5. ASSUME NEW S \in SUBSET Moving PROVE Shows(partition, th, S, partition)
  <2>1. InFlight(th, S) = {}
    BY <1>4 DEF InFlight, Moving
  <2> QED BY <1>2, <2>1 DEF Shows
<1>6. AfterBoundary \in SUBSET Moving /\ AfterQuotient \in SUBSET Moving
      /\ AfterConn \in SUBSET Moving
  BY DEF AfterBoundary, AfterQuotient, AfterConn, Moving
<1>7. StructShown
  BY <1>1, <1>5, <1>6 DEF StructShown, Shown, StructInv, Derived
<1>8. Team(partition, bweights, matching, queue, th)
  <2>1. Apart(partition, {}) /\ {} \in SUBSET BlockPairs
    BY DEF Apart
  <2>2. Team(partition, bweights, {}, {}, th)
    BY <1>4, <2>1, TeamAtRest
  <2> QED BY <2>2 DEF InitPLP
<1>9. Driven
  <2>1. round \in RoundStates
    <3>1. /\ round \in [phase : {"start"}, iteration : {0}, positive : {FALSE}, static : UseStatic]
          /\ round.static = FALSE
      BY SettingsAssumption DEF InitPLP
    <3>2. /\ round = [phase |-> round.phase, iteration |-> round.iteration,
                      positive |-> round.positive, static |-> round.static]
          /\ round.phase = "start" /\ round.iteration = 0 /\ round.positive = FALSE
      BY <3>1
    <3>3. round = [phase |-> "start", iteration |-> 0, positive |-> FALSE, static |-> FALSE]
      BY <3>1, <3>2, Zenon
    <3>4. FALSE \in BOOLEAN /\ FALSE \in {FALSE} /\ 0 \in Nat
      OBVIOUS
    <3> QED BY <3>3, <3>4, Zenon DEF RoundStates
  <2>2. <<>> \in Seq(Block)
    OBVIOUS
  <2>3. dynamic \in [cand : Seq(Block), used : SUBSET (SUBSET Block)]
    BY <2>2 DEF InitPLP
  <2> QED BY <1>4, <2>1, <2>3 DEF Driven
<1> QED BY <1>7, <1>8, <1>9 DEF PLPInv

(* Every step of the driver or of a thread preserves the invariant.         *)
LEMMA PLPInvNext ==
  ASSUME PLPInv, [NextPLP]_plpVars
  PROVE  PLPInv'
<1>1. ~ round.static
  BY DEF PLPInv, Driven, RoundStates
<1>2. CASE UNCHANGED plpVars
  BY <1>2 DEF plpVars, structVars, ctlVars, PLPInv, Driven, StructShown
<1>3. CASE Driver
  BY <1>1, <1>3, StartDynamicKeeps, NextMatchingKeeps, EndIterationKeeps, JoinKeeps
     DEF Driver, StartStatic, NextBatch
<1>4. ASSUME NEW t \in Thread, Step(t) PROVE PLPInv'
  <2>1. CASE \E p \in queue : Take(t, p)
    BY <2>1, TakeKeeps
  <2>2. CASE Skip(t)
    BY <2>2, SkipKeeps
  <2>3. CASE Decide(t)
    BY <2>3, DecideKeeps
  <2>4. CASE EndPair(t)
    BY <2>4, EndPairKeeps
  <2>5. CASE MoveBoundary(t)
    BY <2>5, MoveBoundaryKeeps
  <2>6. CASE MoveQuotient(t)
    BY <2>6, MoveQuotientKeeps
  <2>7. CASE CountHalfEdges(t)
    BY <2>7, CountKeeps
  <2>8. CASE MoveConn(t)
    BY <2>8, MoveConnKeeps
  <2>9. CASE MovePartition(t)
    BY <2>9, MovePartitionKeeps
  <2> QED BY <1>4, <2>1, <2>2, <2>3, <2>4, <2>5, <2>6, <2>7, <2>8, <2>9 DEF Step
<1> QED BY <1>2, <1>3, <1>4 DEF NextPLP

(* The invariant of the parallel refinement in every reachable state.       *)
LEMMA DynamicInvariant == SpecDynamic => []PLPInv
<1>1. StructInit /\ InitPLP /\ ~ round.static => PLPInv
  BY PLPInvInit
<1>2. PLPInv /\ [NextPLP]_plpVars => PLPInv'
  BY PLPInvNext
<1> QED BY <1>1, <1>2, PTL DEF SpecDynamic

(* Calls of two threads that may run at the same time touch different       *)
(* cells, with dynamic matchings.                                           *)
THEOREM DynamicRacesNot == SpecDynamic => []NoDataRace
<1>1. PLPInv => NoDataRace
  <2> SUFFICES ASSUME PLPInv PROVE NoDataRace
    OBVIOUS
  <2>1. partition \in [Vertex -> Block] /\ Team(partition, bweights, matching, queue, th)
    BY InPartition DEF PLPInv
  <2> QED BY <2>1, TeamRacesNot
<1> QED BY <1>1, DynamicInvariant, PTL

(* No update of any thread is lost: at the barrier the structures are what  *)
(* they would be if they were computed from the partition.                  *)
THEOREM DynamicKeepsStructures == SpecDynamic => []StructuresCorrectAtBarrier
<1>1. PLPInv => StructuresCorrectAtBarrier
  <2> SUFFICES ASSUME PLPInv, round.phase # "run"
               PROVE  CorrectBlockWeights /\ CorrectBoundary /\ CorrectBlockConn
                        /\ CorrectQuotientGraph
    BY DEF StructuresCorrectAtBarrier
  <2>1. StructInv
    BY ShownAtRest DEF PLPInv, Driven, Moving
  <2> QED BY <2>1, StructInvSuffices DEF StructuresCorrect
<1> QED BY <1>1, DynamicInvariant, PTL

(* The cost and the weights of MonotoneMoves are those of the model.        *)
LEMMA AbstractQuantities ==
  ASSUME NEW p, NEW b
  PROVE  Abstract!Qap(p) = Qap(p) /\ Abstract!BlockWeight(p, b) = BlockWeight(p, b)
<1>1. Abstract!BlockWeight(p, b) = BlockWeight(p, b)
  BY DEF Abstract!BlockWeight, BlockWeight, Abstract!Members, Members,
         Abstract!MapThenSumSet, MapThenSumSet, Abstract!MapThenFoldSet, MapThenFoldSet
<1>2. Abstract!Qap(p) = Qap(p)
  BY DEF Abstract!Qap, Qap, Abstract!AllVertices, AllVertices, Abstract!Adj, Adj,
         Abstract!Ascending, Ascending, Abstract!MapThenSumSet, MapThenSumSet,
         Abstract!MapThenFoldSet, MapThenFoldSet, Abstract!Cardinality, Cardinality
<1> QED BY <1>1, <1>2

(* Only the last call of a move changes the partition.                      *)
LEMMA PartitionSteps ==
  ASSUME PLPInv, [NextPLP]_plpVars, partition' # partition
  PROVE  \E t \in Thread : MovePartition(t)
<1>1. ~ UNCHANGED plpVars
  BY DEF plpVars, structVars
<1>2. ~ Driver
  BY DEF Driver, StartStatic, NextBatch, StartDynamic, NextMatching, EndIteration, Join, structVars
<1>3. PICK t \in Thread : Step(t)
  BY <1>1, <1>2 DEF NextPLP
<1>4. ~ \E p \in queue : Take(t, p)
  BY DEF Take, structVars
<1>5. ~ Skip(t) /\ ~ Decide(t) /\ ~ EndPair(t)
  BY DEF Skip, Decide, EndPair, structVars
<1>6. ~ MoveBoundary(t) /\ ~ MoveQuotient(t) /\ ~ CountHalfEdges(t) /\ ~ MoveConn(t)
  BY DEF MoveBoundary, MoveQuotient, CountHalfEdges, MoveConn
<1> QED BY <1>3, <1>4, <1>5, <1>6 DEF Step

(* Parallel label propagation implements MonotoneMoves.                     *)
THEOREM DynamicIsMonotone == SpecDynamic => ImplementsMonotoneMoves
<1>1. StructInit /\ InitPLP /\ ~ round.static => Abstract!Init
  <2> SUFFICES ASSUME StructInit, InitPLP, ~ round.static PROVE Abstract!Init
    OBVIOUS
  <2>1. partition \in [Vertex -> Block]
    BY PLPInvInit, InPartition DEF PLPInv
  <2> QED BY <2>1 DEF Abstract!Init
<1>2. PLPInv /\ [NextPLP]_plpVars => [Abstract!Next]_partition
  <2> SUFFICES ASSUME PLPInv, [NextPLP]_plpVars, partition' # partition
               PROVE  Abstract!Next
    OBVIOUS
  <2>1. PICK t \in Thread : MovePartition(t)
    BY PartitionSteps
  <2>2. PICK u \in Vertex, b \in Block :
              /\ b # partition[u]
              /\ partition' = [partition EXCEPT ![u] = b]
              /\ BlockWeight(partition', b) <= Lmax[b]
              /\ Qap(partition') <= Qap(partition)
    BY <2>1, MovePartitionKeeps
  <2>3. Abstract!BlockWeight(partition', b) <= Lmax[b]
        /\ Abstract!Qap(partition') <= Abstract!Qap(partition)
    BY <2>2, AbstractQuantities
  <2>4. Abstract!Move(u, b)
    BY <2>2, <2>3 DEF Abstract!Move
  <2> QED BY <2>2, <2>4 DEF Abstract!Next
<1> QED BY <1>1, <1>2, DynamicInvariant, PTL DEF SpecDynamic, ImplementsMonotoneMoves, Abstract!Spec
=============================================================================
