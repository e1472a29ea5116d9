-------------------------- MODULE DynMappingProofs --------------------------
(***************************************************************************)
(* Proof that the graph which commands change is a proper graph, for every *)
(* number of vertices, all weights and any sequence of commands: the count *)
(* of half edges and the weight of the graph are those of its lists, every *)
(* edge is known to both of its ends unless one of them was removed by     *)
(* weight, and no change is left out of the dirty lists.                   *)
(***************************************************************************)
EXTENDS DynMapping, SetTheorems

Lists == UNION {[S -> Int] : S \in SUBSET Id}

Graphs ==
  [n : 0 .. MaxN, m : Int, gw : Int, vw : [Id -> Nat], nb : [Id -> Lists],
   dirty : SUBSET Id, dirtyP : SUBSET Id, new : Seq(Id)]

Sizes(nb) == [v \in Id |-> Cardinality(DOMAIN nb[v])]

GraphInv(G) ==
  /\ G \in Graphs
  /\ \A v \in Id : v \notin DOMAIN G.nb[v]
  /\ G.m = SumFunctionOnSet(Sizes(G.nb), Id)
  /\ G.gw = SumFunctionOnSet(G.vw, Id)

(* The two entries of a pair, seen from both of its ends.                   *)
Agree(G, a, b) ==
  /\ EdgeExists(G, a, b) <=> EdgeExists(G, b, a)
  /\ EdgeExists(G, a, b) => G.nb[a][b] = G.nb[b][a]

SymmetricBut(G, S) == \A a, b \in Id \ S : Agree(G, a, b)

IInv == GraphInv(graph) /\ SymmetricBut(graph, torn)

(* All but the lists and their count is as before.                          *)
SameBut(G, H) ==
  /\ H.n = G.n /\ H.gw = G.gw /\ H.vw = G.vw
  /\ H.dirty = G.dirty /\ H.dirtyP = G.dirtyP /\ H.new = G.new

-----------------------------------------------------------------------------
LEMMA IdIsFinite ==
  ASSUME DynGraphAssumption
  PROVE  IsFiniteSet(Id) /\ MaxN \in Nat /\ Id \subseteq Nat /\ \A w \in Weights : w \in Nat /\ w > 0
<1>1. MaxN \in Nat /\ \A w \in Weights : w \in Nat /\ w > 0
  BY DEF DynGraphAssumption
<1>2. 0 \in Int /\ MaxN - 1 \in Int
  BY <1>1
<1>3. IsFiniteSet(0 .. MaxN - 1)
  BY <1>2, FS_Interval
<1> QED BY <1>1, <1>3 DEF Id

LEMMA ListFacts ==
  ASSUME DynGraphAssumption, NEW list \in Lists
  PROVE  /\ DOMAIN list \subseteq Id /\ list \in [DOMAIN list -> Int]
         /\ \A x \in DOMAIN list : list[x] \in Int
         /\ IsFiniteSet(DOMAIN list) /\ Cardinality(DOMAIN list) \in Nat
<1>1. PICK S \in SUBSET Id : list \in [S -> Int]
  BY DEF Lists
<1>2. DOMAIN list = S
  BY <1>1
<1>3. IsFiniteSet(S) /\ Cardinality(S) \in Nat
  BY IdIsFinite, FS_Subset, FS_CardinalityType
<1> QED BY <1>1, <1>2, <1>3

LEMMA NoEdgesIsEmpty == NoEdges \in Lists /\ DOMAIN NoEdges = {} /\ Cardinality(DOMAIN NoEdges) = 0
<1>1. DOMAIN NoEdges = {} /\ NoEdges \in [{} -> Int]
  BY DEF NoEdges
<1> QED BY <1>1, FS_EmptySet DEF Lists

LEMMA WithFacts ==
  ASSUME DynGraphAssumption, NEW list \in Lists, NEW v \in Id, NEW w \in Int
  PROVE  /\ With(list, v, w) \in Lists
         /\ DOMAIN With(list, v, w) = DOMAIN list \cup {v}
         /\ \A x \in DOMAIN list \cup {v} : With(list, v, w)[x] = IF x = v THEN w ELSE list[x]
         /\ Cardinality(DOMAIN With(list, v, w))
              = Cardinality(DOMAIN list) + (IF v \in DOMAIN list THEN 0 ELSE 1)
<1> DEFINE new == With(list, v, w)
<1>1. /\ DOMAIN new = DOMAIN list \cup {v}
      /\ \A x \in DOMAIN list \cup {v} : new[x] = IF x = v THEN w ELSE list[x]
      /\ new = [x \in DOMAIN new |-> new[x]]
  BY DEF With
<1>2. /\ DOMAIN list \subseteq Id /\ IsFiniteSet(DOMAIN list) /\ Cardinality(DOMAIN list) \in Nat
      /\ \A x \in DOMAIN list : list[x] \in Int
  BY ListFacts
<1> HIDE DEF new
<1>3. new \in [DOMAIN list \cup {v} -> Int]
  BY <1>1, <1>2
<1>4. new \in Lists
  BY <1>2, <1>3 DEF Lists
<1>5. CASE v \in DOMAIN list
  <2>1. DOMAIN list \cup {v} = DOMAIN list
    BY <1>5
  <2> QED BY <1>1, <1>2, <1>4, <1>5, <2>1 DEF new
<1>6. CASE v \notin DOMAIN list
  <2>1. Cardinality(DOMAIN list \cup {v}) = Cardinality(DOMAIN list) + 1
    BY <1>2, <1>6, FS_AddElement
  <2> QED BY <1>1, <1>2, <1>4, <1>6, <2>1 DEF new
<1> QED BY <1>5, <1>6

LEMMA WithoutFacts ==
  ASSUME DynGraphAssumption, NEW list \in Lists, NEW v \in DOMAIN list
  PROVE  /\ Without(list, v) \in Lists
         /\ DOMAIN Without(list, v) = DOMAIN list \ {v}
         /\ \A x \in DOMAIN list \ {v} : Without(list, v)[x] = list[x]
         /\ Cardinality(DOMAIN Without(list, v)) = Cardinality(DOMAIN list) - 1
<1> DEFINE new == Without(list, v)
<1>1. /\ DOMAIN new = DOMAIN list \ {v}
      /\ \A x \in DOMAIN list \ {v} : new[x] = list[x]
      /\ new = [x \in DOMAIN new |-> new[x]]
  BY DEF Without
<1>2. /\ DOMAIN list \subseteq Id /\ IsFiniteSet(DOMAIN list) /\ Cardinality(DOMAIN list) \in Nat
      /\ \A x \in DOMAIN list : list[x] \in Int
  BY ListFacts
<1> HIDE DEF new
<1>3. new \in [DOMAIN list \ {v} -> Int] /\ DOMAIN list \ {v} \in SUBSET Id
  BY <1>1, <1>2
<1>4. new \in Lists
  BY <1>3 DEF Lists
<1>5. Cardinality(DOMAIN list \ {v}) = Cardinality(DOMAIN list) - 1
  BY <1>2, FS_RemoveElement
<1> QED BY <1>1, <1>4, <1>5 DEF new

-----------------------------------------------------------------------------
(* One list is changed and counted: the graph stays proper.                 *)
LEMMA SetListKeeps ==
  ASSUME DynGraphAssumption, NEW G, GraphInv(G), NEW u \in Id, NEW list \in Lists,
         u \notin DOMAIN list, NEW added \in Int,
         Cardinality(DOMAIN list) = Cardinality(DOMAIN G.nb[u]) + added
  PROVE  LET H == SetList(G, u, list, added)
         IN  /\ GraphInv(H) /\ SameBut(G, H)
             /\ H.nb[u] = list /\ \A x \in Id \ {u} : H.nb[x] = G.nb[x]
<1> DEFINE H == SetList(G, u, list, added)
           nb == [G.nb EXCEPT ![u] = list]
<1>0. SUFFICES /\ GraphInv(H) /\ SameBut(G, H)
               /\ H.nb[u] = list /\ \A x \in Id \ {u} : H.nb[x] = G.nb[x]
  OBVIOUS
<1>1. /\ G \in Graphs /\ G.nb \in [Id -> Lists] /\ G.m \in Int
      /\ G.m = SumFunctionOnSet(Sizes(G.nb), Id) /\ G.gw = SumFunctionOnSet(G.vw, Id)
      /\ \A v \in Id : v \notin DOMAIN G.nb[v]
  BY DEF GraphInv, Graphs
<1>2. H = [G EXCEPT !.nb = nb, !.m = G.m + added]
  BY <1>1 DEF SetList, Graphs
<1>3. nb \in [Id -> Lists] /\ nb[u] = list /\ \A x \in Id \ {u} : nb[x] = G.nb[x]
  BY <1>1
<1> HIDE DEF H, nb
<1>4. H \in Graphs /\ H.nb = nb /\ H.m = G.m + added /\ SameBut(G, H)
  <2>1. H.nb = nb /\ H.m = G.m + added /\ SameBut(G, H)
    BY <1>1, <1>2 DEF Graphs, SameBut
  <2>2. G.m + added \in Int
    BY <1>1
  <2>3. H \in Graphs
    BY <1>1, <1>2, <1>3, <2>2 DEF Graphs
  <2> QED BY <2>1, <2>3
<1>5. \A x \in Id : /\ Sizes(G.nb)[x] = Cardinality(DOMAIN G.nb[x]) /\ Sizes(G.nb)[x] \in Int
                    /\ Sizes(nb)[x] = Cardinality(DOMAIN nb[x]) /\ Sizes(nb)[x] \in Int
  BY <1>1, <1>3, ListFacts DEF Sizes
<1>6. \A x \in Id \ {u} : Sizes(G.nb)[x] = Sizes(nb)[x]
  BY <1>3, <1>5
<1>7. SumFunctionOnSet(Sizes(nb), Id)
        = SumFunctionOnSet(Sizes(G.nb), Id) - Sizes(G.nb)[u] + Sizes(nb)[u]
  BY <1>5, <1>6, IdIsFinite, SumUpdate
<1>8. Sizes(nb)[u] = Sizes(G.nb)[u] + added
  BY <1>3, <1>5
<1>9. H.m = SumFunctionOnSet(Sizes(nb), Id)
  BY <1>1, <1>4, <1>5, <1>7, <1>8
<1> QED BY <1>1, <1>3, <1>4, <1>9 DEF GraphInv, SameBut

(* The graph stays proper, and of all entries only that of v at u changes.  *)
OnlyEntry(G, H, u, v) ==
  /\ GraphInv(H) /\ SameBut(G, H)
  /\ \A x \in Id \ {u} : H.nb[x] = G.nb[x]
  /\ \A x \in Id \ {v} : /\ EdgeExists(H, u, x) <=> EdgeExists(G, u, x)
                         /\ EdgeExists(G, u, x) => H.nb[u][x] = G.nb[u][x]

LEMMA ListsOfGraph ==
  ASSUME DynGraphAssumption, NEW G, GraphInv(G), NEW u \in Id
  PROVE  /\ G.nb[u] \in Lists /\ u \notin DOMAIN G.nb[u] /\ DOMAIN G.nb[u] \subseteq Id
         /\ Cardinality(DOMAIN G.nb[u]) \in Nat /\ \A x \in DOMAIN G.nb[u] : G.nb[u][x] \in Int
<1>1. G.nb[u] \in Lists /\ u \notin DOMAIN G.nb[u]
  BY DEF GraphInv, Graphs
<1> QED BY <1>1, ListFacts

LEMMA EntryPut ==
  ASSUME DynGraphAssumption, NEW G, GraphInv(G), NEW u \in Id, NEW v \in Id, u # v, NEW w \in Int
  PROVE  LET H == SetList(G, u, With(G.nb[u], v, w), IF EdgeExists(G, u, v) THEN 0 ELSE 1)
         IN  OnlyEntry(G, H, u, v) /\ EdgeExists(H, u, v) /\ H.nb[u][v] = w
<1> DEFINE list == With(G.nb[u], v, w)
           added == IF EdgeExists(G, u, v) THEN 0 ELSE 1
           H == SetList(G, u, list, added)
<1>1. /\ G.nb[u] \in Lists /\ u \notin DOMAIN G.nb[u] /\ Cardinality(DOMAIN G.nb[u]) \in Nat
  BY ListsOfGraph
<1>2. /\ list \in Lists /\ DOMAIN list = DOMAIN G.nb[u] \cup {v}
      /\ \A x \in DOMAIN G.nb[u] \cup {v} : list[x] = IF x = v THEN w ELSE G.nb[u][x]
      /\ Cardinality(DOMAIN list) = Cardinality(DOMAIN G.nb[u]) + added
      /\ added \in Int
  <2>1. /\ list \in Lists /\ DOMAIN list = DOMAIN G.nb[u] \cup {v}
        /\ \A x \in DOMAIN G.nb[u] \cup {v} : list[x] = IF x = v THEN w ELSE G.nb[u][x]
        /\ Cardinality(DOMAIN list)
             = Cardinality(DOMAIN G.nb[u]) + (IF v \in DOMAIN G.nb[u] THEN 0 ELSE 1)
    <3>1. PICK before \in Lists : before = G.nb[u]
      BY <1>1
    <3>2. /\ With(before, v, w) \in Lists
          /\ DOMAIN With(before, v, w) = DOMAIN before \cup {v}
          /\ \A x \in DOMAIN before \cup {v} : With(before, v, w)[x] = IF x = v THEN w ELSE before[x]
          /\ Cardinality(DOMAIN With(before, v, w))
               = Cardinality(DOMAIN before) + (IF v \in DOMAIN before THEN 0 ELSE 1)
      BY WithFacts
    <3> QED BY <3>1, <3>2
  <2>2. added = (IF v \in DOMAIN G.nb[u] THEN 0 ELSE 1)
    BY DEF EdgeExists
  <2> HIDE DEF list, added
  <2> QED BY <2>1, <2>2
<1> HIDE DEF list, added
<1>3. u \notin DOMAIN list
  BY <1>1, <1>2
<1>4. /\ GraphInv(H) /\ SameBut(G, H) /\ H.nb[u] = list /\ \A x \in Id \ {u} : H.nb[x] = G.nb[x]
  BY <1>2, <1>3, SetListKeeps
<1> HIDE DEF H
<1>5. OnlyEntry(G, H, u, v) /\ EdgeExists(H, u, v) /\ H.nb[u][v] = w
  BY <1>2, <1>4 DEF OnlyEntry, EdgeExists
<1> QED BY <1>5 DEF H, list, added

LEMMA DropArcKeeps ==
  ASSUME DynGraphAssumption, NEW G, GraphInv(G), NEW u \in Id, NEW v \in Id
  PROVE  LET H == DropArc(G, u, v) IN OnlyEntry(G, H, u, v) /\ ~ EdgeExists(H, u, v)
<1> DEFINE H == DropArc(G, u, v)
<1>1. CASE EdgeExists(G, u, v)
  <2> DEFINE list == Without(G.nb[u], v)
             J == SetList(G, u, list, -1)
  <2>1. /\ G.nb[u] \in Lists /\ u \notin DOMAIN G.nb[u] /\ Cardinality(DOMAIN G.nb[u]) \in Nat
    BY ListsOfGraph
  <2>2. /\ list \in Lists /\ DOMAIN list = DOMAIN G.nb[u] \ {v}
        /\ \A x \in DOMAIN G.nb[u] \ {v} : list[x] = G.nb[u][x]
        /\ Cardinality(DOMAIN list) = Cardinality(DOMAIN G.nb[u]) - 1
    BY <1>1, <2>1, WithoutFacts DEF EdgeExists
  <2> HIDE DEF list
  <2>3. u \notin DOMAIN list /\ -1 \in Int
        /\ Cardinality(DOMAIN list) = Cardinality(DOMAIN G.nb[u]) + (-1)
    BY <2>1, <2>2
  <2>4. /\ GraphInv(J) /\ SameBut(G, J) /\ J.nb[u] = list /\ \A x \in Id \ {u} : J.nb[x] = G.nb[x]
    BY <2>2, <2>3, SetListKeeps
  <2> HIDE DEF J
  <2>5. OnlyEntry(G, J, u, v) /\ ~ EdgeExists(J, u, v)
    BY <2>2, <2>4 DEF OnlyEntry, EdgeExists
  <2>6. H = J
    BY <1>1 DEF DropArc, J, list
  <2> QED BY <2>5, <2>6
<1>2. CASE ~ EdgeExists(G, u, v)
  BY <1>2 DEF DropArc, OnlyEntry, SameBut
<1> QED BY <1>1, <1>2

LEMMA AddArcKeeps ==
  ASSUME DynGraphAssumption, NEW G, GraphInv(G), NEW u \in Id, NEW v \in Id, u # v, NEW w \in Int
  PROVE  LET H == AddArc(G, u, v, w)
         IN  /\ OnlyEntry(G, H, u, v) /\ EdgeExists(H, u, v)
             /\ H.nb[u][v] = IF EdgeExists(G, u, v) THEN G.nb[u][v] + w ELSE w
<1> DEFINE weight == IF EdgeExists(G, u, v) THEN G.nb[u][v] + w ELSE w
           H == AddArc(G, u, v, w)
           J == SetList(G, u, With(G.nb[u], v, weight), IF EdgeExists(G, u, v) THEN 0 ELSE 1)
<1>1. weight \in Int
  BY ListsOfGraph DEF EdgeExists
<1>2. H = J
  BY DEF AddArc
<1> HIDE DEF weight
<1>3. OnlyEntry(G, J, u, v) /\ EdgeExists(J, u, v) /\ J.nb[u][v] = weight
  BY <1>1, EntryPut
<1> HIDE DEF H, J
<1>4. OnlyEntry(G, H, u, v) /\ EdgeExists(H, u, v) /\ H.nb[u][v] = weight
  BY <1>2, <1>3
<1> QED BY <1>4 DEF H, weight

LEMMA LowerArcKeeps ==
  ASSUME DynGraphAssumption, NEW G, GraphInv(G), NEW u \in Id, NEW v \in Id, u # v, NEW w \in Int
  PROVE  LET H == LowerArc(G, u, v, w)
         IN  /\ OnlyEntry(G, H, u, v)
             /\ EdgeExists(H, u, v) <=> EdgeExists(G, u, v) /\ G.nb[u][v] # w
             /\ EdgeExists(H, u, v) => H.nb[u][v] = G.nb[u][v] - w
<1> DEFINE H == LowerArc(G, u, v, w)
<1>1. CASE ~ EdgeExists(G, u, v)
  BY <1>1 DEF LowerArc, OnlyEntry, SameBut
<1>2. CASE EdgeExists(G, u, v) /\ G.nb[u][v] = w
  <2>1. H = DropArc(G, u, v)
    BY <1>2 DEF LowerArc
  <2>2. OnlyEntry(G, DropArc(G, u, v), u, v) /\ ~ EdgeExists(DropArc(G, u, v), u, v)
    BY DropArcKeeps
  <2> HIDE DEF H
  <2>3. OnlyEntry(G, H, u, v) /\ ~ EdgeExists(H, u, v)
    BY <2>1, <2>2
  <2> QED BY <1>2, <2>3 DEF H
<1>3. CASE EdgeExists(G, u, v) /\ G.nb[u][v] # w
  <2> DEFINE weight == G.nb[u][v] - w
             J == SetList(G, u, With(G.nb[u], v, weight), IF EdgeExists(G, u, v) THEN 0 ELSE 1)
  <2>1. weight \in Int
    BY <1>3, ListsOfGraph DEF EdgeExists
  <2>2. H = J
    BY <1>3 DEF LowerArc
  <2> HIDE DEF weight
  <2>3. OnlyEntry(G, J, u, v) /\ EdgeExists(J, u, v) /\ J.nb[u][v] = weight
    BY <2>1, EntryPut
  <2> HIDE DEF H, J
  <2>4. OnlyEntry(G, H, u, v) /\ EdgeExists(H, u, v) /\ H.nb[u][v] = weight
    BY <2>2, <2>3
  <2> QED BY <1>3, <2>4 DEF H, weight
<1> QED BY <1>1, <1>2, <1>3

LEMMA SetArcKeeps ==
  ASSUME DynGraphAssumption, NEW G, GraphInv(G), NEW u \in Id, NEW v \in Id, u # v, NEW w \in Int
  PROVE  LET H == SetArc(G, u, v, w)
         IN  /\ OnlyEntry(G, H, u, v)
             /\ EdgeExists(H, u, v) <=> EdgeExists(G, u, v)
             /\ EdgeExists(H, u, v) => H.nb[u][v] = w
<1> DEFINE H == SetArc(G, u, v, w)
<1>1. CASE ~ EdgeExists(G, u, v)
  BY <1>1 DEF SetArc, OnlyEntry, SameBut
<1>2. CASE EdgeExists(G, u, v)
  <2> DEFINE J == SetList(G, u, With(G.nb[u], v, w), IF EdgeExists(G, u, v) THEN 0 ELSE 1)
  <2>1. H = J
    BY <1>2 DEF SetArc
  <2>2. OnlyEntry(G, J, u, v) /\ EdgeExists(J, u, v) /\ J.nb[u][v] = w
    BY EntryPut
  <2> HIDE DEF H, J
  <2>3. OnlyEntry(G, H, u, v) /\ EdgeExists(H, u, v) /\ H.nb[u][v] = w
    BY <2>1, <2>2
  <2> QED BY <1>2, <2>3 DEF H
<1> QED BY <1>1, <1>2

-----------------------------------------------------------------------------
LEMMA MarkDirtyKeeps ==
  ASSUME NEW G, GraphInv(G), NEW S \in SUBSET Id
  PROVE  LET H == MarkDirty(G, S)
         IN  /\ GraphInv(H) /\ H.n = G.n /\ H.vw = G.vw /\ H.nb = G.nb
             /\ H.dirty = G.dirty \cup S /\ H.dirtyP = G.dirtyP \cup S
<1> DEFINE H == MarkDirty(G, S)
<1>1. G \in Graphs /\ G.dirty \in SUBSET Id /\ G.dirtyP \in SUBSET Id
  BY DEF GraphInv, Graphs
<1>2. H = [G EXCEPT !.dirty = G.dirty \cup S, !.dirtyP = G.dirtyP \cup S]
  BY <1>1 DEF MarkDirty, Graphs
<1>3. G.dirty \cup S \in SUBSET Id /\ G.dirtyP \cup S \in SUBSET Id
  BY <1>1
<1> HIDE DEF H
<1>4. /\ H.n = G.n /\ H.m = G.m /\ H.gw = G.gw /\ H.vw = G.vw /\ H.nb = G.nb
      /\ H.dirty = G.dirty \cup S /\ H.dirtyP = G.dirtyP \cup S
  BY <1>1, <1>2 DEF Graphs
<1>5. H \in Graphs
  BY <1>1, <1>2, <1>3 DEF Graphs
<1>6. GraphInv(H)
  BY <1>4, <1>5 DEF GraphInv
<1> QED BY <1>4, <1>6 DEF H

(* What a command of some kind must show.                                   *)
Keeps(G, H, S) == GraphInv(H) /\ SymmetricBut(H, S) /\ ChangesMarked(G, H)

Reweighed(G, v, w, n, new) ==
  [G EXCEPT !.n = n, !.new = new, !.gw = G.gw - G.vw[v] + w, !.vw = [G.vw EXCEPT ![v] = w]]

OnlyWeight(G, H, v, S) ==
  Keeps(G, H, S) /\ H.nb = G.nb /\ \A x \in Id \ {v} : H.vw[x] = G.vw[x]

LEMMA WeightKeeps ==
  ASSUME DynGraphAssumption, NEW G, GraphInv(G), NEW S, SymmetricBut(G, S),
         NEW v \in Id, NEW w \in Nat, NEW n \in 0 .. MaxN, NEW new \in Seq(Id)
  PROVE  OnlyWeight(G, MarkDirty(Reweighed(G, v, w, n, new), {v}), v, S)
<1> DEFINE vw == [G.vw EXCEPT ![v] = w]
           H == Reweighed(G, v, w, n, new)
           J == MarkDirty(H, {v})
<1>1. G \in Graphs /\ G.vw \in [Id -> Nat] /\ G.gw \in Int
  BY DEF GraphInv, Graphs
<1>2. vw \in [Id -> Nat] /\ vw[v] = w /\ \A x \in Id \ {v} : vw[x] = G.vw[x]
  BY <1>1
<1>3. H = [G EXCEPT !.n = n, !.new = new, !.gw = G.gw - G.vw[v] + w, !.vw = vw]
  BY DEF Reweighed
<1> HIDE DEF vw, H, J
<1>4. H.n = n /\ H.m = G.m /\ H.gw = G.gw - G.vw[v] + w /\ H.vw = vw /\ H.nb = G.nb
  BY <1>1, <1>3 DEF Graphs
<1>5. H \in Graphs
  <2>1. G.gw - G.vw[v] + w \in Int
    BY <1>1
  <2> QED BY <1>1, <1>2, <1>3, <2>1 DEF Graphs
<1>6. H.gw = SumFunctionOnSet(vw, Id)
  <2>1. \A x \in Id : G.vw[x] \in Int /\ vw[x] \in Int
    BY <1>1, <1>2
  <2>2. \A x \in Id \ {v} : G.vw[x] = vw[x]
    BY <1>2
  <2>3. IsFiniteSet(Id)
    BY IdIsFinite
  <2>4. PICK old : old = G.vw
    OBVIOUS
  <2>5. SumFunctionOnSet(vw, Id) = SumFunctionOnSet(old, Id) - old[v] + vw[v]
    BY <2>1, <2>2, <2>3, <2>4, SumUpdate
  <2> QED BY <1>2, <1>4, <2>4, <2>5 DEF GraphInv
<1>7. GraphInv(H)
  BY <1>4, <1>5, <1>6 DEF GraphInv
<1>8. /\ GraphInv(J) /\ J.n = n /\ J.vw = vw /\ J.nb = G.nb
      /\ J.dirty = H.dirty \cup {v} /\ J.dirtyP = H.dirtyP \cup {v}
  <2>1. {v} \in SUBSET Id
    OBVIOUS
  <2> QED BY <1>4, <1>7, <2>1, MarkDirtyKeeps DEF J
<1>9. SymmetricBut(J, S) /\ ChangesMarked(G, J)
  BY <1>2, <1>8 DEF SymmetricBut, Agree, EdgeExists, ChangesMarked
<1> QED BY <1>2, <1>8, <1>9 DEF Keeps, OnlyWeight, H, J

LEMMA AddVertexKeeps ==
  ASSUME DynGraphAssumption, NEW G, GraphInv(G), NEW S, SymmetricBut(G, S),
         NEW v \in Id, NEW w \in Nat
  PROVE  OnlyWeight(G, AddVertex(G, v, w), v, S)
<1> DEFINE n == IF v < G.n THEN G.n ELSE v + 1
           new == IF v < G.n THEN G.new ELSE Append(G.new, v)
           sum == G.vw[v] + w
           H == Reweighed(G, v, sum, n, new)
<1>1. /\ G \in Graphs /\ G.vw \in [Id -> Nat] /\ G.gw \in Int /\ G.n \in 0 .. MaxN
      /\ G.new \in Seq(Id) /\ MaxN \in Nat /\ v \in 0 .. MaxN - 1
  BY IdIsFinite DEF GraphInv, Graphs, Id
<1>2. n \in 0 .. MaxN /\ new \in Seq(Id) /\ sum \in Nat /\ G.gw + w = G.gw - G.vw[v] + sum
  BY <1>1
<1>3. AddVertex(G, v, w) = MarkDirty(H, {v})
  <2>1. CASE v < G.n
    BY <1>1, <1>2, <2>1 DEF AddVertex, Reweighed, Graphs
  <2>2. CASE ~ (v < G.n)
    BY <1>1, <1>2, <2>2 DEF AddVertex, Reweighed, Graphs
  <2> QED BY <2>1, <2>2
<1> HIDE DEF n, new, sum
<1> HIDE DEF H
<1>4. PICK n1 \in 0 .. MaxN, new1 \in Seq(Id), sum1 \in Nat : H = Reweighed(G, v, sum1, n1, new1)
  BY <1>2 DEF H
<1>5. OnlyWeight(G, MarkDirty(Reweighed(G, v, sum1, n1, new1), {v}), v, S)
  BY WeightKeeps
<1> QED BY <1>3, <1>4, <1>5

LEMMA SetVertexWeightKeeps ==
  ASSUME DynGraphAssumption, NEW G, GraphInv(G), NEW S, SymmetricBut(G, S),
         NEW v \in Id, NEW w \in Nat
  PROVE  Keeps(G, SetVertexWeight(G, v, w), S)
<1>1. CASE ~ Exists(G, v)
  BY <1>1, AddVertexKeeps DEF SetVertexWeight, OnlyWeight
<1>2. CASE Exists(G, v)
  <2> DEFINE H == Reweighed(G, v, w, G.n, G.new)
  <2>1. G \in Graphs /\ G.n \in 0 .. MaxN /\ G.new \in Seq(Id) /\ G.gw \in Int
    BY DEF GraphInv, Graphs
  <2>2. SetVertexWeight(G, v, w) = MarkDirty(H, {v})
    BY <1>2, <2>1 DEF SetVertexWeight, Reweighed, Graphs
  <2>3. Keeps(G, MarkDirty(H, {v}), S)
    BY <2>1, WeightKeeps DEF OnlyWeight
  <2> HIDE DEF H
  <2> QED BY <2>2, <2>3
<1> QED BY <1>1, <1>2

-----------------------------------------------------------------------------
(* A change of both entries of one edge.                                    *)
LEMMA TwoEntries ==
  ASSUME NEW G, GraphInv(G), NEW S, SymmetricBut(G, S), NEW u \in Id, NEW v \in Id, u # v,
         NEW H, OnlyEntry(G, H, u, v), NEW J, OnlyEntry(H, J, v, u),
         u \in S \/ v \in S \/ Agree(J, u, v)
  PROVE  GraphInv(J) /\ SymmetricBut(J, S) /\ SameBut(G, J) /\ \A x \in Id \ {u, v} : J.nb[x] = G.nb[x]
<1>1. GraphInv(J) /\ SameBut(G, J)
  BY DEF OnlyEntry, SameBut
<1>2. /\ \A x \in Id \ {u, v} : J.nb[x] = G.nb[x]
      /\ J.nb[u] = H.nb[u] /\ H.nb[v] = G.nb[v]
  BY DEF OnlyEntry
<1>3. ASSUME NEW a \in Id, NEW b \in Id, {a, b} # {u, v}
      PROVE  /\ EdgeExists(J, a, b) <=> EdgeExists(G, a, b)
             /\ EdgeExists(G, a, b) => J.nb[a][b] = G.nb[a][b]
  <2>1. CASE a = u
    <3>1. b # v
      BY <1>3, <2>1
    <3> QED BY <1>2, <2>1, <3>1 DEF OnlyEntry, EdgeExists
  <2>2. CASE a = v
    <3>1. b # u
      BY <1>3, <2>2
    <3> QED BY <1>2, <2>2, <3>1 DEF OnlyEntry, EdgeExists
  <2>3. CASE a \notin {u, v}
    BY <1>2, <2>3 DEF EdgeExists
  <2> QED BY <2>1, <2>2, <2>3
<1>4. ASSUME NEW a \in Id \ S, NEW b \in Id \ S PROVE Agree(J, a, b)
  <2>1. CASE {a, b} = {u, v}
    <3>1. Agree(J, u, v)
      BY <1>4, <2>1
    <3>2. (a = u /\ b = v) \/ (a = v /\ b = u)
      BY <2>1
    <3> QED BY <3>1, <3>2 DEF Agree
  <2>2. CASE {a, b} # {u, v}
    <3>1. Agree(G, a, b)
      BY <1>4 DEF SymmetricBut
    <3>2. {b, a} # {u, v}
      BY <2>2
    <3> QED BY <1>3, <2>2, <3>1, <3>2 DEF Agree
  <2> QED BY <2>1, <2>2
<1> QED BY <1>1, <1>2, <1>4 DEF SymmetricBut

LEMMA EdgeMarked ==
  ASSUME NEW G, NEW S, NEW u \in Id, NEW v \in Id, NEW J, GraphInv(J), SymmetricBut(J, S),
         \A x \in Id \ {u, v} : J.nb[x] = G.nb[x] /\ J.vw[x] = G.vw[x]
  PROVE  Keeps(G, MarkDirty(J, {u, v}), S)
<1> DEFINE K2 == MarkDirty(J, {u, v})
<1>1. /\ GraphInv(K2) /\ K2.vw = J.vw /\ K2.nb = J.nb
      /\ K2.dirty = J.dirty \cup {u, v} /\ K2.dirtyP = J.dirtyP \cup {u, v}
  <2>1. {u, v} \in SUBSET Id
    OBVIOUS
  <2> QED BY <2>1, MarkDirtyKeeps
<1> HIDE DEF K2
<1>2. SymmetricBut(K2, S) /\ ChangesMarked(G, K2)
  BY <1>1 DEF SymmetricBut, Agree, EdgeExists, ChangesMarked
<1> QED BY <1>1, <1>2 DEF Keeps, K2

LEMMA EnsureKeeps ==
  ASSUME DynGraphAssumption, NEW G, GraphInv(G), NEW S, SymmetricBut(G, S), NEW v \in Id
  PROVE  LET H == Ensure(G, v)
         IN  /\ GraphInv(H) /\ SymmetricBut(H, S) /\ H.nb = G.nb
             /\ \A x \in Id \ {v} : H.vw[x] = G.vw[x]
<1>1. CASE Exists(G, v)
  BY <1>1 DEF Ensure
<1>2. CASE ~ Exists(G, v)
  <2>1. OnlyWeight(G, AddVertex(G, v, 1), v, S)
    BY AddVertexKeeps
  <2>2. Ensure(G, v) = AddVertex(G, v, 1)
    BY <1>2 DEF Ensure
  <2> QED BY <2>1, <2>2 DEF OnlyWeight, Keeps
<1> QED BY <1>1, <1>2

LEMMA AddEdgeKeeps ==
  ASSUME DynGraphAssumption, NEW G, GraphInv(G), NEW S, SymmetricBut(G, S),
         NEW u \in Id, NEW v \in Id, u # v, NEW w \in Nat
  PROVE  Keeps(G, AddEdge(G, u, v, w), S)
<1> DEFINE A == Ensure(G, u)
           B == Ensure(A, v)
           H == AddArc(B, u, v, w)
           J == AddArc(H, v, u, w)
<1>1. GraphInv(A) /\ SymmetricBut(A, S) /\ A.nb = G.nb /\ \A x \in Id \ {u} : A.vw[x] = G.vw[x]
  BY EnsureKeeps
<1> HIDE DEF A
<1>2. GraphInv(B) /\ SymmetricBut(B, S) /\ B.nb = A.nb /\ \A x \in Id \ {v} : B.vw[x] = A.vw[x]
  BY <1>1, EnsureKeeps
<1> HIDE DEF B
<1>3. /\ OnlyEntry(B, H, u, v) /\ EdgeExists(H, u, v)
      /\ H.nb[u][v] = IF EdgeExists(B, u, v) THEN B.nb[u][v] + w ELSE w
  BY <1>2, AddArcKeeps
<1> HIDE DEF H
<1>4. /\ OnlyEntry(H, J, v, u) /\ EdgeExists(J, v, u)
      /\ J.nb[v][u] = IF EdgeExists(H, v, u) THEN H.nb[v][u] + w ELSE w
  <2>1. GraphInv(H)
    BY <1>3 DEF OnlyEntry
  <2> QED BY <2>1, AddArcKeeps
<1> HIDE DEF J
<1>5. J.nb[u] = H.nb[u] /\ H.nb[v] = B.nb[v]
  BY <1>3, <1>4 DEF OnlyEntry
<1>6. u \in S \/ v \in S \/ Agree(J, u, v)
  <2>1. SUFFICES ASSUME u \notin S, v \notin S PROVE Agree(J, u, v)
    OBVIOUS
  <2>2. Agree(B, u, v)
    BY <1>2, <2>1 DEF SymmetricBut
  <2> QED BY <1>3, <1>4, <1>5, <2>2 DEF Agree, EdgeExists
<1>7. /\ GraphInv(J) /\ SymmetricBut(J, S) /\ SameBut(B, J)
      /\ \A x \in Id \ {u, v} : J.nb[x] = B.nb[x]
  BY <1>2, <1>3, <1>4, <1>6, TwoEntries
<1>8. \A x \in Id \ {u, v} : J.nb[x] = G.nb[x] /\ J.vw[x] = G.vw[x]
  BY <1>1, <1>2, <1>7 DEF SameBut
<1>9. Keeps(G, MarkDirty(J, {u, v}), S)
  BY <1>7, <1>8, EdgeMarked
<1> QED BY <1>9 DEF AddEdge, A, B, H, J

LEMMA RemoveEdgeKeeps ==
  ASSUME DynGraphAssumption, NEW G, GraphInv(G), NEW S, SymmetricBut(G, S),
         NEW u \in Id, NEW v \in Id, u # v
  PROVE  Keeps(G, RemoveEdge(G, u, v), S)
<1> DEFINE H == DropArc(G, u, v)
           J == DropArc(H, v, u)
<1>1. OnlyEntry(G, H, u, v) /\ ~ EdgeExists(H, u, v)
  BY DropArcKeeps
<1> HIDE DEF H
<1>2. OnlyEntry(H, J, v, u) /\ ~ EdgeExists(J, v, u)
  <2>1. GraphInv(H)
    BY <1>1 DEF OnlyEntry
  <2> QED BY <2>1, DropArcKeeps
<1> HIDE DEF J
<1>3. Agree(J, u, v)
  BY <1>1, <1>2 DEF Agree, EdgeExists, OnlyEntry
<1>4. /\ GraphInv(J) /\ SymmetricBut(J, S) /\ SameBut(G, J)
      /\ \A x \in Id \ {u, v} : J.nb[x] = G.nb[x]
  BY <1>1, <1>2, <1>3, TwoEntries
<1>5. Keeps(G, MarkDirty(J, {u, v}), S)
  BY <1>4, EdgeMarked DEF SameBut
<1>6. Keeps(G, G, S)
  BY DEF Keeps, ChangesMarked
<1> QED BY <1>5, <1>6 DEF RemoveEdge, H, J

LEMMA RemoveEdgeWeightKeeps ==
  ASSUME DynGraphAssumption, NEW G, GraphInv(G), NEW S, SymmetricBut(G, S),
         NEW u \in Id, NEW v \in Id, u # v, NEW w \in Nat
  PROVE  Keeps(G, RemoveEdgeWeight(G, u, v, w), S)
<1> DEFINE H == LowerArc(G, u, v, w)
           J == LowerArc(H, v, u, w)
<1>1. /\ OnlyEntry(G, H, u, v)
      /\ EdgeExists(H, u, v) <=> EdgeExists(G, u, v) /\ G.nb[u][v] # w
      /\ EdgeExists(H, u, v) => H.nb[u][v] = G.nb[u][v] - w
  BY LowerArcKeeps
<1> HIDE DEF H
<1>2. /\ OnlyEntry(H, J, v, u)
      /\ EdgeExists(J, v, u) <=> EdgeExists(H, v, u) /\ H.nb[v][u] # w
      /\ EdgeExists(J, v, u) => J.nb[v][u] = H.nb[v][u] - w
  <2>1. GraphInv(H)
    BY <1>1 DEF OnlyEntry
  <2> QED BY <2>1, LowerArcKeeps
<1> HIDE DEF J
<1>3. J.nb[u] = H.nb[u] /\ H.nb[v] = G.nb[v]
  BY <1>1, <1>2 DEF OnlyEntry
<1>4. u \in S \/ v \in S \/ Agree(J, u, v)
  <2>1. SUFFICES ASSUME u \notin S, v \notin S PROVE Agree(J, u, v)
    OBVIOUS
  <2>2. Agree(G, u, v)
    BY <2>1 DEF SymmetricBut
  <2> QED BY <1>1, <1>2, <1>3, <2>2 DEF Agree, EdgeExists
<1>5. /\ GraphInv(J) /\ SymmetricBut(J, S) /\ SameBut(G, J)
      /\ \A x \in Id \ {u, v} : J.nb[x] = G.nb[x]
  BY <1>1, <1>2, <1>4, TwoEntries
<1>6. Keeps(G, MarkDirty(J, {u, v}), S)
  BY <1>5, EdgeMarked DEF SameBut
<1>7. Keeps(G, G, S)
  BY DEF Keeps, ChangesMarked
<1> QED BY <1>6, <1>7 DEF RemoveEdgeWeight, H, J

LEMMA SetEdgeWeightKeeps ==
  ASSUME DynGraphAssumption, NEW G, GraphInv(G), NEW S, SymmetricBut(G, S),
         NEW u \in Id, NEW v \in Id, u # v, NEW w \in Nat
  PROVE  Keeps(G, SetEdgeWeight(G, u, v, w), S)
<1>1. CASE ~ EdgeExists(G, u, v)
  BY <1>1, AddEdgeKeeps DEF SetEdgeWeight
<1>2. CASE EdgeExists(G, u, v)
  <2> DEFINE H == SetArc(G, u, v, w)
             J == SetArc(H, v, u, w)
  <2>1. /\ OnlyEntry(G, H, u, v)
        /\ EdgeExists(H, u, v) <=> EdgeExists(G, u, v)
        /\ EdgeExists(H, u, v) => H.nb[u][v] = w
    BY SetArcKeeps
  <2> HIDE DEF H
  <2>2. /\ OnlyEntry(H, J, v, u)
        /\ EdgeExists(J, v, u) <=> EdgeExists(H, v, u)
        /\ EdgeExists(J, v, u) => J.nb[v][u] = w
    <3>1. GraphInv(H)
      BY <2>1 DEF OnlyEntry
    <3> QED BY <3>1, SetArcKeeps
  <2> HIDE DEF J
  <2>3. J.nb[u] = H.nb[u] /\ H.nb[v] = G.nb[v]
    BY <2>1, <2>2 DEF OnlyEntry
  <2>4. u \in S \/ v \in S \/ Agree(J, u, v)
    <3>1. SUFFICES ASSUME u \notin S, v \notin S PROVE Agree(J, u, v)
      OBVIOUS
    <3>2. Agree(G, u, v)
      BY <3>1 DEF SymmetricBut
    <3> QED BY <2>1, <2>2, <2>3, <3>2 DEF Agree, EdgeExists
  <2>5. /\ GraphInv(J) /\ SymmetricBut(J, S) /\ SameBut(G, J)
        /\ \A x \in Id \ {u, v} : J.nb[x] = G.nb[x]
    BY <2>1, <2>2, <2>4, TwoEntries
  <2>6. Keeps(G, MarkDirty(J, {u, v}), S)
    BY <2>5, EdgeMarked DEF SameBut
  <2> QED BY <1>2, <2>6 DEF SetEdgeWeight, H, J
<1> QED BY <1>1, <1>2

-----------------------------------------------------------------------------
(* The removal of a vertex.  A neighbour list may lose the entry of v or    *)
(* change its weight, and nothing else.                                     *)
Shortened(before, list, x, v) ==
  /\ list \in Lists /\ x \notin DOMAIN list
  /\ v \in DOMAIN list => v \in DOMAIN before
  /\ \A y \in Id \ {v} : /\ y \in DOMAIN list <=> y \in DOMAIN before
                         /\ y \in DOMAIN before => list[y] = before[y]

Popped(G, v, lists) == {x \in DOMAIN G.nb[v] : DOMAIN lists[x] # DOMAIN G.nb[x]}

Left(G, v, lists) ==
  [x \in Id |-> IF x = v THEN NoEdges
                ELSE IF x \in DOMAIN G.nb[v] THEN lists[x] ELSE G.nb[x]]

LEMMA EntryIsShortened ==
  ASSUME DynGraphAssumption, NEW G, GraphInv(G), NEW x \in Id, NEW v \in Id,
         NEW H, OnlyEntry(G, H, x, v), EdgeExists(H, x, v) => EdgeExists(G, x, v)
  PROVE  Shortened(G.nb[x], H.nb[x], x, v)
<1>1. GraphInv(H)
  BY DEF OnlyEntry
<1>2. H.nb[x] \in Lists /\ x \notin DOMAIN H.nb[x]
  BY <1>1, ListsOfGraph
<1> QED BY <1>2 DEF Shortened, OnlyEntry, EdgeExists

LEMMA ShortenedSize ==
  ASSUME DynGraphAssumption, NEW before \in Lists, NEW list, NEW x \in Id, NEW v \in Id,
         Shortened(before, list, x, v)
  PROVE  Cardinality(DOMAIN list) =
           Cardinality(DOMAIN before) - (IF DOMAIN list # DOMAIN before THEN 1 ELSE 0)
<1>1. /\ DOMAIN before \subseteq Id /\ IsFiniteSet(DOMAIN before)
      /\ Cardinality(DOMAIN before) \in Nat /\ DOMAIN list \subseteq Id
  BY ListFacts DEF Shortened
<1>2. CASE DOMAIN list = DOMAIN before
  BY <1>1, <1>2
<1>3. CASE DOMAIN list # DOMAIN before
  <2>1. v \in DOMAIN before /\ DOMAIN list = DOMAIN before \ {v}
    BY <1>1, <1>3 DEF Shortened
  <2>2. Cardinality(DOMAIN before \ {v}) = Cardinality(DOMAIN before) - 1
    BY <1>1, <2>1, FS_RemoveElement
  <2> QED BY <1>3, <2>1, <2>2
<1> QED BY <1>2, <1>3

(* A removed vertex takes its own entries and those that were popped along. *)
LEMMA LeftCount ==
  ASSUME DynGraphAssumption, NEW G, GraphInv(G), NEW v \in Id, NEW lists,
         \A x \in DOMAIN G.nb[v] : Shortened(G.nb[x], lists[x], x, v)
  PROVE  SumFunctionOnSet(Sizes(Left(G, v, lists)), Id)
           = G.m - Cardinality(Popped(G, v, lists)) - Cardinality(DOMAIN G.nb[v])
<1> DEFINE near == DOMAIN G.nb[v]
           popped == Popped(G, v, lists)
           left == Left(G, v, lists)
           before == Sizes(G.nb)
           after == Sizes(left)
           rest == [x \in Id |-> IF x = v THEN 0 ELSE before[x]]
           one == [x \in Id |-> IF x \in popped THEN 1 ELSE 0]
<1>1. /\ near \subseteq Id /\ v \notin near /\ popped \in SUBSET Id /\ v \notin popped
      /\ IsFiniteSet(Id) /\ G.m = SumFunctionOnSet(before, Id)
  BY ListsOfGraph, IdIsFinite DEF Popped, GraphInv
<1>2. \A x \in Id : before[x] = Cardinality(DOMAIN G.nb[x]) /\ before[x] \in Nat
  BY ListsOfGraph DEF Sizes
<1>3. before[v] = Cardinality(near)
  BY <1>2
<1>4. \A x \in Id : after[x] = IF x = v THEN 0 ELSE before[x] - one[x]
  <2>1. SUFFICES ASSUME NEW x \in Id
                 PROVE  after[x] = IF x = v THEN 0 ELSE before[x] - one[x]
    OBVIOUS
  <2>2. after[x] = Cardinality(DOMAIN left[x])
    BY DEF Sizes
  <2>3. CASE x = v
    <3>1. left[x] = NoEdges
      BY <2>3 DEF Left
    <3>2. Cardinality(DOMAIN left[x]) = 0
      BY <3>1, NoEdgesIsEmpty
    <3> QED BY <2>2, <2>3, <3>2
  <2>4. CASE x # v /\ x \in near
    <3>1. left[x] = lists[x]
      BY <2>4 DEF Left
    <3>2. G.nb[x] \in Lists /\ Shortened(G.nb[x], lists[x], x, v)
      BY <2>4, ListsOfGraph
    <3>3. PICK old, list : old = G.nb[x] /\ list = lists[x] /\ old \in Lists
      BY <3>2
    <3>4. Cardinality(DOMAIN list) =
            Cardinality(DOMAIN old) - (IF DOMAIN list # DOMAIN old THEN 1 ELSE 0)
      BY <3>2, <3>3, ShortenedSize
    <3>5. one[x] = IF DOMAIN list # DOMAIN old THEN 1 ELSE 0
      BY <2>4, <3>3 DEF Popped
    <3> HIDE DEF one, left, after
    <3> QED BY <1>2, <2>2, <2>4, <3>1, <3>3, <3>4, <3>5
  <2>5. CASE x # v /\ x \notin near
    <3>1. left[x] = G.nb[x] /\ one[x] = 0
      BY <2>5 DEF Left, Popped
    <3> HIDE DEF one, left, after
    <3> QED BY <1>2, <2>2, <2>5, <3>1
  <2> QED BY <2>3, <2>4, <2>5
<1>5. \A x \in Id : one[x] \in Int /\ one[x] = IF x \in popped THEN 1 ELSE 0
  OBVIOUS
<1>6. \A x \in Id : rest[x] \in Int /\ rest[x] = IF x = v THEN 0 ELSE before[x]
  BY <1>2
<1>7. one[v] = 0
  BY <1>1, <1>5
<1> HIDE DEF near, popped, before, after, rest, one
<1>8. \A x \in Id : before[x] \in Int /\ after[x] \in Int /\ rest[x] = after[x] + one[x]
  BY <1>2, <1>4, <1>5, <1>6, <1>7
<1>9. SumFunctionOnSet(rest, Id) = SumFunctionOnSet(before, Id) - before[v] + rest[v]
  BY <1>1, <1>6, <1>8, SumUpdate
<1>10. SumFunctionOnSet(rest, Id) = SumFunctionOnSet(after, Id) + SumFunctionOnSet(one, Id)
  BY <1>1, <1>5, <1>8, SumPlus
<1>11. SumFunctionOnSet(one, Id) = Cardinality(popped) /\ SumFunctionOnSet(one, Id) \in Int
  BY <1>1, <1>5, SumCounts, SumType
<1>12. SumFunctionOnSet(after, Id) \in Int /\ SumFunctionOnSet(before, Id) \in Int
  BY <1>1, <1>8, SumType
<1>13. rest[v] = 0 /\ before[v] \in Int
  BY <1>6, <1>8
<1>14. SumFunctionOnSet(after, Id) = G.m - Cardinality(popped) - before[v]
  BY <1>1, <1>9, <1>10, <1>11, <1>12, <1>13
<1> QED BY <1>3, <1>14 DEF near, popped, after, left

LEMMA RemoveKeeps ==
  ASSUME DynGraphAssumption, NEW G, GraphInv(G), NEW S, SymmetricBut(G, S), NEW T, S \subseteq T,
         NEW v \in Id, v < G.n, NEW lists,
         \A x \in DOMAIN G.nb[v] : Shortened(G.nb[x], lists[x], x, v),
         v \in T \/ \A x \in DOMAIN G.nb[v] : v \notin DOMAIN lists[x]
  PROVE  Keeps(G, RemoveVertexBy(G, v, lists), T)
<1> DEFINE near == DOMAIN G.nb[v]
           popped == Popped(G, v, lists)
           left == Left(G, v, lists)
           vw == [G.vw EXCEPT ![v] = 0]
           m == G.m - Cardinality(popped) - Cardinality(near)
           H == [G EXCEPT !.gw = G.gw - G.vw[v], !.vw = vw, !.m = m, !.nb = left]
           J == MarkDirty(H, near)
<1>1. /\ G \in Graphs /\ G.vw \in [Id -> Nat] /\ G.gw \in Int /\ G.n \in 0 .. MaxN /\ G.m \in Int
      /\ G.nb \in [Id -> Lists] /\ MaxN \in Nat /\ v \in 0 .. MaxN - 1
  BY IdIsFinite DEF GraphInv, Graphs, Id
<1>2. near \in SUBSET Id /\ v \notin near /\ IsFiniteSet(near) /\ popped \in SUBSET near
  BY ListsOfGraph, ListFacts DEF Popped
<1>3. RemoveVertexBy(G, v, lists) = J
  BY <1>1 DEF RemoveVertexBy, Popped, Left, Graphs
<1>4. m \in Int /\ m = SumFunctionOnSet(Sizes(left), Id)
  <2>1. Cardinality(popped) \in Nat /\ Cardinality(near) \in Nat
    BY <1>2, FS_Subset, FS_CardinalityType
  <2>2. SumFunctionOnSet(Sizes(left), Id) = m
    BY LeftCount
  <2> QED BY <1>1, <2>1, <2>2
<1>5. vw \in [Id -> Nat] /\ vw[v] = 0 /\ \A x \in Id \ {v} : vw[x] = G.vw[x]
  BY <1>1
<1>6. G.gw - G.vw[v] \in Int /\ G.gw - G.vw[v] = SumFunctionOnSet(vw, Id)
  <2>1. \A x \in Id : G.vw[x] \in Int /\ vw[x] \in Int
    BY <1>1, <1>5
  <2>2. \A x \in Id \ {v} : G.vw[x] = vw[x]
    BY <1>5
  <2>3. PICK old : old = G.vw
    OBVIOUS
  <2>5. IsFiniteSet(Id)
    BY IdIsFinite
  <2>6. /\ \A x \in Id : old[x] \in Int /\ vw[x] \in Int
        /\ \A x \in Id \ {v} : old[x] = vw[x]
    BY <2>1, <2>2, <2>3
  <2> HIDE DEF vw
  <2>4. SumFunctionOnSet(vw, Id) = SumFunctionOnSet(old, Id) - old[v] + vw[v]
    BY <2>5, <2>6, SumUpdate
  <2> QED BY <1>1, <1>5, <2>3, <2>4 DEF GraphInv
<1>7. /\ left[v] = NoEdges
      /\ \A x \in near : left[x] = lists[x]
      /\ \A x \in Id \ near : x # v => left[x] = G.nb[x]
      /\ left \in [Id -> Lists]
      /\ \A x \in Id : x \notin DOMAIN left[x]
  <2>1. \A x \in Id : left[x] = IF x = v THEN NoEdges ELSE IF x \in near THEN lists[x] ELSE G.nb[x]
    BY DEF Left
  <2>2. left = [x \in Id |-> left[x]]
    BY DEF Left
  <2>3. \A x \in near : lists[x] \in Lists /\ x \notin DOMAIN lists[x]
    BY DEF Shortened
  <2>4. \A x \in Id : G.nb[x] \in Lists /\ x \notin DOMAIN G.nb[x]
    BY ListsOfGraph
  <2> HIDE DEF left, near
  <2> QED BY <1>2, <2>1, <2>2, <2>3, <2>4, NoEdgesIsEmpty
<1> HIDE DEF left, vw, m, popped
<1>8. /\ H.n = G.n /\ H.m = m /\ H.gw = G.gw - G.vw[v] /\ H.vw = vw /\ H.nb = left
      /\ H \in Graphs
  <2>1. /\ H.n = G.n /\ H.m = m /\ H.gw = G.gw - G.vw[v] /\ H.vw = vw /\ H.nb = left
    BY <1>1 DEF Graphs
  <2>2. H \in Graphs
    BY <1>1, <1>4, <1>5, <1>6, <1>7 DEF Graphs
  <2> QED BY <2>1, <2>2
<1> HIDE DEF H
<1>9. GraphInv(H)
  BY <1>4, <1>6, <1>7, <1>8 DEF GraphInv
<1>10. /\ GraphInv(J) /\ J.n = G.n /\ J.vw = vw /\ J.nb = left
       /\ J.dirty = H.dirty \cup near /\ J.dirtyP = H.dirtyP \cup near
  BY <1>2, <1>8, <1>9, MarkDirtyKeeps
<1> HIDE DEF J
<1>11. ASSUME NEW a \in Id \ T, NEW b \in Id \ T PROVE Agree(J, a, b)
  <2>1. \A x \in Id : x \notin DOMAIN left[v]
    BY <1>7, NoEdgesIsEmpty
  <2>2. ASSUME NEW x \in Id \ T, v \notin T PROVE v \notin DOMAIN left[x]
    <3>1. CASE x \in near
      BY <1>7, <2>2, <3>1
    <3>2. CASE x \notin near
      <4>1. Agree(G, v, x)
        BY <2>2 DEF SymmetricBut
      <4> QED BY <1>7, <2>1, <3>2, <4>1 DEF Agree, EdgeExists
    <3> QED BY <3>1, <3>2
  <2>3. ASSUME NEW x \in Id \ {v}, NEW y \in Id \ {v}
        PROVE  /\ y \in DOMAIN left[x] <=> y \in DOMAIN G.nb[x]
               /\ y \in DOMAIN G.nb[x] => left[x][y] = G.nb[x][y]
    <3>1. CASE x \in near
      <4>1. Shortened(G.nb[x], lists[x], x, v)
        BY <3>1
      <4> QED BY <1>7, <3>1, <4>1 DEF Shortened
    <3>2. CASE x \notin near
      BY <1>7, <3>2
    <3> QED BY <3>1, <3>2
  <2>4. CASE a = v
    BY <1>10, <1>11, <2>1, <2>2, <2>4 DEF Agree, EdgeExists
  <2>5. CASE b = v
    BY <1>10, <1>11, <2>1, <2>2, <2>5 DEF Agree, EdgeExists
  <2>6. CASE a # v /\ b # v
    <3>1. Agree(G, a, b)
      BY DEF SymmetricBut
    <3> QED BY <1>10, <2>3, <2>6, <3>1 DEF Agree, EdgeExists
  <2> QED BY <2>4, <2>5, <2>6
<1>12. ChangesMarked(G, J)
  BY <1>2, <1>5, <1>7, <1>10 DEF ChangesMarked, Exists
<1>13. Keeps(G, J, T)
  BY <1>10, <1>11, <1>12 DEF Keeps, SymmetricBut
<1> QED BY <1>3, <1>13

LEMMA SymmetricMore ==
  ASSUME NEW G, NEW S, SymmetricBut(G, S), NEW T, S \subseteq T
  PROVE  SymmetricBut(G, T)
BY DEF SymmetricBut

LEMMA RemoveVertexKeeps ==
  ASSUME DynGraphAssumption, NEW G, GraphInv(G), NEW S, SymmetricBut(G, S), NEW v \in Id
  PROVE  Keeps(G, RemoveVertex(G, v), S)
<1> DEFINE lists == [x \in Id |-> DropArc(G, x, v).nb[x]]
<1>1. CASE v < G.n
  <2>1. \A x \in DOMAIN G.nb[v] : x \in Id
    BY ListsOfGraph
  <2>2. ASSUME NEW x \in DOMAIN G.nb[v]
        PROVE  Shortened(G.nb[x], lists[x], x, v) /\ v \notin DOMAIN lists[x]
    <3>1. PICK H : H = DropArc(G, x, v)
      OBVIOUS
    <3>2. OnlyEntry(G, H, x, v) /\ ~ EdgeExists(H, x, v)
      BY <2>1, <3>1, DropArcKeeps
    <3>3. lists[x] = H.nb[x]
      BY <2>1, <3>1
    <3>4. Shortened(G.nb[x], H.nb[x], x, v)
      BY <2>1, <3>2, EntryIsShortened
    <3> QED BY <3>2, <3>3, <3>4 DEF EdgeExists
  <2> HIDE DEF lists
  <2>3. Keeps(G, RemoveVertexBy(G, v, lists), S)
    BY <1>1, <2>2, RemoveKeeps
  <2> QED BY <2>3 DEF RemoveVertex, lists
<1>2. CASE ~ (v < G.n)
  <2>1. RemoveVertex(G, v) = G
    <3>1. v \in Nat /\ G.n \in Nat
      BY IdIsFinite DEF GraphInv, Graphs, Id
    <3> QED BY <1>2, <3>1 DEF RemoveVertex, RemoveVertexBy
  <2> QED BY <2>1 DEF Keeps, ChangesMarked
<1> QED BY <1>1, <1>2

LEMMA RemoveVertexWeightKeeps ==
  ASSUME DynGraphAssumption, NEW G, GraphInv(G), NEW S, SymmetricBut(G, S), NEW v \in Id, NEW w \in Nat
  PROVE  Keeps(G, RemoveVertexWeight(G, v, w), IF v < G.n THEN S \cup {v} ELSE S)
<1> DEFINE lists == [x \in Id |-> LowerArc(G, x, v, w).nb[x]]
<1>1. CASE v < G.n
  <2>1. \A x \in DOMAIN G.nb[v] : x \in Id /\ x # v
    BY ListsOfGraph
  <2>2. ASSUME NEW x \in DOMAIN G.nb[v] PROVE Shortened(G.nb[x], lists[x], x, v)
    <3>1. PICK H : H = LowerArc(G, x, v, w)
      OBVIOUS
    <3>2. OnlyEntry(G, H, x, v) /\ (EdgeExists(H, x, v) => EdgeExists(G, x, v))
      BY <2>1, <3>1, LowerArcKeeps
    <3>3. lists[x] = H.nb[x]
      BY <2>1, <3>1
    <3>4. Shortened(G.nb[x], H.nb[x], x, v)
      BY <2>1, <3>2, EntryIsShortened
    <3> QED BY <3>3, <3>4
  <2> HIDE DEF lists
  <2>3. Keeps(G, RemoveVertexBy(G, v, lists), S \cup {v})
    BY <1>1, <2>2, RemoveKeeps
  <2> QED BY <1>1, <2>3 DEF RemoveVertexWeight, lists
<1>2. CASE ~ (v < G.n)
  <2>1. RemoveVertexWeight(G, v, w) = G
    <3>1. v \in Nat /\ G.n \in Nat
      BY IdIsFinite DEF GraphInv, Graphs, Id
    <3> QED BY <1>2, <3>1 DEF RemoveVertexWeight, RemoveVertexBy
  <2> QED BY <1>2, <2>1 DEF Keeps, ChangesMarked
<1> QED BY <1>1, <1>2

-----------------------------------------------------------------------------
(* No refinement and no partition command changes the graph itself.         *)
LEMMA ClearedKeeps ==
  ASSUME DynGraphAssumption, NEW G, GraphInv(G), NEW S, SymmetricBut(G, S),
         NEW D1 \in SUBSET Id, NEW D2 \in SUBSET Id
  PROVE  Keeps(G, [G EXCEPT !.dirty = D1, !.dirtyP = D2, !.new = <<>>], S)
<1> DEFINE H == [G EXCEPT !.dirty = D1, !.dirtyP = D2, !.new = <<>>]
<1>1. G \in Graphs
  BY DEF GraphInv
<1>2. H.n = G.n /\ H.m = G.m /\ H.gw = G.gw /\ H.vw = G.vw /\ H.nb = G.nb
  BY <1>1 DEF Graphs
<1>3. H \in Graphs
  <2>1. <<>> \in Seq(Id)
    OBVIOUS
  <2> QED BY <1>1, <2>1 DEF Graphs
<1> HIDE DEF H
<1>4. GraphInv(H) /\ SymmetricBut(H, S) /\ ChangesMarked(G, H)
  BY <1>2, <1>3 DEF GraphInv, SymmetricBut, Agree, EdgeExists, ChangesMarked
<1> QED BY <1>4 DEF Keeps, H

LEMMA InitEstablishes ==
  ASSUME DynGraphAssumption, Init
  PROVE  IInv
<1>1. graph = EmptyGraph /\ torn = {}
  BY DEF Init
<1>2. PICK G : G = EmptyGraph
  OBVIOUS
<1>3. /\ G.n = 0 /\ G.m = 0 /\ G.gw = 0 /\ G.dirty = {} /\ G.dirtyP = {} /\ G.new = <<>>
      /\ G.vw = [v \in Id |-> 0] /\ G.nb = [v \in Id |-> NoEdges]
  BY <1>2 DEF EmptyGraph
<1>4. G \in Graphs
  <2>1. [v \in Id |-> NoEdges] \in [Id -> Lists] /\ [v \in Id |-> 0] \in [Id -> Nat]
    BY NoEdgesIsEmpty
  <2>2. 0 \in 0 .. MaxN /\ <<>> \in Seq(Id)
    BY IdIsFinite
  <2> QED BY <1>2, <2>1, <2>2 DEF EmptyGraph, Graphs
<1>5. \A v \in Id : DOMAIN G.nb[v] = {} /\ Sizes(G.nb)[v] = 0 /\ G.vw[v] = 0
  BY <1>3, NoEdgesIsEmpty DEF Sizes
<1>6. SumFunctionOnSet(Sizes(G.nb), Id) = 0 /\ SumFunctionOnSet(G.vw, Id) = 0
  BY <1>5, IdIsFinite, SumZero
<1>7. GraphInv(G)
  BY <1>3, <1>4, <1>5, <1>6 DEF GraphInv
<1>8. SymmetricBut(G, {})
  BY <1>5 DEF SymmetricBut, Agree, EdgeExists
<1> QED BY <1>1, <1>2, <1>7, <1>8 DEF IInv

-----------------------------------------------------------------------------
(* Every command keeps the graph proper and marks what it changes.          *)
LEMMA StepKeeps ==
  ASSUME DynGraphAssumption, IInv, Next
  PROVE  Keeps(graph, graph', torn')
<1>1. GraphInv(graph) /\ SymmetricBut(graph, torn)
  BY DEF IInv
<1>2. ASSUME NEW v \in Id, VertexCommand(v) PROVE Keeps(graph, graph', torn')
  <2>1. torn' = torn
    BY <1>2 DEF VertexCommand
  <2>2. ASSUME NEW w \in Weights, graph' = AddVertex(graph, v, w)
        PROVE  Keeps(graph, graph', torn)
    BY <1>1, <2>2, IdIsFinite, AddVertexKeeps DEF OnlyWeight
  <2>3. ASSUME NEW w \in Weights, graph' = SetVertexWeight(graph, v, w)
        PROVE  Keeps(graph, graph', torn)
    BY <1>1, <2>3, IdIsFinite, SetVertexWeightKeeps
  <2>4. ASSUME graph' = RemoveVertex(graph, v) PROVE Keeps(graph, graph', torn)
    BY <1>1, <2>4, RemoveVertexKeeps
  <2> QED BY <1>2, <2>1, <2>2, <2>3, <2>4 DEF VertexCommand, Becomes
<1>3. ASSUME NEW v \in Id, RemoveByWeight(v) PROVE Keeps(graph, graph', torn')
  <2>1. PICK w \in Weights : graph' = RemoveVertexWeight(graph, v, w)
    BY <1>3 DEF RemoveByWeight, Becomes
  <2>2. torn' = IF v < graph.n THEN torn \cup {v} ELSE torn
    BY <1>3 DEF RemoveByWeight
  <2>3. w \in Nat
    BY IdIsFinite
  <2>4. Keeps(graph, RemoveVertexWeight(graph, v, w), IF v < graph.n THEN torn \cup {v} ELSE torn)
    BY <1>1, <2>3, RemoveVertexWeightKeeps
  <2> QED BY <2>1, <2>2, <2>4
<1>4. ASSUME NEW u \in Id, NEW v \in Id \ {u}, EdgeCommand(u, v) PROVE Keeps(graph, graph', torn')
  <2>1. torn' = torn
    BY <1>4 DEF EdgeCommand
  <2>2. ASSUME NEW w \in Weights, graph' = AddEdge(graph, u, v, w)
        PROVE  Keeps(graph, graph', torn)
    BY <1>1, <2>2, IdIsFinite, AddEdgeKeeps
  <2>3. ASSUME NEW w \in Weights, graph' = RemoveEdgeWeight(graph, u, v, w)
        PROVE  Keeps(graph, graph', torn)
    BY <1>1, <2>3, IdIsFinite, RemoveEdgeWeightKeeps
  <2>4. ASSUME NEW w \in Weights, graph' = SetEdgeWeight(graph, u, v, w)
        PROVE  Keeps(graph, graph', torn)
    BY <1>1, <2>4, IdIsFinite, SetEdgeWeightKeeps
  <2>5. ASSUME graph' = RemoveEdge(graph, u, v) PROVE Keeps(graph, graph', torn)
    BY <1>1, <2>5, RemoveEdgeKeeps
  <2> QED BY <1>4, <2>1, <2>2, <2>3, <2>4, <2>5 DEF EdgeCommand, Becomes
<1>5. ASSUME Refined PROVE Keeps(graph, graph', torn')
  <2>1. graph \in Graphs /\ graph.dirtyP \in SUBSET Id /\ {} \in SUBSET Id
    BY <1>1 DEF GraphInv, Graphs
  <2>2. graph' = [graph EXCEPT !.dirty = {}, !.dirtyP = graph.dirtyP, !.new = <<>>] /\ torn' = torn
    BY <1>5, <2>1 DEF Refined, ClearNew, ClearDirty, Graphs
  <2>3. Keeps(graph, [graph EXCEPT !.dirty = {}, !.dirtyP = graph.dirtyP, !.new = <<>>], torn)
    BY <1>1, <2>1, ClearedKeeps
  <2> QED BY <2>2, <2>3
<1>6. ASSUME Repartitioned PROVE Keeps(graph, graph', torn')
  <2>1. graph \in Graphs /\ {} \in SUBSET Id
    BY <1>1 DEF GraphInv
  <2>2. graph' = [graph EXCEPT !.dirty = {}, !.dirtyP = {}, !.new = <<>>] /\ torn' = torn
    BY <1>6, <2>1 DEF Repartitioned, ClearNew, ClearDirty, ClearDirtyPartition, Graphs
  <2>3. Keeps(graph, [graph EXCEPT !.dirty = {}, !.dirtyP = {}, !.new = <<>>], torn)
    BY <1>1, <2>1, ClearedKeeps
  <2> QED BY <2>2, <2>3
<1> QED BY <1>2, <1>3, <1>4, <1>5, <1>6 DEF Next

LEMMA StepPreserves ==
  ASSUME DynGraphAssumption, IInv, [Next]_<<graph, torn>>
  PROVE  IInv'
<1>1. CASE Next
  <2>1. Keeps(graph, graph', torn')
    BY <1>1, StepKeeps
  <2> QED BY <2>1 DEF Keeps, IInv, GraphInv, SymmetricBut, Agree, EdgeExists
<1>2. CASE UNCHANGED <<graph, torn>>
  BY <1>2 DEF IInv, GraphInv, SymmetricBut, Agree, EdgeExists
<1> QED BY <1>1, <1>2

(* The graph is a proper graph after any commands.                          *)
THEOREM Inductive == Spec => []IInv
<1>1. Init => IInv
  BY DynGraphAssumption, InitEstablishes
<1>2. IInv /\ [Next]_<<graph, torn>> => IInv'
  BY DynGraphAssumption, StepPreserves
<1> QED BY <1>1, <1>2, PTL DEF Spec

LEMMA ConsistentFromIInv == ASSUME IInv PROVE GraphConsistent
<1>1. CountsMatchLists
  <2>1. Sizes(graph.nb) = [v \in Id |-> Cardinality(DOMAIN graph.nb[v])]
    BY DEF Sizes
  <2> QED BY <2>1 DEF IInv, GraphInv, CountsMatchLists
<1>2. SymmetricButTorn
  BY DEF IInv, SymmetricBut, Agree, SymmetricButTorn
<1> QED BY <1>1, <1>2 DEF GraphConsistent

(* The graph that commands leave behind can be written as a CSR graph: its  *)
(* count of half edges and its weight are those of its lists, and every     *)
(* edge is known to both ends unless one was removed by weight.             *)
THEOREM GraphStaysConsistent == Spec => []GraphConsistent
<1>1. IInv => GraphConsistent
  BY ConsistentFromIInv
<1> QED BY <1>1, Inductive, PTL

(* A vertex whose weight or list a command changes is dirty afterwards.     *)
THEOREM ChangesAreMarked == Spec => ChangesAreDirty
<1>1. IInv /\ [Next]_<<graph, torn>> => [ChangesMarked(graph, graph')]_<<graph, torn>>
  BY DynGraphAssumption, StepKeeps DEF Keeps
<1> QED BY <1>1, Inductive, PTL DEF Spec, ChangesAreDirty

-----------------------------------------------------------------------------
LEMMA DynStepKeeps ==
  ASSUME DynGraphAssumption, IInv, DynNext
  PROVE  Keeps(graph, graph', torn')
<1>1. GraphInv(graph) /\ SymmetricBut(graph, torn) /\ graph.n \in Nat
  BY IdIsFinite DEF IInv, GraphInv, Graphs
<1>2. ASSUME Grow PROVE Keeps(graph, graph', torn')
  <2>1. torn' = torn
    BY <1>2 DEF Grow
  <2>2. ASSUME NEW w \in Weights, graph.n < MaxN, graph' = AddVertex(graph, graph.n, w)
        PROVE  Keeps(graph, graph', torn)
    <3>1. PICK v \in Id : v = graph.n
      BY <1>1, <2>2, IdIsFinite DEF Id
    <3>2. OnlyWeight(graph, AddVertex(graph, v, w), v, torn)
      BY <1>1, IdIsFinite, AddVertexKeeps
    <3> QED BY <2>2, <3>1, <3>2 DEF OnlyWeight
  <2>3. ASSUME NEW u \in Id, NEW v \in Id, u < v, graph' = AddEdge(graph, u, v, 1)
        PROVE  Keeps(graph, graph', torn)
    <3>1. u # v /\ 1 \in Nat
      BY <2>3, IdIsFinite
    <3> QED BY <1>1, <2>3, <3>1, AddEdgeKeeps
  <2> QED BY <1>2, <2>1, <2>2, <2>3 DEF Grow, Becomes
<1>3. ASSUME Refined \/ Repartitioned PROVE Keeps(graph, graph', torn')
  BY <1>3, StepKeeps DEF Next
<1> QED BY <1>2, <1>3 DEF DynNext, FirstPartition, Repartition, RefineFast

(* Partition and refine commands between the changes of the graph, and what *)
(* they do to the mapping, leave all of this true.                          *)
THEOREM MappingKeepsGraph == DynSpec => []GraphConsistent /\ ChangesAreDirty
<1>1. DynInit => IInv
  BY DynGraphAssumption, InitEstablishes DEF DynInit
<1>2. IInv /\ [DynNext]_dynVars => IInv' /\ [ChangesMarked(graph, graph')]_<<graph, torn>>
  <2>1. ASSUME IInv, DynNext PROVE IInv' /\ ChangesMarked(graph, graph')
    <3>1. Keeps(graph, graph', torn')
      BY <2>1, DynGraphAssumption, DynStepKeeps
    <3> QED BY <3>1 DEF Keeps, IInv, GraphInv, SymmetricBut, Agree, EdgeExists
  <2>2. ASSUME IInv, UNCHANGED dynVars PROVE IInv' /\ UNCHANGED <<graph, torn>>
    BY <2>2 DEF dynVars, IInv, GraphInv, SymmetricBut, Agree, EdgeExists
  <2> QED BY <2>1, <2>2
<1>3. IInv => GraphConsistent
  BY ConsistentFromIInv
<1> QED BY <1>1, <1>2, <1>3, PTL DEF DynSpec, ChangesAreDirty
=============================================================================
