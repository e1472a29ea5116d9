-------------------------- MODULE BlockStructures ---------------------------
(***************************************************************************)
(* The structures that are derived from the partition, beside the boundary: *)
(* what every vertex is connected to (datastructures/block_conn.h) and the  *)
(* quotient graph (datastructures/quotient_graph.h).  Every refinement and  *)
(* rebalancing step updates all of them together, composed the way          *)
(* LabelPropagationRefinement::apply_move calls them: the derived           *)
(* structures first, while the partition still has the vertex in its old    *)
(* block, the partition last; and the gains are computed from block_conn    *)
(* (utility/qap.h).                                                         *)
(***************************************************************************)
EXTENDS PartitionManager, Objective

-----------------------------------------------------------------------------
(* block_conn.h: per vertex a short unordered array of (block, weight)      *)
(* entries, the weight of its edges into every block it is connected to, in *)
(* min(k, deg) slots allotted once for all.                                 *)
VARIABLE conn     (* conn[u], the live slots of u as a sequence.              *)

BcTypeOK == conn \in [Vertex -> Seq([id : Block, w : Nat \ {0}])]

(* m_start[u+1] - m_start[u]: the slots u owns.                              *)
SlotsOf(u) == IF Cardinality(Adj(u)) < Cardinality(Block)
              THEN Cardinality(Adj(u)) ELSE Cardinality(Block)

(* The slot of block b, 0 when b has none.                                  *)
Slot(c, b) == SelectInSeq(c, LAMBDA e : e.id = b)

(* Add w to the entry of b, which the caller may have to open.              *)
BcAdd(c, b, w) ==
  IF Slot(c, b) = 0 THEN Append(c, [id |-> b, w |-> w])
  ELSE [c EXCEPT ![Slot(c, b)].w = @ + w]

(***************************************************************************)
(* update: w of the entry of old goes to the entry of new.  An emptied     *)
(* entry is overwritten by the last one when new has a slot, and reused    *)
(* for new when it has none.                                               *)
(***************************************************************************)
BcUpdate(c, old, new, w) ==
  LET o    == Slot(c, old)
      n    == Slot(c, new)
      left == c[o].w - w
  IN  CASE o = 0 -> c
        [] o # 0 /\ left # 0 -> BcAdd([c EXCEPT ![o].w = left], new, w)
        [] o # 0 /\ left = 0 /\ n = 0 -> [c EXCEPT ![o] = [id |-> new, w |-> w]]
        [] o # 0 /\ left = 0 /\ n # 0 ->
             LET d == [c EXCEPT ![n].w = @ + w]
             IN  Front([d EXCEPT ![o] = Last(d)])

(* move: every neighbour of u sees w of its weight change block.            *)
BcMove(u, old, new) ==
  conn' = [v \in Vertex |->
             IF v \in Adj(u) THEN BcUpdate(conn[v], old, new, EdgeWeight[u][v])
             ELSE conn[v]]

(* compute_from_scratch                                                     *)
BcFromScratch(p) ==
  [u \in Vertex |-> FoldLeft(LAMBDA c, v : BcAdd(c, p[v], EdgeWeight[u][v]),
                             <<>>, AdjOrder[u])]

-----------------------------------------------------------------------------
(* assert_correct_block_conn: the entries of u are the blocks u is          *)
(* connected to, one entry each, with the weight of its edges into them;    *)
(* they never outgrow the slots of u, behind which the next vertex's begin. *)
CorrectBlockConn ==
  \A u \in Vertex :
    /\ Len(conn[u]) <= SlotsOf(u)
    /\ {conn[u][i].id : i \in DOMAIN conn[u]} = ConnectedBlocks(partition, u)
    /\ Len(conn[u]) = Cardinality(ConnectedBlocks(partition, u))
    /\ \A i \in DOMAIN conn[u] :
         conn[u][i].w = ConnWeight(partition, u, conn[u][i].id)

-----------------------------------------------------------------------------
(* quotient_graph.h: one record per unordered pair of blocks, holding the   *)
(* weight between them and threaded into a doubly linked list of each       *)
(* endpoint while that weight is positive; and a counter of list entries.   *)
CONSTANT NoEdge   (* INVALID_INDEX.                                          *)

VARIABLES
  q,              (* [weight, head, prev, next]: the records and m_head.      *)
  halfEdges       (* m_total_half_edges.                                      *)

(* A record's endpoints; edge_index makes {a, b} and {b, a} one record.      *)
QEdge == {e \in SUBSET Block : Cardinality(e) = 2}

ASSUME NoEdgeAssumption == \A e \in QEdge : NoEdge # e

QTypeOK ==
  /\ q.weight \in [QEdge -> Nat]
  /\ q.head \in [Block -> QEdge \cup {NoEdge}]
  /\ q.prev \in [QEdge -> [Block -> QEdge \cup {NoEdge}]]
  /\ q.next \in [QEdge -> [Block -> QEdge \cup {NoEdge}]]
  /\ halfEdges \in Int

QSetPrev(s, e, x, f) == [s EXCEPT !.prev[e][x] = f]
QSetNext(s, e, x, f) == [s EXCEPT !.next[e][x] = f]
QSetHead(s, x, f) == [s EXCEPT !.head[x] = f]

(* Insert e at the head of the list of x.                                   *)
QLinkAt(s, e, x) ==
  LET old == s.head[x]
      s1  == IF old = NoEdge THEN s ELSE QSetPrev(s, old, x, e)
  IN  QSetHead(QSetNext(QSetPrev(s1, e, x, NoEdge), e, x, old), x, e)

QUnlinkAtKeepsPrev(s, e, x) ==
  LET p == s.prev[e][x]
      n == s.next[e][x]
      s1 == IF p = NoEdge THEN QSetHead(s, x, n) ELSE QSetNext(s, p, x, n)
  IN  QSetNext(QSetPrev(s1, e, x, NoEdge), e, x, NoEdge)

(* unlink_one_endpoint                                                      *)
QUnlinkAt(s, e, x) ==
  LET p == s.prev[e][x]
      n == s.next[e][x]
      s1 == IF p = NoEdge THEN QSetHead(s, x, n) ELSE QSetNext(s, p, x, n)
      s2 == IF n = NoEdge THEN s1 ELSE QSetPrev(s1, n, x, p)
  IN  QSetNext(QSetPrev(s2, e, x, NoEdge), e, x, NoEdge)

(* add_edge: link the record when its weight becomes positive.              *)
QAddEdge(s, a, b, w) ==
  LET e  == {a, b}
      s1 == [s EXCEPT !.weight[e] = @ + w]
  IN  IF s.weight[e] <= 0 /\ s1.weight[e] > 0
      THEN QLinkAt(QLinkAt(s1, e, a), e, b) ELSE s1

(* remove_edge: unlink the record when its weight becomes zero.             *)
QRemoveEdge(s, a, b, w) ==
  LET e  == {a, b}
      s1 == [s EXCEPT !.weight[e] = @ - w]
  IN  IF s1.weight[e] = 0 THEN QUnlinkAt(QUnlinkAt(s1, e, a), e, b) ELSE s1

(* The lists hold two entries per linked record; link_edge and unlink_edge  *)
(* add to and subtract from the counter two at a time.                      *)
QLinked(s) == {e \in QEdge : s.weight[e] > 0}
QHalfEdgesDelta(s, t) == 2 * (Cardinality(QLinked(t)) - Cardinality(QLinked(s)))

QVisit(s, u, v, old, new) ==
  LET w  == EdgeWeight[u][v]
      s1 == IF partition[v] = old THEN s ELSE QRemoveEdge(s, old, partition[v], w)
  IN  IF partition[v] = new THEN s1 ELSE QAddEdge(s1, new, partition[v], w)

(* move: called while partition[u] is still old; after i of its neighbours. *)
QAfter(u, old, new, i) ==
  FoldLeft(LAMBDA s, v : QVisit(s, u, v, old, new), q, SubSeq(AdjOrder[u], 1, i))
QMoved(u, old, new) == QAfter(u, old, new, Len(AdjOrder[u]))

(* Whether move links or unlinks a record, be it for a moment.              *)
QRelinks(u, old, new) ==
  \E i \in 1 .. Len(AdjOrder[u]) :
    QLinked(QAfter(u, old, new, i)) # QLinked(QAfter(u, old, new, i - 1))

QMove(u, old, new) ==
  /\ q' = QMoved(u, old, new)
  /\ halfEdges' = halfEdges + QHalfEdgesDelta(q, QMoved(u, old, new))

(* initialize                                                               *)
QEmpty ==
  LET none == [e \in QEdge |-> [x \in Block |-> NoEdge]]
  IN  [weight |-> [e \in QEdge |-> 0], head |-> [x \in Block |-> NoEdge],
       prev |-> none, next |-> none]

(* compute_from_scratch: every edge once, at its smaller endpoint.          *)
QCountEdge(p, s, u, v) ==
  IF u < v /\ p[u] # p[v] THEN QAddEdge(s, p[u], p[v], EdgeWeight[u][v]) ELSE s

QCountEdges(p, s, u) ==
  FoldLeft(LAMBDA t, v : QCountEdge(p, t, u, v), s, AdjOrder[u])

QFromScratch(p) == FoldLeft(LAMBDA s, u : QCountEdges(p, s, u), QEmpty, AllVertices)

(* for_each_neighbor: the blocks met by following the list of x.  A list is *)
(* no longer than the number of other blocks unless it has a cycle.         *)
QListFrom(x) ==
  LET after[i \in 0 .. Cardinality(Block)] ==
        IF i = 0 THEN q.head[x]
        ELSE IF after[i - 1] = NoEdge THEN NoEdge ELSE q.next[after[i - 1]][x]
  IN  after

QOrder(x) ==
  LET list == QListFrom(x)
      deg  == Cardinality({i \in DOMAIN list : list[i] # NoEdge})
  IN  [i \in 1 .. deg |-> CHOOSE y \in list[i - 1] : y # x]

QNeighbours(x) == ToSet(QOrder(x))

-----------------------------------------------------------------------------
(* assert_correct_quotient_graph: the list of every block leads to exactly  *)
(* the blocks it shares an edge with, each once, and back; every record has *)
(* the weight of the edges between its blocks.                              *)
CorrectQuotientGraph ==
  /\ \A e \in QEdge, a, b \in Block :
       e = {a, b} => q.weight[e] = QuotientWeight(partition, a, b)
  /\ \A x \in Block :
       LET list == QListFrom(x)
           deg  == Cardinality(QuotientNeighbours(partition, x))
       IN  /\ QNeighbours(x) = QuotientNeighbours(partition, x)
           /\ list[deg] = NoEdge
           /\ \A i \in 1 .. deg - 1 : q.prev[list[i]][x] = list[i - 1]

-----------------------------------------------------------------------------
structVars == <<partition, bweights, nVertices, bv, conn, q, halfEdges>>

StructTypeOK == PmTypeOK /\ BvTypeOK /\ BcTypeOK /\ QTypeOK

(* What HeiProMap_solver::partition leaves behind for the partition p.      *)
StructFromScratch(p) ==
  /\ PmRecalculated(p)
  /\ bv = BvFromScratch(p)
  /\ conn = BcFromScratch(p)
  /\ q = QFromScratch(p)
  /\ halfEdges = 2 * Cardinality(QLinked(QFromScratch(p)))

(* apply_move                                                               *)
ApplyMove(u, old, new) ==
  /\ BvMove(u, old, new)
  /\ QMove(u, old, new)
  /\ BcMove(u, old, new)
  /\ PmMove(u, old, new)

-----------------------------------------------------------------------------
(* How much the communication cost or the cut falls when u moves.           *)
QapDeltaForgetsNew(u, old, new) ==
  MapThenSumSet(LAMBDA i : D[conn[u][i].id][old] * conn[u][i].w, DOMAIN conn[u])

(* get_u_qap_delta_t                                                        *)
QapDelta(u, old, new) ==
  LET delta[i \in 0 .. Len(conn[u])] ==
        IF i = 0 THEN 0
        ELSE delta[i - 1] + (D[conn[u][i].id][old] - D[conn[u][i].id][new]) * conn[u][i].w
  IN  delta[Len(conn[u])]

(* get_u_edge_cut_delta_t                                                   *)
CutDelta(u, old, new) ==
  MapThenSumSet(LAMBDA i : IF conn[u][i].id = new THEN conn[u][i].w
                           ELSE IF conn[u][i].id = old THEN - conn[u][i].w ELSE 0,
                DOMAIN conn[u])

-----------------------------------------------------------------------------
(* Callers move any vertex to any other block.                              *)
MoveVertex(u, new) ==
  /\ new # partition[u]
  /\ ApplyMove(u, partition[u], new)

StructInit == \E p \in [Vertex -> Block] : StructFromScratch(p)

StructNext == \E u \in Vertex, b \in Block : MoveVertex(u, b)

StructSpec == StructInit /\ [][StructNext]_structVars

-----------------------------------------------------------------------------
(* After any sequence of moves the four structures are what they would be   *)
(* if they were computed from the partition, up to the order of their       *)
(* lists: block weights, boundary counts and lists, connections in no more  *)
(* slots than a vertex has, and the linked lists of the quotient graph.     *)
StructuresCorrect ==
  /\ StructTypeOK
  /\ CorrectBlockWeights /\ CorrectBoundary /\ CorrectBlockConn /\ CorrectQuotientGraph
=============================================================================
