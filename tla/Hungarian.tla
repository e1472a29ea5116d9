----------------------------- MODULE Hungarian ------------------------------
(***************************************************************************)
(* utility/hungarian.h: the assignment of rows to columns of least cost.   *)
(* Rows enter one at a time; an alternating path to a free column is       *)
(* searched (the first do loop) and then flipped (the second one).  Row    *)
(* and column 0 are the dummies of the code.                               *)
(***************************************************************************)
EXTENDS Integers, FiniteSets, Sequences, FiniteSetsExt, Functions

CONSTANTS
  N,            (* The number of rows and columns.                          *)
  Costs,        (* The entries of a cost matrix.                            *)
  Infinity      (* The largest weight_t.                                    *)

ASSUME HungarianAssumption ==
  /\ N \in Nat \ {0} /\ Costs \subseteq Nat /\ Infinity \in Nat
  /\ \A c \in Costs : c * N < Infinity

VARIABLES
  cost,         (* The cost matrix.                                         *)
  i, j0,        (* The row that enters and the column reached.              *)
  u, v,         (* The potentials of rows and columns.                      *)
  p,            (* p[j], the row assigned to column j, 0 when free.         *)
  way,          (* The column before j on the alternating path.             *)
  minv, used,
  pc

vars == <<cost, i, j0, u, v, p, way, minv, used, pc>>

Cols == 1 .. N
AllCols == 0 .. N

Init ==
  /\ cost \in [Cols -> [Cols -> Costs]]
  /\ i = 1 /\ j0 = 0
  /\ u = [x \in AllCols |-> 0] /\ v = u
  /\ p = [x \in AllCols |-> IF x = 0 THEN 1 ELSE 0]
  /\ way = [x \in AllCols |-> 0]
  /\ minv = [x \in AllCols |-> Infinity]
  /\ used = {}
  /\ pc = "search"

(* The reduced cost of the row at j0, and what it makes of minv and way.    *)
Reduced(j) == cost[p[j0]][j] - u[p[j0]] - v[j]
Nearer(j) == j \in Cols \ (used \cup {j0}) /\ Reduced(j) < minv[j]
NewMinv == [j \in AllCols |-> IF Nearer(j) THEN Reduced(j) ELSE minv[j]]

(* The first unused column with the least minv.                             *)
UnusedColumns(S) == Cols \ S
NextColumn(mv, open) == Min({j \in open : \A x \in open : mv[j] <= mv[x]})

(* The potentials after the step: those of the used columns and their rows. *)
RowsOf(S) == {p[j] : j \in S}
StepUEntering(S, delta) == [u EXCEPT ![i] = @ + delta]
StepU(S, delta) == [x \in AllCols |-> IF x \in RowsOf(S) THEN u[x] + delta ELSE u[x]]

Search ==
  /\ pc = "search"
  /\ LET S == used \cup {j0}
         j1 == NextColumn(NewMinv, UnusedColumns(S))
         delta == NewMinv[j1]
     IN /\ used' = S
        /\ way' = [j \in AllCols |-> IF Nearer(j) THEN j0 ELSE way[j]]
        /\ u' = StepU(S, delta)
        /\ v' = [j \in AllCols |-> IF j \in S THEN v[j] - delta ELSE v[j]]
        /\ minv' = [j \in AllCols |-> IF j \in S THEN NewMinv[j] ELSE NewMinv[j] - delta]
        /\ j0' = j1
        /\ pc' = IF p[j1] # 0 THEN "search" ELSE "flip"
  /\ UNCHANGED <<cost, i, p>>

(* One assignment of the path, from its free end back to column 0; then the *)
(* next row enters.                                                         *)
Flip ==
  /\ pc = "flip"
  /\ LET j1 == way[j0]
     IN /\ p' = [p EXCEPT ![j0] = p[j1],
                          ![0] = IF j1 = 0 /\ i < N THEN i + 1 ELSE @]
        /\ j0' = j1
        /\ IF j1 # 0 THEN UNCHANGED <<i, minv, used, pc>>
           ELSE /\ i' = i + 1
                /\ minv' = [x \in AllCols |-> Infinity]
                /\ used' = {}
                /\ pc' = IF i < N THEN "search" ELSE "done"
  /\ UNCHANGED <<cost, u, v, way>>

Next == Search \/ Flip

Spec == Init /\ [][Next]_vars

Result == [r \in Cols |-> CHOOSE j \in Cols : p[j] = r]

-----------------------------------------------------------------------------
CostOf(f) == SumFunctionOnSet([r \in Cols |-> cost[r][f[r]]], Cols)

(* solve_hungarian returns a permutation, and no other one costs less.      *)
AssignmentOptimal ==
  pc = "done" =>
    /\ {p[j] : j \in Cols} = Cols
    /\ \A f \in {g \in [Cols -> Cols] : IsInjective(g)} : CostOf(Result) <= CostOf(f)
=============================================================================
