-------------------------- MODULE DistanceOracles ---------------------------
(***************************************************************************)
(* distance_oracles/: four representations of the distance between two      *)
(* processing elements of a machine hierarchy h = <<h1, ..., hl>>, h1 being *)
(* the number of elements in a lowest group.  dist[i] is the distance of    *)
(* two elements that first share a group at level i.  Levels count from 1.  *)
(***************************************************************************)
EXTENDS Integers, FiniteSets, Sequences, SequencesExt

Product(s) == FoldLeft(LAMBDA a, b : a * b, 1, s)
K(h) == Product(h)

(* last_level_pair                                                          *)
LastLevelPair(h, u, v) == u \div h[1] = v \div h[1]

-----------------------------------------------------------------------------
(* matrix_distance_oracle.h: the coordinates of an element, found top down  *)
(* by narrowing the range it lies in; the level of a pair is the highest    *)
(* one on which their coordinates differ.                                   *)
NarrowTo(r, parts, id) ==
  LET add == (r.end - r.start) \div parts
      j   == CHOOSE i \in 0 .. parts - 1 :
               r.start + i * add <= id /\ id < r.start + (i + 1) * add
  IN  [start |-> r.start + j * add, end |-> r.start + (j + 1) * add,
       loc |-> <<j>> \o r.loc]

DetermineLoc(h, id) ==
  FoldLeft(LAMBDA r, parts : NarrowTo(r, parts, id),
           [start |-> 0, end |-> K(h), loc |-> <<>>], Reverse(h)).loc

MatrixLevel(h, u, v) ==
  Max({i \in DOMAIN h : DetermineLoc(h, u)[i] # DetermineLoc(h, v)[i]})

MatrixDistance(h, dist, u, v) == IF u = v THEN 0 ELSE dist[MatrixLevel(h, u, v)]

-----------------------------------------------------------------------------
(* division_distance_oracle.h and stored_division_distance_oracle.h: the    *)
(* group of an element on the i-th level from the top is a quotient; the    *)
(* stored oracle keeps all of them.                                         *)
DivisorFromBottom(h, i) == Product(SubSeq(h, 1, i - 1))
Divisor(h, i) == K(h) \div Product(SubSeq(h, Len(h) + 1 - i, Len(h)))

Groups(h) == [id \in 0 .. K(h) - 1 |-> [i \in DOMAIN h |-> id \div Divisor(h, i)]]

FirstDiffering(a, b) == Min({i \in DOMAIN a : a[i] # b[i]})

DivisionLevel(h, u, v) ==
  Len(h) + 1 - FirstDiffering([i \in DOMAIN h |-> u \div Divisor(h, i)],
                              [i \in DOMAIN h |-> v \div Divisor(h, i)])

StoredLevel(h, u, v) == Len(h) + 1 - FirstDiffering(Groups(h)[u], Groups(h)[v])

-----------------------------------------------------------------------------
(* binary_distance_oracle.h: coordinates are packed into a word, the level  *)
(* of a pair is that of the highest bit in which their words differ.        *)
Pow2(e) == 2 ^ e

(* bitsNeeded64                                                             *)
BitsNeeded(x) == IF x = 0 THEN 1 ELSE 1 + Max({e \in 0 .. x : Pow2(e) <= x})

BitSizes(h) == [i \in DOMAIN h |-> BitsNeeded(h[i] - 1)]

BitsBelow(h, i) == FoldLeft(+, 0, SubSeq(BitSizes(h), 1, i - 1))

Identifier(h, id) ==
  FoldLeft(LAMBDA word, i : word * Pow2(BitSizes(h)[i]) + DetermineLoc(h, id)[i],
           0, [i \in DOMAIN h |-> Len(h) + 1 - i])

(* dist_lookup, hierarchy_lookup: the level whose bits hold position p.     *)
LevelOfBit(h, p) ==
  CHOOSE i \in DOMAIN h : BitsBelow(h, i) <= p /\ p < BitsBelow(h, i) + BitSizes(h)[i]

Bit(n, p) == (n \div Pow2(p)) % 2

BinaryLevel(h, u, v) ==
  LET a == Identifier(h, u)
      b == Identifier(h, v)
  IN  LevelOfBit(h, Max({p \in 0 .. BitsBelow(h, Len(h) + 1) - 1 : Bit(a, p) # Bit(b, p)}))
=============================================================================
