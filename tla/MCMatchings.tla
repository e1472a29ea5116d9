----------------------------- MODULE MCMatchings ----------------------------
(* Both matchers on every spanning subgraph of a seven-block graph with a   *)
(* path of length 6, a triangle and a four-cycle: pairs at distance exactly *)
(* 2 and exactly 3 occur, connected and disconnected.  Either batches are   *)
(* placed or a round of calls is made; the other matcher has ended.         *)
EXTENDS Matchings

MCBlocks == 0 .. 6
MCHost == {{0, 1}, {1, 2}, {2, 3}, {3, 4}, {4, 5}, {5, 6}, {0, 2}, {1, 4}}
MCListOf(S) == SetToSortSeq(S, <)
MCActives == {MCBlocks, {0, 3}, {5}}

MCInit ==
  \/ InitStatic /\ activeThisRound = {} /\ cand = <<>> /\ loop = StartCall({}) /\ found = FALSE
  \/ InitRound /\ todo = {} /\ batch = NoBatches(Rounds)

Placing == NextStatic /\ UNCHANGED callVars
Calling == NextRound /\ UNCHANGED <<todo, batch>>

MCSpec ==
  MCInit /\ [][Placing \/ Calling]_<<staticVars, callVars>>
         /\ WF_<<staticVars, callVars>>(Calling)
=============================================================================
