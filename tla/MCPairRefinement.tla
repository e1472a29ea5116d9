--------------------------- MODULE MCPairRefinement --------------------------
(* Six vertices with edges of weight 1 to 3 in the four blocks of a 2 x 2   *)
(* machine: the first three in blocks 0 and 1, the others in 2 and 3, so    *)
(* that the pairs 0-1 and 2-3 can be refined at the same time while edges   *)
(* run between them.  Some partitions exceed the capacities.  One of the    *)
(* refinements runs; the others have ended.                                 *)
(*                                                                         *)
(* The rebalancer starts from every partition with 0 in block 0 and 5 in    *)
(* block 3; most exceed the capacities, and vertices compete for the room   *)
(* left.  A round is cut off after three tries, so that it is followed by   *)
(* others.                                                                  *)
EXTENDS QuotientRefinement, Rebalancer

CONSTANTS Thread, Kinds, UseStatic, LargeK, MinThreshold, MaxRounds, SerialKinds, MaxPasses

VARIABLES method, run, quotient, adjacency, batches, dynamic, light, th, job

MCVertex == 0 .. 5
MCBlock == 0 .. 3
MCGrowth == {<<"bfs", FALSE>>, <<"bfs", TRUE>>, <<"heavy", FALSE>>, <<"light", TRUE>>}
MCHierarchy == <<2, 2>>
MCDistances == <<1, 3>>
MCD == [a \in MCBlock |-> [b \in MCBlock |-> MatrixDistance(MCHierarchy, MCDistances, a, b)]]
MCEdges == {0, 1} :> 2 @@ {1, 2} :> 2 @@ {0, 2} :> 1 @@ {2, 3} :> 1
           @@ {3, 4} :> 3 @@ {4, 5} :> 2 @@ {1, 4} :> 1
MCEdgeWeight == [u \in MCVertex |-> [v \in MCVertex |->
                  IF {u, v} \in DOMAIN MCEdges THEN MCEdges[{u, v}] ELSE 0]]
MCVertexWeight == [u \in MCVertex |-> IF u = 2 THEN 2 ELSE 1]
MCLmax == [b \in MCBlock |-> IF b = 1 THEN 3 ELSE 2]
MCPartitions ==
  {0 :> 0 @@ l @@ r @@ 5 :> 3 : l \in [1 .. 2 -> {0, 1}], r \in [3 .. 4 -> {2, 3}]}
(* Three blocks filled to the brim: only exchanges are possible.            *)
MCFull == {p \in [MCVertex -> 0 .. 2] : p[0] = 1 /\ \A b \in 0 .. 2 : BlockWeight(p, b) = MCLmax[b]}

Simple == INSTANCE SimpleRefinement
Serial == INSTANCE SerialRefinement

simpleOnly == <<run, quotient, adjacency, batches, dynamic, light, th>>
quotientOnly == <<conn, q, halfEdges, stage, loop, fm, entry>>
allVars == <<qrVars, simpleOnly, job, ctlVars, method>>

Ended == "ended"
SimpleEnded ==
  /\ run = [phase |-> Ended] /\ quotient = <<>> /\ adjacency = <<>> /\ batches = <<>>
  /\ dynamic = <<>> /\ light = {} /\ th = [t \in Thread |-> Simple!Idle]
QuotientEnded == stage = Ended /\ loop = <<>> /\ fm = NoSearch /\ entry = <<>>
QueuesEmpty == active = {} /\ nextActive = {} /\ queue = {}
RebalancerEnded ==
  pass = "done" /\ lastLayer = FALSE /\ heap = {} /\ stateIds = <<>> /\ inner = <<>>
  /\ residual = <<>>
SerialEnded == job = [kind |-> Ended, phase |-> Ended]

MCInit ==
  \/ /\ \E p \in MCPartitions : StructFromScratch(p)
     /\ \/ InitQR /\ SimpleEnded /\ method \in {"fm", "flow"}
        \/ Simple!InitSR /\ QuotientEnded /\ method = Ended
     /\ SerialEnded /\ RebalancerEnded
  \/ /\ \E p \in MCPartitions \cup MCFull : StructFromScratch(p)
     /\ \E kind \in SerialKinds : Serial!InitSerial(kind)
     /\ QuotientEnded /\ SimpleEnded /\ QueuesEmpty /\ RebalancerEnded /\ method = Ended
  \/ /\ \E p \in [MCVertex -> MCBlock] : p[0] = 0 /\ p[5] = 3 /\ StructFromScratch(p)
     /\ InitReb
     /\ QuotientEnded /\ SimpleEnded /\ QueuesEmpty /\ SerialEnded /\ method = Ended

MCNext ==
  \/ method = "fm" /\ NextQR /\ UNCHANGED <<simpleOnly, job, ctlVars, method>>
  \/ method = "flow" /\ NextFlow /\ UNCHANGED <<simpleOnly, job, ctlVars, method>>
  \/ run.phase # Ended /\ Simple!NextSR /\ UNCHANGED <<quotientOnly, job, ctlVars, method>>
  \/ /\ job.phase # Ended /\ Serial!NextSerial
     /\ UNCHANGED <<quotientOnly, simpleOnly, active, nextActive, queue, ctlVars, method>>
  \/ /\ Running /\ NextReb
     /\ UNCHANGED <<stage, loop, fm, entry, simpleOnly, job, active, nextActive, queue, method>>

MCSpec == MCInit /\ [][MCNext]_allVars /\ FairReb

(* What the threads of the simple refinements leave at a barrier.           *)
BarrierSound == run.phase # Ended => Simple!BoundaryCorrectAtBarrier /\ Simple!CapacitiesKept
(* See SerialRefinement.                                                    *)
CostNeverRises == Serial!CostNeverRises
=============================================================================
