--------------------------- MODULE MCPublishQueue ---------------------------
(***************************************************************************)
(* Small instances of PublishQueue: two job directories staged for one     *)
(* plan and a third for another.                                           *)
(***************************************************************************)
EXTENDS PublishQueue, TLC

CONSTANTS j1, j2, j3, p1, p2

MCPlanOf == [j \in Jobs |-> IF j = j3 THEN p2 ELSE p1]

\* bridges are interchangeable
BridgeSymmetry == Permutations(Bridges)
=============================================================================
