-------------------------- MODULE PublishLifecycle --------------------------
(***************************************************************************)
(* What the publish queue promises about the durable life of a staged job, *)
(* in one variable: a plan is accepted for one job; an accepted job is     *)
(* cancelled or started, never both; a started job ends once or, if the    *)
(* process dies, stays started for ever.                                   *)
(***************************************************************************)
CONSTANTS Jobs, PlanOf

VARIABLE phase

Phases == {"staged", "accepted", "cancelled", "started", "succeeded", "failed"}

Init == phase = [j \in Jobs |-> "staged"]

Move(j, from, to) == phase[j] = from /\ phase' = [phase EXCEPT ![j] = to]

Accept(j) ==
    /\ \A i \in Jobs : PlanOf[i] = PlanOf[j] => phase[i] = "staged"
    /\ Move(j, "staged", "accepted")

Cancel(j) == Move(j, "accepted", "cancelled")
Start(j) == Move(j, "accepted", "started")
Finish(j) == Move(j, "started", "succeeded") \/ Move(j, "started", "failed")

Next == \E j \in Jobs : Accept(j) \/ Cancel(j) \/ Start(j) \/ Finish(j)

Spec == Init /\ [][Next]_phase
=============================================================================
