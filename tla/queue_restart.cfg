SPECIFICATION FairSpec
CONSTANTS
    Bridges = {b1}
    Jobs = {j1, j2, j3}
    Plans = {p1, p2}
    PlanOf <- MCPlanOf
    Capacity = 1
    Touched = {}
    NoJob = NoJob
    j1 = j1 
    j2 = j2
    j3 = j3
    p1 = p1
    p2 = p2
INVARIANTS CancelledNeverStarts OneJobPerPlan FinalAnswersStand
PROPERTIES ImplementsLifecycle  RunsComplete
