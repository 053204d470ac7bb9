SPECIFICATION WorkstationSpec
CONSTANTS
    Bridges = {b1, b2}
    Jobs = {j1, j2}
    Plans = {p1}
    PlanOf <- MCPlanOf
    Capacity = 1
    Touched = {j1}
    NoJob = NoJob
    j1 = j1 
    j2 = j2
    j3 = j3
    p1 = p1
    p2 = p2
    Translators = {t1, t2}
    Entities = {"e1", "e2"}
    Versions <- MCVersions
    Languages = {"tr", "other", "uncertain"}
    Words = {"kapi", "door", "control"}
    Coded = {"control"}
    MaxSaves = 1
    MaxDecisions = 1
    MaxPlans = 1
    MaxCopies = 2
    Nothing = Nothing
    Workers = {w1, w2}
    Roots = {"d1", "d2"}
    Files = {"strasse", "strasze", "kroki"}
    Key <- MCKey
    Folded <- MCFolded
    Configurations <- MCConfigurations
    MaxDiskChanges = 1
    Unknown = Unknown
INVARIANTS TypeOK PlotAtMostOnce SuccessIsEarned  QueueMatchesStates
    TranslatedOnce ReferencesAreStable
SYMMETRY BridgeSymmetry
