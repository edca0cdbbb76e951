SPECIFICATION FairSpec
CONSTANTS
    Proc <- Procs3
    P0 = 0
    Answers = {"lost", "refused"}
    Logons = {"silent", "refused"}
    Scripts <- ScriptsMC
    StartMayFail = TRUE
INVARIANTS
    TypeOK
    CommandsInOrder
    VerdictComplete
    QuietRunPasses
    BarrierHolds
PROPERTIES
    EndsInOrder
    RunEnds
    ImplementsTestCase
