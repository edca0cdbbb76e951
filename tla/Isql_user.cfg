SPECIFICATION Spec
CONSTANTS
    Slots = 4
    Stdin = Stdin
    NoCommand = NoCommand
    Strict = TRUE
    Options <- OptionsMC
    Typed <- TypedMC
    MaxTyped <- MaxTypedMC
    Proc <- ProcMC
    Edits <- EditsMC
    HostVar = "V"
    Texts <- TextsMC
INVARIANTS ScriptModeTracksStack HistoryKeepsLast StatementsClosed SysdbaMatchesSession
PROPERTIES PlanRestored ExecWritesBound
CHECK_DEADLOCK FALSE
