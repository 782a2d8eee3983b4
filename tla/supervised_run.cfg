\* Every error path of a run, small pipes and a channel of one message.
CONSTANTS
    MaxRecords = 3
    PipeCapacity = 2
    ChannelCapacity = 1
    Mishaps = {"storage", "spawn", "stderr", "escape"}
SPECIFICATION FairSpec
INVARIANTS OutcomeHasEverything FailureKeepsPrefix NothingLeftBehind
PROPERTIES EveryRunReturns
CHECK_DEADLOCK FALSE
