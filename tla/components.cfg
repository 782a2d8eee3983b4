\* The components that share no state, side by side.
CONSTANTS
    \* AgentStream: two model requests, one tool call and two contexts
    Identity = {mine, other}
    Assigned = mine
    Hash = {h1, h2}
    RequestId = {q1, q2}
    CallId = {t1}
    MaxSequence = 5
    MaxRevision = 1
    \* Sandbox
    Hosts <- MCHosts
    Requests <- MCRequests
    Paths <- MCPaths
    Descendants = {k1, k2}
    ATTEMPTS = 3
    ShowMayFail = FALSE
    MaxOps = 4
    \* CriuCompat
    Configs <- MCConfigs
    Machines <- MCMachines
    Declared <- MCDeclared
    Commands <- MCCommands
    CriuLogs = {24}
    MaxTicks = 2
    \* ProcCollector
    Pids = {1, 2, 3, 4}
    Root = 1
    Tree <- MCTree
    Threads <- MCThreads
    Bad <- MCBad
    max_processes = 3
    max_threads_per_process = 2
    MaxEvents = 3
    \* SemanticDiff
    MaxInteger = 10
    Contexts <- MCContexts
    Spelling <- MCSpelling
    \* TrajectoryExport
    Kinds = {"custom"}
    ForkIds = {f1}
    ForkEpochs = {1}
    Exporters = {x1}
    Rivals = {x2}
    Wanted <- MCWanted
    HardBranches = 2
    HardEvents = 6
    MaxRecords = 2
    MaxActivations = 1
SPECIFICATION ComponentsSpec
INVARIANTS AcceptsExactly LinuxIsConfined CleanedLeavesNothing SupportIsSeen KeepIsWithinGates EvidenceIsWhole CompleteOrSaid DiffDeterminesAfter TimelineIsExact RefusalIsOfTheRequest OutputIsWhole
PROPERTIES CleanupReturns
CHECK_DEADLOCK FALSE
