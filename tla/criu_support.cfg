\* Support that the restored tree did not earn.
CONSTANTS
    Configs <- MCConfigs
    Machines <- MCMachines
    Declared <- MCAppending
    Commands <- MCCommands
    CriuLogs = {24}
    MaxTicks = 2
SPECIFICATION CriuSpec
INVARIANT SupportIsEarned
CHECK_DEADLOCK FALSE
