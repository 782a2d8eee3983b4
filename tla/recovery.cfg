CONSTANTS
    MaxInteger = 10
    Scripts <- MCScripts
    Forks = {"f1", "f2"}
    Names = {"a", ""}
    Targets = {"t1"}
    Procs = {p, q}
    MaxOps = 4
    MaxTurns = 2
SPECIFICATION Spec
SYMMETRY ProcSymmetry
INVARIANTS EpochsAreSound ActivationsArePublished LineageHolds
CHECK_DEADLOCK FALSE
