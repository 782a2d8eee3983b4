\* FR-035 against what execute does when a caller dies after dispatch.
CONSTANTS
    Executor = {e1}
    Op = {o1}
    Input = {i1}
    Result = {r1}
    b1 = b1
    Branch = {b1}
    BranchOf <- OneBranch
    Faults = {"None", "AfterPrepared", "AfterDispatchedBeforeInvoke", "AfterInvokeBeforeCommit"}
    Mortal = {e1}
SPECIFICATION FairSpec
PROPERTY AmbiguousEffectSuspends
