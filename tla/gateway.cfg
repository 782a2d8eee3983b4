\* Racing callers of one operation, one of which may stop anywhere, with every
\* fault point.
CONSTANTS
    Executor = {e1, e2}
    Op = {o1}
    Input = {i1, i2}
    Result = {r1, r2}
    b1 = b1
    Branch = {b1}
    BranchOf <- OneBranch
    Faults = {"None", "AfterPrepared", "AfterDispatchedBeforeInvoke", "AfterInvokeBeforeCommit"}
    Mortal = {e1}
SPECIFICATION FairSpec
INVARIANTS InvokedAtMostOnce ReceiptsAreTheRecord SummaryMatchesHistory
PROPERTIES ImplementsLedger EveryCallReturns DispatchedIsResolved
