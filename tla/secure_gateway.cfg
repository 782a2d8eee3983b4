\* A root with one use and a handle delegated from it or issued elsewhere, two
\* gateways, two operations of one branch.
CONSTANTS
    c1 = c1
    c2 = c2
    b1 = b1
    b2 = b2
    e1 = e1
    e2 = e2
    o1 = o1
    o2 = o2
    Capability = {c1, c2}
    Branch = {b1, b2}
    Scope = {s1}
    UseLimit = {1}
    BudgetLimit = {}
    Charge = {1}
    Expiry = {}
    Time = {0}
    Revision = {0}
    MaxDecisions = 2
    Executor = {e1, e2}
    RequestId = {o1, o2}
    Input = {i1}
    Result = {r1}
    BranchOf <- SameBranch
    Faults = {"None", "AfterInvokeBeforeCommit"}
    Mortal = {e1, e2}
    HandleOf <- Handles
    ChargeOf <- Charges
    ScopeOf <- Scopes
SPECIFICATION IssuedSpec
SYMMETRY OpSymmetry
INVARIANTS CallsWithinAuthority ConsumedIffAdmitted
