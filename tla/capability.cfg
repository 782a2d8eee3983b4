\* Trees of delegation; and pairs under expiry, two policy revisions and
\* revocation with a clock that may go back.
CONSTANTS
    Capability = {c1, c2, c3}
    Branch = {b1}
    Scope = {s1}
    RequestId = {r1, r2}
    UseLimit = {2}
    BudgetLimit = {3}
    Charge = {1, 2}
    Expiry = {1}
    Time = {0, 1}
    Revision = {0, 1}
    MaxDecisions = 2
SPECIFICATION Spec
SYMMETRY IdSymmetry
ACTION_CONSTRAINT TreesOrPairs
INVARIANTS AllowanceConserved DenialIsFinal AuthorizedWithinLifetime
PROPERTIES AuthorityOnlyShrinks
CHECK_DEADLOCK FALSE
