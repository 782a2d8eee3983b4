--------------------------- MODULE MCSecureGateway ---------------------------
(* Instances of SecureGateway for TLC.                                       *)
EXTENDS SecureGateway, TLC

CONSTANTS b1, b2, c1, c2, e1, e2, o1, o2

\* Both operations on one branch; the two gateways hold different handles.
SameBranch == [o \in RequestId |-> b1]
\* The second operation is derived from the second branch.
TwoBranches == [o \in RequestId |-> IF o = o1 THEN b1 ELSE b2]
\* Sound with SameBranch only.
OpSymmetry == Permutations(RequestId)
\* The root is issued already, with one use, and the second handle is not; a
\* supervisor runs the first branch and the second is a fork nobody runs.
RootIssued ==
    /\ policy = [b \in Branch |-> 0]
    /\ grant = [c \in Capability |-> IF c # c1 THEN NoGrant ELSE
                   [NoGrant EXCEPT !.branch = b1, !.scope = CHOOSE s \in Scope : TRUE,
                                       !.revision = 0, !.max_uses = 1, !.issued_at = 0]]
    /\ status = [c \in Capability |-> IF c = c1 THEN "active" ELSE "absent"]
    /\ uses = [c \in Capability |-> IF c = c1 THEN 1 ELSE None]
    /\ budget = [c \in Capability |-> None]
    /\ ancestry = [c \in Capability |-> IF c = c1 THEN RootAncestry(c1)
                                                  ELSE [a \in Capability |-> None]]
    /\ authorizations = {} /\ decisions = <<>>
    /\ Gw!Init /\ supervised = {b1}

IssuedSpec == RootIssued /\ [][SecureNext]_secureVars

Handles == [e \in Executor |-> IF e = e1 THEN c1 ELSE c2]
Charges == [e \in Executor |-> 1]
Scopes == [i \in Input |-> CHOOSE s \in Scope : TRUE]
=============================================================================
