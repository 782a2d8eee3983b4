------------------------- MODULE MCCapabilityService -------------------------
(* An instance of CapabilityService for TLC; the sets are in the .cfg file.  *)
EXTENDS CapabilityService, TLC

\* Identities are compared for equality only.
IdSymmetry == Permutations(Capability) \cup Permutations(RequestId)

-----------------------------------------------------------------------------
(* What is explored: trees of up to three capabilities, each with a limit, at *)
(* one time under one policy revision; and pairs with a budget, at any time   *)
(* and revision.                                                              *)

Trees ==
    /\ \A b \in Branch : policy[b] \in {None, 0}
    /\ \A c \in Issued : /\ grant[c].expires_at = None /\ grant[c].issued_at = 0
                          /\ {grant[c].max_uses, grant[c].budget_units} # {None}
    /\ \A a \in authorizations : a.at = 0

Pairs ==
    /\ Cardinality(Issued) <= 2
    /\ \A c \in Issued : grant[c].max_uses = None /\ grant[c].budget_units # None
    /\ \A i \in DOMAIN decisions : decisions[i].handle \in Issued

\* Steps that lead elsewhere are not explored.
TreesOrPairs == Trees' \/ Pairs'
=============================================================================
