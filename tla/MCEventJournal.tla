---------------------------- MODULE MCEventJournal ----------------------------
(* Instances of EventJournal for TLC.                                        *)
EXTENDS EventJournal, TLC

CONSTANTS s1, ep1

\* Every branch belongs to s1, and the only epoch to the first branch.
OneSession == [b \in Branch |-> s1]
FirstBranchEpoch == [e \in Epoch |-> Min(Branch)]

IdSymmetry == Permutations(Recorder)
=============================================================================
