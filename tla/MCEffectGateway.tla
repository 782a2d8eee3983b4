--------------------------- MODULE MCEffectGateway ---------------------------
(* Instances of EffectGateway for TLC.                                       *)
EXTENDS EffectGateway, TLC

CONSTANTS b1

\* All operations belong to one branch.
OneBranch == [o \in Op |-> b1]

\* Callers, operations and contents are compared for equality only.
IdSymmetry == Permutations(Executor) \cup Permutations(Op)
                  \cup Permutations(Input) \cup Permutations(Result)
=============================================================================
