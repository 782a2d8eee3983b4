----------------------------- MODULE MCBlobStore -----------------------------
(* Instances of BlobStore for TLC.                                           *)
EXTENDS BlobStore, TLC

CONSTANTS d1

\* All contents share one shard directory.
OneShard == [h \in Hash |-> d1]

\* Writers, contents and media types are compared for equality only.
IdSymmetry == Permutations(Writer) \cup Permutations(Hash) \cup Permutations(Media)

\* What is explored: at most one file in .tmp whose writer is dead, and at most
\* one published file that was tampered with.
FewMishaps ==
    /\ Cardinality({t \in temps : t.owner = Orphan}) <= 1
    /\ Cardinality({e \in Entry : files[e[1]][e[2]] = Corrupt}) <= 1
=============================================================================
