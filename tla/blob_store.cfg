\* Writers race, die, fail, stall and meet tampered files while the store is
\* opened, and the power fails.
CONSTANTS
    Writer = {w1, w2}
    Opener = {o1}
    Hash = {h1}
    Media = {m1, m2}
    d1 = d1
    Shard = {d1}
    ShardOf <- OneShard
    Mishaps = {"kill", "io", "stall", "tamper", "power"}
SPECIFICATION Spec
SYMMETRY IdSymmetry
CONSTRAINT FewMishaps
INVARIANTS PublishedIsComplete AcksAgree
PROPERTIES OnlyUnsyncedIsLost SweepSparesWriters
