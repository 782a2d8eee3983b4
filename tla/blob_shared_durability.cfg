\* A second writer relies on what the first has not synced; the power fails.
CONSTANTS
    Writer = {w1, w2}
    Opener = {o1}
    Hash = {h1}
    Media = {m1, m2}
    d1 = d1
    Shard = {d1}
    ShardOf <- OneShard
    Mishaps = {"power"}
SPECIFICATION Spec
SYMMETRY IdSymmetry
PROPERTY AckedIsDurable
