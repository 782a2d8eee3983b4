\* Two recorders, stale counters, references into other branches, and a reader
\* that pages through the journal meanwhile.
CONSTANTS
    Recorder = {r1, r2}
    Reader = {w1}
    Branch = {1, 2}
    s1 = s1
    ep1 = ep1
    Session = {s1}
    SessionOf <- OneSession
    ReadSession = s1
    Epoch = {}
    EpochBranch <- FirstBranchEpoch
    Payload = {small, large}
    Large = {large}
    Limit = 1
    MaxImported = 1
    MaxEvents = 3
SPECIFICATION Spec
SYMMETRY IdSymmetry
INVARIANTS SequencesAreDense WalksAreFaithful
