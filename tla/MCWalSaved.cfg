CONSTANTS
    Servers = {s1}
    Muts = {m1, m2}
    Backend = "local"
    Repo = "http"
    Committers = {s1}
    Faults = {}
    MaxSeq = 3
    MaxCommits = 4
    MaxCrashes = 1
    MaxFaults = 0
SPECIFICATION Spec
INVARIANTS RestingKeepsAcked
CHECK_DEADLOCK FALSE
