CONSTANTS
    Servers = {s1, s2}
    Muts = {m1, m2}
    Backend = "gcs"
    Repo = "gcs"
    Committers = {s1, s2}
    Faults = {}
    MaxSeq = 3
    MaxCommits = 4
    MaxCrashes = 0
    MaxFaults = 0
SPECIFICATION Spec
PROPERTIES ZombiesRejected
CHECK_DEADLOCK FALSE
