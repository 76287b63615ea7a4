CONSTANTS
    Servers = {s1}
    Muts = {m1, m2}
    Backend = "gcs"
    Repo = "gcs"
    Committers = {s1}
    Faults = {"append", "finalize", "lockout", "isdone", "recover", "publish", "upload", "output", "open"}
    MaxSeq = 4
    MaxCommits = 5
    MaxCrashes = 1
    MaxFaults = 2
SYMMETRY Symmetry
SPECIFICATION Spec
INVARIANTS DoneLogsPublished DirtyCoversLog
\* A process that has exited need not be started again, and MaxSeq ends the run.
CHECK_DEADLOCK FALSE
