CONSTANTS
    Servers = {s1}
    Muts = {m1, m2}
    Backend = "gcs"
    Repo = "gcs"
    Committers = {s1}
    Faults = {"finalize", "lockout", "isdone", "recover", "publish", "open"}
    MaxSeq = 3
    MaxCommits = 6
    MaxCrashes = 2
    MaxFaults = 1
SPECIFICATION LiveSpec
INVARIANTS TypeOK DurabilityInv AckedDurable LoggedDurable CommitKeepsParent CleanExitCommitted
PROPERTIES ImplementsStore HeadOnlyGrows EventuallyPublished
\* A process that has exited need not be started again, and MaxSeq ends the run.
CHECK_DEADLOCK FALSE
