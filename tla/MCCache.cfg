CONSTANTS
    Reqs = {r1, r2, r3}
    NoReq = NoReq
    BlockKeys = {b1}
    BlobKeys = {o1}
    MaxFails = 1
SPECIFICATION LiveSpec
INVARIANTS TypeOK OneFetchPerBlock BlocksWhole
PROPERTIES SubscribedWakes
\* Requests end, and one that missed its wake-up waits forever (MCCacheWakeup.cfg).
CHECK_DEADLOCK FALSE
