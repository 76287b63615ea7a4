CONSTANTS
    Reqs = {r1, r2}
    NoReq = NoReq
    BlockKeys = {}
    BlobKeys = {o1}
    MaxFails = 0
SPECIFICATION Spec
INVARIANTS BlobsWhole
CHECK_DEADLOCK FALSE
