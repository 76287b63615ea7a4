CONSTANTS
    Reqs = {r1, r2}
    NoReq = NoReq
    BlockKeys = {b1}
    BlobKeys = {}
    MaxFails = 0
SPECIFICATION LiveSpec
PROPERTIES RequestsReturn
CHECK_DEADLOCK FALSE
