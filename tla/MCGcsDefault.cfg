SPECIFICATION Spec
CONSTANTS
    Master = master
    Other = other
    NoBranch = none
    Branches = {master, other}
    Setups <- MCDefaultSetups
    PackPlace <- MCPackPlace
    RefPlace <- MCRefPlace
    MaxCommits = 3
    MaxMishaps = 0
INVARIANT KeepsCommits
CHECK_DEADLOCK FALSE
