SPECIFICATION Spec
CONSTANTS
    Master = master
    Other = other
    NoBranch = none
    Branches = {master, other}
    Setups <- MCSetups
    PackPlace <- MCPackPlace
    RefPlace <- MCRefPlace
    MaxCommits = 5
    MaxMishaps = 2
INVARIANTS PublishInv TypeOK RefsComplete KeepsCommits Bootable Cloneable TreesLoaded
CHECK_DEADLOCK FALSE
