\* Every variation of a record, edited into every other one.
SPECIFICATION Spec
CONSTANTS
    MaxPort = 3
    NaN = NaN
    Servers <- AllServers
    Edits <- EditedServers
    Lists <- SomeLists
INVARIANTS
    TypeOK
    NoDangling
    OwnExit
    BlocksApply
    Clean
    
