\* Where the connections of a relaying node go.
SPECIFICATION Spec
CONSTANTS
    MaxPort = 3
    NaN = NaN
    Servers <- FewServers
    Edits <- FewServers
    Lists <- SomeLists
INVARIANTS
    Relayed
