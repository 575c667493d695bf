\* One execution at a time; or two, any of whose calls may fail.
SPECIFICATION Spec
CONSTANTS
    Syncers = {"s1", "s2"}
    NodeInfos <- AllConfigurations
    Lists <- Everything
    Settings <- AloneAndFailing
INVARIANTS
    TypeOK
    UpdatesApplied
    OneInbound
    Exclusive
PROPERTIES
    Converges
