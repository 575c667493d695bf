\* The node task and the webhook loop execute apiMonitor together.
SPECIFICATION Spec
CONSTANTS
    Syncers = {"s1", "s2"}
    NodeInfos <- AllConfigurations
    Lists <- Everything
    Settings <- Together
INVARIANTS
    UpdatesApplied
