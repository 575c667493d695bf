\* Two nodes; the poller and a webhook synchronise while the process reloads.
SPECIFICATION Spec
CONSTANTS
    Nodes = {n1, n2}
    Pollers = {p1}
    Hook = hook
    Troubles <- Behaviours
    MaxChanges = 1
    MaxEdits = 1
INVARIANTS
    TypeOK
    Managed
    ClosedIsQuiet
PROPERTIES
    CrashOnlyClosed
    ServesListed
    Reloads
CHECK_DEADLOCK FALSE
