\* Two nodes, each with the expiry the code gives it: its own period.
SPECIFICATION Spec
CONSTANTS
    Nodes = {n1, n2}
    Ips = {a1, a2}
    Ignored = {}
    NoIp = NoIp
    Period <- Longer
    Expiry <- Longer
    MaxBusy = 1
    Settings <- Cases
INVARIANTS
    TypeOK
    LimitHolds
    NothingDroppedUnreported
PROPERTIES
    SlotsReleased
