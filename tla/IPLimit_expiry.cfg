\* As the limiter is added: the expiry is the period.
SPECIFICATION Spec
CONSTANTS
    Nodes = {n1}
    Ips = {a1, a2}
    Ignored = {}
    NoIp = NoIp
    Period <- Same
    Expiry <- Same
    MaxBusy = 1
    Settings <- Healthy
INVARIANTS
    RecordedBetweenStays
