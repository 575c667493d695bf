\* Reports one at a time with lost pushes and restarts, or with lost answers,
\* and two reports that overlap.
SPECIFICATION Spec
CONSTANTS
    s1 = s1
    s2 = s2
    m1 = m1
    m2 = m2
    Subs = {s1, s2}
    Monitors = {m1, m2}
    Task = m1
    BatchSize = 1
    Troubles <- Behaviours
    MaxTraffic <- Uneven
    MaxBilled = 4
INVARIANTS
    TypeOK
    NoLoss
    NoOverbilling
    CounterNonNegative
    OverlapBalances
PROPERTIES
    EventuallyBilled
