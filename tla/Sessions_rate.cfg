\* One user whose node changes its speed limit.
SPECIFICATION Spec
CONSTANTS
    Users = {u1}
    Ids = {s1}
    Conns = {c1}
    NoBucket = NoBucket
    Rates = {1, 2}
INVARIANTS
    RateRefreshed
