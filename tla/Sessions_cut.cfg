\* Two sessions of a user, on one connection or two.
SPECIFICATION Spec
CONSTANTS
    Users = {u1}
    Ids = {s1, s2}
    Conns = {c1, c2}
    NoBucket = NoBucket
    Rates = {0, 1}
INVARIANTS
    TypeOK
    Reachable
    NothingLeaks
SYMMETRY Symmetry
