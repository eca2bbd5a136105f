SPECIFICATION Spec
CONSTANTS
    Absent = Absent
    Corrupt = Corrupt
    Sessions = {s1, s2}
    Offers = {o1, o2}
    Bindings = {b1, b2}
    ChallengeTtlSeconds = 1
    SessionLifetimeSeconds = 2
    MaxTime = 4
SYMMETRY Interchangeable
PROPERTIES
    KeepsContract
