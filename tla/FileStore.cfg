SPECIFICATION Spec
CONSTANTS
    Absent = Absent
    Corrupt = Corrupt
    Idle = Idle
    Callers = {c1, c2}
    Sessions = {s1}
    Offers = {o1, o2}
    Bindings = {b1, b2}
    ChallengeTtl = 2
    SessionTtl = 1
    TicksPerSecond = 2
    Hold = 1
    MaxTime = 3
    MaxRestarts = 1
    MaxDecays = 1
SYMMETRY Interchangeable
INVARIANTS
    TypeOK
    OfferBindsOnce
    ReadersFindTheRecord
PROPERTIES
    WritesKeepContract
