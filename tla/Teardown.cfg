SPECIFICATION Spec
CONSTANTS
    Unknown = Unknown
    NoKey = NoKey
    Absent = Absent
    Corrupt = Corrupt
    Sessions = {s1}
    Tasks = {t1, t2}
    Users = {alice, bob}
    Keys = {k1, k2}
    CookieMaxAge = 1
    ChallengeTtl = 2
    StoreFaults = {"expiry", "corruption"}
    MayAbandon = TRUE
    MaxUpdateAttempts = 2
    MaxNonces = 3
    MaxTime = 0
SYMMETRY Interchangeable
INVARIANTS
    ServerTypeOK
    OfferSingleUse
    DeviceBound
PROPERTIES
    TornDownStaysDown
