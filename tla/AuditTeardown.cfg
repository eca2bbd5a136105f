SPECIFICATION Spec
CONSTANTS
    Unknown = Unknown
    NoKey = NoKey
    Absent = Absent
    Corrupt = Corrupt
    Sessions = {s1}
    Tasks = {t1, t2}
    Users = {}
    Keys = {k1}
    CookieMaxAge = 1
    ChallengeTtl = 2
    StoreFaults = {}
    MayAbandon = FALSE
    MaxUpdateAttempts = 2
    MaxNonces = 3
    MaxTime = 0
SYMMETRY Interchangeable
PROPERTIES
    TeardownAudited
