SPECIFICATION BrowserSpec
CONSTANTS
    Unknown = Unknown
    NoKey = NoKey
    Absent = Absent
    Corrupt = Corrupt
    Sessions = {s1, s2}
    Tasks = {t1, t2}
    Users = {alice}
    Keys = {k1}
    CookieMaxAge = 2
    ChallengeTtl = 3
    RegistrationGrace = 1
    StoreFaults = {}
    MayAbandon = FALSE
    MaxUpdateAttempts = 2
    MaxNonces = 16
    MaxTime = 2
    TicksPerSecond = 2
    Latency = 0
    Lossy = {"refresh"}
    Profiles <- Eager
    Patient = TRUE
INVARIANTS
    OverlapLastsToTheInstant
