SPECIFICATION BrowserSpec
CONSTANTS
    Unknown = Unknown
    NoKey = NoKey
    Absent = Absent
    Corrupt = Corrupt
    Sessions = {s1, s2}
    Tasks = {t1, t2}
    Users = {alice}
    Keys = {k1}
    CookieMaxAge = 2
    ChallengeTtl = 3
    RegistrationGrace = 1
    StoreFaults = {}
    MayAbandon = FALSE
    MaxUpdateAttempts = 2
    MaxNonces = 16
    MaxTime = 1
    TicksPerSecond = 2
    Latency = 1
    Lossy = {"refresh"}
    Profiles <- Plain
    Patient = FALSE
INVARIANTS
    HonestNotTerminated
