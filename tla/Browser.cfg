SPECIFICATION FairBrowserSpec
CONSTANTS
    Unknown = Unknown
    NoKey = NoKey
    Absent = Absent
    Corrupt = Corrupt
    Sessions = {s1}
    Tasks = {t1, t2}
    Users = {alice}
    Keys = {k1}
    CookieMaxAge = 3
    ChallengeTtl = 4
    StoreFaults = {}
    MayAbandon = FALSE
    MaxUpdateAttempts = 1
    MaxNonces = 16
    MaxTime = 3
    RegistrationGrace = 2
    TicksPerSecond = 2
    Latency = 1
    Lossy = {"refresh"}
    Profiles <- EagerOrLossy
    Patient = TRUE
INVARIANTS
    HonestNotTerminated
    OverlapLastsInBrowser
PROPERTIES
    EventuallyRefreshed
