SPECIFICATION FairHostSpec
CONSTANTS
    Unknown = Unknown
    NoKey = NoKey
    Absent = Absent
    Corrupt = Corrupt
    Sessions = {s1}
    Tasks = {t1, t2}
    Users = {alice}
    Keys = {k1}
    CookieMaxAge = 1
    ChallengeTtl = 2
    StoreFaults = {}
    MayAbandon = FALSE
    MaxUpdateAttempts = 2
    MaxNonces = 3
    MaxTime = 1
    RegistrationGrace = 1
PROPERTIES
    ExposureBounded
    DegradesOnlyInTeardown
    EveryRequestAnswered
    RefusedIsLoggedOut
