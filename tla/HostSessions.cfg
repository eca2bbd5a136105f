SPECIFICATION HostSpec
CONSTANTS
    Unknown = Unknown
    NoKey = NoKey
    Absent = Absent
    Corrupt = Corrupt
    Sessions = {s1, s2, s3}
    Tasks = {t1, t2}
    Users = {alice}
    Keys = {k1}
    CookieMaxAge = 1
    ChallengeTtl = 2
    StoreFaults = {"corruption"}
    MayAbandon = TRUE
    MaxUpdateAttempts = 2
    MaxNonces = 2
    MaxTime = 0
    RegistrationGrace = 1
SYMMETRY Interchangeable
INVARIANTS
    HostTypeOK
    LoggedOutIsUnbound
    RecordsAreOwn
PROPERTIES
    NoFixation
