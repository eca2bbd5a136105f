SPECIFICATION CodecSpec
CONSTANTS
    Users = {u1}
    Unknown = Unknown
    Keys = {k1}
    NoKey = NoKey
    Absent = Absent
    Corrupt = Corrupt
    None = None
    CookieMaxAge = 2
    ChallengeTtl = 3
    Bindings <- MCBindings
    Offers <- MCOffers
    Moments = {2, 3, 4, 6}
    Tokens = {0, 1, 2}
    MaxDamage = 2
CHECK_DEADLOCK FALSE
INVARIANTS
    RoundTrip
    FailsClosed
    NeverLocksOut
