SPECIFICATION OneAppSpec
CONSTANTS
    d1 = d1  d2 = d2
    m1 = m1  m2 = m2
    Msg = {m1, m2}
    Device = {d1, d2}
    App = {a1}
    Fleet = Fleet
    NoDevice = NoDevice
    RequeueSec = 2
    BatchLimit = 2
    Sealed = {m2}
    SendInterval = 1
    SmsTimeout = 1
    Idle = Idle
    MaxClaims = 3
CONSTRAINT TwoPhonesOrTwoMessages
INVARIANTS
    OneSmsPerClaim
    AirIsHonest
