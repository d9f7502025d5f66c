SPECIFICATION OtpPartsSpec
CONSTANTS
    s1 = s1
    s2 = s2
    d1 = d1
    d2 = d2
    d3 = d3
    Sub = {s1, s2}
    Cap <- CapOne
    Trx = {x1}
    NoTrx = NoTrx
    Device = {d1, d2, d3}
    Validity = 2
    ChurnSec = 3
    MaxNow = 4
    Number = {n1}
    Ttl = 3
    MaxAttempts = 2
    LockoutSec = 2
    CooldownSec = 1
    RateMax = 2
    RateWindow = 4
    CreditDays = 2
    NoTime = NoTime
    MaxSends = 3
    MaxBought = 2
    NoAnswer = NoAnswer
    MaxCalls = 4
INVARIANTS
    EveryCodeIsCovered
    CodesAreGuarded
    
PROPERTIES
    OnlyTheLastVerifies
CONSTRAINTS Small Unplanned
SYMMETRY Symmetry
CHECK_DEADLOCK FALSE
