SPECIFICATION Spec
CONSTANTS
    s1 = s1  s2 = s2  s3 = s3
    x1 = x1
    Sms = {s1, s2, s3}
    TrxOf <- TrxOfSms
    NoTrx = NoTrx
    Hinted = {s1}
    GeminiKey = TRUE
    Worker = {w1, w2}
    NoWorker = NoWorker
    NoSms = NoSms
    MaxKills = 1
SYMMETRY Symmetry
INVARIANTS
    TrxIdQueuedOnce
    DrainGoesOn
CHECK_DEADLOCK FALSE
