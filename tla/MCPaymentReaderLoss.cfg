SPECIFICATION Spec
CONSTANTS
    s1 = s1  s2 = s2  s3 = s3
    x1 = x1
    Sms = {s1, s2, s3}
    TrxOf <- TrxOfSms
    NoTrx = NoTrx
    Hinted = {s1}
    GeminiKey = FALSE
    Worker = {w1}
    NoWorker = NoWorker
    NoSms = NoSms
    MaxKills = 0
SYMMETRY Symmetry
INVARIANTS
    PaymentKept
CHECK_DEADLOCK FALSE
