SPECIFICATION ScreensSpec
CONSTANTS
    t1 = t1  t2 = t2  t3 = t3
    x1 = x1  x2 = x2
    s1 = s1  s2 = s2  s3 = s3
    otp = otp  bulk = bulk
    strict = strict  lax = lax
    Txn = {t1, t2, t3}
    TrxId = {x1, x2}
    NoTrx = NoTrx
    Sms = {s1, s2, s3}
    TrxOf <- TrxOfSms
    Bdt = {t1, t3}
    Bucket = {otp, bulk}
    Buckets <- Packages
    Quota <- Quotas
    Validity <- Days
    Rule = {strict, lax}
    Fits <- Matching
    MaxDays = 2
    RowId = {1, 2, 3}
    Tag = {"pending", "approved"}
    Settled = {"approved"}
    PageSize = 1
    LastSecond = 1
    Fetch = {q1, q2}
    Empty = Empty
    List = {l1, l2, l3}
    Flawed = {l3}
    Screen = {"web", "dashboard"}
    Ask = {q1, q2}
    MaxAsks = 3
    MaxParser = 1
    Blank = Blank
    Tab = {a1, a2}
    Row = {r1}
    Key = {k1, k2}
    Panel = {"queue", "apps", "payments", "packages", "users", "devices", "settings", "mail", "approvals", "registry", "switch", "groups", "templates", "plan", "companies"}
    Value = {0, 1}
    MaxPresses = 2
    Nil = Nil
    Site = {"web", "dashboard"}
    App = {b1}
    Secret = {z1, z2}
    MaxForms = 1
    Absent = Absent
    MaxUnderway = 2
SYMMETRY Symmetry
CONSTRAINTS Short Few
INVARIANTS
    AwardsArePaid
    PagesAreLossless
    
    ScreenCatchesUp
    ScreensHaveKeys
    NothingIsLeft
PROPERTIES
    AwardsStand
CHECK_DEADLOCK FALSE
