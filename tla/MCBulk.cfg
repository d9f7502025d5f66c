SPECIFICATION Spec
CONSTANTS
    t1 = t1  t2 = t2
    c1 = c1  c2 = c2
    r1 = r1  r2 = r2  r3 = r3
    p1 = p1  p2 = p2
    Campaign = {c1, c2}
    Recipient = {r1, r3}
    CampaignOf <- Shared
    Idx <- Alone
    Phone = {p1}
    PhoneOf <- OnePhone
    Tick = {t1, t2}
    Hook = TRUE
    Rate = 1
    MaxAttempts = 1
    Free = Free
    MaxBought = 2
    MaxRetries = 1
    MaxCrashes = 1
INVARIANTS
    CountersMatch
    
    RateBudget
    DeliveredOnce
    
PROPERTIES
    NothingSentAfterRefund
