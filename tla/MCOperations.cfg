SPECIFICATION OperationsSpec
CONSTANTS
    Target = {alert, jwt}
    Synced = {alert}
    Stale = stale
    MaxRun = 3
    MaxValue = 2
    MaxOpen = 2
    Absent = Absent
    Accounts = 2
    Secret = {11, 12, 21}
    ByteLength <- Lengths
    Job = {c1, c2}
    None = None
    Unreadable = Unreadable
    Torn = Torn
    Phone = {p1, p2}
    Number = {n1, n2}
    MaxRow = 2
    Call = {c1, c2}
    MaxSecret = 2
    MaxStep = 3
    Nobody = Nobody
    Session = {s1}
    MaxListener = 2
    MaxSignIn = 2
    MaxJobs = 2
    MaxPosted = 2
SYMMETRY Symmetry
CONSTRAINTS Untangled Calm
INVARIANTS
    VerifiedIsServed
    OutcomeIsTrue
    NumbersAgree
    SomethingWillStart
    
PROPERTIES
    ValuesSurvive
CHECK_DEADLOCK FALSE
