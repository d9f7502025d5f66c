SPECIFICATION FairSpec
CONSTANTS
    Thread = {cron, sweep, canary, handler}
    Threshold = 1
    Configured = {"telegram", "webhook"}
    Device = {d1}
    Revocable = {d1}
    Ticker = {cron, sweep}
    Canary = canary
    Repeat = 1
    MaxAge = 1
    Slot = {handler}
    App = {a1}
    Attempts = 2
    Exhaustions = 2
    Damping = 1
PROPERTIES
    StaleIsRetold
    DeadTelegramShows
    
    DispatchEnds
CONSTRAINT OneSide
CHECK_DEADLOCK FALSE
