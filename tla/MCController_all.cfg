SPECIFICATION Spec
CONSTANTS
    c0 = c0
    c1 = c1
    Codes = {c0, c1}
    CodeAt <- MCCodeAt
    Timeout = 2
    IdInterval = 2
    TotpInterval = 2
    Render = 1
    Spoken = {"login", "logout", "link"}
    Faults = {"refused", "broken", "render"}
    Enforcing = {TRUE, FALSE}
    Swaps = TRUE
    Jumps = {1, 3}
    MaxTime = 6
CHECK_DEADLOCK FALSE
INVARIANTS TypeOK OpenIsRecorded OversAreIdentified
PROPERTIES NoReplay IdleTakesNoCommand CloseIsSignedOff
VIEW View
