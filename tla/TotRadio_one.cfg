SPECIFICATION FairSpec
CONSTANTS
    NoTimer = NoTimer
    Callers = {"c1"}
    Timers = {"k1", "k2", "k3"}
    Faults = {"key_up"}
    SlowKeyUp = FALSE
INVARIANTS TypeOK KeyIsCapped OneLiveTimer HeldIsKnown
PROPERTIES CarrierDrops
