SPECIFICATION Spec
CONSTANTS
    NoTimer = NoTimer
    Callers = {"c1", "c2"}
    Timers = {"k1", "k2", "k3"}
    Faults = {}
    SlowKeyUp = FALSE
INVARIANT KeyIsCapped
