SPECIFICATION Spec
CONSTANTS
    NoTalker = NoTalker
    Browsers = {"b1", "b2"}
    Relays = {"m1"}
    Dstars = {"d1"}
    Faults = {"ptt_off"}
INVARIANT LatchHasKeyer
