SPECIFICATION Spec
CONSTANTS
    NoTalker = NoTalker
    Browsers = {"b1", "b2"}
    Relays = {"m1", "m2"}
    Dstars = {"d1"}
    Faults = {"ptt_on", "ptt_off", "transmit"}
INVARIANTS TypeOK SlotMatchesScopes OneKeyedTalker LatchCoversKeyed KeyedInsideScope
PROPERTIES OversEndThemselves ImplementsTransmitter
