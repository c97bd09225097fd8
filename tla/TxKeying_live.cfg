SPECIFICATION FairSpec
CONSTANTS
    NoTalker = NoTalker
    Browsers = {"b1", "b2"}
    Relays = {"m1"}
    Dstars = {"d1"}
    Faults = {"ptt_on", "transmit"}
INVARIANTS LatchHasKeyer CarrierHasKeyer
PROPERTIES SlotComesBack ReceiverResumes ImplementsFairTransmitter
