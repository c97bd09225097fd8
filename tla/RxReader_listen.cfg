SPECIFICATION ListenSpec
CONSTANTS
    Selector = Selector
    NoRun = NoRun
    Listeners = {l1, l2, l3}
    Pumps = {p1}
    Slots = {s1, s2, s3}
    Faults = {"read_wedged"}
SYMMETRY Symmetry
INVARIANTS TypeOK ReaderFollowsDemand ReceivingIsTrue
