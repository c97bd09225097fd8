SPECIFICATION ListenSpec
CONSTANTS
    Selector = Selector
    NoRun = NoRun
    Listeners = {l1, l2}
    Pumps = {p1}
    Slots = {s1, s2, s3}
    Faults = {}
SYMMETRY Symmetry
INVARIANT OneReader
