SPECIFICATION Spec
CONSTANTS
    Selector = Selector
    NoRun = NoRun
    Listeners = {l1}
    Pumps = {p1, p2, p3}
    Slots = {s1, s2, s3}
    Faults = {"build_raises"}
SYMMETRY Symmetry
INVARIANT DemandIsServed
