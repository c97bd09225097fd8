SPECIFICATION FairSpec
CONSTANTS
    Selector = Selector
    NoRun = NoRun
    Listeners = {l1}
    Pumps = {p1, p2}
    Slots = {s1, s2}
    Faults = {"read_wedged", "read_raises", "close_late", "build_raises"}
INVARIANTS  OneTaskPerPump
PROPERTY StopsEnd
