CONSTANTS
    Depth = 2
    Items = {a}
    Junk = Junk
    Procs = {p1, p2, p3}
    Nobody = Nobody
    Modes = {"nowait", "plain", "slicedTimed"}
    MayCrash = {p1, p2, p3}
SPECIFICATION Spec
SYMMETRY ProcSymmetry
INVARIANTS RecoverBeforeUse NoStrandedWaiter
