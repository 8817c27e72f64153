CONSTANTS
    Depth = 3
    Items = {a, b}
    Junk = Junk
    Procs = {p1, p2}
    Nobody = Nobody
    Modes = {"plain"}
    MayCrash = {p1, p2}
SPECIFICATION Spec
SYMMETRY ProcSymmetry
INVARIANTS TypeOK RingIntact NoTornItem NoEinval
PROPERTY ImplementsFifo
