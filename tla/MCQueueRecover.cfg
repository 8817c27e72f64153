CONSTANTS
    Depth = 3
    Items = {a}
    Junk = Junk
    Procs = {p1, p2}
    Nobody = Nobody
    Modes = {"nowait"}
    MayCrash = {p1, p2}
SPECIFICATION Spec
INVARIANT CountMatchesHeaders
