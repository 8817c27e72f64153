CONSTANTS
    Depth = 1
    Items = {a}
    Junk = Junk
    Procs = {p1, p2, p3}
    Nobody = Nobody
    Modes = {"plain", "timed"}
    MayCrash = {}
SPECIFICATION FairSpec
PROPERTY EveryCallSettles
