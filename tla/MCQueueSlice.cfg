CONSTANTS
    Depth = 1
    Items = {a}
    Junk = Junk
    Procs = {p1, p2}
    Nobody = Nobody
    Modes = {"sliced"}
    MayCrash = {}
SPECIFICATION FairSpec
PROPERTY GetWaitsNotEmpty
