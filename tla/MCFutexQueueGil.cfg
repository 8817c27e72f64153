CONSTANTS
    Depth = 1
    Items = {a}
    Junk = Junk
    Threads = {t1, t2}
    Processes = {{t1, t2}}
    Nobody = Nobody
    Modes = {"plain"}
    MayCrash = {}
SPECIFICATION FairSpec
PROPERTY LocksAreHandedOn
CHECK_DEADLOCK FALSE
