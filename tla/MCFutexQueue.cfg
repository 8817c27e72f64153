CONSTANTS
    Depth = 3
    Items = {a}
    Junk = Junk
    Threads = {t1, t2}
    Processes = {{t1}, {t2}}
    Nobody = Nobody
    Modes = {"nowait", "plain", "slicedTimed"}
    MayCrash = {{t1}}
SPECIFICATION FairSpec
INVARIANTS TypeOK RingIntact CurrentMeansBlocked
PROPERTY EveryCallSettles
