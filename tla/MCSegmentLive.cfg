CONSTANTS
    Procs = {p1, p2}
    Inodes = {i1, i2}
    Layouts = {l1, l2}
    None = None
    Calls = {"attach", "attach_unchecked", "open_or_create"}
    Deadlines = {TRUE, FALSE}
    MaxTries = 1
    Faults = {"dupName", "init", "attach"}
    MayCrash = {p1}
    MayUnlink = {p2}
SPECIFICATION FairSpec
INVARIANT AttachedIsReady
PROPERTY AttachEnds
