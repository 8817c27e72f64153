CONSTANTS
    Procs = {p1, p2}
    Inodes = {i1, i2}
    Layouts = {l1}
    None = None
    Calls = {"create", "attach", "attach_unchecked", "open_or_create"}
    Deadlines = {FALSE}
    MaxTries = 1
    Faults = {"dupName", "init"}
    MayCrash = {}
    MayUnlink = {}
SPECIFICATION FairSpec
PROPERTY AttachersRaise
