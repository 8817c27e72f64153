CONSTANTS
    Procs = {p1, p2, p3}
    Inodes = {i1, i2, i3}
    Layouts = {l1}
    None = None
    Calls = {"create", "open_or_create"}
    Deadlines = {TRUE}
    MaxTries = 2
    Faults = {"create", "dupName", "init", "region", "bind", "attach"}
    MayCrash = {p1, p2, p3}
    MayUnlink = {p1, p2, p3}
SPECIFICATION Spec
SYMMETRY Symmetry
INVARIANTS TypeOK CreatorIsMaker CleanupRemovesOwnName
PROPERTY PublishedIsFinal
