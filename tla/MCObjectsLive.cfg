SPECIFICATION Spec
CONSTANTS
  h1 = h1  h2 = h2  t1 = t1  t2 = t2  t3 = t3  r1 = r1  r2 = r2
  Crews <- LiveCrewsV
  Handles = {h1, h2}  Threads = {t1, t2, t3}  Regions = {r1, r2}  Exports = {e1, e2}
  NoRegion = NoRegion  Nobody = Nobody  Gone = Gone
  At <- AtV  Seat <- SeatV
  Modes = {"plain"}  MayDie = {}  MaxPins = 3
  RebindsUnderViews = FALSE
  Sems = {s1, s2}  NoSem = NoSem  MaxSem = 2  MaxTold = 1
  Parties = 2  MaxRounds = 2
  Mqs = {q1}  NoMq = NoMq  Msgs = {m1, m2}  MaxMsg = 1
  Callbacks = {f1, f2}  NoFn = NoFn  Notifiers = {n1, n2}  NoHandle = NoHandle
  WordMax = 47  SlotMax = 15  HeaderBytes = 4  SlotBytes = 1  CacheLine = 4
  CtrlBytes = 4  PrefixBytes = 4  StateBytes = 1
  KindAlign <- KindAlignV  KindSize <- KindSizeV
  PlainKinds = {"mutex"}  CountKinds = {"sem"}  CountOf <- CountOfV
  ByteSizes = {22, 46}  ArrayCounts = {8}  Depths = {1, 11}  ItemSizes = {6}  MaxHandles = 2
  KindCode <- KindCodeV  DigestMax = 3  Prime = 3  Directories <- DirectoriesV
  Callers = {t1, t2}  Words = {0, 1}  FutexModes = {"plain", "slicedTimed"}
  Descs = {d1, d2}  Fds = {1, 2}  Files = {k1, k2}  NoFile = NoFile  NoDesc = NoDesc  MaxViews = 1
  Second = 4  SliceNs = 3  MaxAdd = 2  Fine = 2  Timeouts = {0, 3, 9, 30}  Forever = 5  MaxNow = 15
PROPERTIES
  RobustMutexMoves
  SpinLockFrees
CHECK_DEADLOCK FALSE
