------------------------------- MODULE Region -------------------------------
(***************************************************************************)
(* The life of a mapping inside one process: posixipc.SharedMemory objects *)
(* (bindings/py_shm.c), the handles bound to their slots, and what those   *)
(* hand out: memoryviews (py_shm.c, SharedBytes in py_layout.c) and mutex  *)
(* capsules (py_mutex.c).  Everything that points into the mapping is      *)
(* meant to hold a pin; close() of the region refuses while pins > 0.      *)
(*                                                                         *)
(* The interpreter runs one thread at a time, so a method is one step      *)
(* unless it gives the GIL up.  A blocking method gives it up between      *)
(* EnterCall and LeaveCall, with the slot's address in a C local.          *)
(*                                                                         *)
(* The modules of the primitives extend this one: a handle is closed, and  *)
(* its region unpinned, in the same way for every kind of slot.            *)
(***************************************************************************)
EXTENDS Naturals, FiniteSets

CONSTANTS
    Regions,    \* SharedMemory objects
    NoRegion,   \* a NULL region
    Handles,    \* handle objects: Mutex, Semaphore, ..., SharedBytes
    Exports,    \* memoryviews, mutex capsules, and the pins C code adds to one
    Threads,    \* threads that call methods
    At,         \* the handle each thread works with
    Seat,       \* the region of a handle that starts out bound
    Nobody,     \* no thread
    Modes,      \* how callers wait, see AllModes
    MayDie,     \* the handles whose process may be killed
    MaxPins,    \* bound on a pin count
    RebindsUnderViews \* a layout is created or attached again while views
                      \* of its SharedBytes handles are still out

(* blocking, timeout and interruptible, as posixipc_parse_acquire reads    *)
(* them; the two sliced modes run posixipc_blocking_wait's loop of 50 ms   *)
(* waits, between which signal handlers run.                               *)
AllModes == {"nowait", "plain", "timed", "sliced", "slicedTimed"}
TimedModes == {"timed", "slicedTimed"}
SlicedModes == {"sliced", "slicedTimed"}

ASSUME NobodyAssumption == Nobody \notin Threads
ASSUME ModesAssumption == Modes \subseteq AllModes
ASSUME MayDieAssumption == MayDie \subseteq Handles
ASSUME NoRegionAssumption == NoRegion \notin Regions
ASSUME DisjointAssumption == Handles \cap Exports = {}
ASSUME FiniteAssumption == IsFiniteSet(Handles) /\ IsFiniteSet(Exports)
ASSUME ThreadsAssumption == IsFiniteSet(Threads)
ASSUME AtAssumption == At \in [Threads -> Handles]
ASSUME SeatAssumption == Seat \in [Handles -> Regions]
ASSUME MaxPinsAssumption == MaxPins \in Nat
ASSUME RebindsAssumption == RebindsUnderViews \in BOOLEAN

VARIABLES
    mapped,   \* the regions whose core.map is not NULL
    rclosed,  \* the regions with the CLOSED flag
    rref,     \* the regions the program itself refers to
    pins,     \* each region's pin count
    bound,    \* the handles with the BOUND flag
    hclosed,  \* the handles with the CLOSED flag
    hregion,  \* each handle's region
    ekind,    \* what each export is
    esource,  \* the region, handle or capsule an export was taken from
    pc,       \* where each thread is
    inside,   \* the region whose memory a thread is blocked in
    mode      \* how it waits there

regionVars == <<mapped, rclosed, rref, pins>>
handleVars == <<bound, hclosed, hregion>>
exportVars == <<ekind, esource>>
threadVars == <<pc, inside, mode>>
objectVars == <<regionVars, handleVars, exportVars, threadVars>>

EKinds == {"none", "view", "bytes", "capsule", "retain"}

RegionTypeOK ==
    /\ mapped \subseteq Regions
    /\ rclosed \subseteq Regions
    /\ rref \subseteq Regions
    /\ pins \in [Regions -> Nat]
    /\ bound \subseteq Handles
    /\ hclosed \subseteq Handles
    /\ hregion \in [Handles -> Regions \cup {NoRegion}]
    /\ ekind \in [Exports -> EKinds]
    /\ esource \in [Exports -> Regions \cup Handles \cup Exports \cup {NoRegion}]
    /\ inside \in [Threads -> Regions \cup {NoRegion}]
    /\ mode \in [Threads -> AllModes]

(* Nothing is attached yet; the threads in T run. *)
RegionInit(T) ==
    /\ mapped = {}
    /\ rclosed = {}
    /\ rref = {}
    /\ pins = [r \in Regions |-> 0]
    /\ bound = {}
    /\ hclosed = {}
    /\ hregion = [h \in Handles |-> NoRegion]
    /\ ekind = [e \in Exports |-> "none"]
    /\ esource = [e \in Exports |-> NoRegion]
    /\ pc = [t \in Threads |-> IF t \in T THEN "idle" ELSE "dead"]
    /\ inside = [t \in Threads |-> NoRegion]
    /\ mode = [t \in Threads |-> "nowait"]

(* What the modules of the primitives start from: every handle bound to    *)
(* the region of its own process, with n pins, or one process-private      *)
(* handle, which its __init__ marks BOUND and which has no region.  The    *)
(* threads in T run; the others were never started.                        *)
PlacedInit(n, T) ==
    /\ rclosed = {}
    /\ hclosed = {}
    /\ ekind = [e \in Exports |-> "none"]
    /\ esource = [e \in Exports |-> NoRegion]
    /\ pc = [t \in Threads |-> IF t \in T THEN "idle" ELSE "dead"]
    /\ inside = [t \in Threads |-> NoRegion]
    /\ mode = [t \in Threads |-> "nowait"]
    /\ \/ /\ bound = Handles
          /\ hregion = Seat
          /\ mapped = Regions
          /\ rref = Regions
          /\ pins = [r \in Regions |-> n * Cardinality({h \in Handles : Seat[h] = r})]
       \/ /\ \E h \in Handles : bound = {h}
          /\ hregion = [h \in Handles |-> NoRegion]
          /\ mapped = {}
          /\ rref = {}
          /\ pins = [r \in Regions |-> 0]

-----------------------------------------------------------------------------

(* shm_is_closed *)
ShmIsClosed(r) == r \in rclosed \/ r \notin mapped

(* posixipc_shmobj_pin that succeeds; one that meets a closed region takes *)
(* its pin back and raises ClosedError.                                    *)
Pin(r) == ~ShmIsClosed(r) /\ pins[r] < MaxPins /\ pins' = [pins EXCEPT ![r] = @ + 1]

(* posixipc_shmobj_unpin *)
Unpin(r) == pins' = [pins EXCEPT ![r] = @ - 1]

(* The handle's check_open: bound and not closed. *)
Open(h) == h \in bound /\ h \notin hclosed

ThreadsOf(h) == {t \in Threads : At[t] = h}

ViewsOf(h) == {e \in Exports : ekind[e] = "bytes" /\ esource[e] = h}

(* Who keeps the SharedMemory object alive: handles, its own memoryviews   *)
(* and capsules refer to it.  A view of a SharedBytes refers to the        *)
(* SharedBytes, and a retain is a bare pin.                                *)
Referred(r) ==
    \/ r \in rref
    \/ \E h \in Handles : hregion[h] = r
    \/ \E e \in Exports : ekind[e] \in {"view", "capsule"} /\ esource[e] = r

-----------------------------------------------------------------------------

(* posixipc_shmobj_from_core: a create, attach or open_or_create succeeded *)
(* and hands over its mapping.                                             *)
FromCore(r) ==
    /\ ~Referred(r) /\ r \notin mapped
    /\ mapped' = mapped \cup {r}
    /\ rclosed' = rclosed \ {r}
    /\ rref' = rref \cup {r}
    /\ pins' = [pins EXCEPT ![r] = 0]
    /\ UNCHANGED <<handleVars, exportVars, threadVars>>

(* posixipc_bytes_bind; the other kinds bind in the same way.  A second    *)
(* bind drops the old region and keeps its pin, and leaves CLOSED set.     *)
BindTo(h, r) ==
    /\ Pin(r)
    /\ bound' = bound \cup {h}
    /\ hregion' = [hregion EXCEPT ![h] = r]
    /\ UNCHANGED <<mapped, rclosed, rref, hclosed>>

Bind(h, r) ==
    /\ RebindsUnderViews \/ ViewsOf(h) = {}
    /\ BindTo(h, r)
    /\ UNCHANGED <<exportVars, threadVars>>

(* bytes_close, mutex_close and the other kinds' close of a bound handle. *)
CloseBound(h) ==
    /\ h \notin hclosed
    /\ IF hregion[h] = NoRegion THEN UNCHANGED pins ELSE Unpin(hregion[h])
    /\ hregion' = [hregion EXCEPT ![h] = NoRegion]
    /\ hclosed' = hclosed \cup {h}
    /\ UNCHANGED <<mapped, rclosed, rref, bound>>

CloseHandle(h) == CloseBound(h) /\ UNCHANGED <<exportVars, threadVars>>

(* bytes_dealloc, when the last reference to the handle goes, and the      *)
(* new_unbound that makes the object the name h stands for next.           *)
DeallocHandle(h) ==
    /\ ViewsOf(h) = {}
    /\ \A t \in ThreadsOf(h) : pc[t] \in {"idle", "dead"}
    /\ h \in bound \cup hclosed
    /\ IF h \in hclosed \/ hregion[h] = NoRegion
         THEN UNCHANGED pins
         ELSE Unpin(hregion[h])
    /\ hregion' = [hregion EXCEPT ![h] = NoRegion]
    /\ bound' = bound \ {h}
    /\ hclosed' = hclosed \ {h}
    /\ UNCHANGED <<mapped, rclosed, rref, exportVars, threadVars>>

Export(e, kind, source) ==
    /\ ekind[e] = "none"
    /\ ekind' = [ekind EXCEPT ![e] = kind]
    /\ esource' = [esource EXCEPT ![e] = source]

(* shm_getbuffer *)
ShmGetBuffer(e, r) ==
    /\ Referred(r)
    /\ Pin(r)
    /\ Export(e, "view", r)
    /\ UNCHANGED <<mapped, rclosed, rref, handleVars, threadVars>>

(* bytes_getbuffer *)
BytesGetBuffer(e, h) ==
    /\ Open(h) /\ hregion[h] # NoRegion
    /\ Pin(hregion[h])
    /\ Export(e, "bytes", h)
    /\ UNCHANGED <<mapped, rclosed, rref, handleVars, threadVars>>

(* shm_get_payload: a SharedBytes made on the spot (posixipc_bytes_view)   *)
(* and a memoryview of it, two pins.                                       *)
GetPayload(e, h, r) ==
    /\ Referred(r)
    /\ ~ShmIsClosed(r) /\ pins[r] + 1 < MaxPins
    /\ h \notin bound \cup hclosed
    /\ pins' = [pins EXCEPT ![r] = @ + 2]
    /\ bound' = bound \cup {h}
    /\ hregion' = [hregion EXCEPT ![h] = r]
    /\ Export(e, "bytes", h)
    /\ UNCHANGED <<mapped, rclosed, rref, hclosed, threadVars>>

(* mutex_as_capsule, posixipc_mutex_capsule_new *)
AsCapsule(e, h) ==
    /\ Open(h) /\ hregion[h] # NoRegion
    /\ Pin(hregion[h])
    /\ Export(e, "capsule", hregion[h])
    /\ UNCHANGED <<mapped, rclosed, rref, handleVars, threadVars>>

(* capsule_retain, by C code that has the capsule c *)
CapsuleRetain(e, c) ==
    /\ ekind[c] = "capsule"
    /\ Pin(esource[c])
    /\ Export(e, "retain", c)
    /\ UNCHANGED <<mapped, rclosed, rref, handleVars, threadVars>>

(* The region a released export unpins: bytes_releasebuffer looks it up in *)
(* the SharedBytes, capsule_release in the capsule.                        *)
UnpinnedBy(e) ==
    CASE ekind[e] = "bytes" -> hregion[esource[e]]
      [] ekind[e] = "retain" -> esource[esource[e]]
      [] OTHER -> esource[e]

(* shm_releasebuffer, bytes_releasebuffer, capsule_release and             *)
(* capsule_destructor.  C code keeps a capsule it has retained.            *)
Release(e) ==
    /\ ekind[e] # "none"
    /\ \A x \in Exports : ekind[x] = "retain" => esource[x] # e
    /\ IF UnpinnedBy(e) = NoRegion THEN UNCHANGED pins ELSE Unpin(UnpinnedBy(e))
    /\ ekind' = [ekind EXCEPT ![e] = "none"]
    /\ esource' = [esource EXCEPT ![e] = NoRegion]
    /\ UNCHANGED <<mapped, rclosed, rref, handleVars, threadVars>>

(* Mutant: the pins are not looked at. *)
CloseRegionPinned(r) ==
    /\ Referred(r)
    /\ ~ShmIsClosed(r)
    /\ mapped' = mapped \ {r}
    /\ rclosed' = rclosed \cup {r}
    /\ UNCHANGED <<rref, pins, handleVars, exportVars, threadVars>>

(* posixipc_shmobj_close without force.  CLOSED is set, and taken back     *)
(* with BufferError if there are pins: no other thread runs in between.    *)
CloseRegion(r) ==
    /\ Referred(r)
    /\ ~ShmIsClosed(r)
    /\ pins[r] = 0
    /\ mapped' = mapped \ {r}
    /\ rclosed' = rclosed \cup {r}
    /\ UNCHANGED <<rref, pins, handleVars, exportVars, threadVars>>

(* The program forgets the region object. *)
DropRegion(r) ==
    /\ r \in rref
    /\ rref' = rref \ {r}
    /\ UNCHANGED <<mapped, rclosed, pins, handleVars, exportVars, threadVars>>

(* shm_dealloc: the forced close does not look at the pins. *)
DeallocRegion(r) ==
    /\ ~Referred(r)
    /\ r \in mapped
    /\ mapped' = mapped \ {r}
    /\ rclosed' = rclosed \cup {r}
    /\ UNCHANGED <<rref, pins, handleVars, exportVars, threadVars>>

(* A blocking method has passed check_open and gives up the GIL at label   *)
(* l; the thread has what it points to in a local.                         *)
Block(t, l, how) ==
    /\ pc' = [pc EXCEPT ![t] = l]
    /\ inside' = [inside EXCEPT ![t] = hregion[At[t]]]
    /\ mode' = [mode EXCEPT ![t] = how]

Goto(t, l) == pc' = [pc EXCEPT ![t] = l] /\ UNCHANGED <<inside, mode>>

Return(t) ==
    /\ pc' = [pc EXCEPT ![t] = "idle"]
    /\ inside' = [inside EXCEPT ![t] = NoRegion]
    /\ mode' = [mode EXCEPT ![t] = "nowait"]

(* A thread whose memory is gone does not get past its system call. *)
Faulted(t) == inside[t] # NoRegion /\ inside[t] \notin mapped

EnterCall(t) ==
    /\ pc[t] = "idle" /\ Open(At[t])
    /\ \E how \in Modes : Block(t, "inside", how)
    /\ UNCHANGED <<regionVars, handleVars, exportVars>>

LeaveCall(t) ==
    /\ pc[t] = "inside"
    /\ Return(t)
    /\ UNCHANGED <<regionVars, handleVars, exportVars>>

(* A thread of h's process is free to call something. *)
Calls(h) == \E t \in ThreadsOf(h) : pc[t] = "idle"

(* The process of h ends. *)
ProcessEnds(h) ==
    /\ \E t \in ThreadsOf(h) : pc[t] # "dead"
    /\ pc' = [t \in Threads |-> IF At[t] = h THEN "dead" ELSE pc[t]]
    /\ inside' = [t \in Threads |-> IF At[t] = h THEN NoRegion ELSE inside[t]]
    /\ mode' = [t \in Threads |-> IF At[t] = h THEN "nowait" ELSE mode[t]]
    /\ bound' = bound \ {h}
    /\ hregion' = [hregion EXCEPT ![h] = NoRegion]
    /\ mapped' = mapped \ {Seat[h]}
    /\ rref' = rref \ {Seat[h]}
    /\ UNCHANGED <<rclosed, pins, hclosed, exportVars>>

(* It is killed, or faults in memory it has unmapped. *)
ProcessDies(h) ==
    /\ h \in MayDie \/ \E t \in ThreadsOf(h) : Faulted(t)
    /\ ProcessEnds(h)

RegionNext ==
    \/ \E r \in Regions : FromCore(r) \/ CloseRegion(r) \/ DropRegion(r) \/ DeallocRegion(r)
    \/ \E h \in Handles : CloseHandle(h) \/ DeallocHandle(h)
    \/ \E h \in Handles, r \in Regions : Bind(h, r)
    \/ \E e \in Exports, r \in Regions : ShmGetBuffer(e, r)
    \/ \E e \in Exports, h \in Handles : BytesGetBuffer(e, h) \/ AsCapsule(e, h)
    \/ \E e \in Exports, h \in Handles, r \in Regions : GetPayload(e, h, r)
    \/ \E e, c \in Exports : CapsuleRetain(e, c)
    \/ \E e \in Exports : Release(e)
    \/ \E t \in Threads : EnterCall(t) \/ LeaveCall(t)

RegionSpec == RegionInit(Threads) /\ [][RegionNext]_objectVars

-----------------------------------------------------------------------------

(* What points into r and must find it mapped: open handles bound to it,   *)
(* its memoryviews, capsules and retains, and the views of open            *)
(* SharedBytes bound to it.                                                *)
Holders(r) ==
    {h \in Handles : Open(h) /\ hregion[h] = r}
    \cup {e \in Exports : \/ ekind[e] \in {"view", "capsule"} /\ esource[e] = r
                          \/ ekind[e] = "retain" /\ esource[esource[e]] = r
                          \/ /\ ekind[e] = "bytes" /\ Open(esource[e])
                             /\ hregion[esource[e]] = r}

(* Every holder has a pin of its own, however handles, views and capsules  *)
(* were closed, dropped or bound again before (posixipc_shmobj_pin and     *)
(* _unpin are called in pairs, or a pin is left over).                     *)
PinsCover == \A r \in Regions : pins[r] >= Cardinality(Holders(r))

(* README.md:467: bound handles, memoryviews and capsules pin the region,  *)
(* so close() and the death of the SharedMemory object leave the mapping   *)
(* in place as long as an open handle, one of its memoryviews or a capsule *)
(* points into it.                                                         *)
HoldersMapped ==
    /\ \A h \in Handles : Open(h) /\ hregion[h] # NoRegion => hregion[h] \in mapped
    /\ \A e \in Exports :
         /\ ekind[e] \in {"view", "capsule"} => esource[e] \in mapped
         /\ ekind[e] = "bytes" /\ Open(esource[e]) => hregion[esource[e]] \in mapped

=============================================================================
