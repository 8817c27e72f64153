------------------------------ MODULE Segment -------------------------------
(***************************************************************************)
(* Creating, attaching, failing and unlinking one named shared-memory      *)
(* segment: core/posixipc_shm.c and the callers that drive it, Layout      *)
(* .create / .attach / .open_or_create (bindings/py_layout.c) and          *)
(* SharedMemory's (bindings/py_shm.c), whose initialisation is empty.      *)
(*                                                                         *)
(* A name is linked to at most one inode; shm_unlink frees the name while  *)
(* processes that opened the inode keep it.  An inode nobody refers to is  *)
(* free to become the next segment.  The header and the slot directory are *)
(* abstracted to the layout they describe: two processes agree on          *)
(* total_size, digest and directory iff their layouts are equal.           *)
(***************************************************************************)
EXTENDS Integers, FiniteSets

CONSTANTS
    Procs,      \* processes, one thread each
    Inodes,     \* tmpfs inode
    Layouts,    \* layouts callers may have built
    None,       \* no inode, no layout
    Calls,      \* the methods in use, see AllCalls
    Deadlines,  \* whether attaches have one: TRUE and/or FALSE
    MaxTries,   \* rounds of posixipc_shm_open_or_create (32)
    Faults,     \* the calls that may fail, see AllFaults
    MayCrash,   \* processes that may be killed
    MayUnlink   \* processes that may call unlink

AllCalls == {"create", "attach", "attach_unchecked", "open_or_create"}

AllFaults == {"create", "dupName", "init", "region", "bind", "attach"}

ASSUME NoneAssumption == None \notin Inodes \cup Layouts
ASSUME TriesAssumption == MaxTries \in Nat \ {0}
ASSUME CallsAssumption == Calls \subseteq AllCalls
ASSUME DeadlinesAssumption == Deadlines \subseteq BOOLEAN
ASSUME FaultsAssumption == Faults \subseteq AllFaults
ASSUME KilledAssumption == MayCrash \subseteq Procs
ASSUME UnlinkAssumption == MayUnlink \subseteq Procs

VARIABLES
    name,       \* the inode the name is linked to
    inode,      \* what each inode holds, see Fresh
    pc,         \* where each process is
    call,       \* the method it is in
    want,       \* its own layout
    seg,        \* the inode it has open or mapped
    tries,      \* rounds of open_or_create
    bounded,    \* its attach has a deadline
    created,    \* its call takes itself for the creator
    made,       \* history: its call made the inode it has open
    unlinked    \* history: somebody called unlink

locals == <<call, want, tries, bounded>>
roles == <<created, made>>
vars == <<name, inode, pc, locals, seg, roles, unlinked>>

(* An inode without contents:                                              *)
(*   size    st_size, "short" before ftruncate                             *)
(*   hdr     the layout in the header and the directory                    *)
(*   state   hdr->state                                                    *)
(*   inited  every primitive and queue control word is initialised         *)
Fresh == [size |-> "short", hdr |-> None, state |-> "UNINIT", inited |-> FALSE]

States == {"UNINIT", "INITIALIZING", "READY", "BROKEN"}

(* Between the exclusive create and the end of publish or of the failure.  *)
CreatorSteps == {"truncate", "header", "claim", "dupName", "init", "publish", "cleanup",
                 "markBroken", "unlinkBroken"}

WaitSteps == {"waitSize", "waitState"}

Labels == {"idle", "creat", "open", "compare", "opened", "region", "dropName", "bind", "attached"}
             \cup CreatorSteps \cup WaitSteps

TypeOK ==
    /\ name \in Inodes \cup {None}
    /\ inode \in [Inodes -> [size : {"short", "full"}, hdr : Layouts \cup {None},
                             state : States, inited : BOOLEAN]]
    /\ pc \in [Procs -> Labels]
    /\ call \in [Procs -> AllCalls \cup {"none"}]
    /\ want \in [Procs -> Layouts \cup {None}]
    /\ seg \in [Procs -> Inodes \cup {None}]
    /\ tries \in [Procs -> 0 .. MaxTries - 1]
    /\ bounded \in [Procs -> BOOLEAN]
    /\ created \in [Procs -> BOOLEAN]
    /\ made \in [Procs -> BOOLEAN]
    /\ unlinked \in BOOLEAN

Init ==
    /\ name = None
    /\ inode = [i \in Inodes |-> Fresh]
    /\ pc = [p \in Procs |-> "idle"]
    /\ call = [p \in Procs |-> "none"]
    /\ want = [p \in Procs |-> None]
    /\ seg = [p \in Procs |-> None]
    /\ tries = [p \in Procs |-> 0]
    /\ bounded = [p \in Procs |-> FALSE]
    /\ created = [p \in Procs |-> FALSE]
    /\ made = [p \in Procs |-> FALSE]
    /\ unlinked = FALSE

-----------------------------------------------------------------------------

Goto(p, l) == pc' = [pc EXCEPT ![p] = l]

Free(i) == name # i /\ \A p \in Procs : seg[p] # i

(* The name becomes n and p's descriptor and mapping go; the kernel        *)
(* reclaims an inode when neither the name nor a process refers to it.     *)
Drop(p, n) ==
    /\ name' = n
    /\ seg' = [seg EXCEPT ![p] = None]
    /\ inode' = [i \in Inodes |->
                   IF n = i \/ \E q \in Procs \ {p} : seg[q] = i THEN inode[i] ELSE Fresh]

(* p leaves its call, or its handle: by an error path, close() or death.   *)
Leave(p, n) ==
    /\ Drop(p, n)
    /\ Goto(p, "idle")
    /\ call' = [call EXCEPT ![p] = "none"]
    /\ want' = [want EXCEPT ![p] = None]
    /\ tries' = [tries EXCEPT ![p] = 0]
    /\ bounded' = [bounded EXCEPT ![p] = FALSE]
    /\ created' = [created EXCEPT ![p] = FALSE]
    /\ made' = [made EXCEPT ![p] = FALSE]
    /\ UNCHANGED unlinked

(* p's call raises; the name stays. *)
Raise(p) == Leave(p, name)

Call(p, c, l, b) ==
    /\ pc[p] = "idle"
    /\ call' = [call EXCEPT ![p] = c]
    /\ want' = [want EXCEPT ![p] = l]
    /\ bounded' = [bounded EXCEPT ![p] = b]
    /\ Goto(p, IF c \in {"create", "open_or_create"} THEN "creat" ELSE "open")
    /\ UNCHANGED <<name, inode, seg, tries, roles, unlinked>>

-----------------------------------------------------------------------------
(* posixipc_shm_create.                                                    *)

CreateExclusive(p) ==
    /\ pc[p] = "creat"
    /\ name = None
    /\ \E i \in Inodes :
          /\ Free(i)
          /\ name' = i
          /\ seg' = [seg EXCEPT ![p] = i]
    /\ made' = [made EXCEPT ![p] = TRUE]
    /\ Goto(p, "truncate")
    /\ UNCHANGED <<inode, locals, created, unlinked>>

(* Mutant: EEXIST takes the failure path, which unlinks. *)
CreateExistsFails(p) ==
    /\ pc[p] = "creat"
    /\ name # None
    /\ Goto(p, "cleanup")
    /\ UNCHANGED <<name, inode, locals, seg, roles, unlinked>>

(* EEXIST: create raises, open_or_create goes on to attach.                *)
CreateExists(p) ==
    /\ pc[p] = "creat"
    /\ name # None
    /\ \/ call[p] = "create" /\ Raise(p)
       \/ call[p] = "open_or_create" /\ Goto(p, "open") /\ UNCHANGED <<name, inode, locals, seg, roles, unlinked>>

(* shm_open fails in any other way. *)
CreateRefused(p) ==
    /\ pc[p] = "creat"
    /\ "create" \in Faults
    /\ Raise(p)

Truncate(p) ==
    /\ pc[p] = "truncate"
    /\ inode' = [inode EXCEPT ![seg[p]].size = "full"]
    /\ Goto(p, "header")
    /\ UNCHANGED <<name, locals, seg, roles, unlinked>>

(* write_header clears state too, then write_directory.                    *)
WriteHeader(p) ==
    /\ pc[p] = "header"
    /\ inode' = [inode EXCEPT ![seg[p]].hdr = want[p], ![seg[p]].state = "UNINIT"]
    /\ Goto(p, "claim")
    /\ UNCHANGED <<name, locals, seg, roles, unlinked>>

(* Mutant: the segment is READY before it is initialised. *)
ClaimReady(p) ==
    /\ pc[p] = "claim"
    /\ inode' = [inode EXCEPT ![seg[p]].state = "READY"]
    /\ Goto(p, "dupName")
    /\ UNCHANGED <<name, locals, seg, roles, unlinked>>

Claim(p) ==
    /\ pc[p] = "claim"
    /\ inode' = [inode EXCEPT ![seg[p]].state = "INITIALIZING"]
    /\ Goto(p, "dupName")
    /\ UNCHANGED <<name, locals, seg, roles, unlinked>>

DupName(p) ==
    /\ pc[p] = "dupName"
    /\ IF call[p] = "create"
          THEN Goto(p, "init") /\ created' = [created EXCEPT ![p] = TRUE]
          ELSE Goto(p, "opened") /\ UNCHANGED created
    /\ UNCHANGED <<name, inode, locals, seg, made, unlinked>>

(* The goto fail of posixipc_shm_create: unmap, then unlink by name.       *)
CreateFails(p) ==
    /\ \/ pc[p] \in {"truncate", "header"} /\ "create" \in Faults
       \/ pc[p] = "dupName" /\ "dupName" \in Faults
    /\ Goto(p, "cleanup")
    /\ UNCHANGED <<name, inode, locals, seg, roles, unlinked>>

Cleanup(p) ==
    /\ pc[p] = "cleanup"
    /\ Leave(p, None)

-----------------------------------------------------------------------------
(* The creator's part of Layout.create and Layout.open_or_create.  The     *)
(* latter takes INITIALIZING to mean that this call created the segment.   *)

(* Mutant: whoever comes back from open_or_create initialises. *)
CheckCreatedAlways(p) ==
    /\ pc[p] = "opened"
    /\ Goto(p, "init")
    /\ created' = [created EXCEPT ![p] = TRUE]
    /\ UNCHANGED <<name, inode, locals, seg, made, unlinked>>

CheckCreated(p) ==
    /\ pc[p] = "opened"
    /\ IF inode[seg[p]].state = "INITIALIZING"
          THEN Goto(p, "init") /\ created' = [created EXCEPT ![p] = TRUE]
          ELSE Goto(p, "region") /\ UNCHANGED created
    /\ UNCHANGED <<name, inode, locals, seg, made, unlinked>>

InitPrimitives(p) ==
    /\ pc[p] = "init"
    /\ inode' = [inode EXCEPT ![seg[p]].inited = TRUE]
    /\ Goto(p, "publish")
    /\ UNCHANGED <<name, locals, seg, roles, unlinked>>

InitFails(p) ==
    /\ pc[p] = "init"
    /\ "init" \in Faults
    /\ Goto(p, "markBroken")
    /\ UNCHANGED <<name, inode, locals, seg, roles, unlinked>>

(* fail_created_shm: mark, close, unlink by name.                          *)
MarkBroken(p) ==
    /\ pc[p] = "markBroken"
    /\ inode' = [inode EXCEPT ![seg[p]].state = "BROKEN"]
    /\ Goto(p, "unlinkBroken")
    /\ UNCHANGED <<name, locals, seg, roles, unlinked>>

UnlinkBroken(p) ==
    /\ pc[p] = "unlinkBroken"
    /\ Leave(p, None)

Publish(p) ==
    /\ pc[p] = "publish"
    /\ inode' = [inode EXCEPT ![seg[p]].state = "READY"]
    /\ Goto(p, "region")
    /\ UNCHANGED <<name, locals, seg, roles, unlinked>>

-----------------------------------------------------------------------------
(* posixipc_shm_attach.  The waits poll; a wait ends early only if the     *)
(* caller gave a deadline.                                                 *)

Open(p) ==
    /\ pc[p] = "open"
    /\ name # None
    /\ seg' = [seg EXCEPT ![p] = name]
    /\ Goto(p, "waitSize")
    /\ UNCHANGED <<name, inode, locals, roles, unlinked>>

(* Mutant: one round too many. *)
OpenMissingOnceMore(p) ==
    /\ pc[p] = "open"
    /\ name = None
    /\ IF call[p] = "open_or_create" /\ tries[p] < MaxTries
          THEN /\ Goto(p, "creat")
               /\ tries' = [tries EXCEPT ![p] = @ + 1]
               /\ UNCHANGED <<name, inode, call, want, bounded, seg, roles, unlinked>>
          ELSE Raise(p)

(* ENOENT: attach raises, open_or_create starts over a bounded number of   *)
(* times.                                                                  *)
OpenMissing(p) ==
    /\ pc[p] = "open"
    /\ name = None
    /\ IF call[p] = "open_or_create" /\ tries[p] + 1 < MaxTries
          THEN /\ Goto(p, "creat")
               /\ tries' = [tries EXCEPT ![p] = @ + 1]
               /\ UNCHANGED <<name, inode, call, want, bounded, seg, roles, unlinked>>
          ELSE Raise(p)

SeeSize(p) ==
    /\ pc[p] = "waitSize"
    /\ inode[seg[p]].size = "full"
    /\ Goto(p, "waitState")
    /\ UNCHANGED <<name, inode, locals, seg, roles, unlinked>>

(* Mutant: a claimed segment is good enough. *)
SeeReadyClaimed(p) ==
    /\ pc[p] = "waitState"
    /\ inode[seg[p]].state \in {"INITIALIZING", "READY"}
    /\ Goto(p, "compare")
    /\ UNCHANGED <<name, inode, locals, seg, roles, unlinked>>

SeeReady(p) ==
    /\ pc[p] = "waitState"
    /\ inode[seg[p]].state = "READY"
    /\ Goto(p, "compare")
    /\ UNCHANGED <<name, inode, locals, seg, roles, unlinked>>

(* Mutant: a BROKEN segment is waited for like one in the making. *)
SeeBrokenNot(p) ==
    /\ pc[p] = "waitState"
    /\ inode[seg[p]].state = "BROKEN"
    /\ bounded[p]
    /\ Raise(p)

SeeBroken(p) ==
    /\ pc[p] = "waitState"
    /\ inode[seg[p]].state = "BROKEN"
    /\ Raise(p)

DeadlinePassed(p) ==
    /\ pc[p] \in WaitSteps
    /\ bounded[p]
    /\ Raise(p)

(* total_size against st_size and the caller's, then compare_expect on the *)
(* whole mapping; attach_unchecked expects nothing but the magic number.   *)
Compare(p) ==
    /\ pc[p] = "compare"
    /\ IF inode[seg[p]].size = "full" /\ (call[p] = "attach_unchecked" \/ inode[seg[p]].hdr = want[p])
          THEN /\ Goto(p, IF call[p] = "open_or_create" THEN "opened" ELSE "region")
               /\ UNCHANGED <<name, inode, locals, seg, roles, unlinked>>
          ELSE Raise(p)

AttachFails(p) ==
    /\ pc[p] \in WaitSteps \cup {"open", "compare"}
    /\ "attach" \in Faults
    /\ Raise(p)

-----------------------------------------------------------------------------
(* The region object and the handles.  A creator that cannot make the      *)
(* region unlinks the name again if it is a Layout, and leaves it if it is *)
(* SharedMemory; one that cannot bind leaves it.                           *)

MakeRegion(p) ==
    /\ pc[p] = "region"
    /\ Goto(p, "bind")
    /\ UNCHANGED <<name, inode, locals, seg, roles, unlinked>>

RegionFails(p) ==
    /\ pc[p] = "region"
    /\ "region" \in Faults
    /\ \/ created[p] /\ Goto(p, "dropName") /\ UNCHANGED <<name, inode, locals, seg, roles, unlinked>>
       \/ Raise(p)

DropName(p) ==
    /\ pc[p] = "dropName"
    /\ Leave(p, None)

BindAll(p) ==
    /\ pc[p] = "bind"
    /\ Goto(p, "attached")
    /\ UNCHANGED <<name, inode, locals, seg, roles, unlinked>>

(* The handles bound before the one that failed keep the mapping.          *)
BindFails(p) ==
    /\ pc[p] = "bind"
    /\ "bind" \in Faults
    /\ \/ Raise(p)
       \/ Goto(p, "attached") /\ UNCHANGED <<name, inode, locals, seg, roles, unlinked>>

-----------------------------------------------------------------------------

Close(p) ==
    /\ pc[p] = "attached"
    /\ Raise(p)

Unlink(p) ==
    /\ pc[p] \in {"idle", "attached"}
    /\ name # None
    /\ name' = None
    /\ inode' = [i \in Inodes |->
                   IF \E q \in Procs : seg[q] = i THEN inode[i] ELSE Fresh]
    /\ unlinked' = TRUE
    /\ UNCHANGED <<pc, locals, seg, roles>>

(* p is killed: its descriptors and mappings go, the segment stays.        *)
Crash(p) ==
    /\ pc[p] # "idle"
    /\ Raise(p)

-----------------------------------------------------------------------------

(* What p does by itself inside a call, and what can go wrong there.       *)
Step(p) ==
    \/ CreateExclusive(p) \/ CreateExists(p) \/ Truncate(p) \/ WriteHeader(p)
    \/ Claim(p) \/ DupName(p) \/ Cleanup(p)
    \/ CheckCreated(p) \/ InitPrimitives(p) \/ MarkBroken(p) \/ UnlinkBroken(p) \/ Publish(p)
    \/ Open(p) \/ OpenMissing(p) \/ SeeSize(p) \/ SeeReady(p) \/ SeeBroken(p)
    \/ DeadlinePassed(p) \/ Compare(p)
    \/ MakeRegion(p) \/ DropName(p) \/ BindAll(p)

Fail(p) ==
    \/ CreateRefused(p) \/ CreateFails(p) \/ InitFails(p)
    \/ AttachFails(p) \/ RegionFails(p) \/ BindFails(p)

(* create has no timeout, attach_unchecked no layout. *)
Start(p) ==
    \E c \in Calls :
       \E l \in IF c = "attach_unchecked" THEN {None} ELSE Layouts,
          b \in IF c = "create" THEN {FALSE} ELSE Deadlines :
             Call(p, c, l, b)

Next ==
    \/ \E p \in Procs : Start(p) \/ Step(p) \/ Fail(p) \/ Close(p)
    \/ \E p \in MayUnlink : Unlink(p)
    \/ \E p \in MayCrash : Crash(p)

Spec == Init /\ [][Next]_vars

(* A process inside a call keeps running.  Nothing has to go wrong, and    *)
(* nobody has to call, to close, to unlink or to be killed.                *)
FairSpec == Spec /\ \A p \in Procs : WF_vars(Step(p))

-----------------------------------------------------------------------------
(* Properties.                                                             *)

(* Whoever gets a region, by creating or by attaching, has a segment that  *)
(* is published, completely initialised and of its own layout: attach      *)
(* never hands out a half-made segment, whoever crashed or unlinked what.  *)
AttachedIsReady ==
    \A p \in Procs :
       pc[p] \in {"region", "dropName", "bind", "attached"} =>
          /\ inode[seg[p]].state = "READY"
          /\ inode[seg[p]].inited
          /\ call[p] # "attach_unchecked" => inode[seg[p]].hdr = want[p]

(* open_or_create tells creator from attacher by the state it finds after  *)
(* the call.  The answer is right: only the process that made the segment  *)
(* initialises, publishes or breaks it.                                    *)
CreatorIsMaker ==
    \A p \in Procs :
       pc[p] \in {"init", "publish", "markBroken", "unlinkBroken",
                  "region", "dropName", "bind", "attached"} => (created[p] <=> made[p])

(* A segment that is READY or BROKEN stays as it is for as long as anybody *)
(* can reach it.                                                           *)
PublishedIsFinal ==
    [][\A i \in Inodes :
          ~Free(i) /\ inode[i].state \in {"READY", "BROKEN"} =>
             inode'[i] = inode[i] \/ Free(i)']_vars

(* A creator that fails cleans up by name.  Until somebody calls unlink    *)
(* the name is still the one of its own segment.                           *)
CleanupRemovesOwnName ==
    ~unlinked =>
       \A p \in Procs : pc[p] \in {"cleanup", "unlinkBroken", "dropName"} => name = seg[p]

(* Nobody who could still publish or break segment i is left.              *)
Abandoned(i) ==
    inode[i].state \notin {"READY", "BROKEN"} /\ ~ \E p \in Procs : made[p] /\ seg[p] = i

(* An attach ends: at its deadline, or when the creator publishes or marks *)
(* the segment.  Without a deadline it may wait for ever, but only for a   *)
(* segment whose creator is gone.                                          *)
AttachEnds ==
    \A p \in Procs :
       pc[p] \in WaitSteps ~>
          (pc[p] \notin WaitSteps \/ (~bounded[p] /\ Abandoned(seg[p])))

(* "If the creator fails after the claim, `BROKEN` is stored with release  *)
(* ordering and attachers raise" (README.md): with a creator that runs, an *)
(* attach without a deadline does not wait for ever.  The failure path of  *)
(* posixipc_shm_create behind the claim, for want of memory for the name,  *)
(* does not store BROKEN.                                                  *)
AttachersRaise ==
    \A p \in Procs : pc[p] = "waitState" ~> pc[p] # "waitState"
=============================================================================
