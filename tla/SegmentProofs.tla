--------------------------- MODULE SegmentProofs ----------------------------
(***************************************************************************)
(* Named segments: what open, create, attach and unlink leave behind for   *)
(* any set of processes and any crash, and the futex and descriptor calls  *)
(* below them.                                                             *)
(***************************************************************************)
EXTENDS Segment, Linux, WellFoundedInduction, TLAPS

Unmapped == {"idle", "creat", "open"}
HasRegion == {"region", "dropName", "bind", "attached"}

SegInv == \A p \in Procs : seg[p] = None <=> pc[p] \in Unmapped

RoleInv ==
    \A p \in Procs :
       /\ pc[p] \in Unmapped \cup WaitSteps \cup {"compare"} => ~made[p] /\ ~created[p]
       /\ pc[p] \in CreatorSteps \cup {"dropName"} => made[p]
       /\ pc[p] \in {"truncate", "header", "claim", "dupName", "opened"} => ~created[p]
       /\ pc[p] \in {"init", "publish", "markBroken", "unlinkBroken"} => created[p]
       /\ pc[p] \in HasRegion => (created[p] <=> made[p])

MakerInv == \A p, q \in Procs : made[p] /\ made[q] /\ seg[p] = seg[q] => p = q

StateInv ==
    \A p \in Procs :
       /\ pc[p] \in {"truncate", "header", "claim"} => inode[seg[p]].state = "UNINIT"
       /\ pc[p] \in {"dupName", "init", "publish", "markBroken"}
             => inode[seg[p]].state = "INITIALIZING"
       /\ pc[p] \in {"claim", "dupName", "init", "publish"} => inode[seg[p]].hdr = want[p]
       /\ pc[p] = "publish" => inode[seg[p]].inited
       /\ pc[p] = "opened" /\ made[p]
             => inode[seg[p]].state = "INITIALIZING" /\ inode[seg[p]].hdr = want[p]
       /\ (pc[p] = "opened" /\ ~made[p]) \/ pc[p] \in HasRegion
             => /\ inode[seg[p]].state = "READY"
                /\ call[p] # "attach_unchecked" => inode[seg[p]].hdr = want[p]
       /\ pc[p] = "compare" => inode[seg[p]].state = "READY"

ReadyInv == \A i \in Inodes : inode[i].state = "READY" => inode[i].inited

FreeInv == \A i \in Inodes : Free(i) => inode[i] = Fresh

NameInv == ~unlinked => \A p \in Procs : made[p] => name = seg[p]

IInv == TypeOK /\ SegInv /\ RoleInv /\ MakerInv /\ StateInv /\ ReadyInv /\ FreeInv /\ NameInv

InodeType == [size : {"short", "full"}, hdr : Layouts \cup {None}, state : States, inited : BOOLEAN]

(* A store to a field of an inode keeps its type. *)
LEMMA FieldTypes ==
    ASSUME NEW f \in [Inodes -> InodeType], NEW i, NEW s \in States, NEW h \in Layouts \cup {None}
    PROVE  /\ [f EXCEPT ![i].size = "full"] \in [Inodes -> InodeType]
           /\ [f EXCEPT ![i].hdr = h, ![i].state = s] \in [Inodes -> InodeType]
           /\ [f EXCEPT ![i].state = s] \in [Inodes -> InodeType]
           /\ [f EXCEPT ![i].inited = TRUE] \in [Inodes -> InodeType]
<1>1. [f EXCEPT ![i].size = "full"] \in [Inodes -> InodeType]
  BY ZenonT(30) DEF InodeType
<1>2. [f EXCEPT ![i].hdr = h, ![i].state = s] \in [Inodes -> InodeType]
  BY ZenonT(30) DEF InodeType
<1>3. [f EXCEPT ![i].state = s] \in [Inodes -> InodeType]
  BY ZenonT(30) DEF InodeType
<1>4. [f EXCEPT ![i].inited = TRUE] \in [Inodes -> InodeType]
  BY ZenonT(30) DEF InodeType
<1> QED BY <1>1, <1>2, <1>3, <1>4

-----------------------------------------------------------------------------
(* Steps that end a call: the whole of Leave, with the name kept, or       *)
(* removed by the maker.                                                   *)

(* A process leaves with what it had. *)
LEMMA LeaveStep ==
    ASSUME NEW p \in Procs, NEW n, IInv, Leave(p, n),
           n = name \/ (n = None /\ made[p])
    PROVE  IInv'
<1> USE NoneAssumption, TriesAssumption DEF Leave, Drop, Goto, IInv
<1>1. TypeOK'
  BY DEF TypeOK, Fresh, Labels, CreatorSteps, WaitSteps, States
<1>2. \A q \in Procs \ {p} : /\ pc'[q] = pc[q] /\ seg'[q] = seg[q] /\ made'[q] = made[q]
                             /\ created'[q] = created[q] /\ want'[q] = want[q] /\ call'[q] = call[q]
  BY DEF TypeOK
<1>3. \A q \in Procs \ {p} : seg[q] # None => inode'[seg[q]] = inode[seg[q]]
  BY DEF TypeOK
<1>4. pc'[p] = "idle" /\ seg'[p] = None /\ ~made'[p] /\ ~created'[p]
  BY DEF TypeOK
<1>5. SegInv'
  BY <1>2, <1>4 DEF SegInv, Unmapped
<1>6. RoleInv'
  <2>1. RoleInv
    OBVIOUS
  <2> HIDE DEF Leave, Drop, Goto, IInv
  <2> QED
    BY <1>2, <1>4, <2>1, Zenon DEF RoleInv, Unmapped, HasRegion, WaitSteps, CreatorSteps
<1>7. MakerInv'
  BY <1>2, <1>4 DEF MakerInv
<1>8. StateInv'
  <2> SUFFICES ASSUME NEW q \in Procs, q # p
               PROVE  StateInv!(q)'
    BY ZenonT(60), <1>4 DEF StateInv, HasRegion
  <2>1. CASE seg[q] = None
    BY <1>2, <2>1 DEF StateInv, SegInv, Unmapped, HasRegion
  <2>2. CASE seg[q] # None
    <3>1. StateInv!(q)
      BY DEF StateInv
    <3>2. inode'[seg'[q]] = inode[seg[q]]
      BY ZenonT(60), <1>2, <1>3, <2>2
    <3> HIDE DEF Leave, Drop, Goto, IInv
    <3> QED
      BY <1>2, <3>1, <3>2 DEF HasRegion
  <2> QED BY ZenonT(60), <2>1, <2>2
<1>9. ReadyInv'
  BY DEF ReadyInv, TypeOK, Fresh
<1>10. FreeInv'
  BY <1>2, <1>4 DEF FreeInv, Free, TypeOK
<1>11. NameInv'
  BY <1>2, <1>4 DEF NameInv, MakerInv, RoleInv, SegInv
<1> QED BY <1>1, <1>5, <1>6, <1>7, <1>8, <1>9, <1>10, <1>11

-----------------------------------------------------------------------------
(* Steps inside a call: p moves on, keeps what it has open, and writes at  *)
(* most to the inode it is making, which nobody has attached to yet.       *)

OthersKeep(p) ==
    \A q \in Procs \ {p} : /\ pc'[q] = pc[q] /\ created'[q] = created[q]
                           /\ want'[q] = want[q] /\ call'[q] = call[q]

WritesOwn(p) ==
    \A i \in Inodes : \/ inode'[i] = inode[i]
                      \/ made[p] /\ i = seg[p] /\ inode[i].state # "READY"

(* A step that only moves a process along. *)
LEMMA LocalStep ==
    ASSUME NEW p \in Procs, IInv, TypeOK', OthersKeep(p), WritesOwn(p), ReadyInv',
           UNCHANGED <<name, seg, made, unlinked>>,
           SegInv!(p)', RoleInv!(p)', StateInv!(p)'
    PROVE  IInv'
<1>1. SegInv'
  BY DEF IInv, SegInv, OthersKeep
<1>2. RoleInv'
  <2> SUFFICES ASSUME NEW q \in Procs, q # p
               PROVE  RoleInv!(q)'
    BY DEF RoleInv
  <2> QED BY DEF IInv, RoleInv, OthersKeep
<1>3. MakerInv'
  BY ZenonT(60) DEF IInv, MakerInv
<1>4. StateInv'
  <2> SUFFICES ASSUME NEW q \in Procs, q # p
               PROVE  StateInv!(q)'
    BY DEF StateInv
  <2>1. /\ pc'[q] = pc[q] /\ seg'[q] = seg[q] /\ made'[q] = made[q]
        /\ want'[q] = want[q] /\ call'[q] = call[q]
    BY ZenonT(60) DEF OthersKeep
  <2>2. StateInv!(q) /\ RoleInv!(q)
    BY ZenonT(60) DEF IInv, StateInv, RoleInv
  <2>3. CASE seg[q] = None
    BY ZenonT(60), <2>1, <2>3 DEF IInv, SegInv, Unmapped, HasRegion
  <2>4. CASE seg[q] # None /\ inode'[seg[q]] = inode[seg[q]]
    BY ZenonT(60), <2>1, <2>2, <2>4 DEF HasRegion
  <2>5. CASE seg[q] # None /\ inode'[seg[q]] # inode[seg[q]]
    <3>1. made[p] /\ seg[q] = seg[p] /\ inode[seg[q]].state # "READY"
      BY ZenonT(60), <2>5 DEF WritesOwn, IInv, TypeOK
    <3>2. ~made[q]
      BY ZenonT(60), <3>1 DEF IInv, MakerInv
    <3>3. pc[q] \in WaitSteps \/ pc[q] \notin Labels
      BY ZenonT(60), <2>2, <2>5, <3>1, <3>2 DEF IInv, SegInv, Unmapped, HasRegion, Labels, CreatorSteps, WaitSteps
    <3>4. pc[q] \in Labels
      BY ZenonT(60) DEF IInv, TypeOK
    <3> QED BY ZenonT(60), <2>1, <3>3, <3>4 DEF WaitSteps, HasRegion
  <2> QED BY ZenonT(60), <2>3, <2>4, <2>5
<1>5. FreeInv'
  <2> SUFFICES ASSUME NEW i \in Inodes, Free(i)
               PROVE  inode'[i] = Fresh
    BY ZenonT(60) DEF FreeInv, Free
  <2> QED BY ZenonT(60) DEF IInv, FreeInv, Free, WritesOwn
<1>6. NameInv'
  BY DEF IInv, NameInv
<1> QED BY <1>1, <1>2, <1>3, <1>4, <1>5, <1>6 DEF IInv

-----------------------------------------------------------------------------
(* The actions.  One case each; a leaf shows what LocalStep or LeaveStep asks  *)
(* for.                                                                    *)

(* posixipc_shm_create. *)
LEMMA MakerStep ==
    ASSUME NEW p \in Procs, IInv, Truncate(p) \/ WriteHeader(p) \/ Claim(p) \/ DupName(p) \/ CreateFails(p)
    PROVE  IInv'
<1>1. CASE Truncate(p)
  <2> USE <1>1 DEF Truncate, Goto, locals, roles
  <2>1. TypeOK'
    <3>1. inode' \in [Inodes -> InodeType]
      <4>1. inode \in [Inodes -> InodeType] /\ want[p] \in Layouts \cup {None}
        BY DEF IInv, TypeOK, InodeType
      <4> QED BY <4>1, FieldTypes, Zenon DEF States
    <3>2. pc' \in [Procs -> Labels]
      BY DEF IInv, TypeOK, Labels, CreatorSteps
    <3>3. UNCHANGED <<name, locals, seg, roles, unlinked>>
      OBVIOUS
    <3> HIDE <1>1 DEF Truncate, Goto
    <3> QED BY <3>1, <3>2, <3>3 DEF IInv, TypeOK, InodeType
  <2>2. OthersKeep(p)
    BY DEF IInv, TypeOK, OthersKeep
  <2>7. WritesOwn(p)
    BY DEF IInv, TypeOK, WritesOwn, RoleInv, StateInv, CreatorSteps
  <2>8. UNCHANGED <<name, seg, made, unlinked>>
    OBVIOUS
  <2>3. ReadyInv'
    BY DEF IInv, TypeOK, ReadyInv, StateInv
  <2>4. SegInv!(p)'
    BY DEF IInv, TypeOK, SegInv, Unmapped
  <2>5. RoleInv!(p)'
    BY DEF IInv, TypeOK, RoleInv, StateInv, Unmapped, HasRegion, CreatorSteps, WaitSteps
  <2>6. StateInv!(p)'
    BY DEF IInv, TypeOK, RoleInv, StateInv, SegInv, Unmapped, HasRegion, CreatorSteps, WaitSteps
  <2> HIDE <1>1 DEF Truncate, Goto, locals, roles
  <2> QED BY ZenonT(60), <2>1, <2>2, <2>3, <2>4, <2>5, <2>6, <2>7, <2>8, LocalStep
<1>2. CASE WriteHeader(p)
  <2> USE <1>2 DEF WriteHeader, Goto, locals, roles
  <2>1. TypeOK'
    <3>1. inode' \in [Inodes -> InodeType]
      <4>1. inode \in [Inodes -> InodeType] /\ want[p] \in Layouts \cup {None}
        BY DEF IInv, TypeOK, InodeType
      <4> QED BY <4>1, FieldTypes, Zenon DEF States
    <3>2. pc' \in [Procs -> Labels]
      BY DEF IInv, TypeOK, Labels, CreatorSteps
    <3>3. UNCHANGED <<name, locals, seg, roles, unlinked>>
      OBVIOUS
    <3> HIDE <1>2 DEF WriteHeader, Goto
    <3> QED BY <3>1, <3>2, <3>3 DEF IInv, TypeOK, InodeType
  <2>2. OthersKeep(p)
    BY DEF IInv, TypeOK, OthersKeep
  <2>7. WritesOwn(p)
    BY DEF IInv, TypeOK, WritesOwn, RoleInv, StateInv, CreatorSteps
  <2>8. UNCHANGED <<name, seg, made, unlinked>>
    OBVIOUS
  <2>3. ReadyInv'
    BY DEF IInv, TypeOK, ReadyInv, StateInv
  <2>4. SegInv!(p)'
    BY DEF IInv, TypeOK, SegInv, Unmapped
  <2>5. RoleInv!(p)'
    BY DEF IInv, TypeOK, RoleInv, StateInv, Unmapped, HasRegion, CreatorSteps, WaitSteps
  <2>6. StateInv!(p)'
    BY DEF IInv, TypeOK, RoleInv, StateInv, SegInv, Unmapped, HasRegion, CreatorSteps, WaitSteps
  <2> HIDE <1>2 DEF WriteHeader, Goto, locals, roles
  <2> QED BY <2>1, <2>2, <2>3, <2>4, <2>5, <2>6, <2>7, <2>8, LocalStep
<1>3. CASE Claim(p)
  <2> USE <1>3 DEF Claim, Goto, locals, roles
  <2>1. TypeOK'
    <3>1. inode' \in [Inodes -> InodeType]
      <4>1. inode \in [Inodes -> InodeType] /\ want[p] \in Layouts \cup {None}
        BY DEF IInv, TypeOK, InodeType
      <4> QED BY <4>1, FieldTypes, Zenon DEF States
    <3>2. pc' \in [Procs -> Labels]
      BY DEF IInv, TypeOK, Labels, CreatorSteps
    <3>3. UNCHANGED <<name, locals, seg, roles, unlinked>>
      OBVIOUS
    <3> HIDE <1>3 DEF Claim, Goto
    <3> QED BY <3>1, <3>2, <3>3 DEF IInv, TypeOK, InodeType
  <2>2. OthersKeep(p)
    BY DEF IInv, TypeOK, OthersKeep
  <2>7. WritesOwn(p)
    BY DEF IInv, TypeOK, WritesOwn, RoleInv, StateInv, CreatorSteps
  <2>8. UNCHANGED <<name, seg, made, unlinked>>
    OBVIOUS
  <2>3. ReadyInv'
    BY DEF IInv, TypeOK, ReadyInv, StateInv
  <2>4. SegInv!(p)'
    BY DEF IInv, TypeOK, SegInv, Unmapped
  <2>5. RoleInv!(p)'
    BY DEF IInv, TypeOK, RoleInv, StateInv, Unmapped, HasRegion, CreatorSteps, WaitSteps
  <2>6. StateInv!(p)'
    BY DEF IInv, TypeOK, RoleInv, StateInv, SegInv, Unmapped, HasRegion, CreatorSteps, WaitSteps
  <2> HIDE <1>3 DEF Claim, Goto, locals, roles
  <2> QED BY <2>1, <2>2, <2>3, <2>4, <2>5, <2>6, <2>7, <2>8, LocalStep
<1>4. CASE DupName(p)
  <2> USE <1>4 DEF DupName, Goto, locals, roles
  <2>1. TypeOK'
    BY ZenonT(60), NoneAssumption, TriesAssumption DEF IInv, TypeOK, Labels, CreatorSteps, WaitSteps, States
  <2>2. OthersKeep(p)
    BY DEF IInv, TypeOK, OthersKeep
  <2>7. WritesOwn(p)
    BY DEF IInv, TypeOK, WritesOwn, RoleInv, StateInv, CreatorSteps
  <2>8. UNCHANGED <<name, seg, made, unlinked>>
    OBVIOUS
  <2>3. ReadyInv'
    BY DEF IInv, TypeOK, ReadyInv, StateInv
  <2>4. SegInv!(p)'
    BY ZenonT(60) DEF IInv, TypeOK, SegInv, Unmapped
  <2>5. RoleInv!(p)'
    BY DEF IInv, TypeOK, RoleInv, StateInv, Unmapped, HasRegion, CreatorSteps, WaitSteps
  <2>6. StateInv!(p)'
    BY DEF IInv, TypeOK, RoleInv, StateInv, SegInv, Unmapped, HasRegion, CreatorSteps, WaitSteps
  <2> HIDE <1>4 DEF DupName, Goto, locals, roles
  <2> QED BY <2>1, <2>2, <2>3, <2>4, <2>5, <2>6, <2>7, <2>8, LocalStep
<1>5. CASE CreateFails(p)
  <2> USE <1>5 DEF CreateFails, Goto, locals, roles
  <2>1. TypeOK'
    BY NoneAssumption, TriesAssumption DEF IInv, TypeOK, Labels, CreatorSteps, WaitSteps, States
  <2>2. OthersKeep(p)
    BY ZenonT(60) DEF IInv, TypeOK, OthersKeep
  <2>7. WritesOwn(p)
    BY DEF IInv, TypeOK, WritesOwn, RoleInv, StateInv, CreatorSteps
  <2>8. UNCHANGED <<name, seg, made, unlinked>>
    OBVIOUS
  <2>3. ReadyInv'
    BY DEF IInv, TypeOK, ReadyInv, StateInv
  <2>4. SegInv!(p)'
    BY ZenonT(60) DEF IInv, TypeOK, SegInv, Unmapped
  <2>5. RoleInv!(p)'
    BY ZenonT(60) DEF IInv, TypeOK, RoleInv, StateInv, Unmapped, HasRegion, CreatorSteps, WaitSteps
  <2>6. StateInv!(p)'
    BY ZenonT(60) DEF IInv, TypeOK, RoleInv, StateInv, SegInv, Unmapped, HasRegion, CreatorSteps, WaitSteps
  <2> HIDE <1>5 DEF CreateFails, Goto, locals, roles
  <2> QED BY <2>1, <2>2, <2>3, <2>4, <2>5, <2>6, <2>7, <2>8, LocalStep
<1> QED BY ZenonT(60), <1>1, <1>2, <1>3, <1>4, <1>5

(* What Layout.create and Layout.open_or_create do after it. *)
LEMMA CreatorStep ==
    ASSUME NEW p \in Procs, IInv, CheckCreated(p) \/ InitPrimitives(p) \/ InitFails(p) \/ MarkBroken(p) \/ Publish(p)
    PROVE  IInv'
<1>1. CASE CheckCreated(p)
  <2> USE <1>1 DEF CheckCreated, Goto, locals, roles
  <2>1. TypeOK'
    BY ZenonT(60), NoneAssumption, TriesAssumption DEF IInv, TypeOK, Labels, CreatorSteps, WaitSteps, States
  <2>2. OthersKeep(p)
    BY DEF IInv, TypeOK, OthersKeep
  <2>7. WritesOwn(p)
    BY ZenonT(60) DEF IInv, TypeOK, WritesOwn, RoleInv, StateInv, CreatorSteps
  <2>8. UNCHANGED <<name, seg, made, unlinked>>
    OBVIOUS
  <2>3. ReadyInv'
    BY DEF IInv, TypeOK, ReadyInv, StateInv
  <2>4. SegInv!(p)'
    BY ZenonT(60) DEF IInv, TypeOK, SegInv, Unmapped
  <2>5. RoleInv!(p)'
    BY DEF IInv, TypeOK, RoleInv, StateInv, Unmapped, HasRegion, CreatorSteps, WaitSteps
  <2>6. StateInv!(p)'
    BY DEF IInv, TypeOK, RoleInv, StateInv, SegInv, Unmapped, HasRegion, CreatorSteps, WaitSteps
  <2> HIDE <1>1 DEF CheckCreated, Goto, locals, roles
  <2> QED BY <2>1, <2>2, <2>3, <2>4, <2>5, <2>6, <2>7, <2>8, LocalStep
<1>2. CASE InitPrimitives(p)
  <2> USE <1>2 DEF InitPrimitives, Goto, locals, roles
  <2>1. TypeOK'
    <3>1. inode' \in [Inodes -> InodeType]
      <4>1. inode \in [Inodes -> InodeType] /\ want[p] \in Layouts \cup {None}
        BY DEF IInv, TypeOK, InodeType
      <4> QED BY <4>1, FieldTypes, Zenon DEF States
    <3>2. pc' \in [Procs -> Labels]
      BY DEF IInv, TypeOK, Labels, CreatorSteps
    <3>3. UNCHANGED <<name, locals, seg, roles, unlinked>>
      OBVIOUS
    <3> HIDE <1>2 DEF InitPrimitives, Goto
    <3> QED BY <3>1, <3>2, <3>3 DEF IInv, TypeOK, InodeType
  <2>2. OthersKeep(p)
    BY DEF IInv, TypeOK, OthersKeep
  <2>7. WritesOwn(p)
    BY DEF IInv, TypeOK, WritesOwn, RoleInv, StateInv, CreatorSteps
  <2>8. UNCHANGED <<name, seg, made, unlinked>>
    OBVIOUS
  <2>3. ReadyInv'
    BY DEF IInv, TypeOK, ReadyInv, StateInv
  <2>4. SegInv!(p)'
    BY DEF IInv, TypeOK, SegInv, Unmapped
  <2>5. RoleInv!(p)'
    BY DEF IInv, TypeOK, RoleInv, StateInv, Unmapped, HasRegion, CreatorSteps, WaitSteps
  <2>6. StateInv!(p)'
    BY DEF IInv, TypeOK, RoleInv, StateInv, SegInv, Unmapped, HasRegion, CreatorSteps, WaitSteps
  <2> HIDE <1>2 DEF InitPrimitives, Goto, locals, roles
  <2> QED BY <2>1, <2>2, <2>3, <2>4, <2>5, <2>6, <2>7, <2>8, LocalStep
<1>3. CASE InitFails(p)
  <2> USE <1>3 DEF InitFails, Goto, locals, roles
  <2>1. TypeOK'
    BY NoneAssumption, TriesAssumption DEF IInv, TypeOK, Labels, CreatorSteps, WaitSteps, States
  <2>2. OthersKeep(p)
    BY ZenonT(60) DEF IInv, TypeOK, OthersKeep
  <2>7. WritesOwn(p)
    BY DEF IInv, TypeOK, WritesOwn, RoleInv, StateInv, CreatorSteps
  <2>8. UNCHANGED <<name, seg, made, unlinked>>
    OBVIOUS
  <2>3. ReadyInv'
    BY DEF IInv, TypeOK, ReadyInv, StateInv
  <2>4. SegInv!(p)'
    BY ZenonT(60) DEF IInv, TypeOK, SegInv, Unmapped
  <2>5. RoleInv!(p)'
    BY ZenonT(60) DEF IInv, TypeOK, RoleInv, StateInv, Unmapped, HasRegion, CreatorSteps, WaitSteps
  <2>6. StateInv!(p)'
    BY ZenonT(60) DEF IInv, TypeOK, RoleInv, StateInv, SegInv, Unmapped, HasRegion, CreatorSteps, WaitSteps
  <2> HIDE <1>3 DEF InitFails, Goto, locals, roles
  <2> QED BY <2>1, <2>2, <2>3, <2>4, <2>5, <2>6, <2>7, <2>8, LocalStep
<1>4. CASE MarkBroken(p)
  <2> USE <1>4 DEF MarkBroken, Goto, locals, roles
  <2>1. TypeOK'
    <3>1. inode' \in [Inodes -> InodeType]
      <4>1. inode \in [Inodes -> InodeType] /\ want[p] \in Layouts \cup {None}
        BY DEF IInv, TypeOK, InodeType
      <4> QED BY <4>1, FieldTypes, Zenon DEF States
    <3>2. pc' \in [Procs -> Labels]
      BY DEF IInv, TypeOK, Labels, CreatorSteps
    <3>3. UNCHANGED <<name, locals, seg, roles, unlinked>>
      OBVIOUS
    <3> HIDE <1>4 DEF MarkBroken, Goto
    <3> QED BY <3>1, <3>2, <3>3 DEF IInv, TypeOK, InodeType
  <2>2. OthersKeep(p)
    BY DEF IInv, TypeOK, OthersKeep
  <2>7. WritesOwn(p)
    BY DEF IInv, TypeOK, WritesOwn, RoleInv, StateInv, CreatorSteps
  <2>8. UNCHANGED <<name, seg, made, unlinked>>
    OBVIOUS
  <2>3. ReadyInv'
    BY DEF IInv, TypeOK, ReadyInv, StateInv
  <2>4. SegInv!(p)'
    BY DEF IInv, TypeOK, SegInv, Unmapped
  <2>5. RoleInv!(p)'
    BY DEF IInv, TypeOK, RoleInv, StateInv, Unmapped, HasRegion, CreatorSteps, WaitSteps
  <2>6. StateInv!(p)'
    BY ZenonT(60) DEF IInv, TypeOK, RoleInv, StateInv, SegInv, Unmapped, HasRegion, CreatorSteps, WaitSteps
  <2> HIDE <1>4 DEF MarkBroken, Goto, locals, roles
  <2> QED BY <2>1, <2>2, <2>3, <2>4, <2>5, <2>6, <2>7, <2>8, LocalStep
<1>5. CASE Publish(p)
  <2> USE <1>5 DEF Publish, Goto, locals, roles
  <2>1. TypeOK'
    <3>1. inode' \in [Inodes -> InodeType]
      <4>1. inode \in [Inodes -> InodeType] /\ want[p] \in Layouts \cup {None}
        BY DEF IInv, TypeOK, InodeType
      <4> QED BY <4>1, FieldTypes, Zenon DEF States
    <3>2. pc' \in [Procs -> Labels]
      BY DEF IInv, TypeOK, Labels, CreatorSteps
    <3>3. UNCHANGED <<name, locals, seg, roles, unlinked>>
      OBVIOUS
    <3> HIDE <1>5 DEF Publish, Goto
    <3> QED BY <3>1, <3>2, <3>3 DEF IInv, TypeOK, InodeType
  <2>2. OthersKeep(p)
    BY DEF IInv, TypeOK, OthersKeep
  <2>7. WritesOwn(p)
    BY DEF IInv, TypeOK, WritesOwn, RoleInv, StateInv, CreatorSteps
  <2>8. UNCHANGED <<name, seg, made, unlinked>>
    OBVIOUS
  <2>3. ReadyInv'
    BY DEF IInv, TypeOK, ReadyInv, StateInv
  <2>4. SegInv!(p)'
    BY DEF IInv, TypeOK, SegInv, Unmapped
  <2>5. RoleInv!(p)'
    BY DEF IInv, TypeOK, RoleInv, StateInv, Unmapped, HasRegion, CreatorSteps, WaitSteps
  <2>6. StateInv!(p)'
    BY DEF IInv, TypeOK, RoleInv, StateInv, SegInv, Unmapped, HasRegion, CreatorSteps, WaitSteps
  <2> HIDE <1>5 DEF Publish, Goto, locals, roles
  <2> QED BY <2>1, <2>2, <2>3, <2>4, <2>5, <2>6, <2>7, <2>8, LocalStep
<1> QED BY <1>1, <1>2, <1>3, <1>4, <1>5

(* Waiting for READY, and the handles. *)
LEMMA AttachStep ==
    ASSUME NEW p \in Procs, IInv, SeeSize(p) \/ SeeReady(p) \/ MakeRegion(p) \/ BindAll(p)
    PROVE  IInv'
<1>1. CASE SeeSize(p)
  <2> USE <1>1 DEF SeeSize, Goto, locals, roles
  <2>1. TypeOK'
    BY ZenonT(60), NoneAssumption, TriesAssumption DEF IInv, TypeOK, Labels, CreatorSteps, WaitSteps, States
  <2>2. OthersKeep(p)
    BY DEF IInv, TypeOK, OthersKeep
  <2>7. WritesOwn(p)
    BY ZenonT(60) DEF IInv, TypeOK, WritesOwn, RoleInv, StateInv, CreatorSteps
  <2>8. UNCHANGED <<name, seg, made, unlinked>>
    OBVIOUS
  <2>3. ReadyInv'
    BY ZenonT(60) DEF IInv, TypeOK, ReadyInv, StateInv
  <2>4. SegInv!(p)'
    BY ZenonT(60) DEF IInv, TypeOK, SegInv, Unmapped
  <2>5. RoleInv!(p)'
    BY ZenonT(60) DEF IInv, TypeOK, RoleInv, StateInv, Unmapped, HasRegion, CreatorSteps, WaitSteps
  <2>6. StateInv!(p)'
    BY ZenonT(60) DEF IInv, TypeOK, RoleInv, StateInv, SegInv, Unmapped, HasRegion, CreatorSteps, WaitSteps
  <2> HIDE <1>1 DEF SeeSize, Goto, locals, roles
  <2> QED BY ZenonT(60), <2>1, <2>2, <2>3, <2>4, <2>5, <2>6, <2>7, <2>8, LocalStep
<1>2. CASE SeeReady(p)
  <2> USE <1>2 DEF SeeReady, Goto, locals, roles
  <2>1. TypeOK'
    BY ZenonT(60), NoneAssumption, TriesAssumption DEF IInv, TypeOK, Labels, CreatorSteps, WaitSteps, States
  <2>2. OthersKeep(p)
    BY DEF IInv, TypeOK, OthersKeep
  <2>7. WritesOwn(p)
    BY ZenonT(60) DEF IInv, TypeOK, WritesOwn, RoleInv, StateInv, CreatorSteps
  <2>8. UNCHANGED <<name, seg, made, unlinked>>
    OBVIOUS
  <2>3. ReadyInv'
    BY ZenonT(60) DEF IInv, TypeOK, ReadyInv, StateInv
  <2>4. SegInv!(p)'
    BY ZenonT(60) DEF IInv, TypeOK, SegInv, Unmapped
  <2>5. RoleInv!(p)'
    BY ZenonT(60) DEF IInv, TypeOK, RoleInv, StateInv, Unmapped, HasRegion, CreatorSteps, WaitSteps
  <2>6. StateInv!(p)'
    BY ZenonT(60) DEF IInv, TypeOK, RoleInv, StateInv, SegInv, Unmapped, HasRegion, CreatorSteps, WaitSteps
  <2> HIDE <1>2 DEF SeeReady, Goto, locals, roles
  <2> QED BY <2>1, <2>2, <2>3, <2>4, <2>5, <2>6, <2>7, <2>8, LocalStep
<1>3. CASE MakeRegion(p)
  <2> USE <1>3 DEF MakeRegion, Goto, locals, roles
  <2>1. TypeOK'
    BY ZenonT(60), NoneAssumption, TriesAssumption DEF IInv, TypeOK, Labels, CreatorSteps, WaitSteps, States
  <2>2. OthersKeep(p)
    BY ZenonT(60) DEF IInv, TypeOK, OthersKeep
  <2>7. WritesOwn(p)
    BY DEF IInv, TypeOK, WritesOwn, RoleInv, StateInv, CreatorSteps
  <2>8. UNCHANGED <<name, seg, made, unlinked>>
    OBVIOUS
  <2>3. ReadyInv'
    BY DEF IInv, TypeOK, ReadyInv, StateInv
  <2>4. SegInv!(p)'
    BY ZenonT(60) DEF IInv, TypeOK, SegInv, Unmapped
  <2>5. RoleInv!(p)'
    BY ZenonT(60) DEF IInv, TypeOK, RoleInv, StateInv, Unmapped, HasRegion, CreatorSteps, WaitSteps
  <2>6. StateInv!(p)'
    BY ZenonT(60) DEF IInv, TypeOK, RoleInv, StateInv, SegInv, Unmapped, HasRegion, CreatorSteps, WaitSteps
  <2> HIDE <1>3 DEF MakeRegion, Goto, locals, roles
  <2> QED BY <2>1, <2>2, <2>3, <2>4, <2>5, <2>6, <2>7, <2>8, LocalStep
<1>4. CASE BindAll(p)
  <2> USE <1>4 DEF BindAll, Goto, locals, roles
  <2>1. TypeOK'
    BY ZenonT(60), NoneAssumption, TriesAssumption DEF IInv, TypeOK, Labels, CreatorSteps, WaitSteps, States
  <2>2. OthersKeep(p)
    BY ZenonT(60) DEF IInv, TypeOK, OthersKeep
  <2>7. WritesOwn(p)
    BY DEF IInv, TypeOK, WritesOwn, RoleInv, StateInv, CreatorSteps
  <2>8. UNCHANGED <<name, seg, made, unlinked>>
    OBVIOUS
  <2>3. ReadyInv'
    BY ZenonT(60) DEF IInv, TypeOK, ReadyInv, StateInv
  <2>4. SegInv!(p)'
    BY ZenonT(60) DEF IInv, TypeOK, SegInv, Unmapped
  <2>5. RoleInv!(p)'
    BY ZenonT(60) DEF IInv, TypeOK, RoleInv, StateInv, Unmapped, HasRegion, CreatorSteps, WaitSteps
  <2>6. StateInv!(p)'
    BY DEF IInv, TypeOK, RoleInv, StateInv, SegInv, Unmapped, HasRegion, CreatorSteps, WaitSteps
  <2> HIDE <1>4 DEF BindAll, Goto, locals, roles
  <2> QED BY <2>1, <2>2, <2>3, <2>4, <2>5, <2>6, <2>7, <2>8, LocalStep
<1> QED BY ZenonT(60), <1>1, <1>2, <1>3, <1>4

(* Steps that stay in the call or raise. *)
LEMMA ChoiceStep ==
    ASSUME NEW p \in Procs, IInv, 
           CreateExists(p) \/ OpenMissing(p) \/ Compare(p) \/ RegionFails(p) \/ BindFails(p),
           ~Raise(p)
    PROVE  IInv'
<1>1. CASE CreateExists(p)
  <2> USE <1>1 DEF CreateExists, Goto, locals, roles
  <2>1. TypeOK'
    BY ZenonT(60), NoneAssumption, TriesAssumption DEF IInv, TypeOK, Labels, CreatorSteps, WaitSteps, States
  <2>2. OthersKeep(p)
    BY DEF IInv, TypeOK, OthersKeep
  <2>7. WritesOwn(p)
    BY ZenonT(60) DEF IInv, TypeOK, WritesOwn, RoleInv, StateInv, CreatorSteps
  <2>8. UNCHANGED <<name, seg, made, unlinked>>
    OBVIOUS
  <2>3. ReadyInv'
    BY ZenonT(60) DEF IInv, TypeOK, ReadyInv, StateInv
  <2>4. SegInv!(p)'
    BY ZenonT(60) DEF IInv, TypeOK, SegInv, Unmapped
  <2>5. RoleInv!(p)'
    BY DEF IInv, TypeOK, RoleInv, StateInv, Unmapped, HasRegion, CreatorSteps, WaitSteps
  <2>6. StateInv!(p)'
    BY ZenonT(60) DEF IInv, TypeOK, RoleInv, StateInv, SegInv, Unmapped, HasRegion, CreatorSteps, WaitSteps
  <2> HIDE <1>1 DEF CreateExists, Goto, locals, roles
  <2> QED BY ZenonT(60), <2>1, <2>2, <2>3, <2>4, <2>5, <2>6, <2>7, <2>8, LocalStep
<1>2. CASE OpenMissing(p)
  <2> USE <1>2 DEF OpenMissing, Goto, locals, roles
  <2>1. TypeOK'
    BY NoneAssumption, TriesAssumption DEF IInv, TypeOK, Labels, CreatorSteps, WaitSteps, States
  <2>2. OthersKeep(p)
    BY ZenonT(60) DEF IInv, TypeOK, OthersKeep
  <2>7. WritesOwn(p)
    BY DEF IInv, TypeOK, WritesOwn, RoleInv, StateInv, CreatorSteps
  <2>8. UNCHANGED <<name, seg, made, unlinked>>
    OBVIOUS
  <2>3. ReadyInv'
    BY ZenonT(60) DEF IInv, TypeOK, ReadyInv, StateInv
  <2>4. SegInv!(p)'
    BY DEF IInv, TypeOK, SegInv, Unmapped
  <2>5. RoleInv!(p)'
    BY ZenonT(60) DEF IInv, TypeOK, RoleInv, StateInv, Unmapped, HasRegion, CreatorSteps, WaitSteps
  <2>6. StateInv!(p)'
    BY ZenonT(60) DEF IInv, TypeOK, RoleInv, StateInv, SegInv, Unmapped, HasRegion, CreatorSteps, WaitSteps
  <2> HIDE <1>2 DEF OpenMissing, Goto, locals, roles
  <2> QED BY ZenonT(60), <2>1, <2>2, <2>3, <2>4, <2>5, <2>6, <2>7, <2>8, LocalStep
<1>3. CASE Compare(p)
  <2> USE <1>3 DEF Compare, Goto, locals, roles
  <2>1. TypeOK'
    BY ZenonT(60), NoneAssumption, TriesAssumption DEF IInv, TypeOK, Labels, CreatorSteps, WaitSteps, States
  <2>2. OthersKeep(p)
    BY DEF IInv, TypeOK, OthersKeep
  <2>7. WritesOwn(p)
    BY ZenonT(60) DEF IInv, TypeOK, WritesOwn, RoleInv, StateInv, CreatorSteps
  <2>8. UNCHANGED <<name, seg, made, unlinked>>
    OBVIOUS
  <2>3. ReadyInv'
    BY DEF IInv, TypeOK, ReadyInv, StateInv
  <2>4. SegInv!(p)'
    BY ZenonT(60) DEF IInv, TypeOK, SegInv, Unmapped
  <2>5. RoleInv!(p)'
    BY ZenonT(60) DEF IInv, TypeOK, RoleInv, StateInv, Unmapped, HasRegion, CreatorSteps, WaitSteps
  <2>6. StateInv!(p)'
    BY SMTT(60) DEF IInv, TypeOK, RoleInv, StateInv, SegInv, Unmapped, HasRegion, CreatorSteps, WaitSteps
  <2> HIDE <1>3 DEF Compare, Goto, locals, roles
  <2> QED BY ZenonT(60), <2>1, <2>2, <2>3, <2>4, <2>5, <2>6, <2>7, <2>8, LocalStep
<1>4. CASE RegionFails(p)
  <2> USE <1>4 DEF RegionFails, Goto, locals, roles
  <2>1. TypeOK'
    BY NoneAssumption, TriesAssumption DEF IInv, TypeOK, Labels, CreatorSteps, WaitSteps, States
  <2>2. OthersKeep(p)
    BY DEF IInv, TypeOK, OthersKeep
  <2>7. WritesOwn(p)
    BY DEF IInv, TypeOK, WritesOwn, RoleInv, StateInv, CreatorSteps
  <2>8. UNCHANGED <<name, seg, made, unlinked>>
    OBVIOUS
  <2>3. ReadyInv'
    BY DEF IInv, TypeOK, ReadyInv, StateInv
  <2>4. SegInv!(p)'
    BY ZenonT(60) DEF IInv, TypeOK, SegInv, Unmapped
  <2>5. RoleInv!(p)'
    BY ZenonT(60) DEF IInv, TypeOK, RoleInv, StateInv, Unmapped, HasRegion, CreatorSteps, WaitSteps
  <2>6. StateInv!(p)'
    BY SMTT(60) DEF IInv, TypeOK, RoleInv, StateInv, SegInv, Unmapped, HasRegion, CreatorSteps, WaitSteps
  <2> HIDE <1>4 DEF RegionFails, Goto, locals, roles
  <2> QED BY ZenonT(60), <2>1, <2>2, <2>3, <2>4, <2>5, <2>6, <2>7, <2>8, LocalStep
<1>5. CASE BindFails(p)
  <2> USE <1>5 DEF BindFails, Goto, locals, roles
  <2>1. TypeOK'
    BY ZenonT(60), NoneAssumption, TriesAssumption DEF IInv, TypeOK, Labels, CreatorSteps, WaitSteps, States
  <2>2. OthersKeep(p)
    BY ZenonT(60) DEF IInv, TypeOK, OthersKeep
  <2>7. WritesOwn(p)
    BY DEF IInv, TypeOK, WritesOwn, RoleInv, StateInv, CreatorSteps
  <2>8. UNCHANGED <<name, seg, made, unlinked>>
    OBVIOUS
  <2>3. ReadyInv'
    BY ZenonT(60) DEF IInv, TypeOK, ReadyInv, StateInv
  <2>4. SegInv!(p)'
    BY ZenonT(60) DEF IInv, TypeOK, SegInv, Unmapped
  <2>5. RoleInv!(p)'
    BY SMTT(60) DEF IInv, TypeOK, RoleInv, StateInv, Unmapped, HasRegion, CreatorSteps, WaitSteps
  <2>6. StateInv!(p)'
    BY DEF IInv, TypeOK, RoleInv, StateInv, SegInv, Unmapped, HasRegion, CreatorSteps, WaitSteps
  <2> HIDE <1>5 DEF BindFails, Goto, locals, roles
  <2> QED BY ZenonT(60), <2>1, <2>2, <2>3, <2>4, <2>5, <2>6, <2>7, <2>8, LocalStep
<1> QED BY SMTT(60), <1>1, <1>2, <1>3, <1>4, <1>5

(* The arguments of a call are fresh. *)
LEMMA CallStep ==
    ASSUME NEW p \in Procs, IInv, NEW c \in AllCalls,
           NEW l \in Layouts \cup {None}, NEW b \in BOOLEAN, Call(p, c, l, b)
    PROVE  IInv'
<1>1. CASE Call(p, c, l, b)
  <2> USE <1>1 DEF Call, Goto, locals, roles
  <2>1. TypeOK'
    BY NoneAssumption, TriesAssumption DEF IInv, TypeOK, Labels, CreatorSteps, WaitSteps, States
  <2>2. OthersKeep(p)
    BY ZenonT(60) DEF IInv, TypeOK, OthersKeep
  <2>7. WritesOwn(p)
    BY ZenonT(60) DEF IInv, TypeOK, WritesOwn, RoleInv, StateInv, CreatorSteps
  <2>8. UNCHANGED <<name, seg, made, unlinked>>
    OBVIOUS
  <2>3. ReadyInv'
    BY DEF IInv, TypeOK, ReadyInv, StateInv
  <2>4. SegInv!(p)'
    BY ZenonT(60) DEF IInv, TypeOK, SegInv, Unmapped
  <2>5. RoleInv!(p)'
    BY SMTT(60) DEF IInv, TypeOK, RoleInv, StateInv, Unmapped, HasRegion, CreatorSteps, WaitSteps
  <2>6. StateInv!(p)'
    BY DEF IInv, TypeOK, RoleInv, StateInv, SegInv, Unmapped, HasRegion, CreatorSteps, WaitSteps
  <2> HIDE <1>1 DEF Call, Goto, locals, roles
  <2> QED BY ZenonT(60), <2>1, <2>2, <2>3, <2>4, <2>5, <2>6, <2>7, <2>8, LocalStep
<1> QED BY SMTT(60), <1>1

(* A method raises: what it made is undone. *)
LEMMA RaiseStep ==
    ASSUME NEW p \in Procs, IInv, Raise(p)
    PROVE  IInv'
BY LeaveStep DEF Raise

(* The failing creator's unlink by name. *)
LEMMA DropStep ==
    ASSUME NEW p \in Procs, IInv, Cleanup(p) \/ UnlinkBroken(p) \/ DropName(p)
    PROVE  IInv'
<1>1. made[p]
  BY DEF IInv, RoleInv, CreatorSteps, Cleanup, UnlinkBroken, DropName
<1>2. Leave(p, None)
  BY DEF Cleanup, UnlinkBroken, DropName
<1> QED BY ZenonT(60), <1>1, <1>2, LeaveStep

(* A new inode is empty and has nobody else's descriptor. *)
LEMMA CreateExclusiveStep ==
    ASSUME NEW p \in Procs, IInv, CreateExclusive(p)
    PROVE  IInv'
<1>1. PICK i \in Inodes : Free(i) /\ name' = i /\ seg' = [seg EXCEPT ![p] = i]
  BY ZenonT(60) DEF CreateExclusive
<1>2. /\ pc[p] = "creat" /\ name = None
      /\ made' = [made EXCEPT ![p] = TRUE]
      /\ pc' = [pc EXCEPT ![p] = "truncate"]
      /\ UNCHANGED <<inode, call, want, tries, bounded, created, unlinked>>
  BY ZenonT(60) DEF CreateExclusive, Goto, locals
<1>3. inode[i] = Fresh /\ \A q \in Procs : seg[q] # i
  BY ZenonT(60), <1>1 DEF IInv, FreeInv, Free
<1>4. TypeOK'
  BY ZenonT(60), <1>1, <1>2 DEF IInv, TypeOK, Labels, CreatorSteps
<1>5. SegInv'
  BY ZenonT(60), <1>1, <1>2, NoneAssumption DEF IInv, TypeOK, SegInv, Unmapped
<1>6. RoleInv'
  BY <1>2 DEF IInv, TypeOK, RoleInv, Unmapped, WaitSteps, CreatorSteps, HasRegion
<1>7. MakerInv'
  BY ZenonT(60), <1>1, <1>2, <1>3 DEF IInv, TypeOK, MakerInv
<1>8. StateInv'
  BY SMTT(60), <1>1, <1>2, <1>3 DEF IInv, TypeOK, StateInv, HasRegion, Fresh
<1>9. ReadyInv'
  BY ZenonT(60), <1>2 DEF IInv, ReadyInv
<1>10. FreeInv'
  <2> SUFFICES ASSUME NEW j \in Inodes, Free(j)'
               PROVE  inode[j] = Fresh
    BY ZenonT(60), <1>2 DEF FreeInv
  <2>1. \A q \in Procs : seg[q] # j
    BY ZenonT(60), <1>1, <1>2, NoneAssumption DEF IInv, TypeOK, Free, SegInv, Unmapped
  <2> QED BY ZenonT(60), <1>2, <2>1, NoneAssumption DEF IInv, FreeInv, Free
<1>11. NameInv'
  BY <1>1, <1>2, NoneAssumption DEF IInv, TypeOK, NameInv, SegInv, RoleInv, Unmapped
<1> QED BY ZenonT(60), <1>4, <1>5, <1>6, <1>7, <1>8, <1>9, <1>10, <1>11 DEF IInv

(* open() of the name, with or without O_CREAT. *)
LEMMA OpenStep ==
    ASSUME NEW p \in Procs, IInv, Open(p)
    PROVE  IInv'
<1>1. /\ pc[p] = "open" /\ name # None
      /\ seg' = [seg EXCEPT ![p] = name]
      /\ pc' = [pc EXCEPT ![p] = "waitSize"]
      /\ UNCHANGED <<name, inode, call, want, tries, bounded, created, made, unlinked>>
  BY ZenonT(60) DEF Open, Goto, locals, roles
<1>2. ~made[p]
  BY ZenonT(60), <1>1 DEF IInv, RoleInv, Unmapped
<1>4. TypeOK'
  BY ZenonT(60), <1>1 DEF IInv, TypeOK, Labels, WaitSteps
<1>5. SegInv'
  BY ZenonT(60), <1>1 DEF IInv, TypeOK, SegInv, Unmapped
<1>6. RoleInv'
  BY <1>1 DEF IInv, TypeOK, RoleInv, Unmapped, WaitSteps, CreatorSteps, HasRegion
<1>7. MakerInv'
  BY ZenonT(60), <1>1, <1>2 DEF IInv, TypeOK, MakerInv
<1>8. StateInv'
  BY ZenonT(60), <1>1 DEF IInv, TypeOK, StateInv, HasRegion
<1>9. ReadyInv'
  BY ZenonT(60), <1>1 DEF IInv, ReadyInv
<1>10. FreeInv'
  <2> SUFFICES ASSUME NEW j \in Inodes, Free(j)'
               PROVE  inode[j] = Fresh
    BY ZenonT(60), <1>1 DEF FreeInv
  <2>1. \A q \in Procs : seg[q] # j
    BY ZenonT(60), <1>1, NoneAssumption DEF IInv, TypeOK, Free, SegInv, Unmapped
  <2> QED BY ZenonT(60), <1>1, <2>1 DEF IInv, FreeInv, Free
<1>11. NameInv'
  BY <1>1, <1>2 DEF IInv, TypeOK, NameInv
<1> QED BY ZenonT(60), <1>4, <1>5, <1>6, <1>7, <1>8, <1>9, <1>10, <1>11 DEF IInv

(* unlink takes nothing from those who have the segment open. *)
LEMMA UnlinkStep ==
    ASSUME NEW p \in Procs, IInv, Unlink(p)
    PROVE  IInv'
<1>1. /\ name' = None
      /\ inode' = [i \in Inodes |-> IF \E q \in Procs : seg[q] = i THEN inode[i] ELSE Fresh]
      /\ unlinked' = TRUE
      /\ UNCHANGED <<pc, seg, call, want, tries, bounded, created, made>>
  BY ZenonT(60) DEF Unlink, locals, roles
<1>2. \A q \in Procs : seg[q] # None => inode'[seg[q]] = inode[seg[q]]
  BY ZenonT(60), <1>1 DEF IInv, TypeOK
<1>4. TypeOK'
  BY SMTT(60), <1>1 DEF IInv, TypeOK, Fresh, States
<1>5. SegInv' /\ RoleInv' /\ MakerInv'
  BY ZenonT(60), <1>1 DEF IInv, SegInv, RoleInv, MakerInv
<1>8. StateInv'
  <2>1. StateInv /\ SegInv /\ pc' = pc /\ seg' = seg /\ call' = call /\ want' = want /\ made' = made
    BY ZenonT(60), <1>1 DEF IInv
  <2>2. \A q \in Procs : pc[q] \in Unmapped \/ inode'[seg[q]] = inode[seg[q]]
    BY ZenonT(60), <1>2, <2>1 DEF SegInv
  <2> QED BY ZenonT(60), <2>1, <2>2 DEF StateInv, HasRegion, Unmapped
<1>9. ReadyInv'
  BY <1>1 DEF IInv, TypeOK, ReadyInv, Fresh
<1>10. FreeInv'
  BY ZenonT(60), <1>1 DEF IInv, FreeInv, Free
<1>11. NameInv'
  BY ZenonT(60), <1>1 DEF NameInv
<1> QED BY ZenonT(60), <1>4, <1>5, <1>8, <1>9, <1>10, <1>11 DEF IInv

-----------------------------------------------------------------------------

(* No inode is in use and no process at work. *)
LEMMA InitIInv == Init => IInv
<1> SUFFICES ASSUME Init PROVE IInv
  OBVIOUS
<1>1. TypeOK
  <2>1. tries \in [Procs -> 0 .. MaxTries - 1]
    BY TriesAssumption DEF Init
  <2>2. inode \in [Inodes -> [size : {"short", "full"}, hdr : Layouts \cup {None},
                             state : States, inited : BOOLEAN]]
    BY DEF Init, Fresh, States
  <2>3. pc \in [Procs -> Labels]
    BY DEF Init, Labels
  <2>4. created \in [Procs -> BOOLEAN] /\ made \in [Procs -> BOOLEAN] /\ bounded \in [Procs -> BOOLEAN]
    BY DEF Init
  <2> QED BY <2>1, <2>2, <2>3, <2>4, Zenon DEF Init, TypeOK
<1>2. SegInv
  BY ZenonT(60) DEF Init, SegInv, Unmapped
<1>3. RoleInv
  BY DEF Init, RoleInv, HasRegion, CreatorSteps
<1>4. MakerInv /\ NameInv
  BY ZenonT(60) DEF Init, MakerInv, NameInv
<1>5. StateInv
  BY ZenonT(60) DEF Init, StateInv, HasRegion
<1>6. ReadyInv /\ FreeInv
  BY DEF Init, ReadyInv, FreeInv, Fresh
<1> QED BY <1>1, <1>2, <1>3, <1>4, <1>5, <1>6 DEF IInv

(* Every step of every process, and of the file system. *)
LEMMA NextIInv == IInv /\ [Next]_vars => IInv'
<1> SUFFICES ASSUME IInv, [Next]_vars PROVE IInv'
  BY ZenonT(60)
<1>1. CASE UNCHANGED vars
  BY <1>1 DEF vars, locals, roles, IInv, TypeOK, SegInv, RoleInv, MakerInv, StateInv, ReadyInv,
              FreeInv, Free, NameInv
<1>2. ASSUME NEW p \in Procs, Start(p) PROVE IInv'
  BY ZenonT(60), <1>2, CallStep, CallsAssumption, DeadlinesAssumption DEF Start, AllCalls
<1>3. ASSUME NEW p \in Procs, Step(p) \/ Fail(p) PROVE IInv'
  <2>1. CASE Truncate(p) \/ WriteHeader(p) \/ Claim(p) \/ DupName(p) \/ CreateFails(p)
    BY <2>1, MakerStep
  <2>2. CASE CheckCreated(p) \/ InitPrimitives(p) \/ InitFails(p) \/ MarkBroken(p) \/ Publish(p)
    BY <2>2, CreatorStep
  <2>3. CASE SeeSize(p) \/ SeeReady(p) \/ MakeRegion(p) \/ BindAll(p)
    BY <2>3, AttachStep
  <2>4. CASE CreateExists(p) \/ OpenMissing(p) \/ Compare(p) \/ RegionFails(p) \/ BindFails(p)
    BY <2>4, ChoiceStep, RaiseStep
  <2>5. CASE Cleanup(p) \/ UnlinkBroken(p) \/ DropName(p)
    BY ZenonT(60), <2>5, DropStep
  <2>6. CASE CreateRefused(p) \/ SeeBroken(p) \/ DeadlinePassed(p) \/ AttachFails(p)
    BY <2>6, RaiseStep DEF CreateRefused, SeeBroken, DeadlinePassed, AttachFails
  <2>7. CASE CreateExclusive(p)
    BY <2>7, CreateExclusiveStep
  <2>8. CASE Open(p)
    BY <2>8, OpenStep
  <2> QED BY ZenonT(60), <1>3, <2>1, <2>2, <2>3, <2>4, <2>5, <2>6, <2>7, <2>8 DEF Step, Fail
<1>4. ASSUME NEW p \in Procs, Close(p) \/ Crash(p) PROVE IInv'
  BY <1>4, RaiseStep DEF Close, Crash
<1>5. ASSUME NEW p \in Procs, Unlink(p) PROVE IInv'
  BY <1>5, UnlinkStep
<1> QED BY <1>1, <1>2, <1>3, <1>4, <1>5, KilledAssumption, UnlinkAssumption DEF Next

(* The inductive invariant holds of every behaviour of Segment.            *)
THEOREM SegmentInvariant == Spec => []IInv
BY InitIInv, NextIInv, PTL DEF Spec

(* Every variable of the model keeps its type, the tries of open_or_create *)
(* under their bound.                                                      *)
THEOREM SegmentTypeOK == Spec => []TypeOK
<1>1. IInv => TypeOK
  BY DEF IInv
<1> QED BY <1>1, SegmentInvariant, PTL

(* A region is only ever made over a segment that is READY, initialised    *)
(* and of the caller's layout.                                             *)
THEOREM SegmentAttachedIsReady == Spec => []AttachedIsReady
<1>1. IInv => AttachedIsReady
  BY ZenonT(60) DEF IInv, TypeOK, AttachedIsReady, StateInv, ReadyInv, SegInv, Unmapped, HasRegion
<1> QED BY <1>1, SegmentInvariant, PTL

(* The state test of open_or_create finds the creator.                     *)
THEOREM SegmentCreatorIsMaker == Spec => []CreatorIsMaker
<1>1. IInv => CreatorIsMaker
  BY ZenonT(60) DEF IInv, CreatorIsMaker, RoleInv, CreatorSteps, HasRegion
<1> QED BY <1>1, SegmentInvariant, PTL

(* Without an intervening unlink a failing creator's shm_unlink removes    *)
(* its own segment.                                                        *)
THEOREM SegmentCleanupRemovesOwnName == Spec => []CleanupRemovesOwnName
<1>1. IInv => CleanupRemovesOwnName
  BY DEF IInv, CleanupRemovesOwnName, RoleInv, NameInv, CreatorSteps
<1> QED BY <1>1, SegmentInvariant, PTL

(* A published or broken segment is never written again while anybody can  *)
(* reach it.                                                               *)
THEOREM SegmentPublishedIsFinal == Spec => PublishedIsFinal
<1> DEFINE Final == \A i \in Inodes :
                       ~Free(i) /\ inode[i].state \in {"READY", "BROKEN"} =>
                          inode'[i] = inode[i] \/ Free(i)'
<1>1. IInv /\ [Next]_vars => Final
  <2> SUFFICES ASSUME IInv, [Next]_vars PROVE Final
    OBVIOUS
  <2>1. CASE UNCHANGED inode
    BY ZenonT(60), <2>1
  <2>2. ASSUME NEW p \in Procs, NEW n, Leave(p, n) PROVE Final
    BY ZenonT(60), <2>2, NoneAssumption DEF Leave, Drop, Free, IInv, TypeOK
  <2>3. ASSUME NEW p \in Procs, Unlink(p) PROVE Final
    BY ZenonT(60), <2>3 DEF Unlink, Free, IInv, TypeOK
  <2>4. ASSUME NEW p \in Procs,
               Truncate(p) \/ WriteHeader(p) \/ Claim(p) \/ InitPrimitives(p) \/ MarkBroken(p)
                  \/ Publish(p)
        PROVE  Final
    BY SMTT(60), <2>4 DEF Truncate, WriteHeader, Claim, InitPrimitives, MarkBroken, Publish, IInv, TypeOK,
                StateInv
  <2>5. ASSUME NEW p \in Procs, Step(p) \/ Fail(p) PROVE Final
    BY ZenonT(60), <2>1, <2>2, <2>4, <2>5
       DEF Step, Fail, CreateExclusive, CreateExists, CreateRefused, DupName, CreateFails, Cleanup, CheckCreated,
           InitFails, UnlinkBroken, Open, OpenMissing, SeeSize, SeeReady, SeeBroken,
           DeadlinePassed, Compare, AttachFails, MakeRegion, RegionFails, DropName, BindAll,
           BindFails, Raise
  <2>6. ASSUME NEW p \in Procs, Start(p) PROVE Final
    BY ZenonT(60), <2>1, <2>6 DEF Start, Call
  <2>7. ASSUME NEW p \in Procs, Close(p) \/ Crash(p) PROVE Final
    BY <2>2, <2>7 DEF Close, Crash, Raise
  <2> HIDE DEF Final
  <2>8. CASE UNCHANGED vars
    BY <2>1, <2>8 DEF vars
  <2> QED
    BY ZenonT(60), <2>3, <2>5, <2>6, <2>7, <2>8, KilledAssumption, UnlinkAssumption DEF Next
<1> QED BY <1>1, SegmentInvariant, PTL DEF Spec, PublishedIsFinal

(* The functions the futex part is made of. *)
FutexFcns ==
    /\ DOMAIN fpc = Callers /\ DOMAIN fexp = Callers /\ DOMAIN fhow = Callers
    /\ DOMAIN ftold = Callers
    /\ fpc = [t \in Callers |-> fpc[t]] /\ fexp = [t \in Callers |-> fexp[t]]
    /\ fhow = [t \in Callers |-> fhow[t]] /\ ftold = [t \in Callers |-> ftold[t]]

DescFcns ==
    /\ dkind \in [Descs -> {"none", "eventfd", "memfd"}]
    /\ dfd \in [Descs -> Fds \cup {0}]
    /\ dfile \in [Descs -> Files \cup {NoFile}]
    /\ dviews \in [Descs -> 0..MaxViews]
    /\ table \in [Fds -> Files \cup {NoFile}]
    /\ tdesc \in [Callers -> Descs \cup {NoDesc}]
    /\ tfd \in [Callers -> Fds \cup {0}]
    /\ tfile \in [Callers -> Files \cup {NoFile}]
    /\ tclosed \subseteq Callers

(* A thread in read() or write() whose object nobody has closed: the       *)
(* object is open, and the number the thread has read is the object's.     *)
CallsRight ==
    \A t \in Callers :
      /\ tdesc[t] = NoDesc => tfd[t] = 0 /\ tfile[t] = NoFile
      /\ tdesc[t] # NoDesc /\ t \notin tclosed =>
           /\ DescOpen(tdesc[t])
           /\ tfd[t] \in {0, dfd[tdesc[t]]}

OpenHasFile == \A o \in Descs : DescOpen(o) => dfile[o] \in Files

DescIInv == DescFcns /\ OpenHasFile /\ CallsRight /\ OwnDescriptor

FutexIInv == FutexFcns /\ FutexWaitIsRight

-----------------------------------------------------------------------------

(* A non-empty set of numbers has a smallest one, so the kernel's choice   *)
(* of a descriptor is one of the free ones.                                *)
LEMMA LowestIsFree ==
    ASSUME FreeFds # {}
    PROVE  LowestFree \in FreeFds
<1>1. FreeFds \subseteq Nat
  BY ZenonT(60), LinuxAssumption DEF FreeFds
<1>2. PICK f \in FreeFds : \A g \in FreeFds : ~(<<g, f>> \in OpToRel(<, Nat))
  BY ZenonT(60), <1>1, NatLessThanWellFounded, WFMin
<1>3. \A g \in FreeFds : ~(g < f)
  BY ZenonT(60), <1>1, <1>2 DEF OpToRel
<1>4. \A g \in FreeFds : f <= g
  BY <1>1, <1>3
<1> HIDE DEF FreeFds
<1> QED BY <1>4 DEF LowestFree

(* Every step, as far as futexes are concerned. *)
LEMMA FutexStep ==
    ASSUME FutexIInv, FutexNext \/ UNCHANGED futexVars
    PROVE  FutexIInv'
<1>1. FutexFcns
  BY DEF FutexIInv
<1>2. FutexWaitIsRight
  BY ZenonT(60) DEF FutexIInv
<1>3. ASSUME NEW t \in Callers, NEW v \in Words, FutexStore(t, v) PROVE FutexIInv'
  BY <1>1, <1>2, <1>3 DEF FutexIInv, FutexStore, FutexFcns, FutexWaitIsRight, Asleep
<1>4. ASSUME NEW t \in Callers, NEW v \in Words, NEW how \in FutexModes, FutexWait(t, v, how)
      PROVE  FutexIInv'
  BY ZenonT(60), <1>1, <1>2, <1>4 DEF FutexIInv, FutexWait, FutexFcns, FutexWaitIsRight, Asleep
<1>5. ASSUME NEW t \in Callers, NEW n, FutexWake(t, n) PROVE FutexIInv'
  BY ZenonT(60), <1>1, <1>2, <1>5 DEF FutexIInv, FutexWake, FutexFcns, FutexWaitIsRight, Asleep
<1>6. ASSUME NEW t \in Callers, NEW signal \in BOOLEAN, FutexTimedOut(t, signal) PROVE FutexIInv'
  BY ZenonT(60), <1>1, <1>2, <1>6 DEF FutexIInv, FutexTimedOut, FutexFcns, FutexWaitIsRight, Asleep
<1>7. ASSUME NEW t \in Callers, FutexSleep(t) PROVE FutexIInv'
  BY ZenonT(60), <1>1, <1>2, <1>7 DEF FutexIInv, FutexSleep, FutexFcns, FutexWaitIsRight, Asleep
<1>8. ASSUME NEW t \in Callers, FutexDeadline(t) PROVE FutexIInv'
  BY <1>1, <1>2, <1>8 DEF FutexIInv, FutexDeadline, FutexFcns, FutexWaitIsRight, Asleep
<1>9. ASSUME NEW t \in Callers, FutexWoken(t) PROVE FutexIInv'
  BY ZenonT(60), <1>1, <1>2, <1>9 DEF FutexIInv, FutexWoken, FutexTold, FutexFcns, FutexWaitIsRight, Asleep
<1>10. ASSUME NEW t \in Callers, FutexAfterSlice(t) PROVE FutexIInv'
  BY ZenonT(60), <1>1, <1>2, <1>10 DEF FutexIInv, FutexAfterSlice, FutexTold, FutexFcns, FutexWaitIsRight, Asleep
<1>11. ASSUME NEW t \in Callers, FutexClose(t) PROVE FutexIInv'
  BY ZenonT(60), <1>1, <1>2, <1>11 DEF FutexIInv, FutexClose, FutexFcns, FutexWaitIsRight, Asleep
<1>12. CASE UNCHANGED futexVars
  BY ZenonT(60), <1>1, <1>2, <1>12 DEF FutexIInv, futexVars, FutexFcns, FutexWaitIsRight, Asleep
<1> QED BY ZenonT(60), <1>3, <1>4, <1>5, <1>6, <1>7, <1>8, <1>9, <1>10, <1>11, <1>12 DEF FutexNext

-----------------------------------------------------------------------------

(* EventFD(), MemFD.create() and unpickling: the new number was free, so   *)
(* it is not the number of an open object.                                 *)
LEMMA MakeStep ==
    ASSUME DescIInv, NEW o \in Descs, NEW kind \in {"eventfd", "memfd"}, NEW k \in Files,
           MakeDesc(o, kind, k)
    PROVE  DescIInv'
<1>1. PICK f : f = LowestFree
  OBVIOUS
<1>2. f \in Fds /\ table[f] = NoFile
  BY <1>1, LowestIsFree DEF MakeDesc, FreeFds
<1>3. /\ dkind[o] = "none" /\ table' = [table EXCEPT ![f] = k]
      /\ dkind' = [dkind EXCEPT ![o] = kind] /\ dfd' = [dfd EXCEPT ![o] = f]
      /\ dfile' = [dfile EXCEPT ![o] = k]
      /\ dviews' = dviews /\ tdesc' = tdesc /\ tfd' = tfd /\ tfile' = tfile /\ tclosed' = tclosed
  BY ZenonT(60), <1>1 DEF MakeDesc
<1>4. \A p \in Descs : DescOpen(p) => dfd[p] # f /\ p # o
  BY ZenonT(60), <1>2, <1>3, LinuxAssumption DEF DescIInv, OwnDescriptor, OpenHasFile, DescOpen
<1>5. DescFcns'
  BY ZenonT(60), <1>2, <1>3 DEF DescIInv, DescFcns
<1>6. \A p \in Descs \ {o} : DescOpen(p)' = DescOpen(p) /\ dfd'[p] = dfd[p] /\ dfile'[p] = dfile[p]
  BY <1>3 DEF DescIInv, DescFcns, DescOpen
<1>7. f # 0 /\ DescOpen(o)' /\ dfd'[o] = f /\ dfile'[o] = k /\ table'[f] = k
  BY ZenonT(60), <1>2, <1>3, LinuxAssumption DEF DescIInv, DescFcns, DescOpen
<1>8. OpenHasFile'
  BY ZenonT(60), <1>6, <1>7 DEF DescIInv, OpenHasFile
<1>9. CallsRight'
  BY ZenonT(60), <1>3, <1>4, <1>6 DEF DescIInv, DescFcns, CallsRight
<1>10. OwnDescriptor'
  <2>1. \A p \in Descs : DescOpen(p)' => table'[dfd'[p]] = dfile'[p]
    BY <1>2, <1>3, <1>4, <1>6, <1>7, LinuxAssumption DEF DescIInv, DescFcns, DescOpen, OwnDescriptor
  <2>2. \A p, q \in Descs : DescOpen(p)' /\ DescOpen(q)' /\ p # q => dfd'[p] # dfd'[q]
    BY ZenonT(60), <1>4, <1>6, <1>7 DEF DescIInv, OwnDescriptor
  <2>3. \A t \in Callers : tfile'[t] # NoFile /\ t \notin tclosed' => tfile'[t] = dfile'[tdesc'[t]]
    BY <1>3, <1>4, <1>6 DEF DescIInv, DescFcns, OwnDescriptor, CallsRight
  <2>4. \A p \in Descs : dviews'[p] > 0 => DescOpen(p)'
    BY ZenonT(60), <1>3, <1>6, <1>7 DEF DescIInv, OwnDescriptor
  <2> QED BY ZenonT(60), <2>1, <2>2, <2>3, <2>4 DEF OwnDescriptor
<1> QED BY ZenonT(60), <1>5, <1>8, <1>9, <1>10 DEF DescIInv

(* efd_close, memfd_close and the deallocs: the number goes back, and no   *)
(* other open object has it.                                               *)
LEMMA CloseStep ==
    ASSUME DescIInv, NEW o \in Descs, CloseDesc(o) \/ DeallocDesc(o)
    PROVE  DescIInv'
<1>1. /\ dviews[o] = 0 /\ dviews' = dviews /\ tdesc' = tdesc /\ tfd' = tfd /\ tfile' = tfile
      /\ dkind' \in {dkind, [dkind EXCEPT ![o] = "none"]}
      /\ dfile' = dfile \/ (dfile' = [dfile EXCEPT ![o] = NoFile] /\ ~InCall(o))
      /\ \/ /\ table' = [table EXCEPT ![dfd[o]] = NoFile] /\ dfd' = [dfd EXCEPT ![o] = 0]
            /\ tclosed' = tclosed \cup {t \in Callers : tdesc[t] = o} /\ DescOpen(o)
         \/ table' = table /\ dfd' = dfd /\ tclosed' = tclosed /\ ~DescOpen(o)
  BY ZenonT(60) DEF CloseDesc, DeallocDesc, CloseFd
<1>2. /\ ~DescOpen(o)'
      /\ \A p \in Descs \ {o} : DescOpen(p)' = DescOpen(p) /\ dfd'[p] = dfd[p] /\ dfile'[p] = dfile[p]
  BY <1>1 DEF DescIInv, DescFcns, DescOpen
<1>3. DescFcns'
  BY ZenonT(60), <1>1 DEF DescIInv, DescFcns
<1>4. OpenHasFile'
  BY ZenonT(60), <1>2 DEF DescIInv, OpenHasFile
<1>5. \A t \in Callers : tdesc[t] = o => t \in tclosed'
  BY ZenonT(60), <1>1, LinuxAssumption DEF DescIInv, CallsRight
<1>6. \A t \in Callers : t \notin tclosed' => t \notin tclosed
  BY ZenonT(60), <1>1
<1>7. CallsRight'
  BY ZenonT(60), <1>1, <1>2, <1>5, <1>6 DEF DescIInv, DescFcns, CallsRight
<1>8. \A p \in Descs : DescOpen(p)' => table'[dfd'[p]] = dfile'[p]
  BY <1>1, <1>2 DEF DescIInv, DescFcns, DescOpen, OwnDescriptor
<1>9. OwnDescriptor'
  <2>1. \A p, q \in Descs : DescOpen(p)' /\ DescOpen(q)' /\ p # q => dfd'[p] # dfd'[q]
    BY ZenonT(60), <1>2 DEF DescIInv, OwnDescriptor
  <2>2. \A t \in Callers : tfile'[t] # NoFile /\ t \notin tclosed' => tfile'[t] = dfile'[tdesc'[t]]
    BY <1>1, <1>2, <1>5, <1>6 DEF DescIInv, DescFcns, OwnDescriptor, CallsRight
  <2>3. \A p \in Descs : dviews'[p] > 0 => DescOpen(p)'
    <3>1. dviews' = dviews /\ dviews[o] = 0 /\ \A p \in Descs : dviews[p] > 0 => DescOpen(p)
      BY ZenonT(60), <1>1 DEF DescIInv, OwnDescriptor
    <3>2. ~(dviews[o] > 0)
      BY <3>1
    <3> QED BY ZenonT(60), <1>2, <3>1, <3>2
  <2> QED BY ZenonT(60), <1>8, <2>1, <2>2, <2>3 DEF OwnDescriptor
<1> QED BY ZenonT(60), <1>3, <1>4, <1>7, <1>9 DEF DescIInv

(* Views of a MemFD. *)
LEMMA ViewStep ==
    ASSUME DescIInv, NEW o \in Descs, MemView(o) \/ MemRelease(o)
    PROVE  DescIInv'
<1>1. /\ UNCHANGED <<dkind, dfd, dfile, table, tdesc, tfd, tfile, tclosed>>
      /\ \A p \in Descs : dviews'[p] > 0 => DescOpen(p)
      /\ dviews' \in [Descs -> 0..MaxViews]
  BY LinuxAssumption DEF MemView, MemRelease, DescIInv, DescFcns, OwnDescriptor
<1> QED BY ZenonT(60), <1>1 DEF DescIInv, DescFcns, OpenHasFile, CallsRight, OwnDescriptor, DescOpen

(* efd_read and efd_write. *)
LEMMA EventSteps ==
    ASSUME DescIInv, NEW t \in Callers,
           (\E o \in Descs : EventEnter(t, o)) \/ EventLoad(t) \/ EventSyscall(t) \/ EventReturn(t)
    PROVE  DescIInv'
<1>1. UNCHANGED <<dkind, dfd, dfile, dviews, table>>
  BY ZenonT(60) DEF EventEnter, EventLoad, EventSyscall, EventReturn
<1>2. \A p \in Descs : DescOpen(p)' = DescOpen(p)
  BY ZenonT(60), <1>1 DEF DescOpen
<1>3. OpenHasFile'
  BY <1>1, <1>2 DEF DescIInv, OpenHasFile
<1>4. DescFcns' /\ CallsRight'
  <2>1. ASSUME NEW o \in Descs, EventEnter(t, o) PROVE DescFcns' /\ CallsRight'
    BY ZenonT(60), <1>1, <1>2, <2>1, LinuxAssumption DEF EventEnter, DescIInv, DescFcns, CallsRight
  <2>2. CASE EventLoad(t)
    BY ZenonT(60), <1>1, <1>2, <2>2 DEF EventLoad, DescIInv, DescFcns, CallsRight
  <2>3. CASE EventSyscall(t)
    BY ZenonT(60), <1>1, <1>2, <2>3 DEF EventSyscall, DescIInv, DescFcns, CallsRight
  <2>4. CASE EventReturn(t)
    BY ZenonT(60), <1>1, <1>2, <2>4 DEF EventReturn, DescIInv, DescFcns, CallsRight
  <2> QED BY ZenonT(60), <2>1, <2>2, <2>3, <2>4
<1>5. \A u \in Callers : tfile'[u] # NoFile /\ u \notin tclosed' => tfile'[u] = dfile'[tdesc'[u]]
  <2>1. ASSUME NEW o \in Descs, EventEnter(t, o)
        PROVE  \A u \in Callers : tfile'[u] # NoFile /\ u \notin tclosed' => tfile'[u] = dfile'[tdesc'[u]]
    BY ZenonT(60), <1>1, <2>1 DEF EventEnter, DescIInv, DescFcns, CallsRight, OwnDescriptor
  <2>2. CASE EventLoad(t)
    BY ZenonT(60), <1>1, <2>2 DEF EventLoad, DescIInv, DescFcns, OwnDescriptor
  <2>3. CASE EventSyscall(t)
    BY SMTT(60), <1>1, <2>3 DEF EventSyscall, DescIInv, DescFcns, CallsRight, OwnDescriptor
  <2>4. CASE EventReturn(t)
    BY ZenonT(60), <1>1, <2>4 DEF EventReturn, DescIInv, DescFcns, OwnDescriptor
  <2> QED BY ZenonT(60), <2>1, <2>2, <2>3, <2>4
<1>6. OwnDescriptor'
  BY ZenonT(60), <1>1, <1>2, <1>5 DEF DescIInv, OwnDescriptor
<1> QED BY ZenonT(60), <1>3, <1>4, <1>6 DEF DescIInv

(* Every step, as far as descriptors are concerned. *)
LEMMA DescStep ==
    ASSUME DescIInv, DescNext \/ UNCHANGED descVars
    PROVE  DescIInv'
<1>1. ASSUME NEW o \in Descs, NEW kind \in {"eventfd", "memfd"}, NewDesc(o, kind) PROVE DescIInv'
  <2>1. PICK k : k = CHOOSE x \in FreeFiles : TRUE
    OBVIOUS
  <2>2. k \in Files /\ MakeDesc(o, kind, k)
    BY ZenonT(60), <1>1, <2>1 DEF NewDesc, FreeFiles
  <2> QED BY <2>2, MakeStep
<1>2. ASSUME NEW o \in Descs, NEW from \in Descs, DupDesc(o, from) PROVE DescIInv'
  <2>1. PICK k, kind : k = dfile[from] /\ kind = dkind[from]
    OBVIOUS
  <2>2. k \in Files /\ kind \in {"eventfd", "memfd"} /\ MakeDesc(o, kind, k)
    BY <1>2, <2>1 DEF DupDesc, DescIInv, DescFcns, OpenHasFile, DescOpen
  <2> QED BY ZenonT(60), <2>2, MakeStep
<1>3. ASSUME NEW o \in Descs, CloseDesc(o) \/ DeallocDesc(o) \/ MemView(o) \/ MemRelease(o)
      PROVE  DescIInv'
  BY <1>3, CloseStep, ViewStep
<1>4. ASSUME NEW t \in Callers,
             (\E o \in Descs : EventEnter(t, o)) \/ EventLoad(t) \/ EventSyscall(t) \/ EventReturn(t)
      PROVE  DescIInv'
  BY ZenonT(60), <1>4, EventSteps
<1>5. CASE UNCHANGED descVars
  BY <1>5 DEF descVars, DescIInv, DescFcns, OpenHasFile, CallsRight, OwnDescriptor, DescOpen
<1> QED BY ZenonT(60), <1>1, <1>2, <1>3, <1>4, <1>5 DEF DescNext

(* The two halves of the module do not touch each other's variables. *)
LEMMA Apart ==
    /\ FutexNext => UNCHANGED descVars
    /\ DescNext => UNCHANGED futexVars
<1>1. FutexNext => UNCHANGED descVars
  BY ZenonT(60) DEF FutexNext, FutexStore, FutexWait, FutexWake, FutexTimedOut, FutexSleep, FutexDeadline,
         FutexWoken, FutexAfterSlice, FutexTold, FutexClose
<1>2. DescNext => UNCHANGED futexVars
  BY DEF DescNext, NewDesc, DupDesc, MakeDesc, CloseDesc, DeallocDesc, MemView, MemRelease,
         EventEnter, EventLoad, EventSyscall, EventReturn
<1> QED BY ZenonT(60), <1>1, <1>2

(* Nobody waits and nothing is open. *)
LEMMA LinuxStart == LinuxInit => FutexIInv /\ DescIInv
<1> SUFFICES ASSUME LinuxInit PROVE FutexIInv /\ DescIInv
  OBVIOUS
<1>1. FutexIInv
  BY DEF LinuxInit, FutexIInv, FutexFcns, FutexWaitIsRight, Asleep
<1>2. DescIInv
  BY LinuxAssumption DEF LinuxInit, DescIInv, DescFcns, OpenHasFile, CallsRight, OwnDescriptor, DescOpen
<1> QED BY <1>1, <1>2

(* Every step. *)
LEMMA LinuxStep ==
    FutexIInv /\ DescIInv /\ [FutexNext \/ DescNext]_linuxVars => FutexIInv' /\ DescIInv'
<1> SUFFICES ASSUME FutexIInv, DescIInv, [FutexNext \/ DescNext]_linuxVars
             PROVE  FutexIInv' /\ DescIInv'
  OBVIOUS
<1>1. FutexNext \/ UNCHANGED futexVars
  BY Apart DEF linuxVars
<1>2. DescNext \/ UNCHANGED descVars
  BY Apart DEF linuxVars
<1> QED BY <1>1, <1>2, FutexStep, DescStep

(* No wake is lost between the comparison and the sleep, in whatever slice *)
(* a wait() is, and False from an interruptible wait() means its deadline. *)
THEOREM FutexRight == LinuxSpec => []FutexWaitIsRight
<1>1. FutexIInv /\ DescIInv => FutexWaitIsRight
  BY DEF FutexIInv
<1> QED BY <1>1, LinuxStart, LinuxStep, PTL DEF LinuxSpec

(* An open EventFD or MemFD owns its descriptor number whatever is opened, *)
(* duplicated, closed or collected around it, and read() and write() reach *)
(* its own file unless the object is closed during the call.               *)
THEOREM DescriptorsOwned == LinuxSpec => []OwnDescriptor
<1>1. FutexIInv /\ DescIInv => OwnDescriptor
  BY DEF DescIInv
<1> QED BY <1>1, LinuxStart, LinuxStep, PTL DEF LinuxSpec

=============================================================================
