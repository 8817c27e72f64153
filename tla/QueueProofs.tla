---------------------------- MODULE QueueProofs ----------------------------
(***************************************************************************)
(* Proofs about Queue for every depth, every set of processes and every    *)
(* pattern of crashes.                                                     *)
(***************************************************************************)
EXTENDS Queue, RingProofs

(* put_lock excludes: the processes inside the critical section are its    *)
(* owner.                                                                  *)
LockInv == \A p \in Procs : pc[p] \in Holding <=> owner = p

(* What a process knows about its own call at each point.                  *)
CallInv ==
    \A p \in Procs :
       /\ op[p] = "put" => item[p] \in Items
       /\ pc[p] \in PutSteps => op[p] = "put"
       /\ pc[p] \in GetSteps => op[p] = "get"
       /\ pc[p] = "slice" => rc[p] = "timedout"
       /\ op[p] = "get" /\ pc[p] \in {"release", "getAdvance", "getCount", "signal"}
             => item[p] \in Items
       /\ op[p] = "get" /\ pc[p] = "unlock" /\ rc[p] = "ok" => item[p] \in Items

(* What the owner knows about the slot it works on, and everybody about    *)
(* the others.                                                             *)
SlotInv ==
    /\ \A i \in Slots : Occupied(i) => payload[i] \in Items
    /\ \A p \in Procs :
          /\ pc[p] \in PutSteps => count < Depth
          /\ pc[p] \in GetSteps => count > 0
          /\ pc[p] \in {"copyBegin", "copyEnd", "publish"} => state[tail] = "RESERVED_PUT"
          /\ pc[p] = "publish" => payload[tail] = item[p]
          /\ pc[p] \in {"copyOut", "release"} => state[head] = "RESERVED_GET"

(* The progress of a recovery.                                             *)
RecoveryInv ==
    /\ RecoverBeforeUse
    /\ \A p \in Procs :
          /\ pc[p] \in RecoverySteps => ownerDead
          /\ pc[p] = "recover" =>
                \A i \in Slots : i < cursor => state[i] \in {"READY", "EMPTY"}

(* The shape of the ring, from what the owner did last.                    *)
At(l) == \E p \in Procs : pc[p] = l

ShapeInv ==
    ~misordered =>
       /\ owner = Nobody /\ ~ownerDead => Settled
       /\ At("check") \/ At("slice") \/ At("unlock") \/ At("broadcast") => Settled
       /\ At("copyBegin") \/ At("copyEnd") \/ At("publish") => PutReserved
       /\ At("putAdvance") => Published
       /\ At("putCount") => TailAdvanced
       /\ At("copyOut") \/ At("release") => GetReserved
       /\ At("getAdvance") => Released
       /\ At("getCount") => HeadAdvanced
       /\ At("recover") \/ (owner = Nobody /\ ownerDead) => Recoverable

IInv == TypeOK /\ LockInv /\ CallInv /\ SlotInv /\ RecoveryInv /\ ShapeInv /\ NoEinval

-----------------------------------------------------------------------------
(* Most steps leave the ring alone.  These are the ones that do not.       *)
LEMMA RingSteps ==
    ASSUME [Next]_vars
    PROVE  \/ UNCHANGED ring
           \/ \E p \in Procs : \/ Recover(p) \/ RecoverDone(p)
                               \/ StartPut(p) \/ StartGet(p)
                               \/ PutStep(p) \/ GetStep(p)
<1>1. ASSUME NEW p \in Procs, Call(p) PROVE UNCHANGED ring
    BY ZenonT(60), <1>1 DEF Call, CallPut, CallGet, CallQsize
<1>2. ASSUME NEW p \in Procs, Lock(p) \/ Relock(p) \/ Broadcast(p) \/ SpuriousWakeup(p)
      PROVE  UNCHANGED ring
    BY ZenonT(60), <1>2 DEF Lock, Relock, Broadcast, SpuriousWakeup
<1>3. ASSUME NEW p \in Procs, FailGet(p) \/ ReadQsize(p) \/ GiveUp(p) \/ StartWait(p)
      PROVE  UNCHANGED ring
    BY ZenonT(60), <1>3 DEF FailGet, ReadQsize, GiveUp, StartWait
<1>4. ASSUME NEW p \in Procs, DeadlinePassed(p) \/ WaitFailed(p) \/ NextSlice(p) \/ CopyOut(p)
      PROVE  UNCHANGED ring
    BY ZenonT(60), <1>4 DEF DeadlinePassed, WaitFailed, NextSlice, CopyOut
<1>5. ASSUME NEW p \in Procs, Unlock(p) \/ Signal(p) \/ Crash(p) PROVE UNCHANGED ring
    BY ZenonT(60), <1>5 DEF Unlock, Signal, Crash
<1> QED
    BY ZenonT(60), <1>1, <1>2, <1>3, <1>4, <1>5, MayCrashAssumption DEF Next, Step, vars
-----------------------------------------------------------------------------
(* Each conjunct of IInv, a group of actions at a time.                    *)

(* While p is in the critical section nobody else is.                      *)
LEMMA OneOwner ==
    ASSUME LockInv, NEW p \in Procs, pc[p] \in Holding
    PROVE  owner = p /\ \A q \in Procs : q # p => pc[q] \notin Holding
BY DEF LockInv

(* put_lock has one owner, and only the owner is in the critical section.  *)
LEMMA LockStep ==
    ASSUME TypeOK, LockInv, [Next]_vars
    PROVE  LockInv'
<1>0. pc \in [Procs -> Labels]
    BY DEF TypeOK
<1> USE <1>0, NobodyAssumption
    DEF LockInv, Goto, Holding, PutSteps, GetSteps, RecoverySteps
<1>1. ASSUME NEW p \in Procs, Call(p) \/ SpuriousWakeup(p) \/ DeadlinePassed(p) PROVE LockInv'
    BY <1>1 DEF Call, CallPut, CallGet, CallQsize, SpuriousWakeup, DeadlinePassed
<1>2. ASSUME NEW p \in Procs, Lock(p) \/ Relock(p) PROVE LockInv'
    BY <1>2 DEF Lock, Relock, TakeLock
<1>3. ASSUME NEW p \in Procs, Recover(p) \/ RecoverDone(p) \/ Broadcast(p) PROVE LockInv'
    BY <1>3 DEF Recover, RecoverDone, Broadcast
<1>4. ASSUME NEW p \in Procs, StartPut(p) \/ StartGet(p) \/ FailGet(p) \/ ReadQsize(p)
      PROVE  LockInv'
    BY <1>4 DEF StartPut, StartGet, FailGet, ReadQsize
<1>5. ASSUME NEW p \in Procs, GiveUp(p) \/ WaitFailed(p) \/ StartWait(p) \/ NextSlice(p)
      PROVE  LockInv'
    BY <1>5 DEF GiveUp, WaitFailed, StartWait, NextSlice
<1>6. ASSUME NEW p \in Procs, PutStep(p) PROVE LockInv'
    BY <1>6 DEF PutStep
<1>7. ASSUME NEW p \in Procs, CopyOut(p) \/ GetStep(p) PROVE LockInv'
    BY <1>7 DEF CopyOut, GetStep
<1>8. ASSUME NEW p \in Procs, Unlock(p) \/ Signal(p) PROVE LockInv'
    BY <1>8 DEF Unlock, Signal, Waiting
<1>9. ASSUME NEW p \in Procs, Crash(p) PROVE LockInv'
    BY <1>9 DEF Crash
<1>10. CASE UNCHANGED vars
    BY <1>10 DEF vars
<1> HIDE <1>0, NobodyAssumption
    DEF LockInv, Goto, Holding, PutSteps, GetSteps, RecoverySteps
<1> QED
    BY ZenonT(60), <1>1, <1>2, <1>3, <1>4, <1>5, <1>6, <1>7, <1>8, <1>9, <1>10,
       MayCrashAssumption DEF Next, Step

(* The control word and the slot headers stay in range.                    *)
LEMMA RingTypeStep ==
    ASSUME TypeOK, SlotInv, [Next]_vars
    PROVE  RingTypeOK'
<1>0. RingTypeOK /\ cursor \in 0 .. Depth /\ item \in [Procs -> Items \cup {Junk}]
    BY DEF TypeOK
<1>1. ASSUME UNCHANGED ring PROVE RingTypeOK'
    BY ZenonT(60), <1>0, <1>1 DEF ring, RingTypeOK
<1>2. ASSUME NEW p \in Procs, Recover(p) PROVE RingTypeOK'
    BY ZenonT(60), <1>0, <1>2
       DEF Recover, RecoverSlot, SetState, RecoveredState, RingTypeOK, Slots, SlotStates
<1>3. ASSUME NEW p \in Procs, RecoverDone(p) PROVE RingTypeOK'
    BY <1>0, <1>3, RecoverCtrlType DEF RecoverDone
<1>4. ASSUME NEW p \in Procs, StartPut(p) \/ StartGet(p) PROVE RingTypeOK'
    BY <1>0, <1>4 DEF StartPut, StartGet, PutReserve, GetReserve, SetState, SlotStates, RingTypeOK
<1>5. ASSUME NEW p \in Procs, PutStep(p) PROVE RingTypeOK'
    <2>1. CASE PutCopyBegin \/ PutCopyEnd(item[p]) \/ PutPublish
        BY <1>0, <2>1 DEF PutCopyBegin, PutCopyEnd, PutPublish, SetState, SlotStates, RingTypeOK
    <2>2. CASE PutAdvance
        BY <1>0, <2>2, NextSlotIsPlus DEF PutAdvance, RingTypeOK
    <2>3. CASE pc[p] = "putCount" /\ PutCount
        BY <1>0, <2>3, DepthAssumption DEF PutCount, RingTypeOK, SlotInv, PutSteps
    <2> QED BY ZenonT(60), <1>5, <2>1, <2>2, <2>3 DEF PutStep
<1>6. ASSUME NEW p \in Procs, GetStep(p) PROVE RingTypeOK'
    <2>1. CASE GetRelease
        BY <1>0, <2>1 DEF GetRelease, SetState, SlotStates, RingTypeOK
    <2>2. CASE GetAdvance
        BY ZenonT(60), <1>0, <2>2, NextSlotIsPlus DEF GetAdvance, RingTypeOK
    <2>3. CASE pc[p] = "getCount" /\ GetCount
        BY <1>0, <2>3, DepthAssumption DEF GetCount, RingTypeOK, SlotInv, GetSteps
    <2> QED BY ZenonT(60), <1>6, <2>1, <2>2, <2>3 DEF GetStep
<1> QED
    BY ZenonT(60), <1>1, <1>2, <1>3, <1>4, <1>5, <1>6, RingSteps

(* Type correctness.                                                       *)
LEMMA TypeStep ==
    ASSUME TypeOK, SlotInv, [Next]_vars
    PROVE  TypeOK'
<1>0. RingTypeOK' /\ DOMAIN payload = Slots /\ head \in Slots
    BY RingTypeStep DEF TypeOK, RingTypeOK
<1>a. payload \in [Slots -> Items \cup {Junk}]
    BY DEF TypeOK, RingTypeOK
<1> USE <1>0 DEF TypeOK, Goto, locals, history
<1>1. ASSUME NEW p \in Procs, Call(p) PROVE TypeOK'
    BY <1>1, ModesAssumption DEF Call, CallPut, CallGet, CallQsize, Labels, Ops
<1>2. ASSUME NEW p \in Procs, Lock(p) \/ Relock(p) PROVE TypeOK'
    BY <1>2, DepthAssumption DEF Lock, Relock, TakeLock, Labels, Holding, RecoverySteps
<1>3. ASSUME NEW p \in Procs, Recover(p) PROVE TypeOK'
    BY <1>3, DepthAssumption DEF Recover
<1>b. ASSUME NEW p \in Procs, RecoverDone(p) PROVE TypeOK'
    BY ZenonT(60), <1>b DEF RecoverDone, Labels, Holding, RecoverySteps
<1>4. ASSUME NEW p \in Procs, Broadcast(p) PROVE TypeOK'
    BY ZenonT(60), <1>4 DEF Broadcast, Labels, Holding
<1>5. ASSUME NEW p \in Procs, StartPut(p) \/ StartGet(p) \/ FailGet(p) \/ ReadQsize(p)
      PROVE  TypeOK'
    BY ZenonT(60), <1>5 DEF StartPut, StartGet, FailGet, ReadQsize, Labels, Holding, PutSteps, GetSteps
<1>6. ASSUME NEW p \in Procs, GiveUp(p) \/ StartWait(p) \/ SpuriousWakeup(p) \/ DeadlinePassed(p)
      PROVE  TypeOK'
    BY <1>6 DEF GiveUp, StartWait, SpuriousWakeup, DeadlinePassed, Labels, Holding
<1>7. ASSUME NEW p \in Procs, WaitFailed(p) \/ NextSlice(p) PROVE TypeOK'
    BY ZenonT(60), <1>7 DEF WaitFailed, NextSlice, Labels, Holding
<1>8. ASSUME NEW p \in Procs, PutStep(p) PROVE TypeOK'
    BY <1>8 DEF PutStep, Labels, Holding, PutSteps
<1>9. ASSUME NEW p \in Procs, CopyOut(p) \/ GetStep(p) PROVE TypeOK'
    BY ZenonT(60), <1>9, <1>a DEF CopyOut, GetStep, Labels, Holding, GetSteps
<1>10. ASSUME NEW p \in Procs, Unlock(p) \/ Signal(p) PROVE TypeOK'
    BY <1>10 DEF Unlock, Signal, Forget, Waiting, Labels, Ops, AllModes
<1>11. ASSUME NEW p \in Procs, Crash(p) PROVE TypeOK'
    BY ZenonT(60), <1>11 DEF Crash, Forget, Labels, Ops, AllModes
<1>12. CASE UNCHANGED vars
    BY ZenonT(60), <1>12 DEF vars
<1> HIDE <1>0 DEF TypeOK, Goto, locals, history
<1> QED
    BY ZenonT(60), <1>1, <1>2, <1>3, <1>4, <1>5, <1>6, <1>7, <1>8, <1>9, <1>10, <1>11, <1>12,
       <1>b, MayCrashAssumption DEF Next, Step

(* A put works on the caller's item, a get returns with one it copied out  *)
(* of an occupied slot.                                                    *)
LEMMA CallStep ==
    ASSUME TypeOK, CallInv, SlotInv, [Next]_vars
    PROVE  CallInv'
<1>0. /\ pc \in [Procs -> Labels]
      /\ op \in [Procs -> Ops]
      /\ DOMAIN item = Procs
      /\ rc \in [Procs -> {"ok", "timedout", "interrupted", "einval"}]
    BY DEF TypeOK
<1>a. ASSUME NEW p \in Procs, pc[p] = "copyOut" PROVE payload[head] \in Items
    BY ZenonT(60), <1>a DEF TypeOK, RingTypeOK, SlotInv, Occupied
<1> USE <1>0 DEF CallInv, Goto, locals, PutSteps, GetSteps
<1>1. ASSUME NEW p \in Procs, Call(p) PROVE CallInv'
    BY <1>1 DEF Call, CallPut, CallGet, CallQsize
<1>2. ASSUME NEW p \in Procs, Lock(p) \/ Relock(p) PROVE CallInv'
    BY <1>2 DEF Lock, Relock, TakeLock
<1>3. ASSUME NEW p \in Procs, Recover(p) \/ RecoverDone(p) \/ Broadcast(p) PROVE CallInv'
    BY <1>3 DEF Recover, RecoverDone, Broadcast
<1>4. ASSUME NEW p \in Procs, StartPut(p) \/ StartGet(p) \/ FailGet(p) \/ ReadQsize(p)
      PROVE  CallInv'
    BY <1>4 DEF StartPut, StartGet, FailGet, ReadQsize
<1>5. ASSUME NEW p \in Procs, GiveUp(p) \/ StartWait(p) \/ SpuriousWakeup(p) \/ DeadlinePassed(p)
      PROVE  CallInv'
    BY <1>5 DEF GiveUp, StartWait, SpuriousWakeup, DeadlinePassed
<1>6. ASSUME NEW p \in Procs, WaitFailed(p) \/ NextSlice(p) PROVE CallInv'
    BY <1>6 DEF WaitFailed, NextSlice
<1>7. ASSUME NEW p \in Procs, PutStep(p) PROVE CallInv'
    BY <1>7 DEF PutStep
<1>8. ASSUME NEW p \in Procs, CopyOut(p) \/ GetStep(p) PROVE CallInv'
    BY <1>8, <1>a DEF CopyOut, GetStep
<1>9. ASSUME NEW p \in Procs, Unlock(p) \/ Signal(p) PROVE CallInv'
    BY <1>9 DEF Unlock, Signal, Forget, Waiting
<1>10. ASSUME NEW p \in Procs, Crash(p) PROVE CallInv'
    BY <1>10 DEF Crash, Forget
<1>11. CASE UNCHANGED vars
    BY <1>11 DEF vars
<1> HIDE <1>0 DEF CallInv, Goto, locals, PutSteps, GetSteps
<1> QED
    BY ZenonT(60), <1>1, <1>2, <1>3, <1>4, <1>5, <1>6, <1>7, <1>8, <1>9, <1>10, <1>11,
       MayCrashAssumption DEF Next, Step

(* No occupied slot ever holds a torn payload: the copy happens behind a   *)
(* RESERVED_PUT header, and the header becomes READY after it.             *)
LEMMA SlotStep ==
    ASSUME TypeOK, LockInv, CallInv, SlotInv, [Next]_vars
    PROVE  SlotInv'
<1>0. RingTypeOK /\ pc \in [Procs -> Labels] /\ DOMAIN item = Procs
    BY DEF TypeOK
<1>a. ASSUME NEW p \in Procs, pc[p] \in Holding
      PROVE  \A q \in Procs : q # p => pc[q] \notin Holding
    BY ZenonT(60), <1>a, OneOwner
<1> USE <1>0 DEF SlotInv, Occupied, Goto, PutSteps, GetSteps
<1>1. ASSUME NEW p \in Procs, Call(p) PROVE SlotInv'
    BY <1>1 DEF Call, CallPut, CallGet, CallQsize, ring
<1>2. ASSUME NEW p \in Procs, Lock(p) \/ Relock(p) \/ Broadcast(p) PROVE SlotInv'
    BY <1>2 DEF Lock, Relock, TakeLock, Broadcast, ring, locals
<1>3. ASSUME NEW p \in Procs, FailGet(p) \/ ReadQsize(p) \/ GiveUp(p) \/ StartWait(p)
      PROVE  SlotInv'
    BY ZenonT(60), <1>3 DEF FailGet, ReadQsize, GiveUp, StartWait, ring, locals
<1>4. ASSUME NEW p \in Procs,
             SpuriousWakeup(p) \/ DeadlinePassed(p) \/ WaitFailed(p) \/ NextSlice(p)
      PROVE  SlotInv'
    BY ZenonT(60), <1>4 DEF SpuriousWakeup, DeadlinePassed, WaitFailed, NextSlice, ring, locals
<1>5. ASSUME NEW p \in Procs, CopyOut(p) \/ Unlock(p) \/ Signal(p) \/ Crash(p) PROVE SlotInv'
    BY <1>5 DEF CopyOut, Unlock, Signal, Waiting, Crash, Forget, ring, locals
<1>6. CASE UNCHANGED vars
    BY ZenonT(60), <1>6 DEF vars, ring, locals
<1> USE DEF Holding, RecoverySteps, RingTypeOK
<1>7. ASSUME NEW p \in Procs, Recover(p) PROVE SlotInv'
    BY ZenonT(60), <1>7, <1>a DEF Recover, RecoverSlot, SetState, RecoveredState
<1>8. ASSUME NEW p \in Procs, RecoverDone(p) PROVE SlotInv'
    BY ZenonT(60), <1>8, <1>a DEF RecoverDone, RecoverCtrl
<1>9. ASSUME NEW p \in Procs, StartPut(p) \/ StartGet(p) PROVE SlotInv'
    BY <1>9, <1>a DEF StartPut, StartGet, PutReserve, GetReserve, SetState
<1>10. ASSUME NEW p \in Procs, PutStep(p) PROVE SlotInv'
    <2>1. pc[p] \in Holding
        BY ZenonT(60), <1>10 DEF PutStep
    <2>2. CASE pc[p] = "copyBegin" /\ PutCopyBegin /\ Goto(p, "copyEnd")
        BY ZenonT(60), <2>1, <1>a, <2>2 DEF PutCopyBegin
    <2>3. CASE pc[p] = "copyEnd" /\ PutCopyEnd(item[p]) /\ Goto(p, "publish")
        BY ZenonT(60), <1>10, <2>1, <1>a, <2>3 DEF PutStep, PutCopyEnd, locals
    <2>4. CASE pc[p] = "publish" /\ PutPublish /\ Goto(p, "putAdvance")
        BY ZenonT(60), <2>1, <1>a, <2>4 DEF PutPublish, SetState, CallInv
    <2>5. CASE pc[p] = "putAdvance" /\ PutAdvance /\ Goto(p, "putCount")
        BY ZenonT(60), <2>1, <1>a, <2>5 DEF PutAdvance
    <2>6. CASE pc[p] = "putCount" /\ PutCount /\ Goto(p, "unlock")
        BY ZenonT(60), <2>1, <1>a, <2>6 DEF PutCount
    <2> HIDE <1>0 DEF SlotInv, Occupied, Goto, PutSteps, GetSteps, Holding, RecoverySteps, RingTypeOK
    <2> QED BY ZenonT(60), <1>10, <2>2, <2>3, <2>4, <2>5, <2>6 DEF PutStep
<1>11. ASSUME NEW p \in Procs, GetStep(p) PROVE SlotInv'
    <2>1. pc[p] \in Holding
        BY ZenonT(60), <1>11 DEF GetStep
    <2>2. CASE pc[p] = "release" /\ GetRelease /\ Goto(p, "getAdvance")
        BY ZenonT(60), <2>1, <1>a, <2>2 DEF GetRelease, SetState
    <2>3. CASE pc[p] = "getAdvance" /\ GetAdvance /\ Goto(p, "getCount")
        BY ZenonT(60), <2>1, <1>a, <2>3 DEF GetAdvance
    <2>4. CASE pc[p] = "getCount" /\ GetCount /\ Goto(p, "unlock")
        BY ZenonT(60), <2>1, <1>a, <2>4 DEF GetCount
    <2> HIDE <1>0 DEF SlotInv, Occupied, Goto, PutSteps, GetSteps, Holding, RecoverySteps, RingTypeOK
    <2> QED BY ZenonT(60), <1>11, <2>2, <2>3, <2>4 DEF GetStep
<1> HIDE <1>0 DEF SlotInv, Occupied, Goto, PutSteps, GetSteps, Holding, RecoverySteps, RingTypeOK
<1> QED
    BY ZenonT(60), <1>1, <1>2, <1>3, <1>4, <1>5, <1>6, <1>7, <1>8, <1>9, <1>10, <1>11,
       MayCrashAssumption DEF Next, Step

(* Only the recovering process runs while the mutex is marked, and the     *)
(* headers it has passed are clean.                                        *)
LEMMA RecoveryStep ==
    ASSUME TypeOK, LockInv, RecoveryInv, [Next]_vars
    PROVE  RecoveryInv'
<1>0. RingTypeOK /\ pc \in [Procs -> Labels] /\ owner \in Procs \cup {Nobody} /\ cursor \in 0 .. Depth
    BY DEF TypeOK
<1>a. ASSUME NEW p \in Procs, pc[p] \in Holding
      PROVE  owner = p /\ \A q \in Procs : q # p => pc[q] \notin Holding
    BY ZenonT(60), <1>a, OneOwner
<1> USE <1>0, NobodyAssumption
    DEF RecoveryInv, RecoverBeforeUse, Goto, Holding, PutSteps, GetSteps, RecoverySteps
<1>1. ASSUME NEW p \in Procs, Call(p) \/ SpuriousWakeup(p) \/ DeadlinePassed(p) \/ Signal(p)
      PROVE  RecoveryInv'
    BY <1>1, <1>a
       DEF Call, CallPut, CallGet, CallQsize, SpuriousWakeup, DeadlinePassed, Signal, Waiting, ring
<1>2. ASSUME NEW p \in Procs, Lock(p) \/ Relock(p) PROVE RecoveryInv'
    BY <1>2, <1>a, DepthAssumption DEF Lock, Relock, TakeLock, Slots, ring, LockInv
<1>3. ASSUME NEW p \in Procs, RecoverDone(p) \/ Broadcast(p) PROVE RecoveryInv'
    BY <1>3, <1>a DEF RecoverDone, Broadcast
<1>4. ASSUME NEW p \in Procs, StartPut(p) \/ StartGet(p) \/ FailGet(p) \/ ReadQsize(p)
      PROVE  RecoveryInv'
    BY <1>4, <1>a DEF StartPut, StartGet, FailGet, ReadQsize
<1>5. ASSUME NEW p \in Procs, GiveUp(p) \/ StartWait(p) \/ WaitFailed(p) \/ NextSlice(p)
      PROVE  RecoveryInv'
    BY <1>5, <1>a DEF GiveUp, StartWait, WaitFailed, NextSlice
<1>6. ASSUME NEW p \in Procs, PutStep(p) PROVE RecoveryInv'
    BY ZenonT(60), <1>6, <1>a DEF PutStep
<1>7. ASSUME NEW p \in Procs, CopyOut(p) \/ GetStep(p) PROVE RecoveryInv'
    BY <1>7, <1>a DEF CopyOut, GetStep
<1>8. ASSUME NEW p \in Procs, Unlock(p) PROVE RecoveryInv'
    BY ZenonT(60), <1>8, <1>a DEF Unlock
<1>9. ASSUME NEW p \in Procs, Crash(p) PROVE RecoveryInv'
    BY ZenonT(60), <1>9, <1>a DEF Crash, ring, LockInv
<1>10. CASE UNCHANGED vars
    BY <1>10 DEF vars, ring
<1>11. ASSUME NEW p \in Procs, Recover(p) PROVE RecoveryInv'
    <2>1. ASSUME NEW i \in Slots, i < cursor' PROVE state'[i] \in {"READY", "EMPTY"}
        BY <1>11, <2>1 DEF Recover, RecoverSlot, SetState, RecoveredState, RingTypeOK, Slots
    <2> QED BY ZenonT(60), <1>11, <1>a, <2>1 DEF Recover
<1> HIDE <1>0, NobodyAssumption
    DEF RecoveryInv, RecoverBeforeUse, Goto, Holding, PutSteps, GetSteps, RecoverySteps
<1> QED
    BY ZenonT(60), <1>1, <1>2, <1>3, <1>4, <1>5, <1>6, <1>7, <1>8, <1>9, <1>10, <1>11,
       MayCrashAssumption DEF Next, Step

(* get finds the head slot READY whenever count is positive.               *)
LEMMA EinvalStep ==
    ASSUME TypeOK, ShapeInv, NoEinval, [Next]_vars
    PROVE  NoEinval'
<1>0. DOMAIN rc = Procs
    BY ZenonT(60) DEF TypeOK
<1>a. ASSUME NEW p \in Procs, FailGet(p) PROVE misordered
    <2>1. RingTypeOK
        BY ZenonT(60) DEF TypeOK
    <2> QED BY <1>a, <2>1, SettledGetFindsItem DEF FailGet, ShapeInv, At
<1> USE <1>0 DEF NoEinval, locals, history
<1>1. ASSUME NEW p \in Procs, Call(p) \/ Lock(p) \/ Relock(p) PROVE NoEinval'
    BY <1>1 DEF Call, CallPut, CallGet, CallQsize, Lock, Relock
<1>2. ASSUME NEW p \in Procs, Recover(p) \/ RecoverDone(p) \/ Broadcast(p) PROVE NoEinval'
    BY ZenonT(60), <1>2 DEF Recover, RecoverDone, Broadcast
<1>3. ASSUME NEW p \in Procs, StartPut(p) \/ StartGet(p) \/ ReadQsize(p) PROVE NoEinval'
    BY <1>3 DEF StartPut, StartGet, ReadQsize
<1>4. ASSUME NEW p \in Procs, FailGet(p) PROVE NoEinval'
    BY ZenonT(60), <1>4, <1>a DEF FailGet
<1>5. ASSUME NEW p \in Procs, GiveUp(p) \/ StartWait(p) \/ SpuriousWakeup(p) \/ DeadlinePassed(p)
      PROVE  NoEinval'
    BY ZenonT(60), <1>5 DEF GiveUp, StartWait, SpuriousWakeup, DeadlinePassed
<1>6. ASSUME NEW p \in Procs, WaitFailed(p) \/ NextSlice(p) PROVE NoEinval'
    BY ZenonT(60), <1>6 DEF WaitFailed, NextSlice
<1>7. ASSUME NEW p \in Procs, PutStep(p) \/ CopyOut(p) \/ GetStep(p) PROVE NoEinval'
    BY ZenonT(60), <1>7 DEF PutStep, CopyOut, GetStep
<1>8. ASSUME NEW p \in Procs, Unlock(p) \/ Signal(p) \/ Crash(p) PROVE NoEinval'
    BY <1>8 DEF Unlock, Signal, Crash, Forget
<1>9. CASE UNCHANGED vars
    BY ZenonT(60), <1>9 DEF vars
<1> HIDE <1>0 DEF NoEinval, locals, history
<1> QED
    BY ZenonT(60), <1>1, <1>2, <1>3, <1>4, <1>5, <1>6, <1>7, <1>8, <1>9,
       MayCrashAssumption DEF Next, Step

(* A step outside the critical section leaves the shape of the ring alone. *)
LEMMA ShapeKept ==
    ASSUME ShapeInv, UNCHANGED <<head, tail, count, state>>,
           UNCHANGED <<owner, ownerDead, misordered>>,
           \A q \in Procs : pc'[q] \in Holding => pc'[q] = pc[q]
    PROVE  ShapeInv'
BY SameShape DEF ShapeInv, At, Holding, PutSteps, GetSteps, RecoverySteps

(* Every store leads from the shape the owner left to the next one, a      *)
(* crash to a recoverable ring, and a recovery back to rest.               *)
LEMMA ShapeStep ==
    ASSUME TypeOK, LockInv, RecoveryInv, ShapeInv, [Next]_vars
    PROVE  ShapeInv'
<1>0. pc \in [Procs -> Labels] /\ RingTypeOK
    BY DEF TypeOK
<1>a. ASSUME NEW p \in Procs, pc[p] \in Holding
      PROVE  owner = p /\ \A q \in Procs : q # p => pc[q] \notin Holding
    BY <1>a, OneOwner
<1>b. ASSUME UNCHANGED ring PROVE UNCHANGED <<head, tail, count, state>>
    BY ZenonT(60), <1>b DEF ring
<1>c. ASSUME NEW p \in Procs, pc[p] \in Holding \ RecoverySteps PROVE ~ownerDead
    BY ZenonT(60), <1>c, OneOwner, NobodyAssumption DEF RecoveryInv, RecoverBeforeUse, Holding
<1> USE <1>0, NobodyAssumption
    DEF ShapeInv, At, Goto, history, Holding, PutSteps, GetSteps, RecoverySteps
<1>1. ASSUME NEW p \in Procs, Call(p) \/ SpuriousWakeup(p) \/ DeadlinePassed(p) \/ Signal(p)
      PROVE  ShapeInv'
    <2> HIDE DEF ShapeInv, At
    <2>1. /\ UNCHANGED <<ring, owner, ownerDead, misordered>>
          /\ \A q \in Procs : pc'[q] \in Holding => pc'[q] = pc[q]
        BY ZenonT(60), <1>1
           DEF Call, CallPut, CallGet, CallQsize, SpuriousWakeup, DeadlinePassed, Signal, Waiting
    <2> QED BY ZenonT(60), <1>b, <2>1, ShapeKept
<1>2. ASSUME NEW p \in Procs, Lock(p) \/ Relock(p) PROVE ShapeInv'
    BY ZenonT(60), <1>2, <1>b, SameShape DEF Lock, Relock, TakeLock
<1>3. ASSUME NEW p \in Procs, Broadcast(p) PROVE ShapeInv'
    BY ZenonT(60), <1>3, <1>a, <1>b, SameShape DEF Broadcast
<1>4. ASSUME NEW p \in Procs, FailGet(p) \/ ReadQsize(p) \/ GiveUp(p) \/ WaitFailed(p)
      PROVE  ShapeInv'
    BY ZenonT(60), <1>4, <1>a, <1>b, SameShape DEF FailGet, ReadQsize, GiveUp, WaitFailed
<1>5. ASSUME NEW p \in Procs, StartWait(p) \/ NextSlice(p) \/ Unlock(p) PROVE ShapeInv'
    BY ZenonT(60), <1>5, <1>a, <1>b, <1>c, SameShape DEF StartWait, NextSlice, Unlock
<1>6. ASSUME NEW p \in Procs, CopyOut(p) PROVE ShapeInv'
    BY ZenonT(60), <1>6, <1>a, <1>b, SameShape DEF CopyOut
<1>7. CASE UNCHANGED vars
    BY ZenonT(60), <1>7, <1>b, SameShape DEF vars
<1>8. ASSUME NEW p \in Procs, Recover(p) PROVE ShapeInv'
    <2>1. cursor \in Slots
        BY <1>8, DepthAssumption DEF Recover, TypeOK, Slots
    <2>2. ~misordered => Recoverable'
        BY ZenonT(60), <1>8, <2>1, RecoverSlotShape DEF Recover
    <2> QED
        BY ZenonT(60), <1>8, <1>a, <2>2 DEF Recover
<1>9. ASSUME NEW p \in Procs, RecoverDone(p) PROVE ShapeInv'
    <2>1. \A i \in Slots : state[i] \in {"READY", "EMPTY"}
        BY <1>9, DepthAssumption DEF RecoverDone, RecoveryInv, Slots
    <2>2. ~misordered' => Settled'
        BY ZenonT(60), <1>9, <2>1, RecoverCtrlShape DEF RecoverDone
    <2> QED
        BY ZenonT(60), <1>9, <1>a, <2>2 DEF RecoverDone
<1>10. ASSUME NEW p \in Procs, StartPut(p) PROVE ShapeInv'
    <2>1. ~misordered => PutReserved'
        BY ZenonT(60), <1>10, PutReserveShape DEF StartPut
    <2> QED
        BY ZenonT(60), <1>10, <1>a, <2>1 DEF StartPut
<1>11. ASSUME NEW p \in Procs, StartGet(p) PROVE ShapeInv'
    <2>1. ~misordered => GetReserved'
        BY ZenonT(60), <1>11, GetReserveShape DEF StartGet
    <2> QED
        BY <1>11, <1>a, <2>1 DEF StartGet
<1>12. ASSUME NEW p \in Procs, PutStep(p) PROVE ShapeInv'
    <2>0. /\ owner = p /\ \A q \in Procs : q # p => pc[q] \notin Holding
          /\ UNCHANGED <<owner, misordered>>
        BY ZenonT(60), <1>12, <1>a DEF PutStep
    <2>1. CASE pc[p] = "copyBegin" /\ PutCopyBegin /\ Goto(p, "copyEnd")
        <3>1. ~misordered => PutReserved'
            BY ZenonT(60), <2>1, SameShape DEF PutCopyBegin
        <3> QED BY ZenonT(60), <2>0, <2>1, <3>1
    <2>2. CASE pc[p] = "copyEnd" /\ PutCopyEnd(item[p]) /\ Goto(p, "publish")
        <3>1. ~misordered => PutReserved'
            BY ZenonT(60), <2>2, SameShape DEF PutCopyEnd
        <3> QED BY ZenonT(60), <2>0, <2>2, <3>1
    <2>3. CASE pc[p] = "publish" /\ PutPublish /\ Goto(p, "putAdvance")
        <3>1. ~misordered => Published'
            BY ZenonT(60), <2>3, PutPublishShape
        <3> QED BY ZenonT(60), <2>0, <2>3, <3>1
    <2>4. CASE pc[p] = "putAdvance" /\ PutAdvance /\ Goto(p, "putCount")
        <3>1. ~misordered => TailAdvanced'
            BY ZenonT(60), <2>4, PutAdvanceShape
        <3> QED BY ZenonT(60), <2>0, <2>4, <3>1
    <2>5. CASE pc[p] = "putCount" /\ PutCount /\ Goto(p, "unlock")
        <3>1. ~misordered => Settled'
            BY ZenonT(60), <2>5, PutCountShape
        <3> QED BY ZenonT(60), <2>0, <2>5, <3>1
    <2> HIDE <1>0, NobodyAssumption
        DEF ShapeInv, At, Goto, history, Holding, PutSteps, GetSteps, RecoverySteps
    <2> QED BY ZenonT(60), <1>12, <2>1, <2>2, <2>3, <2>4, <2>5 DEF PutStep
<1>13. ASSUME NEW p \in Procs, GetStep(p) PROVE ShapeInv'
    <2>0. /\ owner = p /\ \A q \in Procs : q # p => pc[q] \notin Holding
          /\ UNCHANGED <<owner, misordered>>
        BY ZenonT(60), <1>13, <1>a DEF GetStep
    <2>1. CASE pc[p] = "release" /\ GetRelease /\ Goto(p, "getAdvance")
        <3>1. ~misordered => Released'
            BY ZenonT(60), <2>1, GetReleaseShape
        <3> QED BY ZenonT(60), <2>0, <2>1, <3>1
    <2>2. CASE pc[p] = "getAdvance" /\ GetAdvance /\ Goto(p, "getCount")
        <3>1. ~misordered => HeadAdvanced'
            BY ZenonT(60), <2>2, GetAdvanceShape
        <3> QED BY ZenonT(60), <2>0, <2>2, <3>1
    <2>3. CASE pc[p] = "getCount" /\ GetCount /\ Goto(p, "unlock")
        <3>1. ~misordered => Settled'
            BY ZenonT(60), <2>3, GetCountShape
        <3> QED BY <2>0, <2>3, <3>1
    <2> HIDE <1>0, NobodyAssumption
        DEF ShapeInv, At, Goto, history, Holding, PutSteps, GetSteps, RecoverySteps
    <2> QED BY ZenonT(60), <1>13, <2>1, <2>2, <2>3 DEF GetStep
<1>14. ASSUME NEW p \in Procs, Crash(p) PROVE ShapeInv'
    <2>1. UNCHANGED <<head, tail, count, state>>
        BY ZenonT(60), <1>14, <1>b DEF Crash
    <2>2. CASE owner = p
        <3>1. pc[p] \in Holding
            BY ZenonT(60), <2>2 DEF LockInv
        <3>2. ~misordered => Recoverable
            BY ZenonT(60), <3>1, PutCrashShape, GetCrashShape
        <3>3. \A q \in Procs : pc'[q] \notin Holding
            BY ZenonT(60), <1>14, <1>a, <3>1 DEF Crash
        <3>4. owner' = Nobody /\ ownerDead' /\ misordered' = misordered
            BY ZenonT(60), <1>14, <2>2 DEF Crash
        <3>5. ~misordered' => Recoverable'
            BY ZenonT(60), <2>1, <3>2, <3>4, SameShape
        <3> QED BY ZenonT(60), <3>3, <3>4, <3>5
    <2>3. CASE owner # p
        <3> HIDE DEF ShapeInv, At
        <3>1. UNCHANGED <<owner, ownerDead, misordered>>
            BY ZenonT(60), <1>14, <2>3 DEF Crash
        <3>2. \A q \in Procs : pc'[q] \in Holding => pc'[q] = pc[q]
            BY <1>14 DEF Crash
        <3> QED BY ZenonT(60), <2>1, <3>1, <3>2, ShapeKept
    <2> QED BY ZenonT(60), <2>2, <2>3
<1> HIDE <1>0, NobodyAssumption
    DEF ShapeInv, At, Goto, history, Holding, PutSteps, GetSteps, RecoverySteps
<1> QED
    BY ZenonT(60), <1>1, <1>2, <1>3, <1>4, <1>5, <1>6, <1>7, <1>8, <1>9, <1>10, <1>11, <1>12,
       <1>13, <1>14, MayCrashAssumption DEF Next, Step

-----------------------------------------------------------------------------
(* The invariant holds initially.                                          *)
LEMMA InitIInv == Init => IInv
<1> SUFFICES ASSUME Init PROVE IInv
    OBVIOUS
<1> USE DEF Init, RingInit
<1>1. TypeOK
    <2>1. RingTypeOK
        BY DepthAssumption DEF RingTypeOK, Slots, SlotStates
    <2>2. cursor \in 0 .. Depth
        BY DepthAssumption
    <2>3. /\ pc \in [Procs -> Labels]
          /\ op \in [Procs -> Ops]
          /\ mode \in [Procs -> AllModes]
          /\ item \in [Procs -> Items \cup {Junk}]
          /\ rc \in [Procs -> {"ok", "timedout", "interrupted", "einval"}]
        BY DEF Ops, AllModes, Labels
    <2> QED BY <2>1, <2>2, <2>3, Zenon DEF TypeOK
<1>2. LockInv /\ CallInv /\ RecoveryInv /\ NoEinval
    BY NobodyAssumption
       DEF LockInv, CallInv, RecoveryInv, RecoverBeforeUse, NoEinval, Holding, PutSteps, GetSteps,
           RecoverySteps
<1>3. SlotInv
    BY DEF SlotInv, Occupied, PutSteps, GetSteps
<1>4. ShapeInv
    <2>1. Settled
        BY DepthAssumption DEF Settled, RunReady, Plus, InRun, Slots
    <2> QED BY <2>1 DEF ShapeInv, At
<1> QED BY ZenonT(60), <1>1, <1>2, <1>3, <1>4 DEF IInv

(* The invariant is inductive.                                             *)
LEMMA NextIInv == IInv /\ [Next]_vars => IInv'
<1> SUFFICES ASSUME IInv, [Next]_vars PROVE IInv'
    OBVIOUS
<1>0. TypeOK /\ LockInv /\ CallInv /\ SlotInv /\ RecoveryInv /\ ShapeInv /\ NoEinval
    BY DEF IInv
<1>1. TypeOK' BY <1>0, TypeStep
<1>2. LockInv' BY <1>0, LockStep
<1>3. CallInv' BY <1>0, CallStep
<1>4. SlotInv' BY <1>0, SlotStep
<1>5. RecoveryInv' BY <1>0, RecoveryStep
<1>6. ShapeInv' BY <1>0, ShapeStep
<1>7. NoEinval' BY <1>0, EinvalStep
<1> QED BY ZenonT(60), <1>1, <1>2, <1>3, <1>4, <1>5, <1>6, <1>7 DEF IInv

(* IInv holds in every reachable state of posixipc.Queue.                  *)
THEOREM QueueInvariant == Spec => []IInv
BY InitIInv, NextIInv, PTL DEF Spec

(* Type correctness: in particular head, tail and count of the shared ring *)
(* stay in bounds, whatever crashes.                                       *)
THEOREM QueueTypeOK == Spec => []TypeOK
<1>1. IInv => TypeOK
    BY DEF IInv
<1> QED BY <1>1, QueueInvariant, PTL

(* No item that a get can reach is torn, for any crash of any putter,      *)
(* getter or recovering process.                                           *)
THEOREM QueueNoTornItem == Spec => []NoTornItem
<1>1. IInv => NoTornItem
    BY DEF IInv, NoTornItem, SlotInv, CallInv
<1> QED BY <1>1, QueueInvariant, PTL

(* After an owner died nobody works on the ring or unlocks the mutex       *)
(* before posixipc_queue_recover has run: the mutex is never poisoned.     *)
THEOREM QueueRecoverBeforeUse == Spec => []RecoverBeforeUse
<1>1. IInv => RecoverBeforeUse
    BY DEF IInv, RecoveryInv
<1> QED BY <1>1, QueueInvariant, PTL

(* The ring is back in its resting shape whenever put_lock is free, unless *)
(* a recovery met wrapped contents.                                        *)
THEOREM QueueRingIntact == Spec => []RingIntact
<1>1. IInv => RingIntact
    BY DEF IInv, ShapeInv, RingIntact
<1> QED BY <1>1, QueueInvariant, PTL

(* get never answers EINVAL, unless a recovery met wrapped contents.       *)
THEOREM QueueNoEinval == Spec => []NoEinval
<1>1. IInv => NoEinval
    BY DEF IInv
<1> QED BY <1>1, QueueInvariant, PTL

-----------------------------------------------------------------------------
(* No lost wakeup. *)

(* Where a process is in its call, and the outcome so far.                 *)
OutcomeInv ==
    \A p \in Procs :
       /\ pc[p] \in {"idle", "lock", "check", "wait", "signal"} \cup PutSteps \cup GetSteps => rc[p] = "ok"
       /\ pc[p] = "relock" => rc[p] \in {"ok", "timedout"}
       /\ pc[p] \in {"wait", "relock", "slice", "signal"} => op[p] \in {"put", "get"}

(* How often operation o can succeed as count stands.                      *)
Room(o) == IF o = "put" THEN Depth - count ELSE count

(* The processes that stand for a success of operation o that its waiters  *)
(* need not be told of, or will be: they are about to look at count for o  *)
(* or working on it, or have changed it and will signal o's condition.     *)
Active(o) ==
    {p \in Procs :
       \/ op[p] = Opposite(o) /\ (pc[p] = "signal" \/ (pc[p] = "unlock" /\ rc[p] = "ok"))
       \/ op[p] = o /\ (pc[p] \in {"check"} \cup PutSteps \cup GetSteps
                        \/ (pc[p] = "relock" /\ rc[p] = "ok"))}

(* While somebody waits for operation o there are as many of them as o     *)
(* could succeed.  (That there is one would not be inductive: its own      *)
(* success may leave room for another.)                                    *)
Served(o) == Waiting(o) # {} => Cardinality(Active(o)) >= Room(o)

WakeInv ==
    ~ownerDead /\ ~lostSignal /\ ~misordered => \A o \in {"put", "get"} : Served(o)

(* The active processes of an operation are finitely many.                 *)
LEMMA ActiveFinite ==
    ASSUME NEW o
    PROVE  IsFiniteSet(Active(o)) /\ IsFiniteSet(Active(o)')
<1>1. Active(o) \subseteq Procs /\ Active(o)' \subseteq Procs
    BY DEF Active
<1> QED BY ZenonT(60), <1>1, ProcsAssumption, FS_Subset

(* Nobody who matters leaves, nobody starts to wait and there is no more   *)
(* room than before.                                                       *)
LEMMA ServedOn ==
    ASSUME TypeOK, TypeOK', NEW o \in {"put", "get"}, Served(o),
           Waiting(o) = {} => Waiting(o)' = {},
           Active(o) \subseteq Active(o)',
           count' = count
    PROVE  Served(o)'
<1>1. Room(o) \in Int /\ Room(o)' \in Int /\ Room(o)' = Room(o)
    BY DepthAssumption DEF Room, TypeOK, RingTypeOK
<1> SUFFICES ASSUME Waiting(o)' # {} PROVE Cardinality(Active(o)') >= Room(o)'
    BY DEF Served
<1>2. Cardinality(Active(o)) >= Room(o)
    BY DEF Served
<1>3. IsFiniteSet(Active(o)')
    BY ActiveFinite
<1>4. Room(o)' <= Room(o)
    BY <1>1
<1> QED BY ZenonT(60), <1>1, <1>2, <1>3, <1>4, EnoughMore

(* There is no room.                                                       *)
LEMMA ServedNone ==
    ASSUME TypeOK', NEW o \in {"put", "get"}, Room(o)' = 0
    PROVE  Served(o)'
<1>1. Cardinality(Active(o)') \in Nat
    BY ActiveFinite, FS_CardinalityType
<1> QED BY <1>1 DEF Served

(* A call's outcome is "ok" until a deadline passes or the call gives up.  *)
LEMMA OutcomeStep ==
    ASSUME TypeOK, OutcomeInv, [Next]_vars
    PROVE  OutcomeInv'
<1>0. pc \in [Procs -> Labels] /\ op \in [Procs -> Ops] /\ DOMAIN rc = Procs
    BY ZenonT(60) DEF TypeOK
<1> USE <1>0 DEF OutcomeInv, Goto, locals, PutSteps, GetSteps
<1>1. ASSUME NEW p \in Procs, Call(p) PROVE OutcomeInv'
    BY ZenonT(60), <1>1 DEF Call, CallPut, CallGet, CallQsize
<1>2. ASSUME NEW p \in Procs, Lock(p) \/ Relock(p) PROVE OutcomeInv'
    BY <1>2 DEF Lock, Relock, TakeLock
<1>3. ASSUME NEW p \in Procs, Recover(p) \/ RecoverDone(p) PROVE OutcomeInv'
    BY ZenonT(60), <1>3 DEF Recover, RecoverDone
<1>4. ASSUME NEW p \in Procs, Broadcast(p) PROVE OutcomeInv'
    BY ZenonT(60), <1>4 DEF Broadcast
<1>5. ASSUME NEW p \in Procs, StartPut(p) \/ StartGet(p) PROVE OutcomeInv'
    BY ZenonT(60), <1>5 DEF StartPut, StartGet
<1>15. ASSUME NEW p \in Procs, FailGet(p) \/ ReadQsize(p) PROVE OutcomeInv'
    BY <1>15 DEF FailGet, ReadQsize
<1>6. ASSUME NEW p \in Procs, GiveUp(p) \/ StartWait(p) PROVE OutcomeInv'
    BY <1>6 DEF GiveUp, StartWait
<1>7. ASSUME NEW p \in Procs, SpuriousWakeup(p) \/ DeadlinePassed(p) PROVE OutcomeInv'
    BY <1>7 DEF SpuriousWakeup, DeadlinePassed
<1>8. ASSUME NEW p \in Procs, WaitFailed(p) \/ NextSlice(p) PROVE OutcomeInv'
    BY ZenonT(60), <1>8 DEF WaitFailed, NextSlice
<1>9. ASSUME NEW p \in Procs, PutStep(p) PROVE OutcomeInv'
    BY <1>9 DEF PutStep
<1>10. ASSUME NEW p \in Procs, CopyOut(p) \/ GetStep(p) PROVE OutcomeInv'
    BY <1>10 DEF CopyOut, GetStep
<1>11. ASSUME NEW p \in Procs, Unlock(p) PROVE OutcomeInv'
    BY <1>11 DEF Unlock, Forget
<1>12. ASSUME NEW p \in Procs, Signal(p) PROVE OutcomeInv'
    BY <1>12 DEF Signal, Forget, Waiting
<1>13. ASSUME NEW p \in Procs, Crash(p) PROVE OutcomeInv'
    BY ZenonT(60), <1>13 DEF Crash, Forget
<1>14. CASE UNCHANGED vars
    BY <1>14 DEF vars
<1> HIDE <1>0 DEF OutcomeInv, Goto, locals, PutSteps, GetSteps
<1> QED
    BY ZenonT(60), <1>1, <1>2, <1>3, <1>4, <1>5, <1>6, <1>7, <1>8, <1>9, <1>10, <1>11, <1>12,
       <1>13, <1>14, <1>15, MayCrashAssumption DEF Next, Step

WakeIInv == IInv /\ OutcomeInv /\ WakeInv

(* A step after which a signal can be missed only if one could before.     *)
Watched == ~ownerDead /\ ~lostSignal /\ ~misordered

(* A step of p that leaves count alone and does not end p's share in an    *)
(* operation.                                                              *)
LEMMA WakeOn ==
    ASSUME TypeOK, TypeOK', WakeInv, NEW p \in Procs, Watched' => Watched,
           \/ Call(p) \/ Lock(p) \/ Relock(p) \/ Recover(p)
           \/ StartPut(p) \/ StartGet(p) \/ ReadQsize(p) \/ CopyOut(p)
           \/ SpuriousWakeup(p) \/ DeadlinePassed(p) \/ WaitFailed(p) \/ Unlock(p)
           \/ PutStep(p) /\ pc[p] # "putCount"
           \/ GetStep(p) /\ pc[p] # "getCount"
    PROVE  WakeInv'
<1> SUFFICES ASSUME Watched, Watched', NEW o \in {"put", "get"} PROVE Served(o)'
    BY DEF WakeInv, Watched
<1>1. Served(o)
    BY DEF WakeInv, Watched
<1>2. count' = count
    BY ZenonT(60) DEF Call, CallPut, CallGet, CallQsize, Lock, Relock, Recover, RecoverSlot, StartPut, StartGet,
           ReadQsize, CopyOut, SpuriousWakeup, DeadlinePassed, WaitFailed, Unlock, PutStep, GetStep,
           PutReserve, PutCopyBegin, PutCopyEnd, PutPublish, PutAdvance, GetReserve, GetRelease,
           GetAdvance, ring
<1> SUFFICES Waiting(o)' \subseteq Waiting(o) /\ Active(o) \subseteq Active(o)'
    BY ZenonT(60), <1>1, <1>2, ServedOn
<1>3. pc \in [Procs -> Labels] /\ op \in [Procs -> Ops] /\ DOMAIN rc = Procs
    BY DEF TypeOK
<1> USE <1>3 DEF Waiting, Active, Goto
<1>4. CASE Call(p)
    BY ZenonT(60), <1>4 DEF Call, CallPut, CallGet, CallQsize, PutSteps, GetSteps
<1>5. CASE Lock(p) \/ Relock(p)
    BY <1>5 DEF Lock, Relock, TakeLock, locals, Watched, PutSteps, GetSteps
<1>6. CASE Recover(p)
    BY ZenonT(60), <1>6 DEF Recover, locals
<1>7. CASE StartPut(p) \/ StartGet(p) \/ ReadQsize(p) \/ CopyOut(p)
    BY ZenonT(60), <1>7 DEF StartPut, StartGet, ReadQsize, CopyOut, locals, Opposite, PutSteps, GetSteps
<1>8. CASE SpuriousWakeup(p) \/ DeadlinePassed(p) \/ WaitFailed(p)
    BY <1>8 DEF SpuriousWakeup, DeadlinePassed, WaitFailed, locals, PutSteps, GetSteps
<1>9. CASE Unlock(p)
    BY <1>9 DEF Unlock, Forget, locals, Opposite, PutSteps, GetSteps
<1>10. CASE PutStep(p) /\ pc[p] # "putCount"
    BY ZenonT(60), <1>10 DEF PutStep, locals, PutSteps
<1>11. CASE GetStep(p) /\ pc[p] # "getCount"
    BY ZenonT(60), <1>11 DEF GetStep, locals, GetSteps
<1> QED BY ZenonT(60), <1>4, <1>5, <1>6, <1>7, <1>8, <1>9, <1>10, <1>11

(* p stops looking after operation o because there is nothing for it to do *)
(* (GiveUp, StartWait, and NextSlice, which does not look).                *)
LEMMA WakeIdle ==
    ASSUME TypeOK, TypeOK', WakeInv, NEW p \in Procs, Watched' => Watched,
           GiveUp(p) \/ StartWait(p) \/ NextSlice(p)
    PROVE  WakeInv'
<1> SUFFICES ASSUME Watched, Watched', NEW o \in {"put", "get"} PROVE Served(o)'
    BY DEF WakeInv, Watched
<1>1. Served(o)
    BY DEF WakeInv, Watched
<1>2. count' = count /\ op' = op
    BY ZenonT(60) DEF GiveUp, StartWait, NextSlice, ring, locals
<1>3. CASE op[p] = o
    <2>1. ~CanGo(p)
        BY ZenonT(60) DEF GiveUp, StartWait, NextSlice, Watched
    <2>2. count \in 0 .. Depth
        BY DEF TypeOK, RingTypeOK
    <2>3. Room(o)' = 0
        BY <1>2, <1>3, <2>1, <2>2, DepthAssumption DEF CanGo, Room
    <2> QED BY <2>3, ServedNone
<1>4. CASE op[p] # o
    <2>1. pc \in [Procs -> Labels] /\ DOMAIN rc = Procs
        BY DEF TypeOK
    <2>2. Waiting(o)' = Waiting(o) /\ Active(o) \subseteq Active(o)'
        BY ZenonT(60), <1>2, <1>4, <2>1 DEF GiveUp, StartWait, NextSlice, Waiting, Active, Goto, locals, PutSteps, GetSteps
    <2> QED BY ZenonT(60), <2>2, <1>1, <1>2, ServedOn
<1> QED BY ZenonT(60), <1>3, <1>4

(* The store to count: room for one more of the other operation, whose     *)
(* waiters p will signal, and for one less of p's own.                     *)
LEMMA WakeCount ==
    ASSUME TypeOK, TypeOK', CallInv, OutcomeInv, WakeInv, NEW p \in Procs, Watched' => Watched,
           \/ PutStep(p) /\ pc[p] = "putCount"
           \/ GetStep(p) /\ pc[p] = "getCount"
    PROVE  WakeInv'
<1> SUFFICES ASSUME Watched, Watched', NEW o \in {"put", "get"} PROVE Served(o)'
    BY ZenonT(60) DEF WakeInv, Watched
<1>0. pc \in [Procs -> Labels] /\ op \in [Procs -> Ops] /\ count \in 0 .. Depth
    BY DEF TypeOK, RingTypeOK
<1>1. Served(o)
    BY DEF WakeInv, Watched
<1>2. /\ pc' = [pc EXCEPT ![p] = "unlock"] /\ UNCHANGED <<op, rc>>
      /\ pc[p] \in {"putCount", "getCount"} /\ rc[p] = "ok"
      /\ op[p] = IF pc[p] = "putCount" THEN "put" ELSE "get"
      /\ count' = IF pc[p] = "putCount" THEN count + 1 ELSE count - 1
    BY ZenonT(60) DEF PutStep, GetStep, PutCount, GetCount, Goto, locals, CallInv, OutcomeInv, PutSteps, GetSteps
<1>3. Room(o) \in Int /\ Room(o)' = IF op[p] = o THEN Room(o) - 1 ELSE Room(o) + 1
    BY <1>0, <1>2, DepthAssumption DEF Room
<1>4. Waiting(o)' = Waiting(o)
    BY ZenonT(60), <1>0, <1>2 DEF Waiting
<1>5. IsFiniteSet(Active(o))
    BY ZenonT(60), ActiveFinite
<1> SUFFICES ASSUME Waiting(o) # {} PROVE Cardinality(Active(o)') >= Room(o)'
    BY ZenonT(60), <1>4 DEF Served
<1>6. Cardinality(Active(o)) >= Room(o)
    BY <1>1 DEF Served
<1>7. CASE op[p] = o
    <2>1. p \in Active(o)
        BY <1>2, <1>7 DEF Active, PutSteps, GetSteps
    <2>2. Active(o)' = Active(o) \ {p}
        BY ZenonT(60), <1>0, <1>2, <1>7 DEF Active, Opposite, PutSteps, GetSteps
    <2>3. Cardinality(Active(o) \ {p}) >= Room(o) - 1
        BY ZenonT(60), <2>1, <1>3, <1>5, <1>6, EnoughRemove
    <2> QED BY ZenonT(60), <2>2, <2>3, <1>3, <1>7
<1>8. CASE op[p] # o
    <2>1. p \notin Active(o)
        BY ZenonT(60), <1>2, <1>8 DEF Active, PutSteps, GetSteps
    <2>2. Active(o)' = Active(o) \cup {p}
        BY ZenonT(60), <1>0, <1>2, <1>8 DEF Active, Opposite, PutSteps, GetSteps
    <2>3. Cardinality(Active(o) \cup {p}) >= Room(o) + 1
        BY ZenonT(60), <2>1, <1>3, <1>5, <1>6, EnoughAdd
    <2> QED BY ZenonT(60), <2>2, <2>3, <1>3, <1>8
<1> QED BY ZenonT(60), <1>7, <1>8

(* pthread_cond_signal: p hands its part on to the waiter it wakes.        *)
LEMMA WakeSignal ==
    ASSUME TypeOK, TypeOK', OutcomeInv, WakeInv, NEW p \in Procs, Watched' => Watched, Signal(p)
    PROVE  WakeInv'
<1> SUFFICES ASSUME Watched, Watched', NEW o \in {"put", "get"} PROVE Served(o)'
    BY ZenonT(60) DEF WakeInv, Watched
<1>0. pc \in [Procs -> Labels] /\ op \in [Procs -> Ops] /\ DOMAIN rc = Procs /\ count \in 0 .. Depth
    BY DEF TypeOK, RingTypeOK
<1>1. Served(o)
    BY ZenonT(60) DEF WakeInv, Watched
<1>2. /\ pc[p] = "signal" /\ op[p] \in {"put", "get"} /\ count' = count
      /\ op' = [op EXCEPT ![p] = "none"] /\ rc' = [rc EXCEPT ![p] = "ok"]
    BY DEF Signal, Forget, OutcomeInv, ring
<1>3. CASE Waiting(Opposite(op[p])) = {}
    <2>1. pc' = [pc EXCEPT ![p] = "idle"]
        BY <1>3 DEF Signal, Goto
    <2>2. CASE o = Opposite(op[p])
        <3>1. Waiting(o)' = {}
            BY ZenonT(60), <2>1, <2>2, <1>0, <1>2, <1>3 DEF Waiting
        <3> QED BY ZenonT(60), <3>1 DEF Served
    <2>3. CASE o # Opposite(op[p])
        <3>1. Waiting(o)' = Waiting(o) /\ Active(o) \subseteq Active(o)'
            BY ZenonT(60), <2>1, <2>3, <1>0, <1>2 DEF Waiting, Active, Opposite, PutSteps, GetSteps
        <3> QED BY ZenonT(60), <3>1, <1>1, <1>2, ServedOn
    <2> QED BY ZenonT(60), <2>2, <2>3
<1>4. CASE Waiting(Opposite(op[p])) # {}
    <2>1. PICK w \in Waiting(Opposite(op[p])) : pc' = [pc EXCEPT ![p] = "idle", ![w] = "relock"]
        BY ZenonT(60), <1>4 DEF Signal
    <2>2. w \in Procs /\ w # p /\ pc[w] = "wait" /\ op[w] = Opposite(op[p]) /\ rc[w] = "ok"
        BY ZenonT(60), <2>1, <1>2 DEF Waiting, OutcomeInv
    <2>3. CASE o = Opposite(op[p])
        <3> SUFFICES ASSUME Waiting(o)' # {} PROVE Cardinality(Active(o)') >= Room(o)'
            BY ZenonT(60) DEF Served
        <3>1. p \in Active(o) /\ w \notin Active(o) \ {p}
            BY ZenonT(60), <2>2, <2>3, <1>2 DEF Active, Opposite, PutSteps, GetSteps
        <3>2. Active(o)' = (Active(o) \ {p}) \cup {w}
            BY <2>1, <2>2, <2>3, <1>0, <1>2 DEF Active, Opposite, PutSteps, GetSteps
        <3>3. Cardinality(Active(o)) >= Room(o) /\ Room(o) \in Int /\ Room(o)' = Room(o)
            BY <1>0, <1>1, <1>2, <1>4, <2>3, DepthAssumption DEF Served, Room
        <3>4. IsFiniteSet(Active(o)) /\ IsFiniteSet(Active(o) \ {p})
            BY ZenonT(60), ActiveFinite, FS_RemoveElement
        <3>5. Cardinality(Active(o) \ {p}) >= Room(o) - 1 /\ Room(o) - 1 \in Int
            BY <3>1, <3>3, <3>4, EnoughRemove
        <3>6. Cardinality((Active(o) \ {p}) \cup {w}) >= (Room(o) - 1) + 1
            BY ZenonT(60), <3>1, <3>4, <3>5, EnoughAdd
        <3> QED BY <3>2, <3>3, <3>6
    <2>4. CASE o # Opposite(op[p])
        <3>1. Waiting(o)' = Waiting(o) /\ Active(o) \subseteq Active(o)'
            BY ZenonT(60), <2>1, <2>2, <2>4, <1>0, <1>2 DEF Waiting, Active, Opposite, PutSteps, GetSteps
        <3> QED BY ZenonT(60), <3>1, <1>1, <1>2, ServedOn
    <2> QED BY ZenonT(60), <2>3, <2>4
<1> QED BY ZenonT(60), <1>3, <1>4

(* p is killed: with put_lock held the mutex is marked; otherwise, if p    *)
(* mattered to a waiter, the loss is recorded.                             *)
LEMMA WakeCrash ==
    ASSUME TypeOK, TypeOK', LockInv, WakeInv, NEW p \in Procs, Watched' => Watched, Crash(p)
    PROVE  WakeInv'
<1> SUFFICES ASSUME Watched, Watched', NEW o \in {"put", "get"} PROVE Served(o)'
    BY DEF WakeInv, Watched
<1>0. pc \in [Procs -> Labels] /\ op \in [Procs -> Ops] /\ DOMAIN rc = Procs
    BY DEF TypeOK
<1>1. Served(o)
    BY DEF WakeInv, Watched
<1>2. /\ count' = count /\ pc' = [pc EXCEPT ![p] = "idle"]
      /\ op' = [op EXCEPT ![p] = "none"] /\ rc' = [rc EXCEPT ![p] = "ok"]
      /\ ~LosesWakeup(p) /\ owner # p
    BY ZenonT(60) DEF Crash, Goto, Forget, ring, Watched
<1>3. Waiting(o)' \subseteq Waiting(o)
    BY ZenonT(60), <1>0, <1>2 DEF Waiting
<1>4. CASE p \in Active(o)
    <2>1. pc[p] \notin Holding
        BY ZenonT(60), <1>2 DEF LockInv
    <2>2. Waiting(o) = {}
        BY ZenonT(60), <1>2, <1>4, <2>1 DEF Active, LosesWakeup, Opposite, Holding, PutSteps, GetSteps
    <2> QED BY ZenonT(60), <1>3, <2>2 DEF Served
<1>5. CASE p \notin Active(o)
    <2>1. Active(o) \subseteq Active(o)'
        BY ZenonT(60), <1>0, <1>2, <1>5 DEF Active
    <2> QED BY ZenonT(60), <2>1, <1>1, <1>2, <1>3, ServedOn
<1> QED BY ZenonT(60), <1>4, <1>5

(* The invariant of the waits is inductive.                                *)
LEMMA WakeStep ==
    ASSUME WakeIInv, [Next]_vars
    PROVE  WakeIInv'
<1>1. IInv' /\ TypeOK'
    BY NextIInv DEF WakeIInv, IInv
<1>0. /\ TypeOK /\ LockInv /\ CallInv /\ RecoveryInv /\ ShapeInv
      /\ OutcomeInv /\ WakeInv
    BY DEF WakeIInv, IInv
<1>2. OutcomeInv'
    BY <1>0, OutcomeStep
<1>3. WakeInv'
    <2>1. ASSUME NEW p \in Procs, Broadcast(p) PROVE WakeInv'
        <3>1. \A o \in {"put", "get"} : Waiting(o)' = {}
            BY <2>1 DEF Broadcast, Waiting
        <3> QED BY ZenonT(60), <3>1 DEF WakeInv, Served
    <2>2. ASSUME NEW p \in Procs, RecoverDone(p) PROVE WakeInv'
        <3>1. ownerDead'
            BY ZenonT(60), <2>2, <1>0 DEF RecoverDone, RecoveryInv, RecoverySteps
        <3> QED BY ZenonT(60), <3>1 DEF WakeInv
    <2>3. ASSUME NEW p \in Procs, FailGet(p) PROVE WakeInv'
        <3>1. misordered
            BY ZenonT(60), <2>3, <1>0, SettledGetFindsItem DEF FailGet, ShapeInv, At, TypeOK
        <3> QED BY ZenonT(60), <2>3, <3>1 DEF FailGet, history, WakeInv
    <2>4. ASSUME NEW p \in Procs,
                 \/ Call(p) \/ Lock(p) \/ Relock(p) \/ Recover(p)
                 \/ StartPut(p) \/ StartGet(p) \/ ReadQsize(p) \/ CopyOut(p)
                 \/ SpuriousWakeup(p) \/ DeadlinePassed(p) \/ WaitFailed(p) \/ Unlock(p)
          PROVE  WakeInv'
        <3>1. Watched' => Watched
            BY ZenonT(60), <2>4 DEF Watched, Call, CallPut, CallGet, CallQsize, Lock, Relock, Recover, StartPut,
                        StartGet, ReadQsize, CopyOut, SpuriousWakeup, DeadlinePassed, WaitFailed,
                        Unlock, history
        <3> QED BY ZenonT(60), <2>4, <3>1, <1>0, <1>1, WakeOn
    <2>5. ASSUME NEW p \in Procs, PutStep(p) \/ GetStep(p) PROVE WakeInv'
        <3>1. Watched' => Watched
            BY ZenonT(60), <2>5 DEF Watched, PutStep, GetStep, history
        <3> QED BY ZenonT(60), <2>5, <3>1, <1>0, <1>1, WakeOn, WakeCount
    <2>6. ASSUME NEW p \in Procs, GiveUp(p) \/ StartWait(p) \/ NextSlice(p) PROVE WakeInv'
        <3>1. Watched' => Watched
            BY <2>6, ZenonT(60) DEF Watched, GiveUp, StartWait, NextSlice, history
        <3> QED BY ZenonT(60), <2>6, <3>1, <1>0, <1>1, WakeIdle
    <2>7. ASSUME NEW p \in Procs, Signal(p) PROVE WakeInv'
        <3>1. Watched' => Watched
            BY <2>7 DEF Watched, Signal, history
        <3> QED BY ZenonT(60), <2>7, <3>1, <1>0, <1>1, WakeSignal
    <2>8. ASSUME NEW p \in Procs, Crash(p) PROVE WakeInv'
        <3>1. Watched' => Watched
            BY <2>8, ZenonT(60) DEF Watched, Crash
        <3> QED BY ZenonT(60), <2>8, <3>1, <1>0, <1>1, WakeCrash
    <2>9. CASE UNCHANGED vars
        <3>1. UNCHANGED <<count, ownerDead, lostSignal, misordered, pc, op, rc>>
            BY ZenonT(60), <2>9 DEF vars, ring, locals, history
        <3>2. \A o \in {"put", "get"} : Waiting(o)' = Waiting(o) /\ Active(o)' = Active(o) /\ Room(o)' = Room(o)
            BY <3>1 DEF Waiting, Active, Room
        <3> QED BY ZenonT(60), <1>0, <3>1, <3>2 DEF WakeInv, Served
    <2> QED
        BY ZenonT(60), <2>1, <2>2, <2>3, <2>4, <2>5, <2>6, <2>7, <2>8, <2>9, MayCrashAssumption
           DEF Next, Step
<1> QED BY ZenonT(60), <1>1, <1>2, <1>3 DEF WakeIInv

(* Nobody waits at first.                                                  *)
LEMMA WakeStart == Init => WakeIInv
<1> SUFFICES ASSUME Init PROVE WakeIInv
    OBVIOUS
<1>1. IInv
    BY ZenonT(60), InitIInv
<1>2. OutcomeInv
    BY DEF Init, OutcomeInv, PutSteps, GetSteps
<1>3. WakeInv
    BY DEF Init, WakeInv, Served, Waiting
<1> QED BY ZenonT(60), <1>1, <1>2, <1>3 DEF WakeIInv

(* No wakeup is lost, for any number of processes and any depth: when all  *)
(* are idle or waiting nobody sleeps on a condition that holds, unless one *)
(* of the excused cases happened.  Unlocking before signalling and waking  *)
(* one waiter per success are enough.                                      *)
THEOREM QueueNoStrandedWaiter == Spec => []NoStrandedWaiter
<1>1. WakeIInv => NoStrandedWaiter
    <2> SUFFICES ASSUME WakeIInv, Quiet, ~ownerDead, ~lostSignal, ~misordered,
                        NEW p \in Procs, pc[p] = "wait"
                 PROVE  ~CanGo(p)
        BY ZenonT(60) DEF NoStrandedWaiter
    <2>1. op[p] \in {"put", "get"} /\ p \in Waiting(op[p])
        BY ZenonT(60) DEF WakeIInv, OutcomeInv, Waiting
    <2>2. Cardinality(Active(op[p])) >= Room(op[p])
        BY ZenonT(60), <2>1 DEF WakeIInv, WakeInv, Served
    <2>3. Active(op[p]) = {}
        BY ZenonT(60) DEF Active, Quiet, PutSteps, GetSteps
    <2>4. Cardinality(Active(op[p])) = 0
        BY ZenonT(60), <2>3, FS_EmptySet
    <2> QED BY <2>1, <2>2, <2>4, DepthAssumption DEF Room, CanGo, WakeIInv, IInv, TypeOK, RingTypeOK
<1> QED BY <1>1, WakeStart, WakeStep, PTL DEF Spec
-----------------------------------------------------------------------------
(* Refinement of Fifo.                                                     *)

(* The item a get has copied out is the one at head until it releases it.  *)
CopiedInv == \A p \in Procs : pc[p] = "release" => item[p] = payload[head]

FifoIInv == IInv /\ OutcomeInv /\ CopiedInv

(* Before and after a step, Contents is ContentsOf the ring.               *)
LEMMA ContentsNow ==
    /\ Contents = ContentsOf(head, state, payload)
    /\ Contents' = ContentsOf(head', state', payload')
BY ZenonT(60) DEF Contents, ContentsOf, Occupied, Holds

(* A step that keeps the run and what is in it keeps the contents.         *)
LEMMA RunKept ==
    ASSUME NEW h, NEW n, IsRun(head, state, h, n), IsRun(head', state', h, n),
           \A k \in 1 .. n : payload'[Plus(h, k - 1)] = payload[Plus(h, k - 1)]
    PROVE  Contents' = Contents
<1>1. Contents = RunItems(payload, h, n) /\ Contents' = RunItems(payload', h, n)
    BY ContentsNow, ContentsOfRun
<1> QED BY ZenonT(60), <1>1 DEF RunItems

(* Nobody else changes head or the payloads while a get holds put_lock.    *)
LEMMA CopiedStep ==
    ASSUME TypeOK, LockInv, CopiedInv, [Next]_vars
    PROVE  CopiedInv'
<1> SUFFICES ASSUME NEW q \in Procs, pc'[q] = "release" PROVE item'[q] = payload'[head']
    BY ZenonT(60) DEF CopiedInv
<1>0. /\ pc \in [Procs -> Labels] /\ DOMAIN item = Procs
      /\ pc[q] = "release" => item[q] = payload[head]
    BY ZenonT(60) DEF TypeOK, CopiedInv
<1> USE <1>0 DEF Goto, ring, locals
<1>1. ASSUME NEW p \in Procs, Call(p) PROVE item'[q] = payload'[head']
    BY <1>1 DEF Call, CallPut, CallGet, CallQsize
<1>2. ASSUME NEW p \in Procs, Lock(p) \/ Relock(p) PROVE item'[q] = payload'[head']
    BY ZenonT(60), <1>2 DEF Lock, Relock, TakeLock
<1>3. ASSUME NEW p \in Procs, Recover(p) \/ RecoverDone(p) PROVE item'[q] = payload'[head']
    <2>1. pc[q] = "release" /\ pc[p] = "recover" /\ p # q
        BY ZenonT(60), <1>3 DEF Recover, RecoverDone
    <2> QED BY ZenonT(60), <2>1, OneOwner DEF Holding, GetSteps, RecoverySteps
<1>4. ASSUME NEW p \in Procs, Broadcast(p) PROVE item'[q] = payload'[head']
    BY ZenonT(60), <1>4 DEF Broadcast
<1>5. ASSUME NEW p \in Procs, StartPut(p) \/ StartGet(p) \/ FailGet(p) \/ ReadQsize(p)
      PROVE  item'[q] = payload'[head']
    BY ZenonT(60), <1>5 DEF StartPut, StartGet, FailGet, ReadQsize, PutReserve, GetReserve
<1>6. ASSUME NEW p \in Procs, GiveUp(p) \/ StartWait(p) PROVE item'[q] = payload'[head']
    BY ZenonT(60), <1>6 DEF GiveUp, StartWait
<1>7. ASSUME NEW p \in Procs, SpuriousWakeup(p) \/ DeadlinePassed(p) PROVE item'[q] = payload'[head']
    BY ZenonT(60), <1>7 DEF SpuriousWakeup, DeadlinePassed
<1>8. ASSUME NEW p \in Procs, WaitFailed(p) \/ NextSlice(p) PROVE item'[q] = payload'[head']
    BY ZenonT(60), <1>8 DEF WaitFailed, NextSlice
<1>9. ASSUME NEW p \in Procs, PutStep(p) PROVE item'[q] = payload'[head']
    <2>1. pc[q] = "release" /\ pc[p] \in PutSteps /\ p # q
        BY ZenonT(60), <1>9 DEF PutStep, PutSteps
    <2> QED BY ZenonT(60), <2>1, OneOwner DEF Holding, GetSteps
<1>10. ASSUME NEW p \in Procs, CopyOut(p) PROVE item'[q] = payload'[head']
    <2>1. p # q => pc[q] = "release"
        BY ZenonT(60), <1>10 DEF CopyOut
    <2>2. p = q
        BY ZenonT(60), <1>10, <2>1, OneOwner DEF CopyOut, Holding, GetSteps
    <2> QED BY ZenonT(60), <1>10, <2>2 DEF CopyOut
<1>11. ASSUME NEW p \in Procs, GetStep(p) PROVE item'[q] = payload'[head']
    <2>1. pc[q] = "release" /\ pc[p] \in GetSteps /\ p # q
        BY ZenonT(60), <1>11 DEF GetStep, GetSteps
    <2> QED BY ZenonT(60), <2>1, OneOwner DEF Holding, GetSteps
<1>12. ASSUME NEW p \in Procs, Unlock(p) PROVE item'[q] = payload'[head']
    BY ZenonT(60), <1>12 DEF Unlock, Forget
<1>13. ASSUME NEW p \in Procs, Signal(p) PROVE item'[q] = payload'[head']
    BY ZenonT(60), <1>13 DEF Signal, Forget, Waiting
<1>14. ASSUME NEW p \in Procs, Crash(p) PROVE item'[q] = payload'[head']
    BY ZenonT(60), <1>14 DEF Crash, Forget
<1>15. CASE UNCHANGED vars
    BY ZenonT(60), <1>15 DEF vars
<1> HIDE <1>0 DEF Goto, ring, locals
<1> QED
    BY ZenonT(60), <1>1, <1>2, <1>3, <1>4, <1>5, <1>6, <1>7, <1>8, <1>9, <1>10, <1>11, <1>12, <1>13, <1>14,
       <1>15, MayCrashAssumption
       DEF Next, Step

(* FifoIInv is inductive.                                                  *)
LEMMA FifoInvStep ==
    ASSUME FifoIInv, [Next]_vars
    PROVE  FifoIInv'
<1>1. IInv /\ TypeOK /\ LockInv /\ OutcomeInv /\ CopiedInv
    BY DEF FifoIInv, IInv
<1>2. IInv' /\ OutcomeInv' /\ CopiedInv'
    BY ZenonT(60), <1>1, CopiedStep, OutcomeStep, NextIInv
<1> QED BY <1>2 DEF FifoIInv

(* It holds of the fresh queue.                                            *)
LEMMA FifoInvStart == Init => FifoIInv
<1>1. Init => CopiedInv
    BY ZenonT(60) DEF Init, CopiedInv
<1> QED BY ZenonT(60), <1>1, WakeStart DEF WakeIInv, FifoIInv

-----------------------------------------------------------------------------
(* What each step does to the contents.                                    *)

(* What a process finds in the ring, by where it is.                       *)
LEMMA ShapeAt ==
    ASSUME ShapeInv, ~misordered, NEW p \in Procs
    PROVE  /\ pc[p] = "check" => Settled
           /\ pc[p] \in {"copyBegin", "copyEnd", "publish"} => PutReserved
           /\ pc[p] = "putAdvance" => Published
           /\ pc[p] \in {"copyOut", "release"} => GetReserved
           /\ pc[p] = "getAdvance" => Released
           /\ pc[p] = "getCount" => HeadAdvanced
           /\ pc[p] = "recover" => Recoverable
BY DEF ShapeInv, At

(* The same after a step.                                                  *)
LEMMA ShapeAtNext ==
    ASSUME ShapeInv', ~misordered', NEW p \in Procs
    PROVE  /\ pc'[p] = "copyBegin" => PutReserved'
           /\ pc'[p] = "copyOut" => GetReserved'
           /\ pc'[p] = "putAdvance" => Published'
           /\ pc'[p] = "getAdvance" => Released'
           /\ pc'[p] = "getCount" => HeadAdvanced'
           /\ pc'[p] = "broadcast" => Settled'
BY ZenonT(60) DEF ShapeInv, At

(* Reserving, moving an index, counting, and the pass over the headers do  *)
(* not change them.                                                        *)
LEMMA ContentsSame ==
    ASSUME TypeOK, TypeOK', ShapeInv, ShapeInv', RecoveryInv, ~misordered, ~misordered', NEW p \in Procs,
           \/ Recover(p) \/ RecoverDone(p) \/ StartPut(p) \/ StartGet(p)
           \/ PutStep(p) /\ pc[p] # "publish"
           \/ GetStep(p) /\ pc[p] # "release"
    PROVE  Contents' = Contents
<1>0. RingTypeOK /\ RingTypeOK' /\ pc \in [Procs -> Labels] /\ cursor \in 0 .. Depth
    BY DEF TypeOK
<1> USE <1>0
<1>1. CASE Recover(p)
    <2>1. cursor \in Slots
        BY <1>1, DepthAssumption DEF Recover, Slots
    <2>2. /\ \A i \in Slots : Holds(state', i) <=> Holds(state, i)
          /\ head' = head /\ payload' = payload
        BY <1>1, <2>1, ZenonT(60) DEF Recover, RecoverSlot, SetState, RecoveredState, Holds, RingTypeOK
    <2>3. {i \in Slots : Holds(state', i)} = {i \in Slots : Holds(state, i)}
        BY ZenonT(60), <2>2
    <2>4. Holds(state', head') <=> Holds(state, head)
        BY ZenonT(60), <2>2 DEF RingTypeOK
    <2> QED BY <2>2, <2>3, <2>4, ContentsNow, ZenonT(60) DEF ContentsOf
<1>2. CASE RecoverDone(p)
    <2>1. Recoverable /\ ~Wrapped /\ RecoverCtrl
        BY <1>2, ShapeAt, ZenonT(60) DEF RecoverDone
    <2>2. \A i \in Slots : state[i] \in {"READY", "EMPTY"}
        BY <1>2, DepthAssumption DEF RecoverDone, RecoveryInv, Slots
    <2>3. PICK h \in Slots, n \in 0 .. Depth :
              /\ \A i \in Slots : Occupied(i) <=> InRun(i, h, n)
              /\ h = head \/ (h = Plus(head, 1) /\ n < Depth)
        BY ZenonT(60), <2>1 DEF Recoverable
    <2>4. count' = n /\ head' = (IF n = 0 THEN 0 ELSE h) /\ Settled'
        BY ZenonT(60), <2>1, <2>2, <2>3, RecoverCtrlRun
    <2>5. IsRun(head, state, h, n)
        BY ZenonT(60), <2>3 DEF IsRun, Holds, Occupied, RingTypeOK
    <2>6. IsRun(head', state', head', n)
        BY ZenonT(60), <2>4, ShapeRunsNext
    <2>7. payload' = payload
        BY ZenonT(60), <2>1 DEF RecoverCtrl
    <2>8. Contents = RunItems(payload, h, n) /\ Contents' = RunItems(payload, head', n)
        BY <2>5, <2>6, <2>7, ContentsNow, ContentsOfRun
    <2>9. CASE n = 0
        BY <2>8, <2>9 DEF RunItems
    <2>10. CASE n # 0
        BY ZenonT(60), <2>8, <2>10, <2>4
    <2> QED BY ZenonT(60), <2>9, <2>10
<1>3. CASE StartPut(p) \/ StartGet(p)
    <2>1. Settled /\ head' = head /\ count' = count /\ payload' = payload
        BY ZenonT(60), <1>3, ShapeAt DEF StartPut, StartGet, PutReserve, GetReserve
    <2>2. PutReserved' \/ GetReserved'
        BY ZenonT(60), <1>3, ShapeAtNext DEF StartPut, StartGet, Goto
    <2>3. IsRun(head, state, head, count) /\ IsRun(head', state', head, count)
        BY ZenonT(60), <2>1, <2>2, ShapeRuns, ShapeRunsNext
    <2> QED BY ZenonT(60), <2>1, <2>3, RunKept
<1>4. CASE PutStep(p) /\ pc[p] \in {"copyBegin", "copyEnd"}
    <2>1. PutReserved /\ head' = head /\ tail' = tail /\ count' = count /\ state' = state
        BY ZenonT(60), <1>4, ShapeAt DEF PutStep, PutCopyBegin, PutCopyEnd
    <2>2. IsRun(head, state, head, count) /\ IsRun(head', state', head, count)
        BY ZenonT(60), <2>1, ShapeRuns
    <2>3. \A i \in Slots : i # tail => payload'[i] = payload[i]
        BY ZenonT(60), <1>4 DEF PutStep, PutCopyBegin, PutCopyEnd, RingTypeOK
    <2>4. \A k \in 1 .. count : Plus(head, k - 1) \in Slots /\ Plus(head, k - 1) # tail
        BY ZenonT(60), <2>1, RunAvoidsTail
    <2> QED BY ZenonT(60), <2>2, <2>3, <2>4, RunKept
<1>5. CASE PutStep(p) /\ pc[p] \in {"putAdvance", "putCount"}
    <2>1. head' = head /\ payload' = payload /\ state' = state
        BY ZenonT(60), <1>5 DEF PutStep, PutAdvance, PutCount
    <2> QED BY ZenonT(60), <2>1, ContentsNow
<1>6. CASE GetStep(p) /\ pc[p] = "getAdvance"
    <2>1. Released /\ head' = Plus(head, 1) /\ count' = count /\ payload' = payload
        BY ZenonT(60), <1>6, ShapeAt, NextSlotIsPlus DEF GetStep, GetAdvance, RingTypeOK
    <2>2. HeadAdvanced'
        BY ZenonT(60), <1>6, ShapeAtNext DEF GetStep, Goto
    <2>3. IsRun(head, state, head', count - 1) /\ IsRun(head', state', head', count - 1)
        BY ZenonT(60), <2>1, <2>2, ShapeRuns, ShapeRunsNext
    <2> QED BY ZenonT(60), <2>1, <2>3, RunKept
<1>7. CASE GetStep(p) /\ pc[p] = "getCount"
    <2>1. head' = head /\ payload' = payload /\ state' = state
        BY ZenonT(60), <1>7 DEF GetStep, GetCount
    <2> QED BY <2>1, ContentsNow
<1> QED BY ZenonT(60), <1>1, <1>2, <1>3, <1>4, <1>5, <1>6, <1>7 DEF PutStep, GetStep

(* Publishing the header is the moment an item enters.                     *)
LEMMA PublishAppends ==
    ASSUME TypeOK, TypeOK', ShapeInv, ShapeInv', CallInv, SlotInv, ~misordered, ~misordered',
           NEW p \in Procs, PutStep(p), pc[p] = "publish"
    PROVE  /\ item[p] \in Items
           /\ Len(Contents) < Depth
           /\ Contents' = Append(Contents, item[p])
<1>0. RingTypeOK /\ RingTypeOK' /\ pc \in [Procs -> Labels]
    BY ZenonT(60) DEF TypeOK
<1> USE <1>0
<1>1. /\ PutReserved
      /\ head' = head /\ count' = count /\ payload' = payload
    BY ZenonT(60), ShapeAt DEF PutStep, PutPublish
<1>2. Published'
    BY ShapeAtNext DEF PutStep, Goto
<1>3. item[p] \in Items /\ payload[Plus(head, count)] = item[p]
    BY ZenonT(60), <1>1 DEF CallInv, SlotInv, PutReserved, PutSteps
<1>4. /\ IsRun(head, state, head, count)
      /\ IsRun(head', state', head, count + 1)
    BY ZenonT(60), <1>1, <1>2, ShapeRuns, ShapeRunsNext
<1>5. /\ Contents = RunItems(payload, head, count)
      /\ Contents' = RunItems(payload, head, count + 1)
    BY <1>1, <1>4, ContentsNow, ContentsOfRun
<1>6. count < Depth /\ payload \in [Slots -> Items \cup {Junk}] /\ head \in Slots /\ count \in 0 .. Depth
    BY <1>1 DEF PutReserved, RingTypeOK
<1>7. /\ Len(RunItems(payload, head, count)) = count
      /\ RunItems(payload, head, count + 1)
            = Append(RunItems(payload, head, count), payload[Plus(head, count)])
    BY <1>6, RunAppend, ZenonT(60)
<1> QED BY ZenonT(60), <1>3, <1>5, <1>6, <1>7

(* Emptying the header is the moment an item leaves, and it is the oldest. *)
LEMMA ReleaseRemoves ==
    ASSUME TypeOK, TypeOK', ShapeInv, ShapeInv', CopiedInv, ~misordered, ~misordered',
           NEW p \in Procs, GetStep(p), pc[p] = "release"
    PROVE  /\ Contents # << >>
           /\ Head(Contents) = item[p]
           /\ Contents' = Tail(Contents)
<1>0. RingTypeOK /\ RingTypeOK' /\ pc \in [Procs -> Labels]
    BY ZenonT(60) DEF TypeOK
<1> USE <1>0
<1>1. /\ GetReserved
      /\ head' = head /\ count' = count /\ payload' = payload
    BY ZenonT(60), ShapeAt DEF GetStep, GetRelease
<1>2. Released'
    BY ZenonT(60), ShapeAtNext DEF GetStep, Goto
<1>3. item[p] = payload[head]
    BY ZenonT(60) DEF CopiedInv
<1>4. /\ IsRun(head, state, head, count)
      /\ IsRun(head', state', Plus(head, 1), count - 1)
    BY ZenonT(60), <1>1, <1>2, ShapeRuns, ShapeRunsNext
<1>5. /\ Contents = RunItems(payload, head, count)
      /\ Contents' = RunItems(payload, Plus(head, 1), count - 1)
    BY <1>1, <1>4, ContentsNow, ContentsOfRun
<1>6. count > 0 /\ payload \in [Slots -> Items \cup {Junk}] /\ head \in Slots /\ count \in 0 .. Depth
    BY <1>1 DEF GetReserved, RingTypeOK
<1> QED BY <1>3, <1>5, <1>6, RunTail, ZenonT(60)

-----------------------------------------------------------------------------
(* What each step does to the items callers have taken.                    *)

(* p has taken an item and not yet returned it.                            *)
InHand(p) ==
    /\ op[p] = "get"
    /\ pc[p] \in {"getAdvance", "getCount", "signal"} \/ (pc[p] = "unlock" /\ rc[p] = "ok")

(* Before and after a step, Taken is the items in hand.                    *)
LEMMA TakenNow ==
    /\ Taken = [q \in Procs |-> IF InHand(q) THEN item[q] ELSE Junk]
    /\ Taken' = [q \in Procs |-> IF InHand(q)' THEN item'[q] ELSE Junk]
BY ZenonT(60) DEF Taken, InHand

(* A step after which everybody has in hand what they had.                 *)
LEMMA TakenKept ==
    ASSUME \A q \in Procs : (InHand(q)' <=> InHand(q)) /\ (InHand(q) => item'[q] = item[q])
    PROVE  Taken' = Taken
<1>1. \A q \in Procs : (IF InHand(q)' THEN item'[q] ELSE Junk) = (IF InHand(q) THEN item[q] ELSE Junk)
    OBVIOUS
<1> QED BY ZenonT(60), <1>1, TakenNow

(* Only releasing a slot, returning and being killed change them.          *)
LEMMA TakenSame ==
    ASSUME TypeOK, CallInv, OutcomeInv, NEW p \in Procs,
           \/ Call(p) \/ Lock(p) \/ Relock(p) \/ Recover(p) \/ RecoverDone(p) \/ Broadcast(p)
           \/ StartPut(p) \/ StartGet(p) \/ FailGet(p) \/ ReadQsize(p) \/ GiveUp(p) \/ StartWait(p)
           \/ SpuriousWakeup(p) \/ DeadlinePassed(p) \/ WaitFailed(p) \/ NextSlice(p)
           \/ PutStep(p) \/ CopyOut(p) \/ Unlock(p)
           \/ GetStep(p) /\ pc[p] # "release"
    PROVE  Taken' = Taken
<1> SUFFICES ASSUME NEW q \in Procs
             PROVE  (InHand(q)' <=> InHand(q)) /\ (InHand(q) => item'[q] = item[q])
    BY ZenonT(60), TakenKept
<1>0. /\ pc \in [Procs -> Labels] /\ op \in [Procs -> Ops]
      /\ DOMAIN item = Procs /\ DOMAIN rc = Procs
    BY DEF TypeOK
<1> USE <1>0 DEF InHand, Goto, locals
<1>1. CASE Call(p)
    BY ZenonT(60), <1>1 DEF Call, CallPut, CallGet, CallQsize
<1>2. CASE Lock(p) \/ Relock(p)
    BY <1>2, ZenonT(60) DEF Lock, Relock, TakeLock
<1>3. CASE Recover(p) \/ RecoverDone(p)
    BY <1>3, ZenonT(60) DEF Recover, RecoverDone
<1>4. CASE Broadcast(p)
    BY <1>4 DEF Broadcast
<1>5. CASE StartPut(p) \/ StartGet(p) \/ FailGet(p) \/ ReadQsize(p)
    BY ZenonT(60), <1>5 DEF StartPut, StartGet, FailGet, ReadQsize
<1>6. CASE GiveUp(p) \/ StartWait(p)
    BY <1>6, ZenonT(60) DEF GiveUp, StartWait
<1>7. CASE SpuriousWakeup(p) \/ DeadlinePassed(p)
    BY ZenonT(60), <1>7 DEF SpuriousWakeup, DeadlinePassed
<1>8. CASE WaitFailed(p) \/ NextSlice(p)
    BY ZenonT(60), <1>8 DEF WaitFailed, NextSlice, CallInv
<1>9. CASE PutStep(p)
    BY <1>9, ZenonT(60) DEF PutStep, CallInv, PutSteps
<1>10. CASE CopyOut(p)
    BY <1>10 DEF CopyOut
<1>11. CASE GetStep(p) /\ pc[p] # "release"
    BY <1>11, ZenonT(60) DEF GetStep, OutcomeInv, GetSteps
<1>12. CASE Unlock(p)
    BY <1>12 DEF Unlock, Forget
<1> HIDE <1>0 DEF InHand, Goto, locals
<1> QED BY ZenonT(60), <1>1, <1>2, <1>3, <1>4, <1>5, <1>6, <1>7, <1>8, <1>9, <1>10, <1>11, <1>12

(* A step of p that changes what p has in hand, and nobody else's.         *)
LEMMA TakenBy ==
    ASSUME NEW p \in Procs, NEW x,
           \A q \in Procs : q # p => (InHand(q)' <=> InHand(q)) /\ (InHand(q) => item'[q] = item[q]),
           (IF InHand(p)' THEN item'[p] ELSE Junk) = x
    PROVE  Taken' = [Taken EXCEPT ![p] = x]
<1>1. \A q \in Procs : q # p =>
         (IF InHand(q)' THEN item'[q] ELSE Junk) = (IF InHand(q) THEN item[q] ELSE Junk)
    BY ZenonT(60)
<1> QED BY ZenonT(60), <1>1, TakenNow

(* The get that releases the slot now has the item in hand.                *)
LEMMA TakenRelease ==
    ASSUME TypeOK, CallInv, OutcomeInv, NEW p \in Procs, GetStep(p), pc[p] = "release"
    PROVE  Taken[p] = Junk /\ Taken' = [Taken EXCEPT ![p] = item[p]]
<1>1. op[p] = "get" /\ pc' = [pc EXCEPT ![p] = "getAdvance"] /\ UNCHANGED locals
    BY DEF CallInv, GetSteps, GetStep, Goto
<1>2. pc \in [Procs -> Labels]
    BY ZenonT(60) DEF TypeOK
<1>3. ~InHand(p) /\ InHand(p)' /\ item'[p] = item[p]
    BY ZenonT(60), <1>1, <1>2 DEF InHand, locals
<1>a. \A q \in Procs : q # p => pc'[q] = pc[q]
    BY ZenonT(60), <1>1, <1>2
<1>b. op' = op /\ item' = item /\ rc' = rc
    BY ZenonT(60), <1>1 DEF locals
<1>4. \A q \in Procs : q # p => (InHand(q)' <=> InHand(q)) /\ (InHand(q) => item'[q] = item[q])
    BY ZenonT(60), <1>a, <1>b DEF InHand
<1>5. Taken' = [Taken EXCEPT ![p] = item[p]]
    BY ZenonT(60), <1>3, <1>4, TakenBy
<1> QED BY ZenonT(60), <1>3, <1>5, TakenNow

(* A caller that returns or is killed has nothing in hand any more.        *)
LEMMA TakenLeave ==
    ASSUME TypeOK, NEW p \in Procs, Signal(p) \/ Crash(p)
    PROVE  \/ Taken' = Taken
           \/ Taken[p] # Junk /\ Taken' = [Taken EXCEPT ![p] = Junk]
<1>0. /\ pc \in [Procs -> Labels] /\ op \in [Procs -> Ops]
      /\ DOMAIN item = Procs /\ DOMAIN rc = Procs
    BY ZenonT(60) DEF TypeOK
<1>1. /\ op' = [op EXCEPT ![p] = "none"]
      /\ rc' = [rc EXCEPT ![p] = "ok"]
      /\ item' = [item EXCEPT ![p] = Junk]
    BY DEF Signal, Crash, Forget
<1>2. \A q \in Procs : q # p => pc'[q] = pc[q] \/ (pc[q] = "wait" /\ pc'[q] = "relock")
    BY ZenonT(60), <1>0 DEF Signal, Crash, Goto, Waiting
<1>3. ~InHand(p)'
    BY ZenonT(60), <1>0, <1>1 DEF InHand
<1>4. \A q \in Procs : q # p => (InHand(q)' <=> InHand(q)) /\ (InHand(q) => item'[q] = item[q])
    BY ZenonT(60), <1>0, <1>1, <1>2 DEF InHand
<1>5. Taken' = [Taken EXCEPT ![p] = Junk]
    BY ZenonT(60), <1>3, <1>4, TakenBy
<1>6. Taken[p] = Junk => Taken' = Taken
    BY ZenonT(60), <1>5, TakenNow
<1> QED BY ZenonT(60), <1>5, <1>6

-----------------------------------------------------------------------------

(* The fresh queue is the empty FIFO.                                      *)
LEMMA FifoStart == Init => F!FifoInit
<1> SUFFICES ASSUME Init PROVE F!FifoInit
    OBVIOUS
<1>1. ~misordered
    BY ZenonT(60) DEF Init
<1>2. {i \in Slots : Occupied(i)} = {}
    BY ZenonT(60) DEF Init, RingInit, Occupied
<1>3. Contents = << >>
    <2>1. 1 .. Cardinality({i \in Slots : Occupied(i)}) = {}
        BY <1>2, FS_EmptySet
    <2> QED BY <2>1 DEF Contents
<1>4. Taken = [p \in Procs |-> Junk]
    BY ZenonT(60) DEF Init, Taken
<1> QED BY ZenonT(60), <1>1, <1>3, <1>4 DEF F!FifoInit

(* Every step of the queue is a step of the FIFO or invisible to it.       *)
LEMMA FifoStep ==
    ASSUME FifoIInv, FifoIInv', [Next]_vars
    PROVE  [F!FifoNext]_(F!fifoVars)
<1>0. /\ TypeOK /\ ShapeInv /\ RecoveryInv /\ CallInv /\ SlotInv /\ OutcomeInv /\ CopiedInv
      /\ TypeOK' /\ ShapeInv'
    BY ZenonT(60) DEF FifoIInv, IInv
<1> USE <1>0
<1>1. CASE misordered'
    BY ZenonT(60), <1>1 DEF F!FifoNext, F!GivenUp
<1>2. CASE ~misordered'
    <2>1. ~misordered
        BY <1>2, ZenonT(60) DEF Next, Call, Step, CallPut, CallGet, CallQsize, Lock, Recover, RecoverDone,
           Broadcast, StartPut, StartGet, FailGet, ReadQsize, GiveUp, StartWait, SpuriousWakeup,
           DeadlinePassed, Relock, WaitFailed, NextSlice, PutStep, CopyOut, GetStep, Unlock, Signal,
           Crash, history, vars
    <2>2. ASSUME Contents' = Contents, Taken' = Taken PROVE [F!FifoNext]_(F!fifoVars)
        BY ZenonT(60), <1>2, <2>1, <2>2 DEF F!fifoVars
    <2>3. ASSUME NEW p \in Procs, Signal(p) \/ Crash(p) PROVE [F!FifoNext]_(F!fifoVars)
        <3>1. Contents' = Contents
            BY <2>3, ContentsNow, ZenonT(60) DEF Signal, Crash, ring
        <3>2. CASE Taken' = Taken
            BY ZenonT(60), <2>2, <3>1, <3>2
        <3>3. CASE Taken[p] # Junk /\ Taken' = [Taken EXCEPT ![p] = Junk]
            <4>1. F!Leave(p)
                BY ZenonT(60), <1>2, <2>1, <3>1, <3>3 DEF F!Leave
            <4> QED BY ZenonT(60), <2>1, <4>1 DEF F!FifoNext
        <3> QED BY ZenonT(60), <2>3, <3>2, <3>3, TakenLeave
    <2>4. ASSUME NEW p \in Procs, PutStep(p), pc[p] = "publish" PROVE [F!FifoNext]_(F!fifoVars)
        <3>1. /\ item[p] \in Items
              /\ Len(Contents) < Depth
              /\ Contents' = Append(Contents, item[p])
            BY ZenonT(60), <1>2, <2>1, <2>4, PublishAppends
        <3>2. Taken' = Taken
            BY ZenonT(60), <2>4, TakenSame
        <3>3. F!Enqueue(item[p])
            BY ZenonT(60), <1>2, <2>1, <3>1, <3>2 DEF F!Enqueue
        <3> QED BY ZenonT(60), <2>1, <3>1, <3>3 DEF F!FifoNext
    <2>5. ASSUME NEW p \in Procs, GetStep(p), pc[p] = "release" PROVE [F!FifoNext]_(F!fifoVars)
        <3>1. /\ Contents # << >>
              /\ Head(Contents) = item[p]
              /\ Contents' = Tail(Contents)
            BY ZenonT(60), <1>2, <2>1, <2>5, ReleaseRemoves
        <3>2. Taken[p] = Junk /\ Taken' = [Taken EXCEPT ![p] = item[p]]
            BY ZenonT(60), <2>5, TakenRelease
        <3>3. F!Dequeue(p)
            BY <1>2, <2>1, <3>1, <3>2, ZenonT(60) DEF F!Dequeue
        <3> QED BY <2>1, <3>3 DEF F!FifoNext
    <2>6. ASSUME NEW p \in Procs,
                 \/ Recover(p) \/ RecoverDone(p) \/ StartPut(p) \/ StartGet(p)
                 \/ PutStep(p) /\ pc[p] # "publish"
                 \/ GetStep(p) /\ pc[p] # "release"
          PROVE  [F!FifoNext]_(F!fifoVars)
        <3>1. Contents' = Contents
            BY ZenonT(60), <1>2, <2>1, <2>6, ContentsSame
        <3>2. Taken' = Taken
            BY ZenonT(60), <2>6, TakenSame
        <3> QED BY ZenonT(60), <2>2, <3>1, <3>2
    <2>7. ASSUME NEW p \in Procs,
                 \/ Call(p) \/ Lock(p) \/ Relock(p) \/ Broadcast(p)
                 \/ FailGet(p) \/ ReadQsize(p) \/ GiveUp(p) \/ StartWait(p)
                 \/ SpuriousWakeup(p) \/ DeadlinePassed(p) \/ WaitFailed(p) \/ NextSlice(p)
                 \/ CopyOut(p) \/ Unlock(p)
          PROVE  [F!FifoNext]_(F!fifoVars)
        <3>1. UNCHANGED ring
            BY ZenonT(60), <2>7 DEF Call, CallPut, CallGet, CallQsize, Lock, Relock, Broadcast, FailGet,
               ReadQsize, GiveUp, StartWait, SpuriousWakeup, DeadlinePassed, WaitFailed, NextSlice,
               CopyOut, Unlock
        <3>2. Contents' = Contents
            BY ZenonT(60), <3>1, ContentsNow DEF ring
        <3>3. Taken' = Taken
            BY ZenonT(60), <2>7, TakenSame
        <3> QED BY <2>2, <3>2, <3>3
    <2>8. CASE UNCHANGED vars
        <3>1. Contents' = Contents
            BY ZenonT(60), <2>8, ContentsNow DEF vars, ring
        <3>2. Taken' = Taken
            BY ZenonT(60), <2>8, TakenKept DEF vars, locals, InHand
        <3> QED BY ZenonT(60), <2>2, <3>1, <3>2
    <2> QED BY ZenonT(60), <2>3, <2>4, <2>5, <2>6, <2>7, <2>8, MayCrashAssumption DEF Next, Step
<1> QED BY ZenonT(60), <1>1, <1>2

(* Queue implements the bounded FIFO for every depth, every finite set of  *)
(* processes and every pattern of crashes, until a recovery meets wrapped  *)
(* contents: items enter whole at the end, each is taken by one get, the   *)
(* oldest first, and a recovery neither loses nor repeats one.             *)
THEOREM QueueImplementsFifo == Spec => ImplementsFifo
<1>1. Init => FifoIInv
    BY ZenonT(60), FifoInvStart
<1>2. FifoIInv /\ [Next]_vars => FifoIInv'
    BY FifoInvStep
<1>3. Init => F!FifoInit
    BY ZenonT(60), FifoStart
<1>4. FifoIInv /\ FifoIInv' /\ [Next]_vars => [F!FifoNext]_(F!fifoVars)
    BY FifoStep
<1> QED BY <1>1, <1>2, <1>3, <1>4, PTL DEF Spec, ImplementsFifo, F!FifoSpec
=============================================================================
