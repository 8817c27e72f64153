-------------------------- MODULE FutexQueueProofs --------------------------
(***************************************************************************)
(* Proofs about FutexQueue for every depth, every set of processes and     *)
(* threads and every pattern of deaths.                                    *)
(***************************************************************************)
EXTENDS FutexQueue, RingProofs

(* put_lock excludes: the thread inside the critical section is its owner. *)
LockInv == \A t \in Threads : pc[t] \in Holding <=> owner = t

(* The method a thread is in, by where it is, and what the owner knows     *)
(* about count while it works on a slot.                                   *)
CallInv ==
    \A t \in Threads :
       /\ pc[t] \in PutSteps => op[t] = "put" /\ count < Depth
       /\ pc[t] \in GetSteps => op[t] = "get" /\ count > 0
       /\ pc[t] \in WaitSteps => op[t] \in {"put", "get"}

(* The progress of a recovery: nobody works on the ring, and nobody        *)
(* unlocks, while the mutex is marked.                                     *)
RecoveryInv ==
    /\ ownerDead => owner = Nobody \/ pc[owner] \in RecoverySteps
    /\ cursor # 0 => owner # Nobody /\ pc[owner] = "recover"
    /\ \A t \in Threads :
          /\ pc[t] \in RecoverySteps => ownerDead
          /\ pc[t] = "recover" =>
                \A i \in Slots : i < cursor => state[i] \in {"READY", "EMPTY"}

(* The shape of the ring when its owner is at l, from what it did last.    *)
ShapeAt(l) ==
    /\ l \in {"regil", "check", "add", "unlock", "announce"} => Settled
    /\ l \in {"copyBegin", "copyEnd", "publish"} => PutReserved
    /\ l = "putAdvance" => Published
    /\ l = "putCount" => TailAdvanced
    /\ l \in {"copyOut", "release"} => GetReserved
    /\ l = "getAdvance" => Released
    /\ l = "getCount" => HeadAdvanced
    /\ l = "recover" => Recoverable

ShapeInv ==
    ~misordered =>
       /\ owner = Nobody /\ ~ownerDead => Settled
       /\ owner = Nobody /\ ownerDead => Recoverable
       /\ \A t \in Threads : ShapeAt(pc[t])

(* A waiter whose value is current has nothing to wait for only while the  *)
(* thread that changed that is about to add to its word, or a recovery is  *)
(* due, which will.                                                        *)
WordInv ==
    \A t \in current :
       pc[t] \in WaitSteps =>
          \/ ~CanGo(t)
          \/ ownerDead
          \/ \E u \in Threads : pc[u] = "add" /\ op[u] = Opposite(op[t])

IInv == TypeOK /\ LockInv /\ CallInv /\ RecoveryInv /\ ShapeInv /\ WordInv

-----------------------------------------------------------------------------
(* Steps of a thread that does not hold put_lock, and gets no lock by it.  *)

AwayStep(t) ==
    \/ \E m \in Modes, x \in Items : CallPut(t, m, x)
    \/ \E m \in Modes : CallGet(t, m)
    \/ CallQsize(t)
    \/ FutexWait(t) \/ SpuriousWakeup(t) \/ EndOfWait(t)
    \/ WaitFailed(t) \/ NextSlice(t) \/ Woken(t) \/ Wake(t)

(* Such a step leaves the shared memory, the words and the owner alone.    *)
LEMMA AwayFrame ==
    ASSUME TypeOK, NEW t \in Threads, AwayStep(t)
    PROVE  /\ UNCHANGED <<ring, lock, cursor, misordered, current>>
           /\ \A u \in Threads :
                 /\ pc[u] \in Holding \/ pc'[u] \in Holding => pc'[u] = pc[u] /\ op'[u] = op[u]
                 /\ pc'[u] \in WaitSteps => pc[u] \in WaitSteps /\ op'[u] = op[u]
<1> USE DEF TypeOK, Goto, Holding, PutSteps, GetSteps, RecoverySteps, WaitSteps, locals, history
<1>1. ASSUME NEW o \in Ops, NEW m \in AllModes, NEW x \in Items \cup {Junk}, Enter(t, o, m, x)
      PROVE  \A u \in Threads :
                 /\ pc[u] \in Holding \/ pc'[u] \in Holding => pc'[u] = pc[u] /\ op'[u] = op[u]
                 /\ pc'[u] \in WaitSteps => pc[u] \in WaitSteps /\ op'[u] = op[u]
    BY <1>1 DEF Enter
<1>2. CASE FutexWait(t) \/ SpuriousWakeup(t) \/ EndOfWait(t) \/ NextSlice(t)
    BY <1>2 DEF FutexWait, SpuriousWakeup, EndOfWait, NextSlice
<1>3. CASE WaitFailed(t) \/ Woken(t)
    BY <1>3 DEF WaitFailed, Woken
<1>4. CASE Wake(t)
    BY <1>4 DEF Wake, Asleep, Forget
<1>5. CASE \/ \E m \in Modes, x \in Items : CallPut(t, m, x)
           \/ \E m \in Modes : CallGet(t, m)
           \/ CallQsize(t)
    <2>1. PICK o \in Ops, m \in AllModes, x \in Items \cup {Junk} : Enter(t, o, m, x)
        BY <1>5, ModesAssumption DEF CallPut, CallGet, CallQsize, Ops, AllModes
    <2> QED BY <2>1, <1>1 DEF Enter
<1> QED BY <1>2, <1>3, <1>4, <1>5 DEF AwayStep

(* ... and it keeps the types.                                             *)
LEMMA AwayType ==
    ASSUME TypeOK, NEW t \in Threads, AwayStep(t)
    PROVE  TypeOK'
<1> USE DEF TypeOK, RingTypeOK, ring, lock, locals, history, Goto, Labels, WaitSteps
<1>1. ASSUME NEW o \in Ops, NEW m \in AllModes, NEW x \in Items \cup {Junk}, Enter(t, o, m, x)
      PROVE  TypeOK'
    BY <1>1 DEF Enter
<1>2. CASE FutexWait(t) \/ SpuriousWakeup(t) \/ EndOfWait(t) \/ NextSlice(t)
    BY <1>2 DEF FutexWait, SpuriousWakeup, EndOfWait, NextSlice
<1>3. CASE WaitFailed(t) \/ Woken(t)
    BY <1>3 DEF WaitFailed, Woken, TakeGil
<1>4. CASE Wake(t)
    BY <1>4 DEF Wake, Asleep, Forget, Ops, AllModes
<1>5. CASE \/ \E m \in Modes, x \in Items : CallPut(t, m, x)
           \/ \E m \in Modes : CallGet(t, m)
           \/ CallQsize(t)
    <2>1. PICK o \in Ops, m \in AllModes, x \in Items \cup {Junk} : Enter(t, o, m, x)
        BY <1>5, ModesAssumption DEF CallPut, CallGet, CallQsize, Ops, AllModes
    <2> QED BY <2>1, <1>1
<1> QED BY <1>2, <1>3, <1>4, <1>5 DEF AwayStep

(* A step away from the lock keeps the invariant.                          *)
LEMMA AwayInv ==
    ASSUME IInv, NEW t \in Threads, AwayStep(t)
    PROVE  IInv'
<1>0. TypeOK /\ LockInv /\ CallInv /\ RecoveryInv /\ ShapeInv /\ WordInv
    BY DEF IInv
<1> USE <1>0
<1>1. TypeOK'
    BY AwayType
<1>2. /\ UNCHANGED <<head, tail, count, state, owner, ownerDead, cursor, misordered, current>>
      /\ \A u \in Threads :
            /\ pc[u] \in Holding \/ pc'[u] \in Holding => pc'[u] = pc[u] /\ op'[u] = op[u]
            /\ pc'[u] \in WaitSteps => pc[u] \in WaitSteps /\ op'[u] = op[u]
    BY AwayFrame DEF ring, lock
<1>3. LockInv'
    BY <1>2 DEF LockInv
<1>4. CallInv'
    BY <1>2 DEF CallInv, Holding
<1>5. RecoveryInv'
    BY <1>2 DEF RecoveryInv, Holding, RecoverySteps, LockInv, TypeOK
<1>6. ShapeInv'
    BY <1>2, SameShape DEF ShapeInv, ShapeAt, Holding, PutSteps, GetSteps, RecoverySteps
<1>7. WordInv'
    BY <1>2 DEF WordInv, CanGo, Holding, TypeOK
<1> QED BY ZenonT(60), <1>1, <1>3, <1>4, <1>5, <1>6, <1>7 DEF IInv

-----------------------------------------------------------------------------
(* Steps of the owner of put_lock.                                         *)

(* put_lock has one owner, and nobody else is in the critical section.     *)
LEMMA OneOwner ==
    ASSUME LockInv, NEW t \in Threads, pc[t] \in Holding
    PROVE  owner = t /\ owner # Nobody /\ \A u \in Threads : pc[u] \in Holding => u = t
BY NobodyAssumption DEF LockInv

(* The owner goes from one place under the lock to another one, no         *)
(* recovery being due: the invariant holds on if the ring has the shape    *)
(* and count the room that the new place asks for, and no waiter has been  *)
(* passed over.                                                            *)
LEMMA OwnerStep ==
    ASSUME IInv, TypeOK', WordInv', NEW t \in Threads,
           pc[t] \in Holding \ RecoverySteps,
           NEW l \in Holding \ RecoverySteps, pc' = [pc EXCEPT ![t] = l],
           UNCHANGED <<owner, ownerDead, op, cursor, misordered>>,
           l \in PutSteps => op[t] = "put" /\ count' < Depth,
           l \in GetSteps => op[t] = "get" /\ count' > 0,
           ~misordered => ShapeAt(l)'
    PROVE  IInv'
<1>1. owner = t /\ owner # Nobody /\ \A u \in Threads : pc[u] \in Holding => u = t
    BY OneOwner DEF IInv
<1>2. /\ pc'[t] = l
      /\ \A u \in Threads : u # t => pc'[u] = pc[u] /\ pc[u] \notin Holding
    BY <1>1 DEF IInv, TypeOK
<1>3. ~ownerDead /\ cursor' = 0
    BY <1>1 DEF IInv, RecoveryInv, RecoverySteps
<1>4. LockInv'
    BY ZenonT(60), <1>1, <1>2 DEF LockInv
<1>5. CallInv'
    BY <1>2 DEF IInv, CallInv, Holding, WaitSteps, PutSteps, GetSteps, RecoverySteps
<1>6. RecoveryInv'
    BY <1>2, <1>3 DEF RecoveryInv, Holding, RecoverySteps
<1>7. ShapeInv'
    <2> SUFFICES ASSUME ~misordered', NEW u \in Threads PROVE ShapeAt(pc[u])'
        BY <1>1 DEF ShapeInv
    <2>1. CASE u = t
        BY <2>1, <1>2
    <2>2. CASE u # t
        BY <2>2, <1>2 DEF ShapeAt, Holding, PutSteps, GetSteps, RecoverySteps
    <2> QED BY <2>1, <2>2
<1> QED BY <1>4, <1>5, <1>6, <1>7 DEF IInv

(* The owner moves without a change of count or of a word, and was not     *)
(* about to add to one: no waiter is passed over.                          *)
LEMMA WordKept ==
    ASSUME IInv, NEW t \in Threads, pc[t] \in Holding, pc[t] # "add",
           NEW l \in Holding, pc' = [pc EXCEPT ![t] = l],
           UNCHANGED <<count, ownerDead, op, current>>
    PROVE  WordInv'
<1>1. pc[t] \notin WaitSteps /\ l \notin WaitSteps
    BY DEF Holding, WaitSteps, PutSteps, GetSteps, RecoverySteps
<1>2. \A u \in Threads : pc'[u] = IF u = t THEN l ELSE pc[u]
    BY DEF IInv, TypeOK
<1> QED
    BY <1>1, <1>2 DEF IInv, WordInv, CanGo, TypeOK

(* Before the first store: the loop of put, get and qsize.                 *)
LEMMA LoopInv ==
    ASSUME IInv, NEW t \in Threads,
           Regil(t) \/ FailGet(t) \/ ReadQsize(t) \/ GiveUp(t)
    PROVE  IInv'
<1>1. PICK l \in {"check", "add", "unlock"} : pc' = [pc EXCEPT ![t] = l]
    BY DEF Regil, FailGet, ReadQsize, GiveUp, Goto
<1>2. /\ pc[t] \in {"regil", "check"}
      /\ UNCHANGED <<head, tail, count, state, payload, owner, ownerDead, op, mode, item, current,
                     cursor, misordered, passedBy>>
    BY DEF Regil, FailGet, ReadQsize, GiveUp, ring, lock, locals, history
<1>3. pc[t] \in Holding \ RecoverySteps /\ l \in Holding \ RecoverySteps /\ l \notin PutSteps \cup GetSteps
    BY <1>2 DEF Holding, PutSteps, GetSteps, RecoverySteps
<1>4. TypeOK'
    <2>1. gil' \subseteq Threads /\ rc' \in [Threads -> {"ok", "timedout", "interrupted", "einval"}]
        BY DEF Regil, FailGet, ReadQsize, GiveUp, TakeGil, locals, IInv, TypeOK
    <2> QED BY ZenonT(60), <1>1, <1>2, <2>1 DEF IInv, TypeOK, RingTypeOK, Labels, Holding
<1>5. WordInv'
    BY ZenonT(60), <1>1, <1>2, <1>3, WordKept
<1>6. ~misordered => ShapeAt(l)'
    BY ZenonT(60), <1>1, <1>2, SameShape DEF IInv, ShapeInv, ShapeAt
<1> QED BY ZenonT(60), <1>1, <1>2, <1>3, <1>4, <1>5, <1>6, OwnerStep

(* The stores of put up to tail, with count as it was.                     *)
LEMMA PutInv ==
    ASSUME IInv, NEW t \in Threads, StartPut(t) \/ (PutStep(t) /\ pc[t] # "putCount")
    PROVE  IInv'
<1>0. TypeOK /\ LockInv /\ CallInv /\ RecoveryInv /\ ShapeInv /\ WordInv
    BY ZenonT(60) DEF IInv
<1> USE <1>0
<1>1. /\ pc[t] \in {"check", "copyBegin", "copyEnd", "publish", "putAdvance"}
      /\ op[t] = "put" /\ count < Depth /\ count' = count
      /\ UNCHANGED <<owner, ownerDead, gil, current, op, mode, item, rc, cursor, misordered, passedBy>>
    BY DEF StartPut, PutStep, PutReserve, PutCopyBegin, PutCopyEnd, PutPublish, PutAdvance, CallInv,
           PutSteps, lock, locals, history
<1>2. pc[t] \in Holding \ RecoverySteps
    BY <1>1 DEF Holding, PutSteps, GetSteps, RecoverySteps
<1>3. ASSUME NEW l \in PutSteps, pc' = [pc EXCEPT ![t] = l], RingTypeOK', ~misordered => ShapeAt(l)'
      PROVE  IInv'
    <2>1. l \in Holding \ RecoverySteps /\ l \notin GetSteps
        BY DEF Holding, PutSteps, GetSteps, RecoverySteps
    <2>2. TypeOK'
        BY <1>1, <1>3, <2>1 DEF TypeOK, Labels
    <2>3. WordInv'
        BY ZenonT(60), <1>1, <1>2, <1>3, <2>1, WordKept
    <2> QED BY ZenonT(60), <1>1, <1>2, <1>3, <2>1, <2>2, <2>3, OwnerStep
<1>4. CASE StartPut(t)
    <2>1. RingTypeOK'
        BY <1>4 DEF StartPut, PutReserve, SetState, SlotStates, TypeOK, RingTypeOK
    <2>2. ~misordered => ShapeAt("copyBegin")'
        BY <1>4, PutReserveShape DEF StartPut, ShapeInv, ShapeAt, TypeOK
    <2> QED BY ZenonT(60), <1>3, <1>4, <2>1, <2>2 DEF StartPut, Goto, PutSteps
<1>5. CASE pc[t] = "copyBegin" /\ PutCopyBegin /\ Goto(t, "copyEnd")
    <2>1. RingTypeOK'
        BY <1>5 DEF PutCopyBegin, TypeOK, RingTypeOK
    <2>2. ~misordered => ShapeAt("copyEnd")'
        BY <1>5, SameShape DEF PutCopyBegin, ShapeInv, ShapeAt
    <2> QED BY ZenonT(60), <1>3, <1>5, <2>1, <2>2 DEF Goto, PutSteps
<1>6. CASE pc[t] = "copyEnd" /\ PutCopyEnd(item[t]) /\ Goto(t, "publish")
    <2>1. RingTypeOK'
        BY ZenonT(60), <1>6 DEF PutCopyEnd, TypeOK, RingTypeOK
    <2>2. ~misordered => ShapeAt("publish")'
        BY <1>6, SameShape DEF PutCopyEnd, ShapeInv, ShapeAt
    <2> QED BY ZenonT(60), <1>3, <1>6, <2>1, <2>2 DEF Goto, PutSteps
<1>7. CASE pc[t] = "publish" /\ PutPublish /\ Goto(t, "putAdvance")
    <2>1. RingTypeOK'
        BY <1>7 DEF PutPublish, SetState, SlotStates, TypeOK, RingTypeOK
    <2>2. ~misordered => ShapeAt("putAdvance")'
        BY <1>7, PutPublishShape DEF ShapeInv, ShapeAt, TypeOK
    <2> QED BY ZenonT(60), <1>3, <1>7, <2>1, <2>2 DEF Goto, PutSteps
<1>8. CASE pc[t] = "putAdvance" /\ PutAdvance /\ Goto(t, "putCount")
    <2>1. RingTypeOK'
        BY ZenonT(60), <1>8, NextSlotIsPlus DEF PutAdvance, TypeOK, RingTypeOK
    <2>2. ~misordered => ShapeAt("putCount")'
        BY <1>8, PutAdvanceShape DEF ShapeInv, ShapeAt, TypeOK
    <2> QED BY ZenonT(60), <1>3, <1>8, <2>1, <2>2 DEF Goto, PutSteps
<1> QED BY ZenonT(60), <1>4, <1>5, <1>6, <1>7, <1>8 DEF PutStep

(* The stores of get up to head, with count as it was.                     *)
LEMMA GetInv ==
    ASSUME IInv, NEW t \in Threads, StartGet(t) \/ CopyOut(t) \/ (GetStep(t) /\ pc[t] # "getCount")
    PROVE  IInv'
<1>0. TypeOK /\ LockInv /\ CallInv /\ RecoveryInv /\ ShapeInv /\ WordInv
    BY ZenonT(60) DEF IInv
<1> USE <1>0
<1>1. /\ pc[t] \in {"check", "copyOut", "release", "getAdvance"}
      /\ op[t] = "get" /\ count > 0 /\ count' = count
      /\ UNCHANGED <<owner, ownerDead, gil, current, op, mode, rc, cursor, misordered, passedBy>>
      /\ item' \in [Threads -> Items \cup {Junk}]
    BY ZenonT(60) DEF StartGet, CopyOut, GetStep, GetReserve, GetRelease, GetAdvance, CallInv, GetSteps,
           lock, locals, history, ring, TypeOK, RingTypeOK
<1>2. pc[t] \in Holding \ RecoverySteps
    BY <1>1 DEF Holding, PutSteps, GetSteps, RecoverySteps
<1>3. ASSUME NEW l \in GetSteps, pc' = [pc EXCEPT ![t] = l], RingTypeOK', ~misordered => ShapeAt(l)'
      PROVE  IInv'
    <2>1. l \in Holding \ RecoverySteps /\ l \notin PutSteps
        BY ZenonT(60) DEF Holding, PutSteps, GetSteps, RecoverySteps
    <2>2. TypeOK'
        BY <1>1, <1>3, <2>1 DEF TypeOK, Labels
    <2>3. WordInv'
        BY ZenonT(60), <1>1, <1>2, <1>3, <2>1, WordKept
    <2> QED BY ZenonT(60), <1>1, <1>2, <1>3, <2>1, <2>2, <2>3, OwnerStep
<1>4. CASE StartGet(t)
    <2>1. RingTypeOK'
        BY <1>4 DEF StartGet, GetReserve, SetState, SlotStates, TypeOK, RingTypeOK
    <2>2. ~misordered => ShapeAt("copyOut")'
        BY <1>4, GetReserveShape DEF StartGet, ShapeInv, ShapeAt, TypeOK
    <2> QED BY ZenonT(60), <1>3, <1>4, <2>1, <2>2 DEF StartGet, Goto, GetSteps
<1>5. CASE CopyOut(t)
    <2>1. RingTypeOK'
        BY ZenonT(60), <1>5 DEF CopyOut, ring, TypeOK, RingTypeOK
    <2>2. ~misordered => ShapeAt("release")'
        BY <1>5, SameShape DEF CopyOut, ring, ShapeInv, ShapeAt
    <2> QED BY ZenonT(60), <1>3, <1>5, <2>1, <2>2 DEF CopyOut, Goto, GetSteps
<1>6. CASE pc[t] = "release" /\ GetRelease /\ Goto(t, "getAdvance")
    <2>1. RingTypeOK'
        BY ZenonT(60), <1>6 DEF GetRelease, SetState, SlotStates, TypeOK, RingTypeOK
    <2>2. ~misordered => ShapeAt("getAdvance")'
        BY ZenonT(60), <1>6, GetReleaseShape DEF ShapeInv, ShapeAt, TypeOK
    <2> QED BY ZenonT(60), <1>3, <1>6, <2>1, <2>2 DEF Goto, GetSteps
<1>7. CASE pc[t] = "getAdvance" /\ GetAdvance /\ Goto(t, "getCount")
    <2>1. RingTypeOK'
        BY ZenonT(60), <1>7, NextSlotIsPlus DEF GetAdvance, TypeOK, RingTypeOK
    <2>2. ~misordered => ShapeAt("getCount")'
        BY <1>7, GetAdvanceShape DEF ShapeInv, ShapeAt, TypeOK
    <2> QED BY ZenonT(60), <1>3, <1>7, <2>1, <2>2 DEF Goto, GetSteps
<1> QED BY <1>4, <1>5, <1>6, <1>7 DEF GetStep

(* The last store, to count: a waiter of the other operation may have its  *)
(* condition now, and the owner is about to add to its word.               *)
LEMMA CountInv ==
    ASSUME IInv, NEW t \in Threads,
           \/ pc[t] = "putCount" /\ PutStep(t)
           \/ pc[t] = "getCount" /\ GetStep(t)
    PROVE  IInv'
<1>0. TypeOK /\ LockInv /\ CallInv /\ RecoveryInv /\ ShapeInv /\ WordInv
    BY ZenonT(60) DEF IInv
<1> USE <1>0
<1>1. /\ pc' = [pc EXCEPT ![t] = "add"]
      /\ UNCHANGED <<owner, ownerDead, gil, current, op, mode, item, rc, cursor, misordered, passedBy>>
    BY DEF PutStep, GetStep, Goto, lock, locals, history
<1>2. /\ pc[t] \in Holding \ RecoverySteps
      /\ "add" \in Holding \ RecoverySteps
      /\ "add" \notin PutSteps \cup GetSteps \cup WaitSteps
      /\ pc[t] \notin WaitSteps
    BY DEF Holding, PutSteps, GetSteps, RecoverySteps, WaitSteps
<1>3. /\ \A u \in Threads : pc[u] \in Holding => u = t
      /\ ~ownerDead
    BY ZenonT(60), <1>2, OneOwner DEF RecoveryInv
<1>4. \A u \in current : pc[u] \in WaitSteps => ~CanGo(u)
    BY <1>2, <1>3 DEF WordInv, TypeOK, Holding
<1>5. CASE pc[t] = "putCount" /\ PutStep(t)
    <2>1. count' = count + 1 /\ count < Depth /\ op[t] = "put" /\ PutCount
        BY ZenonT(60), <1>5 DEF PutStep, PutCount, CallInv, PutSteps
    <2>2. TypeOK'
        BY <1>1, <2>1, DepthAssumption DEF PutCount, TypeOK, RingTypeOK, Labels, Holding
    <2>3. ~misordered => ShapeAt("add")'
        BY <1>5, <2>1, PutCountShape DEF ShapeInv, ShapeAt, TypeOK
    <2>4. WordInv'
        <3> SUFFICES ASSUME NEW u \in current, pc[u]' \in WaitSteps
                     PROVE  op[u] = "get" /\ pc[t]' = "add" /\ op[t]' = Opposite(op[u])'
            BY ZenonT(60), <1>1 DEF WordInv
        <3>1. u \in Threads /\ u # t /\ pc[u] \in WaitSteps /\ op[u] \in {"put", "get"}
            BY <1>1, <1>2 DEF TypeOK, CallInv
        <3>2. ~CanGo(u)
            BY ZenonT(60), <3>1, <1>4
        <3> QED BY ZenonT(60), <3>1, <3>2, <1>1, <2>1 DEF CanGo, Opposite, TypeOK
    <2> QED BY ZenonT(60), <1>1, <1>2, <2>2, <2>3, <2>4, OwnerStep
<1>6. CASE pc[t] = "getCount" /\ GetStep(t)
    <2>1. count' = count - 1 /\ count > 0 /\ op[t] = "get" /\ GetCount
        BY ZenonT(60), <1>6 DEF GetStep, GetCount, CallInv, GetSteps
    <2>2. TypeOK'
        BY <1>1, <2>1, DepthAssumption DEF GetCount, TypeOK, RingTypeOK, Labels, Holding
    <2>3. ~misordered => ShapeAt("add")'
        BY <1>6, <2>1, GetCountShape DEF ShapeInv, ShapeAt, TypeOK
    <2>4. WordInv'
        <3> SUFFICES ASSUME NEW u \in current, pc[u]' \in WaitSteps
                     PROVE  op[u] = "put" /\ pc[t]' = "add" /\ op[t]' = Opposite(op[u])'
            BY ZenonT(60), <1>1 DEF WordInv
        <3>1. u \in Threads /\ u # t /\ pc[u] \in WaitSteps /\ op[u] \in {"put", "get"}
            BY <1>1, <1>2 DEF TypeOK, CallInv
        <3>2. ~CanGo(u)
            BY <3>1, <1>4
        <3> QED BY ZenonT(60), <3>1, <3>2, <1>1, <2>1 DEF CanGo, Opposite, TypeOK
    <2> QED BY ZenonT(60), <1>1, <1>2, <2>2, <2>3, <2>4, OwnerStep
<1> QED BY <1>5, <1>6

(* posixipc_futex_add: the waiters whose condition may hold now are those  *)
(* of the word that moves.                                                 *)
LEMMA AddInv ==
    ASSUME IInv, NEW t \in Threads, Add(t)
    PROVE  IInv'
<1>0. TypeOK /\ LockInv /\ CallInv /\ RecoveryInv /\ ShapeInv /\ WordInv
    BY ZenonT(60) DEF IInv
<1> USE <1>0
<1>1. /\ pc[t] = "add" /\ pc' = [pc EXCEPT ![t] = "unlock"]
      /\ current' = {u \in current : op[u] # Opposite(op[t])}
      /\ UNCHANGED <<head, tail, count, state, payload, owner, ownerDead, gil, op, mode, item, rc,
                     cursor, misordered, passedBy>>
    BY DEF Add, FutexAdd, Goto, ring, lock, locals, history
<1>2. /\ pc[t] \in Holding \ RecoverySteps
      /\ "unlock" \in Holding \ RecoverySteps
      /\ "unlock" \notin PutSteps \cup GetSteps \cup WaitSteps
    BY ZenonT(60), <1>1 DEF Holding, PutSteps, GetSteps, RecoverySteps, WaitSteps
<1>3. TypeOK'
    BY ZenonT(60), <1>1, <1>2 DEF TypeOK, RingTypeOK, Labels
<1>4. ~misordered => ShapeAt("unlock")'
    BY <1>1, SameShape DEF ShapeInv, ShapeAt
<1>5. WordInv'
    <2> SUFFICES ASSUME NEW u \in current', pc[u]' \in WaitSteps
                 PROVE  CanGo(u)' => ownerDead'
        BY ZenonT(60) DEF WordInv
    <2>1. /\ u \in current /\ u \in Threads /\ op[u] # Opposite(op[t])
          /\ pc[u] \in WaitSteps /\ op[u] \in {"put", "get"}
        BY ZenonT(60), <1>1, <1>2 DEF TypeOK, CallInv, WaitSteps
    <2>2. \A v \in Threads : pc[v] = "add" => v = t
        BY <1>2, OneOwner DEF Holding
    <2>3. Opposite(op[u]) = op[t] => op[u] = Opposite(op[t])
        BY ZenonT(60), <2>1 DEF Opposite
    <2>4. CanGo(u) => ownerDead
        BY ZenonT(60), <2>1, <2>2, <2>3 DEF WordInv
    <2> QED BY ZenonT(60), <2>1, <2>4, <1>1 DEF CanGo
<1> QED BY ZenonT(60), <1>1, <1>2, <1>3, <1>4, <1>5, OwnerStep

-----------------------------------------------------------------------------
(* put_lock changes hands.                                                 *)

(* fq_lock on entry and at the end of fq_wait_word: the ring is at rest,   *)
(* or the new owner is sent to recover it.                                 *)
LEMMA LockingInv ==
    ASSUME IInv, NEW t \in Threads, Lock(t) \/ Relock(t)
    PROVE  IInv'
<1>0. TypeOK /\ LockInv /\ CallInv /\ RecoveryInv /\ ShapeInv /\ WordInv
    BY ZenonT(60) DEF IInv
<1> USE <1>0
<1>1. PICK l \in {"regil", "check", "unlock"} :
         /\ pc' = [pc EXCEPT ![t] = IF ownerDead THEN "recover" ELSE l]
         /\ pc[t] \in {"lock", "relock"}
         /\ owner = Nobody /\ owner' = t
         /\ current' \in {current, current \ {t}}
         /\ passedBy' \subseteq passedBy
         /\ UNCHANGED <<head, tail, count, state, payload, ownerDead, gil, op, mode, item, rc,
                        cursor, misordered>>
    BY ZenonT(60) DEF Lock, Relock, TakeLock, AfterWait, Goto, ring, lock, locals, history
<1> DEFINE to == IF ownerDead THEN "recover" ELSE l
<1>2. to \in Holding /\ pc[t] \notin Holding /\ to \notin WaitSteps /\ (to \in RecoverySteps <=> ownerDead)
      /\ to \notin PutSteps /\ to \notin GetSteps
    BY ZenonT(60), <1>1 DEF Holding, PutSteps, GetSteps, RecoverySteps, WaitSteps
<1>3. /\ pc'[t] = to
      /\ \A u \in Threads : u # t => pc'[u] = pc[u]
      /\ \A u \in Threads : pc[u] \notin Holding
    BY ZenonT(60), <1>1, NobodyAssumption DEF TypeOK, LockInv
<1>4. to \in {"recover", "regil", "check", "unlock"} /\ (to = "recover" <=> ownerDead)
    BY ZenonT(60), <1>1
<1> HIDE DEF to
<1>5. TypeOK'
    BY ZenonT(60), <1>1, <1>2 DEF TypeOK, RingTypeOK, Labels, to
<1>6. LockInv'
    BY ZenonT(60), <1>1, <1>2, <1>3 DEF LockInv
<1>7. CallInv'
    BY ZenonT(60), <1>1, <1>2, <1>3 DEF CallInv
<1>8. RecoveryInv'
    <2>1. \A u \in Threads : pc'[u] \in RecoverySteps => u = t /\ ownerDead
        BY ZenonT(60), <1>2, <1>3 DEF Holding
    <2>2. cursor' = 0
        BY <1>1 DEF RecoveryInv
    <2>3. \A i \in Slots : ~(i < cursor')
        BY <2>2 DEF Slots
    <2> QED BY ZenonT(60), <1>1, <1>2, <1>3, <2>1, <2>2, <2>3 DEF RecoveryInv
<1>9. ShapeInv'
    <2> SUFFICES ASSUME ~misordered', NEW u \in Threads PROVE ShapeAt(pc[u])'
        BY <1>1, NobodyAssumption DEF ShapeInv
    <2>1. CASE u = t
        BY ZenonT(60), <2>1, <1>1, <1>3, <1>4, SameShape DEF ShapeInv, ShapeAt
    <2>2. CASE u # t
        BY ZenonT(60), <2>2, <1>3 DEF ShapeAt, Holding, PutSteps, GetSteps, RecoverySteps
    <2> QED BY ZenonT(60), <2>1, <2>2
<1>10. WordInv'
    <2> SUFFICES ASSUME NEW u \in current', pc[u]' \in WaitSteps
                 PROVE  CanGo(u)' => ownerDead'
        BY ZenonT(60) DEF WordInv
    <2>1. u \in current /\ u \in Threads /\ pc[u] \in WaitSteps
        BY ZenonT(60), <1>1, <1>2, <1>3 DEF TypeOK
    <2>2. \A v \in Threads : pc[v] # "add"
        BY <1>3 DEF Holding
    <2> QED BY ZenonT(60), <2>1, <2>2, <1>1 DEF WordInv, CanGo
<1> QED BY ZenonT(60), <1>5, <1>6, <1>7, <1>8, <1>9, <1>10 DEF IInv

(* StartWait and unlock: put_lock is given up with the ring at rest.       *)
LEMMA ReleaseInv ==
    ASSUME IInv, NEW t \in Threads, StartWait(t) \/ Unlock(t)
    PROVE  IInv'
<1>0. TypeOK /\ LockInv /\ CallInv /\ RecoveryInv /\ ShapeInv /\ WordInv
    BY DEF IInv
<1> USE <1>0
<1>1. /\ pc[t] \in {"check", "unlock"} /\ owner' = Nobody
      /\ UNCHANGED <<head, tail, count, state, payload, ownerDead, cursor, misordered, passedBy>>
    BY ZenonT(60) DEF StartWait, Unlock, ring, locals, history
<1>2. /\ pc'[t] \in {"sleep", "wake", "idle"}
      /\ \A u \in Threads : u # t => pc'[u] = pc[u] /\ op'[u] = op[u]
    BY DEF StartWait, Unlock, Goto, Forget, locals, TypeOK
<1>3. TypeOK'
    <2>1. CASE StartWait(t)
        BY ZenonT(60), <2>1, <1>1 DEF StartWait, Goto, locals, TypeOK, RingTypeOK, Labels, WaitSteps
    <2>2. CASE Unlock(t)
        BY <2>2, <1>1 DEF Unlock, Goto, Forget, locals, TypeOK, RingTypeOK, Labels, Ops, AllModes
    <2> QED BY ZenonT(60), <2>1, <2>2
<1>4. /\ pc[t] \in Holding /\ pc[t] \notin RecoverySteps
      /\ pc'[t] \notin Holding
    BY ZenonT(60), <1>1, <1>2 DEF Holding, PutSteps, GetSteps, RecoverySteps
<1>5. /\ owner = t /\ ~ownerDead /\ cursor = 0
      /\ \A u \in Threads : pc'[u] \notin Holding
    BY ZenonT(60), <1>1, <1>2, <1>4, OneOwner DEF RecoveryInv, RecoverySteps
<1>6. LockInv'
    BY ZenonT(60), <1>1, <1>5, NobodyAssumption DEF LockInv
<1>7. CallInv'
    <2>1. pc'[t] \in WaitSteps => op'[t] \in {"put", "get"}
        BY ZenonT(60), <1>1 DEF StartWait, Unlock, Goto, Forget, locals, TypeOK, WaitSteps
    <2> QED BY <1>1, <1>2, <1>5, <2>1 DEF CallInv, Holding
<1>8. RecoveryInv'
    BY ZenonT(60), <1>1, <1>5 DEF RecoveryInv, Holding, RecoverySteps
<1>9. ShapeInv'
    <2>1. ~misordered => Settled'
        BY ZenonT(60), <1>1, SameShape DEF ShapeInv, ShapeAt
    <2>2. \A u \in Threads : ShapeAt(pc[u])'
        BY <1>5 DEF ShapeAt, Holding, PutSteps, GetSteps, RecoverySteps
    <2> QED BY ZenonT(60), <1>1, <1>5, <2>1, <2>2 DEF ShapeInv
<1>10. WordInv'
    <2> SUFFICES ASSUME NEW u \in current', pc[u]' \in WaitSteps PROVE ~CanGo(u)'
        BY DEF WordInv
    <2>1. u \in Threads
        BY <1>3 DEF TypeOK
    <2>2. CASE u = t
        BY ZenonT(60), <2>2, <1>1 DEF StartWait, Unlock, Goto, CanGo, locals, TypeOK, WaitSteps
    <2>3. CASE u # t
        <3>1. u \in current /\ pc[u] \in WaitSteps
            <4>1. current' \subseteq current \cup {t}
                BY ZenonT(60) DEF StartWait, Unlock
            <4> QED BY ZenonT(60), <2>1, <2>3, <1>2, <4>1
        <3>2. \A v \in Threads : pc[v] # "add"
            BY ZenonT(60), <1>1, <1>4, OneOwner DEF Holding
        <3> QED BY ZenonT(60), <2>1, <2>3, <3>1, <3>2, <1>1, <1>2, <1>5 DEF WordInv, CanGo
    <2> QED BY ZenonT(60), <2>2, <2>3
<1> QED BY ZenonT(60), <1>3, <1>6, <1>7, <1>8, <1>9, <1>10 DEF IInv

-----------------------------------------------------------------------------
(* Recovery and death.                                                     *)

(* A thread at a step of the recovery is the owner, and the mutex is       *)
(* marked, so no waiter is owed anything yet.                              *)
LEMMA Recovering ==
    ASSUME IInv, NEW t \in Threads, pc[t] \in RecoverySteps
    PROVE  /\ owner = t /\ owner # Nobody /\ ownerDead
           /\ \A u \in Threads : u # t => pc[u] \notin Holding
BY OneOwner DEF IInv, RecoveryInv, Holding

(* A header of the pass of posixipc_queue_recover.                         *)
LEMMA RecoverInv ==
    ASSUME IInv, NEW t \in Threads, Recover(t)
    PROVE  IInv'
<1>0. TypeOK /\ LockInv /\ CallInv /\ RecoveryInv /\ ShapeInv /\ WordInv
    BY DEF IInv
<1> USE <1>0
<1>1. /\ pc[t] = "recover" /\ cursor < Depth /\ cursor' = cursor + 1 /\ RecoverSlot(cursor)
      /\ UNCHANGED <<head, tail, count, payload, owner, ownerDead, gil, current, pc, op, mode, item,
                     rc, misordered, passedBy>>
    BY DEF Recover, RecoverSlot, lock, locals, history
<1>2. /\ owner = t /\ owner # Nobody /\ ownerDead
      /\ \A u \in Threads : u # t => pc[u] \notin Holding
    BY ZenonT(60), <1>1, Recovering DEF RecoverySteps
<1>3. cursor \in Slots
    BY <1>1, DepthAssumption DEF TypeOK, Slots
<1>4. /\ RecoveredState(state[cursor]) \in {"READY", "EMPTY"}
      /\ state' = [state EXCEPT ![cursor] = RecoveredState(state[cursor])]
    BY <1>1 DEF RecoveredState, RecoverSlot, SetState
<1>5. RingTypeOK'
    BY ZenonT(60), <1>1, <1>4 DEF TypeOK, RingTypeOK, SlotStates
<1>6. TypeOK'
    <2>1. cursor' \in 0 .. Depth
        BY <1>1, DepthAssumption DEF TypeOK
    <2> QED BY ZenonT(60), <1>1, <1>5, <2>1 DEF TypeOK
<1>7. LockInv' /\ CallInv' /\ WordInv'
    BY ZenonT(60), <1>1, <1>2 DEF LockInv, CallInv, WordInv
<1>8. RecoveryInv'
    <2>1. \A i \in Slots : i < cursor' => state'[i] \in {"READY", "EMPTY"}
        <3> SUFFICES ASSUME NEW i \in Slots, i < cursor' PROVE state'[i] \in {"READY", "EMPTY"}
            OBVIOUS
        <3>1. i < cursor \/ i = cursor
            BY <1>1, <1>3 DEF Slots
        <3> QED BY ZenonT(60), <3>1, <1>1, <1>3, <1>4 DEF RecoveryInv, TypeOK, RingTypeOK
    <2> QED BY ZenonT(60), <1>1, <1>2, <2>1 DEF RecoveryInv, RecoverySteps
<1>9. ShapeInv'
    <2>1. ~misordered => Recoverable'
        BY <1>1, <1>3, RecoverSlotShape DEF ShapeInv, ShapeAt, TypeOK
    <2> QED BY ZenonT(60), <1>1, <1>2, <2>1 DEF ShapeInv, ShapeAt, Holding, PutSteps, GetSteps, RecoverySteps
<1> QED BY ZenonT(60), <1>6, <1>7, <1>8, <1>9 DEF IInv

(* The control words: from the headers, a resting ring is restored unless  *)
(* the contents were wrapped, and always from an empty one.                *)
LEMMA RecoverDoneInv ==
    ASSUME IInv, NEW t \in Threads, RecoverDone(t)
    PROVE  IInv'
<1>0. TypeOK /\ LockInv /\ CallInv /\ RecoveryInv /\ ShapeInv /\ WordInv
    BY DEF IInv
<1> USE <1>0
<1>1. /\ pc[t] = "recover" /\ cursor = Depth /\ RecoverCtrl /\ cursor' = 0
      /\ pc' = [pc EXCEPT ![t] = "announce"]
      /\ misordered' = (ReadySlots # {} /\ (misordered \/ Wrapped))
      /\ UNCHANGED <<state, owner, ownerDead, gil, current, op, mode, item, rc, passedBy>>
    BY ZenonT(60) DEF RecoverDone, Goto, RecoverCtrl, lock, locals
<1>2. /\ owner = t /\ owner # Nobody /\ ownerDead
      /\ \A u \in Threads : u # t => pc[u] \notin Holding
    BY <1>1, Recovering DEF RecoverySteps
<1>3. /\ pc'[t] = "announce"
      /\ \A u \in Threads : u # t => pc'[u] = pc[u]
    BY ZenonT(60), <1>1 DEF TypeOK
<1>4. TypeOK'
    <2>1. RingTypeOK'
        BY ZenonT(60), <1>1, RecoverCtrlType DEF TypeOK
    <2>2. cursor' \in 0 .. Depth
        BY <1>1, DepthAssumption
    <2>3. misordered' \in BOOLEAN
        BY <1>1, Zenon
    <2>4. pc' \in [Threads -> Labels]
        BY ZenonT(60), <1>1 DEF TypeOK, Labels, Holding, RecoverySteps
    <2> QED BY ZenonT(60), <1>1, <2>1, <2>2, <2>3, <2>4 DEF TypeOK
<1>5. LockInv'
    BY ZenonT(60), <1>1, <1>2, <1>3 DEF LockInv, Holding, RecoverySteps
<1>6. CallInv'
    BY ZenonT(60), <1>1, <1>2, <1>3 DEF CallInv, Holding, PutSteps, GetSteps, WaitSteps
<1>7. RecoveryInv'
    BY ZenonT(60), <1>1, <1>2, <1>3 DEF RecoveryInv, RecoverySteps, Holding
<1>8. WordInv'
    BY ZenonT(60), <1>1, <1>2 DEF WordInv
<1>9. ~misordered' => Settled'
    <2>1. \A i \in Slots : state[i] \in {"READY", "EMPTY"}
        BY <1>1, DepthAssumption DEF RecoveryInv, Slots
    <2>2. CASE ReadySlots = {}
        <3>1. count' = 0 /\ head' = 0 /\ tail' = 0
            BY ZenonT(60), <2>2, <1>1, FS_EmptySet DEF RecoverCtrl
        <3>2. \A i \in Slots : state'[i] = "EMPTY"
            BY ZenonT(60), <2>1, <2>2, <1>1 DEF ReadySlots
        <3> QED BY <3>1, <3>2, DepthAssumption DEF Settled, RunReady, Plus, InRun, Slots
    <2>3. CASE ReadySlots # {}
        <3> SUFFICES ASSUME ~misordered' PROVE Settled'
            OBVIOUS
        <3>1. ~misordered /\ ~Wrapped
            BY <2>3, <1>1, Zenon
        <3>2. RingTypeOK /\ Recoverable
            BY ZenonT(60), <3>1, <1>1 DEF ShapeInv, ShapeAt, TypeOK
        <3> QED BY ZenonT(60), <3>1, <3>2, <2>1, <1>1, RecoverCtrlShape
    <2> QED BY ZenonT(60), <2>2, <2>3
<1>10. ShapeInv'
    BY <1>1, <1>2, <1>3, <1>9 DEF ShapeInv, ShapeAt, Holding, PutSteps, GetSteps, RecoverySteps
<1> QED BY ZenonT(60), <1>4, <1>5, <1>6, <1>7, <1>8, <1>10 DEF IInv

(* pthread_mutex_consistent, an addition to both words and a wake for all. *)
LEMMA AnnounceInv ==
    ASSUME IInv, NEW t \in Threads, Announce(t)
    PROVE  IInv'
<1>0. TypeOK /\ LockInv /\ CallInv /\ RecoveryInv /\ ShapeInv /\ WordInv
    BY DEF IInv
<1> USE <1>0
<1>1. /\ pc[t] = "announce" /\ ~ownerDead' /\ current' = {} /\ passedBy' = {}
      /\ UNCHANGED <<head, tail, count, state, payload, owner, gil, op, mode, item, rc, cursor,
                     misordered>>
    BY ZenonT(60) DEF Announce, ring, locals
<1>2. /\ owner = t /\ owner # Nobody /\ ownerDead /\ cursor = 0
      /\ \A u \in Threads : u # t => pc[u] \notin Holding
    BY ZenonT(60), <1>1, Recovering DEF RecoverySteps, RecoveryInv
<1>3. /\ pc'[t] \in {"check", "unlock", "regil"}
      /\ \A u \in Threads : u # t => pc'[u] = pc[u] \/ pc'[u] = "woken"
    BY DEF Announce, AfterWait
<1>4. TypeOK'
    <2>1. pc' \in [Threads -> Labels]
        BY DEF Announce, AfterWait, TypeOK, Labels, Holding
    <2>2. ownerDead' \in BOOLEAN
        BY ZenonT(60) DEF Announce
    <2> QED BY ZenonT(60), <1>1, <2>1, <2>2 DEF TypeOK, RingTypeOK
<1>5. \A u \in Threads : pc'[u] \in Holding <=> u = t
    BY ZenonT(60), <1>2, <1>3 DEF Holding, PutSteps, GetSteps, RecoverySteps
<1>6. LockInv'
    BY ZenonT(60), <1>1, <1>2, <1>5 DEF LockInv
<1>7. CallInv'
    BY <1>1, <1>3 DEF CallInv, PutSteps, GetSteps, WaitSteps
<1>8. RecoveryInv'
    BY ZenonT(60), <1>1, <1>2, <1>3, <1>5 DEF RecoveryInv, Holding, RecoverySteps
<1>9. ShapeInv'
    <2>1. ~misordered => Settled'
        BY <1>1, SameShape DEF ShapeInv, ShapeAt
    <2>2. \A u \in Threads : u # t => ShapeAt(pc[u])'
        BY ZenonT(60), <1>5 DEF ShapeAt, Holding, PutSteps, GetSteps, RecoverySteps
    <2>3. ~misordered => ShapeAt(pc[t])'
        BY ZenonT(60), <2>1, <1>3 DEF ShapeAt
    <2> QED BY ZenonT(60), <1>1, <1>2, <2>1, <2>2, <2>3 DEF ShapeInv
<1>10. WordInv'
    BY <1>1 DEF WordInv
<1> QED BY ZenonT(60), <1>4, <1>6, <1>7, <1>8, <1>9, <1>10 DEF IInv

(* A process is killed.  If one of its threads held put_lock, the ring is  *)
(* left in a shape that can be recovered.                                  *)
LEMMA CrashInv ==
    ASSUME IInv, NEW P \in MayCrash, Crash(P)
    PROVE  IInv'
<1>0. TypeOK /\ LockInv /\ CallInv /\ RecoveryInv /\ ShapeInv /\ WordInv
    BY DEF IInv
<1> USE <1>0
<1>1. P \subseteq Threads
    BY ZenonT(60), MayCrashAssumption, ProcessesAssumption
<1>2. /\ UNCHANGED <<head, tail, count, state, payload, misordered>>
      /\ current' = current \ P
      /\ \A u \in Threads : u \in P => pc'[u] = "idle"
      /\ \A u \in Threads : u \notin P => pc'[u] = pc[u] /\ op'[u] = op[u]
    BY ZenonT(60) DEF Crash, Forget, ring
<1>3. \/ owner \in P /\ owner' = Nobody /\ ownerDead' = TRUE /\ cursor' = 0
      \/ owner \notin P /\ UNCHANGED <<owner, ownerDead, cursor>>
    BY DEF Crash, lock
<1>4. TypeOK'
    <2>1. /\ pc' \in [Threads -> Labels]
          /\ op' \in [Threads -> Ops]
          /\ mode' \in [Threads -> AllModes]
          /\ item' \in [Threads -> Items \cup {Junk}]
          /\ rc' \in [Threads -> {"ok", "timedout", "interrupted", "einval"}]
        BY SMTT(60), ZenonT(60) DEF Crash, Forget, TypeOK, Labels, Ops, AllModes
    <2>2. /\ gil' \subseteq Threads
          /\ passedBy' \subseteq Threads
          /\ current' \subseteq Threads
        BY DEF Crash, LosesWake, TypeOK
    <2>3. owner' \in Threads \cup {Nobody} /\ ownerDead' \in BOOLEAN
        BY <1>3, Zenon DEF TypeOK
    <2>4. cursor' \in 0 .. Depth
        BY <1>3, DepthAssumption DEF TypeOK
    <2> QED BY ZenonT(60), <1>2, <2>1, <2>2, <2>3, <2>4 DEF TypeOK, RingTypeOK
<1>5. "idle" \notin Holding /\ "idle" \notin WaitSteps
    BY ZenonT(60) DEF Holding, PutSteps, GetSteps, RecoverySteps, WaitSteps
<1>6. CASE owner \in P
    <2>1. /\ owner' = Nobody /\ ownerDead' /\ cursor' = 0
          /\ \A u \in Threads : pc'[u] \notin Holding
        BY ZenonT(60), <1>2, <1>3, <1>5, <1>6 DEF LockInv
    <2>2. LockInv'
        BY ZenonT(60), <2>1, NobodyAssumption DEF LockInv
    <2>3. CallInv'
        BY ZenonT(60), <2>1, <1>2, <1>5 DEF CallInv, Holding
    <2>4. RecoveryInv'
        BY ZenonT(60), <2>1 DEF RecoveryInv, Holding, RecoverySteps
    <2>5. ShapeInv'
        <3>1. PICK t \in Threads : owner = t /\ pc[t] \in Holding
            BY <1>1, <1>6 DEF LockInv
        <3>2. ~misordered => Recoverable
            BY ZenonT(60), <3>1, PutCrashShape, GetCrashShape
               DEF ShapeInv, ShapeAt, TypeOK, Holding, PutSteps, GetSteps, RecoverySteps
        <3>3. ~misordered => Recoverable'
            BY ZenonT(60), <3>2, <1>2, SameShape
        <3>4. \A u \in Threads : ShapeAt(pc[u])'
            BY ZenonT(60), <2>1 DEF ShapeAt, Holding, PutSteps, GetSteps, RecoverySteps
        <3> QED BY ZenonT(60), <3>3, <3>4, <2>1, <1>2 DEF ShapeInv
    <2>6. WordInv'
        BY ZenonT(60), <2>1 DEF WordInv
    <2> QED BY ZenonT(60), <1>4, <2>2, <2>3, <2>4, <2>5, <2>6 DEF IInv
<1>7. CASE owner \notin P
    <2>1. /\ UNCHANGED <<owner, ownerDead, cursor>>
          /\ \A u \in Threads : u \in P => pc[u] \notin Holding
        BY ZenonT(60), <1>3, <1>7 DEF LockInv
    <2>2. \A u \in Threads : pc[u] \in Holding \/ pc'[u] \in Holding => u \notin P
        BY ZenonT(60), <2>1, <1>2, <1>5
    <2>3. LockInv'
        BY ZenonT(60), <2>1, <2>2, <1>2 DEF LockInv
    <2>4. CallInv'
        BY ZenonT(60), <1>2, <1>5, <2>2 DEF CallInv, Holding
    <2>5. RecoveryInv'
        BY ZenonT(60), <2>1, <2>2, <1>2 DEF RecoveryInv, LockInv, TypeOK, Holding, RecoverySteps
    <2>6. ShapeInv'
        <3>1. \A u \in Threads : u \in P => ShapeAt(pc[u])'
            BY ZenonT(60), <2>2, <1>2, <1>5 DEF ShapeAt
        <3>2. ~misordered => \A u \in Threads : u \notin P => ShapeAt(pc[u])'
            <4> SUFFICES ASSUME ~misordered, NEW u \in Threads, u \notin P PROVE ShapeAt(pc[u])'
                BY ZenonT(60)
            <4>1. ShapeAt(pc[u]) /\ pc'[u] = pc[u]
                BY <1>2 DEF ShapeInv
            <4> QED BY ZenonT(60), <4>1, <1>2, SameShape DEF ShapeAt
        <3> QED BY ZenonT(60), <3>1, <3>2, <1>2, <2>1, SameShape DEF ShapeInv
    <2>7. WordInv'
        <3> SUFFICES ASSUME NEW u \in current', pc[u]' \in WaitSteps, CanGo(u)', ~ownerDead'
                     PROVE  \E v \in Threads : pc[v]' = "add" /\ op[v]' = Opposite(op[u])'
            BY ZenonT(60) DEF WordInv
        <3>1. u \in current /\ u \in Threads /\ u \notin P
            BY ZenonT(60), <1>2 DEF TypeOK
        <3>2. pc[u] \in WaitSteps /\ CanGo(u) /\ ~ownerDead /\ op'[u] = op[u]
            BY ZenonT(60), <3>1, <1>2, <2>1 DEF CanGo
        <3>3. PICK v \in Threads : pc[v] = "add" /\ op[v] = Opposite(op[u])
            BY ZenonT(60), <3>1, <3>2 DEF WordInv
        <3>4. v \notin P
            BY ZenonT(60), <3>3, <2>2 DEF Holding
        <3> QED BY ZenonT(60), <3>2, <3>3, <3>4, <1>2 DEF Opposite
    <2> QED BY ZenonT(60), <1>4, <2>3, <2>4, <2>5, <2>6, <2>7 DEF IInv
<1> QED BY <1>6, <1>7

-----------------------------------------------------------------------------
(* The invariant holds initially.                                          *)
LEMMA InitIInv == Init => IInv
<1> SUFFICES ASSUME Init PROVE IInv
    OBVIOUS
<1> USE DEF Init, RingInit
<1>1. TypeOK
    <2>1. RingTypeOK
        BY DepthAssumption DEF RingTypeOK, Slots, SlotStates
    <2>2. cursor \in 0 .. Depth
        BY DepthAssumption
    <2>3. /\ pc \in [Threads -> Labels]
          /\ op \in [Threads -> Ops]
          /\ mode \in [Threads -> AllModes]
          /\ item \in [Threads -> Items \cup {Junk}]
          /\ rc \in [Threads -> {"ok", "timedout", "interrupted", "einval"}]
        BY ZenonT(60) DEF Ops, AllModes, Labels
    <2> QED BY <2>1, <2>2, <2>3, Zenon DEF TypeOK
<1>2. LockInv /\ CallInv /\ RecoveryInv /\ WordInv
    BY ZenonT(60), NobodyAssumption
       DEF LockInv, CallInv, RecoveryInv, WordInv, Holding, PutSteps, GetSteps, WaitSteps, RecoverySteps
<1>3. ShapeInv
    <2>1. Settled
        BY DepthAssumption DEF Settled, RunReady, Plus, InRun, Slots
    <2> QED BY ZenonT(60), <2>1 DEF ShapeInv, ShapeAt
<1> QED BY ZenonT(60), <1>1, <1>2, <1>3 DEF IInv

(* The invariant is inductive.                                             *)
LEMMA NextIInv == IInv /\ [Next]_vars => IInv'
<1> SUFFICES ASSUME IInv, [Next]_vars PROVE IInv'
    OBVIOUS
<1>1. CASE UNCHANGED vars
    <2>1. UNCHANGED <<head, tail, count, state, payload, owner, ownerDead, gil, current, pc, op, mode,
                      item, rc, cursor, misordered, passedBy>>
        BY ZenonT(60), <1>1 DEF vars, ring, lock, locals, history
    <2>2. (TypeOK /\ LockInv /\ CallInv /\ RecoveryInv /\ WordInv)'
        BY ZenonT(60), <2>1 DEF IInv, TypeOK, RingTypeOK, LockInv, CallInv, RecoveryInv, WordInv, CanGo
    <2>3. ShapeInv'
        BY <2>1, SameShape DEF IInv, ShapeInv, ShapeAt
    <2> QED BY <2>2, <2>3 DEF IInv
<1>2. ASSUME NEW t \in Threads, AwayStep(t) PROVE IInv'
    BY ZenonT(60), <1>2, AwayInv
<1>3. ASSUME NEW t \in Threads, Step(t) PROVE IInv'
    <2>1. CASE FutexWait(t) \/ DeadlinePassed(t) \/ WaitFailed(t) \/ NextSlice(t) \/ Woken(t) \/ Wake(t)
        BY ZenonT(60), <2>1, <1>2 DEF AwayStep, DeadlinePassed
    <2>2. CASE Lock(t) \/ Relock(t)
        BY ZenonT(60), <2>2, LockingInv
    <2>3. CASE Regil(t) \/ FailGet(t) \/ ReadQsize(t) \/ GiveUp(t)
        BY ZenonT(60), <2>3, LoopInv
    <2>4. CASE StartPut(t) \/ PutStep(t)
        BY ZenonT(60), <2>4, PutInv, CountInv
    <2>5. CASE StartGet(t) \/ CopyOut(t) \/ GetStep(t)
        BY ZenonT(60), <2>5, GetInv, CountInv
    <2>6. CASE Add(t)
        BY ZenonT(60), <2>6, AddInv
    <2>7. CASE StartWait(t) \/ Unlock(t)
        BY <2>7, ReleaseInv
    <2>8. CASE Recover(t) \/ RecoverDone(t) \/ Announce(t)
        BY ZenonT(60), <2>8, RecoverInv, RecoverDoneInv, AnnounceInv
    <2> QED BY ZenonT(60), <1>3, <2>1, <2>2, <2>3, <2>4, <2>5, <2>6, <2>7, <2>8 DEF Step
<1>4. ASSUME NEW t \in Threads, Outside(t) PROVE IInv'
    BY ZenonT(60), <1>4, <1>2 DEF Outside, Call, AwayStep, Eintr
<1>5. ASSUME NEW P \in MayCrash, Crash(P) PROVE IInv'
    BY <1>5, CrashInv
<1> QED BY ZenonT(60), <1>1, <1>3, <1>4, <1>5 DEF Next

(* IInv holds in every reachable state of linux.FutexQueue.                *)
THEOREM FutexQueueInvariant == Spec => []IInv
BY InitIInv, NextIInv, PTL DEF Spec

(* Type correctness: in particular head, tail and count of the shared ring *)
(* stay in bounds, whatever processes die.                                 *)
THEOREM FutexQueueTypeOK == Spec => []TypeOK
<1>1. IInv => TypeOK
    BY DEF IInv
<1> QED BY <1>1, FutexQueueInvariant, PTL

(* The ring is back in its resting shape whenever put_lock is free, for    *)
(* any depth and any deaths, unless a recovery met wrapped contents and    *)
(* none an empty ring since.                                               *)
THEOREM FutexQueueRingIntact == Spec => []RingIntact
<1>1. IInv => RingIntact
    BY ZenonT(60) DEF IInv, ShapeInv, RingIntact
<1> QED BY <1>1, FutexQueueInvariant, PTL

(* The futex words lose no change: whenever put_lock is free and no        *)
(* recovery is due, a waiter whose word has not moved since it looked      *)
(* still has nothing to do.                                                *)
THEOREM FutexQueueCurrentMeansBlocked == Spec => []CurrentMeansBlocked
<1>1. IInv => CurrentMeansBlocked
    <2> SUFFICES ASSUME IInv, owner = Nobody, ~ownerDead,
                        NEW t \in current, pc[t] \in WaitSteps
                 PROVE  ~CanGo(t)
        BY DEF CurrentMeansBlocked
    <2>1. \A u \in Threads : pc[u] # "add"
        BY NobodyAssumption DEF IInv, LockInv, Holding
    <2> QED BY ZenonT(60), <2>1 DEF IInv, WordInv
<1> QED BY <1>1, FutexQueueInvariant, PTL
=============================================================================
