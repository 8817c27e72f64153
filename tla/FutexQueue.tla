----------------------------- MODULE FutexQueue -----------------------------
(***************************************************************************)
(* posixipc.linux.FutexQueue (bindings/py_linux.c): the ring of Ring under *)
(* the robust mutex put_lock, with two futex words, not_full and           *)
(* not_empty, in place of Queue's condition variables.                     *)
(*                                                                         *)
(* A waiter loads its word under put_lock, unlocks and calls FUTEX_WAIT    *)
(* with the loaded value; the kernel puts it to sleep only if the word     *)
(* still has that value.  put and get add 1 to the other word before they  *)
(* unlock.  Of a 32-bit word the model keeps what a waiter can see: the    *)
(* set current of the threads whose loaded value is still the word's.  A   *)
(* word that comes round after exactly 2^32 additions within one wait is   *)
(* left out.                                                               *)
(*                                                                         *)
(* Threads of one process share its GIL.  Entry gives it up to lock        *)
(* put_lock; fq_wait_word locks put_lock again with the GIL held.  Being   *)
(* killed ends all threads of a process.                                   *)
(***************************************************************************)
EXTENDS Ring, Sequences

CONSTANTS
    Threads,    \* threads of attached processes
    Processes,  \* the processes, each the set of its threads
    Nobody,     \* no thread: put_lock is free
    Modes,      \* how callers wait, see AllModes
    MayCrash    \* processes that may be killed

(* blocking, timeout and interruptible as posixipc_parse_acquire reads     *)
(* them: see Queue.                                                        *)
AllModes == {"nowait", "plain", "timed", "sliced", "slicedTimed"}

ASSUME NobodyAssumption == Nobody \notin Threads
ASSUME ModesAssumption == Modes \subseteq AllModes
ASSUME ProcessesAssumption ==
    /\ UNION Processes = Threads
    /\ \A P, Q \in Processes : P = Q \/ P \cap Q = {}
ASSUME MayCrashAssumption == MayCrash \subseteq Processes

VARIABLES
    owner,      \* who holds put_lock
    ownerDead,  \* put_lock's last owner died; cleared by pthread_mutex_consistent
    gil,        \* the threads that hold their process's GIL inside a call
    current,    \* the threads whose expected value is the word's value
    pc,         \* where each thread is
    op,         \* the method each thread is in
    mode,       \* the waiting it asked for
    item,       \* the payload it puts, or the one it has copied out
    rc,         \* the outcome so far of its call
    cursor,     \* the slot the recovering thread looks at next
    misordered, \* history: a recovery met Wrapped contents, and none an empty ring since
    passedBy    \* history: the sleepers a FUTEX_WAKE that was lost could have gone to

lock == <<owner, ownerDead>>
locals == <<op, mode, item, rc>>
history == <<misordered, passedBy>>
vars == <<ring, lock, gil, current, pc, locals, cursor, history>>

Ops == {"none", "put", "get", "qsize"}

PutSteps == {"copyBegin", "copyEnd", "publish", "putAdvance", "putCount"}
GetSteps == {"copyOut", "release", "getAdvance", "getCount"}
RecoverySteps == {"recover", "announce"}

(* Where a thread holds put_lock, and where it waits for its word to move. *)
Holding == {"regil", "check", "add", "unlock"} \cup PutSteps \cup GetSteps \cup RecoverySteps
WaitSteps == {"sleep", "asleep", "slice"}

Labels == {"idle", "lock", "woken", "relock", "wake"} \cup WaitSteps \cup Holding

TypeOK ==
    /\ RingTypeOK
    /\ owner \in Threads \cup {Nobody}
    /\ ownerDead \in BOOLEAN
    /\ gil \subseteq Threads
    /\ current \subseteq Threads
    /\ pc \in [Threads -> Labels]
    /\ op \in [Threads -> Ops]
    /\ mode \in [Threads -> AllModes]
    /\ item \in [Threads -> Items \cup {Junk}]
    /\ rc \in [Threads -> {"ok", "timedout", "interrupted", "einval"}]
    /\ cursor \in 0 .. Depth
    /\ misordered \in BOOLEAN
    /\ passedBy \subseteq Threads

(* posixipc_futexq_init has run: the creator published the segment.        *)
Init ==
    /\ RingInit
    /\ owner = Nobody
    /\ ownerDead = FALSE
    /\ gil = {}
    /\ current = {}
    /\ pc = [t \in Threads |-> "idle"]
    /\ op = [t \in Threads |-> "none"]
    /\ mode = [t \in Threads |-> "nowait"]
    /\ item = [t \in Threads |-> Junk]
    /\ rc = [t \in Threads |-> "ok"]
    /\ cursor = 0
    /\ misordered = FALSE
    /\ passedBy = {}

-----------------------------------------------------------------------------

Goto(t, l) == pc' = [pc EXCEPT ![t] = l]

Timed(t) == mode[t] \in {"timed", "slicedTimed"}
Interruptible(t) == mode[t] \in {"sliced", "slicedTimed"}

(* The condition t's operation needs. *)
CanGo(t) == IF op[t] = "put" THEN count < Depth ELSE count > 0

(* No thread of t's process holds the GIL. *)
GilFree(t) == \A P \in Processes : t \in P => P \cap gil = {}

(* Py_END_ALLOW_THREADS. *)
TakeGil(t) == GilFree(t) /\ gil' = gil \cup {t}

(* Threads inside FUTEX_WAIT on the word of operation o: put waits on      *)
(* not_full, get on not_empty.                                             *)
Asleep(o) == {t \in Threads : pc[t] = "asleep" /\ op[t] = o}

Opposite(o) == IF o = "put" THEN "get" ELSE "put"

(* posixipc_futex_add on the word of operation o: no value loaded from it  *)
(* is current any more.                                                    *)
FutexAdd(o) == current' = {t \in current : op[t] # o}

(* The method returns to its caller, or its process is gone.               *)
Forget(T) ==
    /\ op' = [t \in Threads |-> IF t \in T THEN "none" ELSE op[t]]
    /\ mode' = [t \in Threads |-> IF t \in T THEN "nowait" ELSE mode[t]]
    /\ item' = [t \in Threads |-> IF t \in T THEN Junk ELSE item[t]]
    /\ rc' = [t \in Threads |-> IF t \in T THEN "ok" ELSE rc[t]]

(* put_lock changes hands.  EOWNERDEAD sends the new owner to recover.     *)
TakeLock(t, next) ==
    /\ owner = Nobody
    /\ owner' = t
    /\ Goto(t, IF ownerDead THEN "recover" ELSE next)

(* Where fq_wait_word's caller goes on, by the outcome of the wait.        *)
AfterWait(t) == IF rc[t] = "ok" THEN "check" ELSE "unlock"

-----------------------------------------------------------------------------
(* Entry: the arguments are parsed under the GIL, which is given up for    *)
(* fq_lock and taken back with put_lock held.                              *)

Enter(t, o, m, x) ==
    /\ pc[t] = "idle"
    /\ GilFree(t)
    /\ Goto(t, "lock")
    /\ op' = [op EXCEPT ![t] = o]
    /\ mode' = [mode EXCEPT ![t] = m]
    /\ item' = [item EXCEPT ![t] = x]
    /\ UNCHANGED <<ring, lock, gil, current, rc, cursor, history>>

CallPut(t, m, x) == Enter(t, "put", m, x)
CallGet(t, m) == Enter(t, "get", m, Junk)
CallQsize(t) == Enter(t, "qsize", "nowait", Junk)

Lock(t) ==
    /\ pc[t] = "lock"
    /\ TakeLock(t, "regil")
    /\ UNCHANGED <<ring, ownerDead, gil, current, locals, cursor, history>>

Regil(t) ==
    /\ pc[t] = "regil"
    /\ TakeGil(t)
    /\ Goto(t, "check")
    /\ UNCHANGED <<ring, lock, current, locals, cursor, history>>

-----------------------------------------------------------------------------
(* EOWNERDEAD in fq_lock: recover the ring, mark the mutex consistent, add *)
(* to both words and wake everybody.                                       *)

Recover(t) ==
    /\ pc[t] = "recover"
    /\ cursor < Depth
    /\ RecoverSlot(cursor)
    /\ cursor' = cursor + 1
    /\ UNCHANGED <<lock, gil, current, pc, locals, history>>

RecoverDone(t) ==
    /\ pc[t] = "recover"
    /\ cursor = Depth
    /\ RecoverCtrl
    /\ cursor' = 0
    /\ Goto(t, "announce")
    /\ misordered' = (ReadySlots # {} /\ (misordered \/ Wrapped))
    /\ UNCHANGED <<lock, gil, current, locals, passedBy>>

(* Mutant: recovery wakes the sleepers and leaves the words alone. *)
AnnounceWakesOnly(t) ==
    /\ pc[t] = "announce"
    /\ ownerDead' = FALSE
    /\ pc' = [u \in Threads |-> IF u = t THEN IF t \in gil THEN AfterWait(t) ELSE "regil"
                                ELSE IF pc[u] = "asleep" THEN "woken" ELSE pc[u]]
    /\ passedBy' = {}
    /\ UNCHANGED <<ring, owner, gil, current, locals, cursor, misordered>>

Announce(t) ==
    /\ pc[t] = "announce"
    /\ ownerDead' = FALSE
    /\ current' = {}
    /\ pc' = [u \in Threads |-> IF u = t THEN IF t \in gil THEN AfterWait(t) ELSE "regil"
                                ELSE IF pc[u] = "asleep" THEN "woken" ELSE pc[u]]
    /\ passedBy' = {}
    /\ UNCHANGED <<ring, owner, gil, locals, cursor, misordered>>

-----------------------------------------------------------------------------
(* The loop of put and get.  The word is loaded under put_lock, so the     *)
(* load, the unlock and giving up the GIL are one step.                    *)

StartPut(t) ==
    /\ pc[t] = "check"
    /\ op[t] = "put"
    /\ PutReserve
    /\ Goto(t, "copyBegin")
    /\ UNCHANGED <<lock, gil, current, locals, cursor, history>>

StartGet(t) ==
    /\ pc[t] = "check"
    /\ op[t] = "get"
    /\ GetReserve
    /\ Goto(t, "copyOut")
    /\ UNCHANGED <<lock, gil, current, locals, cursor, history>>

(* EINVAL is looked at only after the word was added to. *)
FailGet(t) ==
    /\ pc[t] = "check"
    /\ op[t] = "get"
    /\ GetBad
    /\ Goto(t, "add")
    /\ rc' = [rc EXCEPT ![t] = "einval"]
    /\ UNCHANGED <<ring, lock, gil, current, op, mode, item, cursor, history>>

ReadQsize(t) ==
    /\ pc[t] = "check"
    /\ op[t] = "qsize"
    /\ Goto(t, "unlock")
    /\ UNCHANGED <<ring, lock, gil, current, locals, cursor, history>>

GiveUp(t) ==
    /\ pc[t] = "check"
    /\ op[t] \in {"put", "get"}
    /\ ~CanGo(t)
    /\ mode[t] = "nowait"
    /\ Goto(t, "unlock")
    /\ rc' = [rc EXCEPT ![t] = "timedout"]
    /\ UNCHANGED <<ring, lock, gil, current, op, mode, item, cursor, history>>

StartWait(t) ==
    /\ pc[t] = "check"
    /\ op[t] \in {"put", "get"}
    /\ ~CanGo(t)
    /\ mode[t] # "nowait"
    /\ current' = current \cup {t}
    /\ owner' = Nobody
    /\ gil' = gil \ {t}
    /\ Goto(t, "sleep")
    /\ UNCHANGED <<ring, ownerDead, locals, cursor, history>>

-----------------------------------------------------------------------------
(* posixipc_blocking_wait around FUTEX_WAIT.                               *)

FutexWait(t) ==
    /\ pc[t] = "sleep"
    /\ Goto(t, IF t \in current THEN "asleep" ELSE "woken")
    /\ UNCHANGED <<ring, lock, gil, current, locals, cursor, history>>

SpuriousWakeup(t) ==
    /\ pc[t] = "asleep"
    /\ Goto(t, "woken")
    /\ UNCHANGED <<ring, lock, gil, current, locals, cursor, history>>

EndOfWait(t) ==
    /\ pc[t] = "asleep"
    /\ Goto(t, "slice")
    /\ UNCHANGED <<ring, lock, gil, current, locals, cursor, history>>

DeadlinePassed(t) == (Timed(t) \/ Interruptible(t)) /\ EndOfWait(t)

(* futex_wait_cb answers ETIMEDOUT for a wait that a signal interrupted.   *)
Eintr(t) == EndOfWait(t)

(* ETIMEDOUT: the wait is over, or the next slice begins, with the value   *)
(* that was loaded before the first one.                                   *)
WaitFailed(t) ==
    /\ pc[t] = "slice"
    /\ TakeGil(t)
    /\ \/ ~Interruptible(t) /\ rc' = [rc EXCEPT ![t] = "timedout"]
       \/ Interruptible(t) /\ rc' = [rc EXCEPT ![t] = "interrupted"]
       \/ Interruptible(t) /\ Timed(t) /\ rc' = [rc EXCEPT ![t] = "timedout"]
    /\ Goto(t, "relock")
    /\ UNCHANGED <<ring, lock, current, op, mode, item, cursor, history>>

NextSlice(t) ==
    /\ pc[t] = "slice"
    /\ Interruptible(t)
    /\ GilFree(t)
    /\ Goto(t, "sleep")
    /\ UNCHANGED <<ring, lock, gil, current, locals, cursor, history>>

Woken(t) ==
    /\ pc[t] = "woken"
    /\ TakeGil(t)
    /\ Goto(t, "relock")
    /\ UNCHANGED <<ring, lock, current, locals, cursor, history>>

(* fq_lock at the end of fq_wait_word: t keeps the GIL while it blocks.    *)
Relock(t) ==
    /\ pc[t] = "relock"
    /\ TakeLock(t, AfterWait(t))
    /\ current' = current \ {t}
    /\ passedBy' = passedBy \ {t}
    /\ UNCHANGED <<ring, ownerDead, gil, locals, cursor, misordered>>

-----------------------------------------------------------------------------
(* posixipc_queue_put and posixipc_queue_get after the slot was reserved.  *)

PutStep(t) ==
    /\ \/ pc[t] = "copyBegin" /\ PutCopyBegin /\ Goto(t, "copyEnd")
       \/ pc[t] = "copyEnd" /\ PutCopyEnd(item[t]) /\ Goto(t, "publish")
       \/ pc[t] = "publish" /\ PutPublish /\ Goto(t, "putAdvance")
       \/ pc[t] = "putAdvance" /\ PutAdvance /\ Goto(t, "putCount")
       \/ pc[t] = "putCount" /\ PutCount /\ Goto(t, "add")
    /\ UNCHANGED <<lock, gil, current, locals, cursor, history>>

CopyOut(t) ==
    /\ pc[t] = "copyOut"
    /\ item' = [item EXCEPT ![t] = payload[head]]
    /\ Goto(t, "release")
    /\ UNCHANGED <<ring, lock, gil, current, op, mode, rc, cursor, history>>

GetStep(t) ==
    /\ \/ pc[t] = "release" /\ GetRelease /\ Goto(t, "getAdvance")
       \/ pc[t] = "getAdvance" /\ GetAdvance /\ Goto(t, "getCount")
       \/ pc[t] = "getCount" /\ GetCount /\ Goto(t, "add")
    /\ UNCHANGED <<lock, gil, current, locals, cursor, history>>

-----------------------------------------------------------------------------
(* The way out: add to the other word, unlock, wake one of its sleepers.   *)

Add(t) ==
    /\ pc[t] = "add"
    /\ FutexAdd(Opposite(op[t]))
    /\ Goto(t, "unlock")
    /\ UNCHANGED <<ring, lock, gil, locals, cursor, history>>

Unlock(t) ==
    /\ pc[t] = "unlock"
    /\ owner' = Nobody
    /\ IF op[t] \in {"put", "get"} /\ rc[t] = "ok"
          THEN Goto(t, "wake") /\ UNCHANGED <<gil, locals>>
          ELSE Goto(t, "idle") /\ gil' = gil \ {t} /\ Forget({t})
    /\ UNCHANGED <<ring, ownerDead, current, cursor, history>>

(* Mutant: the wake is skipped. *)
WakeNobody(t) ==
    /\ pc[t] = "wake"
    /\ Goto(t, "idle")
    /\ gil' = gil \ {t}
    /\ Forget({t})
    /\ UNCHANGED <<ring, lock, current, cursor, history>>

Wake(t) ==
    /\ pc[t] = "wake"
    /\ IF Asleep(Opposite(op[t])) = {}
          THEN Goto(t, "idle")
          ELSE \E u \in Asleep(Opposite(op[t])) :
                  pc' = [pc EXCEPT ![t] = "idle", ![u] = "woken"]
    /\ gil' = gil \ {t}
    /\ Forget({t})
    /\ UNCHANGED <<ring, lock, current, cursor, history>>

-----------------------------------------------------------------------------
(* Process P is killed with all its threads.  The kernel marks put_lock if *)
(* one of them held it.  A wake is lost when it was due, or had gone to a  *)
(* thread that did not lock yet; LosesWake is whom else it could wake.     *)

LosesWake(P) ==
    {u \in Threads \ P : \E t \in P :
       \/ pc[t] = "wake" /\ u \in Asleep(Opposite(op[t]))
       \/ pc[t] \in {"woken", "relock"} /\ rc[t] = "ok" /\ u \in Asleep(op[t])}

Crash(P) ==
    /\ \E t \in P : pc[t] # "idle"
    /\ pc' = [t \in Threads |-> IF t \in P THEN "idle" ELSE pc[t]]
    /\ Forget(P)
    /\ gil' = gil \ P
    /\ current' = current \ P
    /\ IF owner \in P
          THEN owner' = Nobody /\ ownerDead' = TRUE /\ cursor' = 0
          ELSE UNCHANGED <<lock, cursor>>
    /\ passedBy' = (passedBy \ P) \cup LosesWake(P)
    /\ UNCHANGED <<ring, misordered>>

-----------------------------------------------------------------------------

Call(t) ==
    \/ \E m \in Modes, x \in Items : CallPut(t, m, x)
    \/ \E m \in Modes : CallGet(t, m)
    \/ CallQsize(t)

(* What t does by itself once it is in a call; the scheduler runs it.      *)
Step(t) ==
    \/ Lock(t) \/ Regil(t)
    \/ Recover(t) \/ RecoverDone(t) \/ Announce(t)
    \/ StartPut(t) \/ StartGet(t) \/ FailGet(t) \/ ReadQsize(t)
    \/ GiveUp(t) \/ StartWait(t)
    \/ FutexWait(t) \/ DeadlinePassed(t) \/ WaitFailed(t) \/ NextSlice(t)
    \/ Woken(t) \/ Relock(t)
    \/ PutStep(t) \/ CopyOut(t) \/ GetStep(t)
    \/ Add(t) \/ Unlock(t) \/ Wake(t)

(* Calls, signals and spurious wakeups come from outside.                  *)
Outside(t) == Call(t) \/ SpuriousWakeup(t) \/ Eintr(t)

Next ==
    \/ \E t \in Threads : Outside(t) \/ Step(t)
    \/ \E P \in MayCrash : Crash(P)

Spec == Init /\ [][Next]_vars

(* A runnable thread keeps running and deadlines pass.                     *)
FairSpec == Spec /\ \A t \in Threads : WF_vars(Step(t))
-----------------------------------------------------------------------------
(* Properties.                                                             *)

(* Between calls, with no recovery outstanding, head, tail, count and the  *)
(* slot headers agree, whatever was killed where, unless a recovery met    *)
(* wrapped contents; they agree again once one has met an empty ring       *)
(* (posixipc_queue_recover under fq_lock).                                 *)
RingIntact == owner = Nobody /\ ~ownerDead /\ ~misordered => Settled

(* A waiter whose loaded value is still its word's waits for something     *)
(* that is not there: every change of count that could serve it, and every *)
(* recovery, has moved its word before put_lock was free again (fq_put and *)
(* fq_get add before they unlock, fq_lock adds to both).                   *)
CurrentMeansBlocked ==
    owner = Nobody /\ ~ownerDead
       => \A t \in current : pc[t] \in WaitSteps => ~CanGo(t)

(* If from some point on nobody calls, no signal ends a wait without a     *)
(* deadline or a slice, there are no spurious wakeups and nobody is        *)
(* killed, every thread ends up outside a call or waiting for a condition  *)
(* that is false.  Sliced waits recover even from a lost wake; the others  *)
(* do not, but nobody is left behind who was not asleep when it was lost.  *)
(* A dead owner nobody has met leaves everybody as they are.               *)
NothingNew ==
    [][~ (\/ \E t \in Threads : Outside(t) /\ ~DeadlinePassed(t)
          \/ \E P \in MayCrash : Crash(P))]_vars

AtRest(t) ==
    \/ pc[t] = "idle"
    \/ pc[t] \in WaitSteps /\ (CanGo(t) => ownerDead \/ (t \in passedBy /\ ~Interruptible(t)))

EveryCallSettles == <>NothingNew => <>[](\A t \in Threads : AtRest(t))

-----------------------------------------------------------------------------
(* Stated by the documentation, and not what the code does.                *)

(* "Same put/get as Queue, Linux wait" (docs/guide.md): as with Queue, no  *)
(* thread is left for ever between put_lock and the GIL.  A thread that    *)
(* comes out of fq_lock waits for the GIL with put_lock held, one that     *)
(* comes out of its futex wait waits for put_lock with the GIL held.       *)
LocksAreHandedOn ==
    <>NothingNew => <>[](\A t \in Threads : pc[t] \notin {"regil", "relock"})
=============================================================================
