------------------------------- MODULE Queue --------------------------------
(***************************************************************************)
(* posixipc.Queue (bindings/py_queue.c): processes that put to and get     *)
(* from one ring under one robust process-shared mutex, put_lock, and wait *)
(* on two condition variables, not_full and not_empty.  The second mutex   *)
(* of the layout, get_lock, is never taken and has no state here.          *)
(*                                                                         *)
(* A member of Procs is the one thread of an attached process.  Any of     *)
(* MayCrash can be killed between two steps; its place is then taken by a  *)
(* new process that has attached and is idle.                              *)
(*                                                                         *)
(* The wait set of a condition variable is the set of processes at "wait"  *)
(* in the matching operation.  A process leaves it because it was          *)
(* signalled, spuriously, or because the deadline given to                 *)
(* pthread_cond_timedwait passed; it then has to lock put_lock again       *)
(* ("relock") before the wait returns.                                     *)
(***************************************************************************)
EXTENDS Ring, Sequences

CONSTANTS
    Procs,      \* attached processes
    Nobody,     \* no process: put_lock is free
    Modes,      \* how callers wait, see AllModes
    MayCrash    \* processes that may be killed

(* The ways a caller can ask put and get to wait.                          *)
(*   nowait       blocking=False, or timeout=0                             *)
(*   plain        interruptible=False, no timeout: one pthread_cond_wait   *)
(*   timed        interruptible=False and a timeout: one timed wait        *)
(*   sliced       interruptible=True (the default): 50 ms timed waits      *)
(*   slicedTimed  interruptible=True and a timeout                         *)
AllModes == {"nowait", "plain", "timed", "sliced", "slicedTimed"}

ASSUME ProcsAssumption == IsFiniteSet(Procs)
ASSUME NobodyAssumption == Nobody \notin Procs
ASSUME ModesAssumption == Modes \subseteq AllModes
ASSUME MayCrashAssumption == MayCrash \subseteq Procs

VARIABLES
    owner,      \* who holds put_lock
    ownerDead,  \* put_lock's last owner died; cleared by pthread_mutex_consistent
    pc,         \* where each process is
    op,         \* the method each process is in
    mode,       \* the waiting it asked for
    item,       \* the payload it puts, or the one it has copied out
    rc,         \* the outcome so far of its call
    cursor,     \* the slot the recovering process looks at next
    misordered, \* history: a recovery ran while the contents were Wrapped
    lostSignal  \* history: a wakeup went to nobody since the last broadcast

locals == <<op, mode, item, rc>>
history == <<misordered, lostSignal>>
vars == <<ring, owner, ownerDead, pc, locals, cursor, history>>

Ops == {"none", "put", "get", "qsize"}

PutSteps == {"copyBegin", "copyEnd", "publish", "putAdvance", "putCount"}
GetSteps == {"copyOut", "release", "getAdvance", "getCount"}
RecoverySteps == {"recover", "broadcast"}

(* Where a process holds put_lock. *)
Holding == {"check", "slice", "unlock"} \cup PutSteps \cup GetSteps \cup RecoverySteps

Labels == {"idle", "lock", "wait", "relock", "signal"} \cup Holding

TypeOK ==
    /\ RingTypeOK
    /\ owner \in Procs \cup {Nobody}
    /\ ownerDead \in BOOLEAN
    /\ pc \in [Procs -> Labels]
    /\ op \in [Procs -> Ops]
    /\ mode \in [Procs -> AllModes]
    /\ item \in [Procs -> Items \cup {Junk}]
    /\ rc \in [Procs -> {"ok", "timedout", "interrupted", "einval"}]
    /\ cursor \in 0 .. Depth
    /\ misordered \in BOOLEAN
    /\ lostSignal \in BOOLEAN

Init ==
    /\ RingInit
    /\ owner = Nobody
    /\ ownerDead = FALSE
    /\ pc = [p \in Procs |-> "idle"]
    /\ op = [p \in Procs |-> "none"]
    /\ mode = [p \in Procs |-> "nowait"]
    /\ item = [p \in Procs |-> Junk]
    /\ rc = [p \in Procs |-> "ok"]
    /\ cursor = 0
    /\ misordered = FALSE
    /\ lostSignal = FALSE

-----------------------------------------------------------------------------

Goto(p, l) == pc' = [pc EXCEPT ![p] = l]

(* The processes waiting on the condition variable of operation o: put     *)
(* waits on not_full, get on not_empty.                                    *)
Waiting(o) == {p \in Procs : pc[p] = "wait" /\ op[p] = o}

Timed(p) == mode[p] \in {"timed", "slicedTimed"}
Interruptible(p) == mode[p] \in {"sliced", "slicedTimed"}

(* The condition p's operation needs. *)
CanGo(p) == IF op[p] = "put" THEN count < Depth ELSE count > 0

(* The method returns to its caller, or its process is gone.               *)
Forget(p) ==
    /\ op' = [op EXCEPT ![p] = "none"]
    /\ mode' = [mode EXCEPT ![p] = "nowait"]
    /\ item' = [item EXCEPT ![p] = Junk]
    /\ rc' = [rc EXCEPT ![p] = "ok"]

(* Mutant: EOWNERDEAD is treated as success. *)
TakeLockIgnoresDeath(p, next) ==
    /\ owner = Nobody
    /\ owner' = p
    /\ Goto(p, next)
    /\ UNCHANGED cursor

(* put_lock changes hands.  EOWNERDEAD sends the new owner to recover.     *)
TakeLock(p, next) ==
    /\ owner = Nobody
    /\ owner' = p
    /\ Goto(p, IF ownerDead THEN "recover" ELSE next)
    /\ cursor' = IF ownerDead THEN 0 ELSE cursor

-----------------------------------------------------------------------------
(* Entry: arguments are parsed, then queue_lock.                           *)

CallPut(p, m, x) ==
    /\ pc[p] = "idle"
    /\ Goto(p, "lock")
    /\ op' = [op EXCEPT ![p] = "put"]
    /\ mode' = [mode EXCEPT ![p] = m]
    /\ item' = [item EXCEPT ![p] = x]
    /\ UNCHANGED <<ring, owner, ownerDead, rc, cursor, history>>

CallGet(p, m) ==
    /\ pc[p] = "idle"
    /\ Goto(p, "lock")
    /\ op' = [op EXCEPT ![p] = "get"]
    /\ mode' = [mode EXCEPT ![p] = m]
    /\ UNCHANGED <<ring, owner, ownerDead, item, rc, cursor, history>>

CallQsize(p) ==
    /\ pc[p] = "idle"
    /\ Goto(p, "lock")
    /\ op' = [op EXCEPT ![p] = "qsize"]
    /\ UNCHANGED <<ring, owner, ownerDead, mode, item, rc, cursor, history>>

Lock(p) ==
    /\ pc[p] = "lock"
    /\ TakeLock(p, "check")
    /\ UNCHANGED <<ring, ownerDead, locals, history>>

-----------------------------------------------------------------------------
(* EOWNERDEAD: recover the ring, mark the mutex consistent, broadcast both *)
(* conditions (queue_lock and queue_wait_cond do the same).                *)

Recover(p) ==
    /\ pc[p] = "recover"
    /\ cursor < Depth
    /\ RecoverSlot(cursor)
    /\ cursor' = cursor + 1
    /\ UNCHANGED <<owner, ownerDead, pc, locals, history>>

RecoverDone(p) ==
    /\ pc[p] = "recover"
    /\ cursor = Depth
    /\ RecoverCtrl
    /\ Goto(p, "broadcast")
    /\ misordered' = (misordered \/ Wrapped)
    /\ UNCHANGED <<owner, ownerDead, locals, cursor, lostSignal>>

Broadcast(p) ==
    /\ pc[p] = "broadcast"
    /\ ownerDead' = FALSE
    /\ pc' = [q \in Procs |-> IF q = p THEN "check"
                              ELSE IF pc[q] = "wait" THEN "relock" ELSE pc[q]]
    /\ rc' = [rc EXCEPT ![p] = "ok"]
    /\ lostSignal' = FALSE
    /\ UNCHANGED <<ring, owner, op, mode, item, cursor, misordered>>

-----------------------------------------------------------------------------
(* The loop of put and get: qsize under the lock, then go on, give up or   *)
(* wait.  pthread_cond_wait releases put_lock and joins the wait set in    *)
(* one step.                                                               *)

StartPut(p) ==
    /\ pc[p] = "check"
    /\ op[p] = "put"
    /\ PutReserve
    /\ Goto(p, "copyBegin")
    /\ UNCHANGED <<owner, ownerDead, locals, cursor, history>>

StartGet(p) ==
    /\ pc[p] = "check"
    /\ op[p] = "get"
    /\ GetReserve
    /\ Goto(p, "copyOut")
    /\ UNCHANGED <<owner, ownerDead, locals, cursor, history>>

FailGet(p) ==
    /\ pc[p] = "check"
    /\ op[p] = "get"
    /\ GetBad
    /\ Goto(p, "unlock")
    /\ rc' = [rc EXCEPT ![p] = "einval"]
    /\ UNCHANGED <<ring, owner, ownerDead, op, mode, item, cursor, history>>

ReadQsize(p) ==
    /\ pc[p] = "check"
    /\ op[p] = "qsize"
    /\ Goto(p, "unlock")
    /\ UNCHANGED <<ring, owner, ownerDead, locals, cursor, history>>

GiveUp(p) ==
    /\ pc[p] = "check"
    /\ op[p] \in {"put", "get"}
    /\ ~CanGo(p)
    /\ mode[p] = "nowait"
    /\ Goto(p, "unlock")
    /\ rc' = [rc EXCEPT ![p] = "timedout"]
    /\ UNCHANGED <<ring, owner, ownerDead, op, mode, item, cursor, history>>

StartWait(p) ==
    /\ pc[p] = "check"
    /\ op[p] \in {"put", "get"}
    /\ ~CanGo(p)
    /\ mode[p] # "nowait"
    /\ owner' = Nobody
    /\ Goto(p, "wait")
    /\ UNCHANGED <<ring, ownerDead, locals, cursor, history>>

-----------------------------------------------------------------------------
(* Inside the wait.  Signal and Broadcast of other processes wake p up;    *)
(* these are the other ways out.                                           *)

SpuriousWakeup(p) ==
    /\ pc[p] = "wait"
    /\ Goto(p, "relock")
    /\ UNCHANGED <<ring, owner, ownerDead, locals, cursor, history>>

DeadlinePassed(p) ==
    /\ pc[p] = "wait"
    /\ Timed(p) \/ Interruptible(p)
    /\ Goto(p, "relock")
    /\ rc' = [rc EXCEPT ![p] = "timedout"]
    /\ UNCHANGED <<ring, owner, ownerDead, op, mode, item, cursor, history>>

(* The wait returns with put_lock held.  EOWNERDEAD takes precedence over  *)
(* ETIMEDOUT.                                                              *)
Relock(p) ==
    /\ pc[p] = "relock"
    /\ TakeLock(p, IF rc[p] = "timedout" THEN "slice" ELSE "check")
    /\ UNCHANGED <<ring, ownerDead, locals, history>>

(* posixipc_blocking_wait after a timed wait ended with ETIMEDOUT.         *)
WaitFailed(p) ==
    /\ pc[p] = "slice"
    /\ \/ ~Interruptible(p) /\ UNCHANGED rc
       \/ Interruptible(p) /\ rc' = [rc EXCEPT ![p] = "interrupted"]
       \/ Interruptible(p) /\ Timed(p) /\ UNCHANGED rc
    /\ Goto(p, "unlock")
    /\ UNCHANGED <<ring, owner, ownerDead, op, mode, item, cursor, history>>

(* ... no signal handler raised and the caller's deadline is not reached:  *)
(* the next slice starts at once, count is not looked at again.            *)
NextSlice(p) ==
    /\ pc[p] = "slice"
    /\ Interruptible(p)
    /\ owner' = Nobody
    /\ Goto(p, "wait")
    /\ rc' = [rc EXCEPT ![p] = "ok"]
    /\ lostSignal' = (lostSignal \/ CanGo(p))
    /\ UNCHANGED <<ring, ownerDead, op, mode, item, cursor, misordered>>

-----------------------------------------------------------------------------
(* posixipc_queue_put and posixipc_queue_get after the slot was reserved.  *)

PutStep(p) ==
    /\ \/ pc[p] = "copyBegin" /\ PutCopyBegin /\ Goto(p, "copyEnd")
       \/ pc[p] = "copyEnd" /\ PutCopyEnd(item[p]) /\ Goto(p, "publish")
       \/ pc[p] = "publish" /\ PutPublish /\ Goto(p, "putAdvance")
       \/ pc[p] = "putAdvance" /\ PutAdvance /\ Goto(p, "putCount")
       \/ pc[p] = "putCount" /\ PutCount /\ Goto(p, "unlock")
    /\ UNCHANGED <<owner, ownerDead, locals, cursor, history>>

CopyOut(p) ==
    /\ pc[p] = "copyOut"
    /\ item' = [item EXCEPT ![p] = payload[head]]
    /\ Goto(p, "release")
    /\ UNCHANGED <<ring, owner, ownerDead, op, mode, rc, cursor, history>>

GetStep(p) ==
    /\ \/ pc[p] = "release" /\ GetRelease /\ Goto(p, "getAdvance")
       \/ pc[p] = "getAdvance" /\ GetAdvance /\ Goto(p, "getCount")
       \/ pc[p] = "getCount" /\ GetCount /\ Goto(p, "unlock")
    /\ UNCHANGED <<owner, ownerDead, locals, cursor, history>>

-----------------------------------------------------------------------------
(* The way out: unlock and, only after that, signal the other condition if *)
(* an item was put or taken.                                               *)

Unlock(p) ==
    /\ pc[p] = "unlock"
    /\ owner' = Nobody
    /\ IF op[p] \in {"put", "get"} /\ rc[p] = "ok"
          THEN Goto(p, "signal") /\ UNCHANGED locals
          ELSE Goto(p, "idle") /\ Forget(p)
    /\ UNCHANGED <<ring, ownerDead, cursor, history>>

(* Mutant: put signals not_full, get not_empty. *)
OppositeSame(o) == o

Opposite(o) == IF o = "put" THEN "get" ELSE "put"

(* Mutant: the signal is skipped. *)
SignalNobody(p) ==
    /\ pc[p] = "signal"
    /\ Goto(p, "idle")
    /\ Forget(p)
    /\ UNCHANGED <<ring, owner, ownerDead, cursor, history>>

Signal(p) ==
    /\ pc[p] = "signal"
    /\ IF Waiting(Opposite(op[p])) = {}
          THEN Goto(p, "idle")
          ELSE \E w \in Waiting(Opposite(op[p])) :
                  pc' = [pc EXCEPT ![p] = "idle", ![w] = "relock"]
    /\ Forget(p)
    /\ UNCHANGED <<ring, owner, ownerDead, cursor, history>>

-----------------------------------------------------------------------------
(* p is killed.  The kernel marks put_lock if p held it.  A wakeup is lost *)
(* when p was about to signal, or had been woken and not yet locked, while *)
(* others wait that this wakeup could have gone to.                        *)

LosesWakeup(p) ==
    \/ pc[p] = "signal" /\ Waiting(Opposite(op[p])) # {}
    \/ pc[p] = "relock" /\ rc[p] = "ok" /\ Waiting(op[p]) # {}

Crash(p) ==
    /\ pc[p] # "idle"
    /\ Goto(p, "idle")
    /\ Forget(p)
    /\ IF owner = p
          THEN owner' = Nobody /\ ownerDead' = TRUE
          ELSE UNCHANGED <<owner, ownerDead>>
    /\ lostSignal' = (lostSignal \/ LosesWakeup(p))
    /\ UNCHANGED <<ring, cursor, misordered>>

-----------------------------------------------------------------------------

Call(p) ==
    \/ \E m \in Modes, x \in Items : CallPut(p, m, x)
    \/ \E m \in Modes : CallGet(p, m)
    \/ CallQsize(p)

(* What p does by itself once it is in a call; the scheduler runs it.      *)
Step(p) ==
    \/ Lock(p)
    \/ Recover(p) \/ RecoverDone(p) \/ Broadcast(p)
    \/ StartPut(p) \/ StartGet(p) \/ FailGet(p) \/ ReadQsize(p)
    \/ GiveUp(p) \/ StartWait(p)
    \/ DeadlinePassed(p) \/ Relock(p) \/ WaitFailed(p) \/ NextSlice(p)
    \/ PutStep(p) \/ CopyOut(p) \/ GetStep(p)
    \/ Unlock(p) \/ Signal(p)

Next ==
    \/ \E p \in Procs : Call(p) \/ Step(p) \/ SpuriousWakeup(p)
    \/ \E p \in MayCrash : Crash(p)

Spec == Init /\ [][Next]_vars

(* A runnable process keeps running, and the deadline of a timed wait      *)
(* passes.  Nobody has to call, to be killed or to wake up spuriously.     *)
FairSpec == Spec /\ \A p \in Procs : WF_vars(Step(p))
-----------------------------------------------------------------------------
(* Properties.                                                             *)

(* Between calls, with no recovery outstanding, the ring is in its resting *)
(* shape: head, tail, count and the slot headers agree.  Holds after any   *)
(* crash as long as no recovery met wrapped contents                       *)
(* (posixipc_queue_recover restarts the run at the lowest READY slot).     *)
RingIntact == owner = Nobody /\ ~ownerDead /\ ~misordered => Settled

(* A slot whose item a get can take, now or after a recovery, holds a      *)
(* whole item: a put killed during its memcpy never leaves a torn payload  *)
(* behind a READY header, and no get is given one.                         *)
NoTornItem ==
    /\ \A i \in Slots : Occupied(i) => payload[i] \in Items
    /\ \A p \in Procs : op[p] = "get" /\ pc[p] \in {"release", "getAdvance", "getCount", "signal"}
                           => item[p] \in Items

(* Whoever locks put_lock after an owner died recovers before anything     *)
(* else: no operation looks at the ring, and nobody unlocks, while the     *)
(* mutex is marked (an unlock in that state would poison it for good).     *)
RecoverBeforeUse ==
    ownerDead => owner = Nobody \/ pc[owner] \in RecoverySteps

(* get answers EINVAL only on a ring that a recovery has misordered: the   *)
(* count test alone decides whether a slot can be taken.                   *)
NoEinval == ~misordered => \A p \in Procs : rc[p] # "einval"

(* No lost wakeup: when every process is outside a call or asleep in a     *)
(* wait, nobody sleeps on a condition that holds.  Excused are the cases   *)
(* lostSignal records (killed between unlock and signal, killed between    *)
(* wakeup and lock, a slice that ended as the signal came) and a dead      *)
(* owner nobody has noticed yet.                                           *)
Quiet == \A p \in Procs : pc[p] \in {"idle", "wait"}

NoStrandedWaiter ==
    Quiet /\ ~ownerDead /\ ~lostSignal /\ ~misordered
       => \A p \in Procs : pc[p] = "wait" => ~CanGo(p)

(* The contents in ring order, and what each get has taken out, as a       *)
(* bounded FIFO: items enter when their header becomes READY and leave     *)
(* when it becomes EMPTY.  They start at head, or right behind it while a  *)
(* get has emptied the slot at head and not yet moved it.                  *)
Contents ==
    LET first == IF Occupied(head) THEN head ELSE NextSlot(head)
    IN  [k \in 1 .. Cardinality({i \in Slots : Occupied(i)}) |-> payload[Plus(first, k - 1)]]

Taken == [p \in Procs |->
            IF op[p] = "get" /\ (pc[p] \in {"getAdvance", "getCount", "signal"}
                                 \/ (pc[p] = "unlock" /\ rc[p] = "ok"))
               THEN item[p] ELSE Junk]

F == INSTANCE Fifo WITH
        Capacity <- Depth, Callers <- Procs, Values <- Items, None <- Junk,
        items <- IF misordered THEN << >> ELSE Contents,
        hand <- Taken,
        intact <- ~misordered

(* Queue implements the FIFO, crashes included, until a recovery meets     *)
(* wrapped contents: every item is put whole, taken at most once and in    *)
(* the order of the puts.                                                  *)
ImplementsFifo == F!FifoSpec

(* If from some point on nobody calls and no wakeup is spurious, every     *)
(* process ends up outside a call or asleep on a condition that does not   *)
(* hold: queue_put and queue_get leave nobody behind and nobody hangs on   *)
(* put_lock.  Stated for waits that are not sliced and without crashes.    *)
NothingNew == [][~ \E p \in Procs : Call(p) \/ SpuriousWakeup(p)]_vars

EveryCallSettles ==
    <>NothingNew => <>[](\A p \in Procs : pc[p] = "idle" \/ (pc[p] = "wait" /\ ~CanGo(p)))

-----------------------------------------------------------------------------
(* Stated by the documentation, and not what the code does.                *)

(* "count must match the headers after recovery" (docs/queue.md): whenever *)
(* put_lock is free and no recovery is due, count is the number of READY   *)
(* slots.  A recovery of wrapped contents points tail at a READY slot.     *)
CountMatchesHeaders == owner = Nobody /\ ~ownerDead => count = Cardinality(ReadySlots)

(* "get waits not-empty" (docs/queue.md): no get stays in its wait for     *)
(* ever while the queue is not empty.                                      *)
GetWaitsNotEmpty ==
    \A p \in Procs :
       ~ <>[](op[p] = "get" /\ pc[p] \in {"wait", "relock", "slice"} /\ count > 0)
=============================================================================
