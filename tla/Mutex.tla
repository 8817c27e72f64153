-------------------------------- MODULE Mutex --------------------------------
(***************************************************************************)
(* posixipc.Mutex and posixipc.RobustMutex (bindings/py_mutex.c,           *)
(* core/posixipc_mutex.c): one pthread mutex of type ERRORCHECK, the       *)
(* handles bound to it, one per process, and the threads that use them.    *)
(*                                                                         *)
(* A handle's locked flag is the library's own record of the lock; wait()  *)
(* and __exit__ go by it.  mutex_acquire tries the lock with the GIL held, *)
(* and waits for it without; what follows, posixipc_mutex_after_lock, runs *)
(* with the GIL again and may find the handle closed (m->lock is NULL).    *)
(* After the death of an owner the next one calls on_owner_died, Python    *)
(* code that other threads interleave with, and only then                  *)
(* pthread_mutex_consistent.                                               *)
(***************************************************************************)
EXTENDS Region

CONSTANT Gone   \* a thread that died owning a mutex that is not robust

ASSUME GoneAssumption == Gone \notin Threads \cup {Nobody}

VARIABLES
    robust,   \* the slot is a RobustMutex
    mowner,   \* the pthread mutex's owner
    mstate,   \* clean, dead (EOWNERDEAD is next), inconsistent or poisoned
    locked,   \* the handles with the locked flag
    callback, \* the handles with an on_owner_died
    rc,       \* what a thread's wait returned
    holds,    \* the threads whose last acquire returned True
    torn      \* the thread whose update of the guarded data is half done

lockVars == <<robust, mowner, mstate>>
flagVars == <<locked, callback>>
dataVars == <<holds, torn>>
mutexOnly == <<lockVars, flagVars, rc, dataVars>>
mutexVars == <<objectVars, mutexOnly>>

MStates == {"clean", "dead", "inconsistent", "poisoned"}
Rcs == {"ok", "ownerdead", "notrecoverable", "timedout", "busy", "deadlk", "interrupted"}

MutexTypeOK ==
    /\ robust \in BOOLEAN
    /\ mowner \in Threads \cup {Nobody, Gone}
    /\ mstate \in MStates
    /\ locked \subseteq Handles
    /\ callback \subseteq Handles
    /\ rc \in [Threads -> Rcs]
    /\ holds \subseteq Threads
    /\ torn \in Threads \cup {Nobody}

(* posixipc_mutex_init has run in the creator; posixipc_mutex_new_unbound  *)
(* and posixipc_mutex_bind have made the handles.  add() wants a callback  *)
(* for a RobustMutex; a handle that came through pickle has none.          *)
MutexInit ==
    /\ robust \in BOOLEAN
    /\ mowner = Nobody
    /\ mstate = "clean"
    /\ locked = {}
    /\ callback \in {{}, Handles}
    /\ rc = [t \in Threads |-> "ok"]
    /\ holds = {}
    /\ torn = Nobody

-----------------------------------------------------------------------------
(* The pthread mutex. *)

(* What pthread_mutex_trylock, _lock and _timedlock answer at once. *)
Answer(t) ==
    IF mstate = "poisoned" THEN "notrecoverable"
    ELSE IF mowner = t THEN IF robust THEN "deadlk" ELSE "busy"
    ELSE IF mowner # Nobody THEN "busy"
    ELSE IF mstate = "dead" THEN "ownerdead"
    ELSE "ok"

(* The mutex after t has had answer a. *)
LockWith(t, a) ==
    /\ mowner' = IF a \in {"ok", "ownerdead"} THEN t ELSE mowner
    /\ mstate' = IF a = "ownerdead" THEN "inconsistent" ELSE mstate

(* pthread_mutex_unlock by t, through a handle that still points to the    *)
(* mutex.  Giving up an inconsistent mutex makes it unusable for good.     *)
UnlockBy(t, live) ==
    IF live /\ mowner = t
      THEN /\ mowner' = Nobody
           /\ mstate' = IF mstate = "inconsistent" THEN "poisoned" ELSE mstate
      ELSE UNCHANGED <<mowner, mstate>>

(* The kernel's robust list at the exit of the threads in T. *)
OwnerDies(T) ==
    IF mowner \in T
      THEN /\ mowner' = IF robust THEN Nobody ELSE Gone
           /\ mstate' = IF robust THEN "dead" ELSE mstate
      ELSE UNCHANGED <<mowner, mstate>>

-----------------------------------------------------------------------------

(* Mutant: a wait that a signal handler broke off counts as a success. *)
AfterLockInterrupted(t, a) ==
    /\ LockWith(t, a)
    /\ locked' = IF a \in {"ok", "interrupted"} THEN locked \cup {At[t]} ELSE locked
    /\ holds' = IF a \in {"ok", "interrupted"} THEN holds \cup {t} ELSE holds
    /\ Return(t)
    /\ rc' = [rc EXCEPT ![t] = "ok"]
    /\ UNCHANGED <<callback, torn>>

(* Mutant: without a callback the mutex is refused and stays locked. *)
AfterLockKeeps(t, a) ==
    /\ LockWith(t, a)
    /\ locked' = IF a = "ok" THEN locked \cup {At[t]} ELSE locked
    /\ holds' = IF a = "ok" THEN holds \cup {t} ELSE holds
    /\ Return(t)
    /\ rc' = [rc EXCEPT ![t] = "ok"]
    /\ UNCHANGED <<callback, torn>>

(* posixipc_mutex_after_lock, on answer a, up to the call of               *)
(* on_owner_died; m->lock is NULL if the handle has been closed.  Without  *)
(* a callback the mutex is given up at once.                               *)
AfterLock(t, a) ==
    LET h == At[t]
        refused == a = "ownerdead" /\ h \notin callback
    IN  /\ IF refused /\ Open(h)
             THEN mowner' = Nobody /\ mstate' = "poisoned"
             ELSE LockWith(t, a)
        /\ locked' = IF refused THEN locked \ {h}
                     ELSE IF a \in {"ok", "ownerdead"} THEN locked \cup {h}
                     ELSE locked
        /\ holds' = IF a = "ok" THEN holds \cup {t} ELSE holds
        /\ pc' = [pc EXCEPT ![t] = IF a = "ownerdead" /\ ~refused THEN "callback" ELSE "idle"]
        /\ inside' = [inside EXCEPT ![t] = NoRegion]
        /\ mode' = [mode EXCEPT ![t] = "nowait"]
        /\ rc' = [rc EXCEPT ![t] = "ok"]
        /\ UNCHANGED <<callback, torn>>

(* mutex_acquire up to the wait: trylock with the GIL held. *)
MutexAcquire(t, how) ==
    LET a == Answer(t) IN
    /\ pc[t] = "idle" /\ Open(At[t])
    /\ \/ /\ a # "busy"
          /\ AfterLock(t, a)
       \/ /\ a = "busy" /\ how # "nowait"
          /\ Block(t, "mlock", how)
          /\ UNCHANGED <<mowner, mstate, flagVars, rc, dataVars>>
    /\ UNCHANGED <<robust, regionVars, handleVars, exportVars>>

(* pthread_mutex_lock or pthread_mutex_clocklock returns, without the GIL. *)
(* ERRORCHECK finds a thread that waits for itself.                        *)
MutexGrant(t) ==
    LET a == IF mowner = t THEN "deadlk" ELSE Answer(t) IN
    /\ pc[t] = "mlock" /\ ~Faulted(t)
    /\ a # "busy"
    /\ rc' = [rc EXCEPT ![t] = a]
    /\ LockWith(t, a)
    /\ Goto(t, "mgot")
    /\ UNCHANGED <<robust, regionVars, handleVars, exportVars, flagVars, dataVars>>

(* posixipc_blocking_wait gives up: the deadline has passed, or a signal   *)
(* handler raised between two slices.                                      *)
MutexGiveUp(t) ==
    /\ pc[t] = "mlock" /\ ~Faulted(t)
    /\ \/ mode[t] \in TimedModes /\ rc' = [rc EXCEPT ![t] = "timedout"]
       \/ mode[t] \in SlicedModes /\ rc' = [rc EXCEPT ![t] = "interrupted"]
    /\ Goto(t, "mgot")
    /\ UNCHANGED <<lockVars, regionVars, handleVars, exportVars, flagVars, dataVars>>

(* The wait is over and t has the GIL again: posixipc_mutex_after_lock. *)
MutexResume(t) ==
    /\ pc[t] = "mgot"
    /\ AfterLock(t, rc[t])
    /\ UNCHANGED <<robust, regionVars, handleVars, exportVars>>

(* on_owner_died returns after mending the data; then                      *)
(* posixipc_mutex_consistent, or EINVAL from a handle closed meanwhile.    *)
CallbackRepairs(t) ==
    /\ pc[t] = "callback"
    /\ torn' = Nobody
    /\ IF Open(At[t]) /\ mowner = t
         THEN mstate' = "clean" /\ holds' = holds \cup {t} /\ UNCHANGED locked
         ELSE locked' = locked \ {At[t]} /\ UNCHANGED <<mstate, holds>>
    /\ Return(t)
    /\ UNCHANGED <<robust, mowner, regionVars, handleVars, exportVars, callback, rc>>

(* Mutant: an exception of on_owner_died is dropped. *)
CallbackFailsUnseen(t) ==
    /\ pc[t] = "callback"
    /\ mstate' = "clean"
    /\ holds' = holds \cup {t}
    /\ Return(t)
    /\ UNCHANGED <<robust, mowner, regionVars, handleVars, exportVars, flagVars, rc, torn>>

(* on_owner_died raises, or calls release() itself, after which            *)
(* posixipc_mutex_consistent answers EINVAL and unlocking again EPERM.     *)
CallbackFails(t) ==
    /\ pc[t] = "callback"
    /\ UnlockBy(t, Open(At[t]))
    /\ locked' = locked \ {At[t]}
    /\ Return(t)
    /\ UNCHANGED <<robust, regionVars, handleVars, exportVars, callback, rc, dataVars>>

(* mutex_close by thread t.  A shared mutex stays as it is; a private one  *)
(* is unlocked, if it is t's, and destroyed.                               *)
CloseBy(t) ==
    /\ Open(At[t])
    /\ CloseBound(At[t])
    /\ IF hregion[At[t]] = NoRegion /\ At[t] \in locked
         THEN UnlockBy(t, TRUE) /\ locked' = locked \ {At[t]}
         ELSE UNCHANGED <<mowner, mstate, locked>>
    /\ UNCHANGED <<robust, callback, exportVars, rc>>

MutexClose(t) ==
    /\ pc[t] = "idle"
    /\ hregion[At[t]] = NoRegion => torn # t
    /\ CloseBy(t)
    /\ holds' = IF mowner' = t THEN holds ELSE holds \ {t}
    /\ UNCHANGED <<threadVars, torn>>

(* on_owner_died closes its argument and returns: m->lock is NULL, so      *)
(* consistent and unlock both answer EINVAL.                               *)
CallbackCloses(t) ==
    /\ pc[t] = "callback"
    /\ Open(At[t])
    /\ CloseBound(At[t])
    /\ IF hregion[At[t]] = NoRegion THEN UnlockBy(t, TRUE) ELSE UNCHANGED <<mowner, mstate>>
    /\ locked' = locked \ {At[t]}
    /\ Return(t)
    /\ UNCHANGED <<robust, callback, exportVars, rc, dataVars>>

(* mutex_release by the owner; anyone else gets EPERM.  The program mends  *)
(* its data before it gives the lock back.                                 *)
MutexRelease(t) ==
    /\ pc[t] = "idle" /\ Open(At[t])
    /\ mowner = t /\ torn # t
    /\ UnlockBy(t, TRUE)
    /\ locked' = locked \ {At[t]}
    /\ holds' = holds \ {t}
    /\ UNCHANGED <<robust, objectVars, callback, rc, torn>>

(* mutex_exit: a flag that is not set means there is nothing to release. *)
MutexExit(t) == At[t] \in locked /\ MutexRelease(t)

(* mutex_set_on_owner_died *)
SetOnOwnerDied(h) ==
    /\ \/ callback' = callback \ {h}
       \/ callback' = callback \cup {h}
    /\ UNCHANGED <<objectVars, lockVars, locked, rc, dataVars>>

(* The critical section: t has begun, or finished, an update. *)
Tear(t) ==
    /\ pc[t] = "idle" /\ t \in holds /\ torn = Nobody
    /\ torn' = t
    /\ UNCHANGED <<objectVars, lockVars, flagVars, rc, holds>>

Mend(t) ==
    /\ pc[t] = "idle" /\ torn = t
    /\ torn' = Nobody
    /\ UNCHANGED <<objectVars, lockVars, flagVars, rc, holds>>

(* A process is killed anywhere, or by a fault in memory it unmapped. *)
MutexDies(h) ==
    /\ ProcessDies(h)
    /\ OwnerDies(ThreadsOf(h))
    /\ holds' = holds \ ThreadsOf(h)
    /\ UNCHANGED <<robust, flagVars, rc, torn>>

(* A thread ends with the mutex locked; its process goes on. *)
ThreadExits(t) ==
    /\ pc[t] = "idle" /\ mowner = t
    /\ Goto(t, "dead")
    /\ OwnerDies({t})
    /\ holds' = holds \ {t}
    /\ UNCHANGED <<robust, regionVars, handleVars, exportVars, flagVars, rc, torn>>

(* What a thread does by itself once it is in a call or owns the mutex. *)
MutexStep(t) ==
    \/ MutexGrant(t) \/ MutexResume(t)
    \/ mode[t] \in TimedModes /\ MutexGiveUp(t)
    \/ CallbackRepairs(t) \/ CallbackFails(t)
    \/ MutexExit(t) \/ Mend(t)

MutexNext ==
    \/ \E t \in Threads, how \in Modes : MutexAcquire(t, how)
    \/ \E t \in Threads : MutexStep(t) \/ MutexGiveUp(t) \/ CallbackCloses(t)
                          \/ MutexClose(t) \/ MutexRelease(t) \/ Tear(t) \/ ThreadExits(t)
    \/ \E h \in Handles : SetOnOwnerDied(h) \/ MutexDies(h)
    \/ \E r \in Regions : CloseRegion(r) /\ UNCHANGED mutexOnly

MutexSpec == PlacedInit(1, Threads) /\ MutexInit /\ [][MutexNext]_mutexVars

-----------------------------------------------------------------------------

(* A thread told True owns the pthread mutex, through every close, death   *)
(* and callback of the others (after_lock and mutex_release answer for     *)
(* what the mutex did).                                                    *)
HeldIsOwned == \A t \in holds : mowner = t

(* Nobody is given a robust mutex over data that its dead owner left half  *)
(* updated, unless on_owner_died has mended it (after_lock calls it before *)
(* pthread_mutex_consistent, and poisons the mutex when it fails).         *)
SeenRecovered == \A t \in holds : torn \in {t, Nobody}

(* A robust mutex somebody waits for comes free again and again, whoever   *)
(* dies, unless its owner's handle was closed under it or its owner has    *)
(* closed it (mutex_close leaves a shared mutex locked).                   *)
RobustMutexMoves ==
    \A t \in Threads :
        (robust /\ pc[t] = "mlock")
            ~> \/ pc[t] # "mlock" \/ ~Open(At[t])
               \/ mowner \notin Threads \/ ~Open(At[mowner])

=============================================================================
