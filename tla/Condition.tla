------------------------------ MODULE Condition ------------------------------
(***************************************************************************)
(* posixipc.Condition (bindings/py_sync.c, core/posixipc_cond.c) together  *)
(* with the Mutex it belongs to.  A Condition handle pins the region and   *)
(* refers to the mutex handle of its process; the two are closed           *)
(* separately.                                                             *)
(*                                                                         *)
(* cond_wait asks only whether the mutex handle's locked flag is set, and  *)
(* leaves it set while the thread waits.  An interruptible wait is a       *)
(* series of 50 ms waits: the thread leaves the condition variable, locks  *)
(* the mutex, looks for signals and waits again.                           *)
(***************************************************************************)
EXTENDS Mutex

VARIABLES
    waiters, \* the threads queued on the pthread condition variable
    cclosed  \* the handles whose Condition is closed

condOnly == <<waiters, cclosed>>
condVars == <<mutexVars, condOnly>>

CondTypeOK == waiters \subseteq Threads /\ cclosed \subseteq Handles

CondInit == waiters = {} /\ cclosed = {}

(* cond_check_open: bound, not closed, and with a mutex. *)
CondOpen(h) == h \in bound /\ h \notin cclosed

-----------------------------------------------------------------------------

(* pthread_cond_wait lets go of the mutex and queues t in one step. *)
Enqueue(t) ==
    /\ waiters' = waiters \cup {t}
    /\ mowner' = Nobody
    /\ UNCHANGED mstate

(* cond_wait.  A thread that does not own the mutex its handle has flagged *)
(* gets EPERM and changes nothing.                                         *)
CondWait(t, how) ==
    /\ pc[t] = "idle" /\ how # "nowait"
    /\ CondOpen(At[t]) /\ Open(At[t]) /\ At[t] \in locked
    /\ mowner = t /\ torn # t
    /\ Enqueue(t)
    /\ holds' = holds \ {t}
    /\ Block(t, "cwait", how)
    /\ UNCHANGED <<robust, regionVars, handleVars, exportVars, flagVars, rc, torn, cclosed>>

(* t leaves the queue with answer a: woken, or its deadline has passed. *)
Dequeue(T, a) ==
    /\ waiters' = waiters \ T
    /\ pc' = [t \in Threads |-> IF t \in T THEN "crelock" ELSE pc[t]]
    /\ rc' = [t \in Threads |-> IF t \in T THEN a ELSE rc[t]]
    /\ UNCHANGED <<inside, mode, lockVars, regionVars, handleVars, exportVars, flagVars, dataVars, cclosed>>

(* cond_notify wakes one of the queue, cond_notify_all all of it; neither  *)
(* asks for the mutex.                                                     *)
CondNotify(u) ==
    /\ pc[u] = "idle" /\ CondOpen(At[u])
    /\ \E t \in waiters : Dequeue({t}, "ok")

CondNotifyAll(u) ==
    /\ pc[u] = "idle" /\ CondOpen(At[u]) /\ waiters # {}
    /\ Dequeue(waiters, "ok")

(* A spurious wakeup, and the end of a slice or of the caller's timeout. *)
CondSpurious(t) == t \in waiters /\ ~Faulted(t) /\ Dequeue({t}, "ok")

CondTimeout(t) ==
    /\ t \in waiters /\ ~Faulted(t)
    /\ mode[t] # "plain"
    /\ Dequeue({t}, "timedout")

(* pthread_cond_wait locks the mutex before it returns; an answer of the   *)
(* mutex other than 0 takes the place of the wait's own.                   *)
CondRelock(t) ==
    LET a == Answer(t) IN
    /\ pc[t] = "crelock" /\ ~Faulted(t)
    /\ a # "busy"
    /\ LockWith(t, a)
    /\ rc' = [rc EXCEPT ![t] = IF a = "ok" THEN @ ELSE a]
    /\ Goto(t, "cgot")
    /\ UNCHANGED <<robust, regionVars, handleVars, exportVars, flagVars, dataVars, condOnly>>

(* posixipc_blocking_wait after a slice that timed out: no signal, the     *)
(* caller's deadline has not passed, and the wait starts over.             *)
CondAgain(t) ==
    /\ pc[t] = "cgot" /\ rc[t] = "timedout" /\ mode[t] \in SlicedModes
    /\ Enqueue(t)
    /\ pc' = [pc EXCEPT ![t] = "cwait"]
    /\ UNCHANGED <<robust, inside, mode, regionVars, handleVars, exportVars, flagVars, rc, dataVars, cclosed>>

(* cond_wait ends by a timeout or a signal handler's exception.  It sets   *)
(* the locked flag whether or not the mutex handle is still open.          *)
CondGiveUp(t) ==
    /\ pc[t] = "cgot" /\ rc[t] = "timedout"
    /\ locked' = locked \cup {At[t]}
    /\ holds' = holds \cup {t}
    /\ rc' = [rc EXCEPT ![t] = "ok"]
    /\ Return(t)
    /\ UNCHANGED <<lockVars, regionVars, handleVars, exportVars, callback, torn, condOnly>>

(* cond_wait was woken, or its mutex has lost an owner: the rest is        *)
(* posixipc_mutex_after_lock.                                              *)
CondResume(t) ==
    /\ pc[t] = "cgot" /\ rc[t] # "timedout"
    /\ AfterLock(t, rc[t])
    /\ UNCHANGED <<robust, regionVars, handleVars, exportVars, condOnly>>

(* cond_close: unpins, and forgets the mutex. *)
CondClose(t) ==
    /\ pc[t] = "idle" /\ At[t] \in bound
    /\ At[t] \notin cclosed
    /\ IF Seat[At[t]] \in mapped THEN Unpin(Seat[At[t]]) ELSE UNCHANGED pins
    /\ cclosed' = cclosed \cup {At[t]}
    /\ UNCHANGED <<mapped, rclosed, rref, handleVars, exportVars, threadVars, mutexOnly, waiters>>

CondDies(h) ==
    /\ MutexDies(h)
    /\ waiters' = waiters \ ThreadsOf(h)
    /\ UNCHANGED cclosed

CondNext ==
    \/ \E t \in Threads, how \in Modes :
         CondWait(t, how) \/ (MutexAcquire(t, how) /\ UNCHANGED condOnly)
    \/ \E t \in Threads :
         \/ CondNotify(t) \/ CondNotifyAll(t) \/ CondSpurious(t) \/ CondTimeout(t)
         \/ CondRelock(t) \/ CondAgain(t) \/ CondGiveUp(t) \/ CondResume(t) \/ CondClose(t)
         \/ (MutexStep(t) \/ MutexClose(t) \/ Tear(t)) /\ UNCHANGED condOnly
    \/ \E h \in Handles : CondDies(h)
    \/ \E r \in Regions : CloseRegion(r) /\ UNCHANGED <<mutexOnly, condOnly>>

CondSpec == PlacedInit(2, Threads) /\ MutexInit /\ CondInit /\ [][CondNext]_condVars

=============================================================================
