------------------------------ MODULE MutexArray ------------------------------
(***************************************************************************)
(* posixipc.MutexArray and its items (bindings/py_array.c): handles with   *)
(* many mutexes, of which this is one index.  acquire(i) goes to the array *)
(* itself or to the item array[i], which has a locked flag of its own.     *)
(*                                                                         *)
(* Two things differ from Mutex.  array_after_lock reads a->locks[index]   *)
(* again after the wait, and array_close frees a->locks: a thread that     *)
(* wakes up on a closed array dereferences NULL.  And it keeps the address *)
(* in a local while on_owner_died runs, so that what follows reaches the   *)
(* mutex even if the callback has closed the array.                        *)
(***************************************************************************)
EXTENDS Mutex

VARIABLES
    ilocked, \* the handles whose item has the locked flag
    byItem,  \* the threads whose call goes through the item
    aholds   \* <<t, item>>: t acquired the index, through the item or not

arrayOnly == <<ilocked, byItem, aholds>>
arrayVars == <<mutexVars, arrayOnly>>

ArrayTypeOK == /\ ilocked \subseteq Handles
               /\ byItem \subseteq Threads
               /\ aholds \subseteq Threads \X BOOLEAN

ArrayInit == ilocked = {} /\ byItem = {} /\ aholds = {}

AsMutex == <<locked, callback, holds>>

-----------------------------------------------------------------------------

(* array_after_lock up to the call of on_owner_died, on an open array.  An *)
(* item is flagged only once the lock is really t's.                       *)
ArrayAfterLock(t, a, item) ==
    LET refused == a = "ownerdead" /\ At[t] \notin callback
    IN  /\ IF refused
             THEN mowner' = Nobody /\ mstate' = "poisoned"
             ELSE LockWith(t, a)
        /\ ilocked' = IF a = "ok" /\ item THEN ilocked \cup {At[t]} ELSE ilocked
        /\ aholds' = IF a = "ok" THEN aholds \cup {<<t, item>>} ELSE aholds
        /\ IF a = "ownerdead" /\ ~refused
             THEN Block(t, "callback", "nowait") /\ byItem' = byItem \cup (IF item THEN {t} ELSE {})
             ELSE Return(t) /\ byItem' = byItem \ {t}
        /\ rc' = [rc EXCEPT ![t] = "ok"]
        /\ UNCHANGED <<AsMutex, torn>>

(* array_acquire and item_acquire: array_lock_index up to the wait. *)
ArrayAcquire(t, how, item) ==
    LET a == Answer(t) IN
    /\ pc[t] = "idle" /\ Open(At[t])
    /\ \/ a # "busy" /\ ArrayAfterLock(t, a, item)
       \/ /\ a = "busy" /\ how # "nowait"
          /\ Block(t, "mlock", how)
          /\ byItem' = byItem \cup (IF item THEN {t} ELSE {})
          /\ UNCHANGED <<mowner, mstate, AsMutex, rc, torn, ilocked, aholds>>
    /\ UNCHANGED <<robust, regionVars, handleVars, exportVars>>

(* The wait of array_lock_index is the wait of mutex_acquire. *)
ArrayWait(t) == (MutexGrant(t) \/ MutexGiveUp(t)) /\ UNCHANGED arrayOnly

(* What the end of a process leaves of its threads. *)
ArrayOrphans(h) ==
    /\ OwnerDies(ThreadsOf(h))
    /\ aholds' = aholds \ (ThreadsOf(h) \X BOOLEAN)
    /\ byItem' = byItem \ ThreadsOf(h)
    /\ UNCHANGED <<robust, AsMutex, rc, torn, ilocked>>

ArrayDies(h) == ProcessDies(h) /\ ArrayOrphans(h)

(* The wait is over: array_after_lock, or the fault on a->locks. *)
ArrayResume(t) ==
    /\ pc[t] = "mgot"
    /\ IF Open(At[t])
         THEN /\ ArrayAfterLock(t, rc[t], t \in byItem)
              /\ UNCHANGED <<robust, regionVars, handleVars, exportVars>>
         ELSE ProcessEnds(At[t]) /\ ArrayOrphans(At[t])

(* on_owner_died(item) returns; pthread_mutex_consistent on the local      *)
(* pointer answers EINVAL if the callback has released the mutex.          *)
ArrayCallbackRepairs(t) ==
    /\ pc[t] = "callback" /\ ~Faulted(t)
    /\ torn' = Nobody
    /\ mstate' = "clean"
    /\ aholds' = aholds \cup {<<t, t \in byItem>>}
    /\ ilocked' = IF t \in byItem THEN ilocked \cup {At[t]} ELSE ilocked
    /\ byItem' = byItem \ {t}
    /\ Return(t)
    /\ UNCHANGED <<robust, mowner, regionVars, handleVars, exportVars, AsMutex, rc>>

(* on_owner_died raises, or has released the mutex: given up and poisoned. *)
(* item_release clears the item's flag.                                    *)
ArrayCallbackFails(t) ==
    /\ pc[t] = "callback" /\ ~Faulted(t)
    /\ UnlockBy(t, TRUE)
    /\ ilocked' \in {ilocked, ilocked \ {At[t]}}
    /\ byItem' = byItem \ {t}
    /\ Return(t)
    /\ UNCHANGED <<robust, regionVars, handleVars, exportVars, AsMutex, rc, torn, aholds>>

(* array_close: nothing is unlocked. *)
ArrayClose(t) ==
    /\ pc[t] \in {"idle", "callback"}
    /\ CloseBound(At[t])
    /\ UNCHANGED <<mutexOnly, exportVars, threadVars, arrayOnly>>

(* array_release_index by the owner, from array_release or item_release:   *)
(* only the latter clears the item's flag.                                 *)
ArrayRelease(t, item) ==
    /\ pc[t] = "idle" /\ Open(At[t])
    /\ mowner = t /\ torn # t
    /\ UnlockBy(t, TRUE)
    /\ aholds' = aholds \ ({t} \X BOOLEAN)
    /\ ilocked' = IF item THEN ilocked \ {At[t]} ELSE ilocked
    /\ UNCHANGED <<robust, objectVars, AsMutex, rc, torn, byItem>>

(* item_exit *)
ItemExit(t) == At[t] \in ilocked /\ ArrayRelease(t, TRUE)

ArrayTear(t) ==
    /\ pc[t] = "idle" /\ \E item \in BOOLEAN : <<t, item>> \in aholds
    /\ torn' = IF torn = t THEN Nobody ELSE t
    /\ UNCHANGED <<objectVars, lockVars, flagVars, rc, holds, arrayOnly>>

ArrayNext ==
    \/ \E t \in Threads, how \in Modes, item \in BOOLEAN : ArrayAcquire(t, how, item)
    \/ \E t \in Threads, item \in BOOLEAN : ArrayRelease(t, item)
    \/ \E t \in Threads : \/ ArrayWait(t) \/ ArrayResume(t) \/ ItemExit(t)
                          \/ ArrayCallbackRepairs(t) \/ ArrayCallbackFails(t)
                          \/ ArrayClose(t) \/ ArrayTear(t)
    \/ \E h \in Handles : ArrayDies(h) \/ (SetOnOwnerDied(h) /\ UNCHANGED arrayOnly)
    \/ \E r \in Regions : CloseRegion(r) /\ UNCHANGED <<mutexOnly, arrayOnly>>

ArraySpec == PlacedInit(1, Threads) /\ hregion = Seat /\ MutexInit /\ ArrayInit /\ [][ArrayNext]_arrayVars

-----------------------------------------------------------------------------

(* A thread that acquired an index owns that mutex, over data its dead     *)
(* owner did not leave half updated, and if it went through the item,      *)
(* __exit__ will find the item flagged (array_after_lock sets the flag     *)
(* after pthread_mutex_consistent, item_release clears it).                *)
ArrayHeldIsOwned ==
    \A t \in Threads, item \in BOOLEAN : <<t, item>> \in aholds =>
        /\ mowner = t
        /\ torn \in {t, Nobody}
        /\ item => At[t] \in ilocked

=============================================================================
