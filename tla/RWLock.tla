-------------------------------- MODULE RWLock --------------------------------
(***************************************************************************)
(* posixipc.RWLock and the context managers read() and write() return      *)
(* (bindings/py_sync.c, core/posixipc_rwlock.c).  The pthread rwlock       *)
(* counts its readers and knows its writer; it does not know which threads *)
(* read, so an unlock too many takes away somebody else's lock.  Keeping   *)
(* the calls in pairs is the work of the context manager's held flag.      *)
(***************************************************************************)
EXTENDS Region

VARIABLES
    readers, \* read locks the pthread rwlock has given out
    writer,  \* the thread it gave the write lock to
    rwanted, \* what a thread is waiting for: <<kind, via>>
    rwok,    \* its wait ended with the lock
    rwholds, \* <<t, kind, via>>: t was told True, by acquire_* or by __enter__
    cms,     \* the threads that have a context manager object
    cmheld   \* those whose context manager has held = 1

rwOnly == <<readers, writer, rwanted, rwok, rwholds, cms, cmheld>>
rwVars == <<objectVars, rwOnly>>

RWKinds == {"read", "write"}
Vias == {"call", "cm"}

RWTypeOK ==
    /\ readers \in Nat
    /\ writer \in Threads \cup {Nobody}
    /\ rwanted \in [Threads -> RWKinds \X Vias]
    /\ rwok \subseteq Threads
    /\ rwholds \subseteq Threads \X RWKinds \X Vias
    /\ cms \subseteq Threads
    /\ cmheld \subseteq Threads

RWInit ==
    /\ readers = 0
    /\ writer = Nobody
    /\ rwanted = [t \in Threads |-> <<"read", "call">>]
    /\ rwok = {}
    /\ rwholds = {}
    /\ cms = {}
    /\ cmheld = {}

-----------------------------------------------------------------------------

(* The pthread rwlock, readers first.  A thread that died keeps its locks. *)
Available(kind) == writer = Nobody /\ (kind = "write" => readers = 0)

RWLockFor(t, kind) ==
    /\ Available(kind)
    /\ IF kind = "read"
         THEN readers' = readers + 1 /\ UNCHANGED writer
         ELSE writer' = t /\ UNCHANGED readers

(* pthread_rwlock_unlock: the writer's lock if the caller is the writer,   *)
(* else one read lock, whoever's.                                          *)
RWUnlockBy(t) ==
    IF writer = t
      THEN writer' = Nobody /\ UNCHANGED readers
      ELSE readers' = (IF readers > 0 THEN readers - 1 ELSE 0) /\ UNCHANGED writer

(* rwlock_result, and cm_enter's held = 1. *)
RWTold(t, kind, via) ==
    /\ rwholds' = rwholds \cup {<<t, kind, via>>}
    /\ cmheld' = IF via = "cm" THEN cmheld \cup {t} ELSE cmheld

(* rwlock_acquire_mode up to the wait. *)
RWAcquireMode(t, kind, via, how) ==
    /\ pc[t] = "idle" /\ Open(At[t])
    /\ \/ /\ RWLockFor(t, kind)
          /\ RWTold(t, kind, via)
          /\ UNCHANGED <<threadVars, rwanted>>
       \/ /\ ~Available(kind) /\ how # "nowait"
          /\ Block(t, "rwwait", how)
          /\ rwanted' = [rwanted EXCEPT ![t] = <<kind, via>>]
          /\ UNCHANGED <<readers, writer, rwholds, cmheld>>
    /\ UNCHANGED <<regionVars, handleVars, exportVars, rwok>>

(* rwlock_acquire_read and rwlock_acquire_write, once per thread. *)
RWAcquire(t, kind, how) ==
    /\ \A k \in RWKinds : <<t, k, "call">> \notin rwholds
    /\ RWAcquireMode(t, kind, "call", how)
    /\ UNCHANGED cms

(* rwlock_read or rwlock_write (cm_new), and cm_enter.  An object that was *)
(* left stays until cm_dealloc; entering it again is entering a new one.   *)
CmEnter(t, kind) ==
    /\ t \notin cmheld
    /\ RWAcquireMode(t, kind, "cm", "sliced")
    /\ cms' = cms \cup {t}

RWGrant(t) ==
    /\ pc[t] = "rwwait" /\ ~Faulted(t)
    /\ RWLockFor(t, rwanted[t][1])
    /\ rwok' = rwok \cup {t}
    /\ Goto(t, "rwgot")
    /\ UNCHANGED <<regionVars, handleVars, exportVars, rwanted, rwholds, cms, cmheld>>

(* The wait ends without the lock: the deadline, a signal handler, or      *)
(* EDEADLK for the writer itself.                                          *)
RWGiveUp(t) ==
    /\ pc[t] = "rwwait" /\ ~Faulted(t)
    /\ mode[t] # "plain" \/ writer = t
    /\ Goto(t, "rwgot")
    /\ UNCHANGED <<regionVars, handleVars, exportVars, rwOnly>>

RWResume(t) ==
    /\ pc[t] = "rwgot"
    /\ IF t \in rwok
         THEN RWTold(t, rwanted[t][1], rwanted[t][2])
         ELSE UNCHANGED <<rwholds, cmheld>>
    /\ rwok' = rwok \ {t}
    /\ rwanted' = [rwanted EXCEPT ![t] = <<"read", "call">>]
    /\ Return(t)
    /\ UNCHANGED <<regionVars, handleVars, exportVars, readers, writer, cms>>

(* rwlock_release, called by a thread that was told True; ClosedError on a *)
(* closed handle.                                                          *)
RWRelease(t) ==
    /\ pc[t] = "idle" /\ Open(At[t])
    /\ \E kind \in RWKinds :
         /\ <<t, kind, "call">> \in rwholds
         /\ rwholds' = rwholds \ {<<t, kind, "call">>}
    /\ RWUnlockBy(t)
    /\ UNCHANGED <<objectVars, rwanted, rwok, cms, cmheld>>

(* Mutant: held stays 1. *)
CmLetGoAgain(t) ==
    /\ rwholds' = {x \in rwholds : x[1] # t \/ x[3] # "cm"}
    /\ IF Open(At[t]) THEN RWUnlockBy(t) ELSE UNCHANGED <<readers, writer>>
    /\ UNCHANGED cmheld

(* The context manager lets go: held is 0 before rwlock_release is called, *)
(* which does nothing but raise on a closed handle.                        *)
CmLetGo(t) ==
    /\ cmheld' = cmheld \ {t}
    /\ rwholds' = {x \in rwholds : x[1] # t \/ x[3] # "cm"}
    /\ IF Open(At[t]) THEN RWUnlockBy(t) ELSE UNCHANGED <<readers, writer>>

(* cm_exit *)
CmExit(t) ==
    /\ pc[t] = "idle" /\ t \in cmheld
    /\ CmLetGo(t)
    /\ UNCHANGED <<objectVars, rwanted, rwok, cms>>

(* cm_dealloc, in the thread that entered *)
CmDealloc(t) ==
    /\ pc[t] = "idle" /\ t \in cms
    /\ IF t \in cmheld THEN CmLetGo(t) ELSE UNCHANGED <<cmheld, rwholds, readers, writer>>
    /\ cms' = cms \ {t}
    /\ UNCHANGED <<objectVars, rwanted, rwok>>

(* rwlock_close: a locked rwlock stays locked. *)
RWClose(h) ==
    Calls(h) /\ h \in bound /\ CloseBound(h) /\ UNCHANGED <<exportVars, threadVars, rwOnly>>

RWDies(h) ==
    /\ ProcessDies(h)
    /\ rwholds' = {x \in rwholds : x[1] \notin ThreadsOf(h)}
    /\ cmheld' = cmheld \ ThreadsOf(h)
    /\ rwok' = rwok \ ThreadsOf(h)
    /\ UNCHANGED <<readers, writer, rwanted, cms>>

RWNext ==
    \/ \E t \in Threads, kind \in RWKinds, how \in Modes : RWAcquire(t, kind, how)
    \/ \E t \in Threads, kind \in RWKinds : CmEnter(t, kind)
    \/ \E t \in Threads : \/ RWGrant(t) \/ RWGiveUp(t) \/ RWResume(t) \/ RWRelease(t)
                          \/ CmExit(t) \/ CmDealloc(t)
    \/ \E h \in Handles : RWClose(h) \/ RWDies(h)
    \/ \E r \in Regions : CloseRegion(r) /\ UNCHANGED rwOnly

RWSpec == PlacedInit(1, Threads) /\ RWInit /\ [][RWNext]_rwVars

-----------------------------------------------------------------------------

(* Whoever was told True has the lock: a writer alone, and no more readers *)
(* than the pthread rwlock counts.  A release by one thread, a context     *)
(* manager left twice or one that is garbage takes nobody else's lock      *)
(* (cm_exit clears held before it releases).                               *)
RWHoldsBacked ==
    /\ \A x \in rwholds : x[2] = "write" => writer = x[1] /\ rwholds = {x}
    /\ Cardinality({x \in rwholds : x[2] = "read"}) <= readers

=============================================================================
