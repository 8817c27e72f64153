------------------------------- MODULE SpinLock -------------------------------
(***************************************************************************)
(* posixipc.SpinLock (bindings/posixipc_m3_spin.inc, core/posixipc_spin.c):*)
(* acquire() tries the lock, gives up the GIL for every further attempt,   *)
(* and takes it back to look at signals.  The GIL of each process is a     *)
(* variable here: the thread that has the lock needs it to release.        *)
(***************************************************************************)
EXTENDS Region

VARIABLES
    gil,      \* per handle's process, the thread that runs Python code
    spowner,  \* the thread whose trylock succeeded; the pthread lock knows
              \* only that there is one
    spholds   \* the threads told True

spinOnly == <<gil, spowner, spholds>>
spinVars == <<objectVars, spinOnly>>

SpinTypeOK ==
    /\ gil \in [Handles -> Threads \cup {Nobody}]
    /\ spowner \in Threads \cup {Nobody}
    /\ spholds \subseteq Threads

SpinInit ==
    /\ gil = [h \in Handles |-> Nobody]
    /\ spowner = Nobody
    /\ spholds = {}

-----------------------------------------------------------------------------

GilFreeFor(t) == gil[At[t]] = Nobody
GilTo(t) == gil' = [gil EXCEPT ![At[t]] = t]
GilOff(t) == gil' = [gil EXCEPT ![At[t]] = Nobody]
Running(t) == pc[t] = "idle" /\ gil[At[t]] = t

(* The interpreter's own hand-over between two threads. *)
GilTake(t) ==
    /\ pc[t] = "idle" /\ GilFreeFor(t) /\ GilTo(t)
    /\ UNCHANGED <<objectVars, spowner, spholds>>

GilDrop(t) ==
    /\ Running(t) /\ GilOff(t)
    /\ UNCHANGED <<objectVars, spowner, spholds>>

(* Mutant: the GIL is kept while spinning. *)
SpinAcquireHolding(t, how) ==
    /\ Running(t) /\ Open(At[t]) /\ t \notin spholds
    /\ \/ /\ spowner = Nobody
          /\ spowner' = t
          /\ spholds' = spholds \cup {t}
          /\ UNCHANGED <<threadVars, gil>>
       \/ /\ spowner # Nobody
          /\ Block(t, "spin", how)
          /\ UNCHANGED <<gil, spowner, spholds>>
    /\ UNCHANGED <<regionVars, handleVars, exportVars>>

(* spin_acquire and spin_enter: one attempt with the GIL; a blocking call  *)
(* gives the GIL up for the next.  The lock is not recursive, and a thread *)
(* that has it does not ask again.                                         *)
SpinAcquire(t, how) ==
    /\ Running(t) /\ Open(At[t]) /\ t \notin spholds
    /\ \/ /\ spowner = Nobody
          /\ spowner' = t
          /\ spholds' = spholds \cup {t}
          /\ UNCHANGED <<threadVars, gil>>
       \/ /\ spowner # Nobody
          /\ Block(t, "spin", how)
          /\ GilOff(t)
          /\ UNCHANGED <<spowner, spholds>>
    /\ UNCHANGED <<regionVars, handleVars, exportVars>>

(* posixipc_spin_trylock with the GIL released, and sched_yield *)
SpinTry(t) ==
    /\ pc[t] = "spin" /\ ~Faulted(t)
    /\ IF spowner = Nobody
         THEN spowner' = t /\ Goto(t, "spun")
         ELSE Goto(t, "spinback") /\ UNCHANGED spowner
    /\ UNCHANGED <<regionVars, handleVars, exportVars, gil, spholds>>

(* Py_END_ALLOW_THREADS after a failed attempt: a signal handler may raise *)
(* out of an interruptible call; else the GIL is given up again.           *)
SpinBack(t) ==
    /\ pc[t] = "spinback" /\ GilFreeFor(t)
    /\ \/ Goto(t, "spin") /\ UNCHANGED gil
       \/ mode[t] = "sliced" /\ Return(t) /\ GilTo(t)
    /\ UNCHANGED <<regionVars, handleVars, exportVars, spowner, spholds>>

SpinGot(t) ==
    /\ pc[t] = "spun" /\ GilFreeFor(t)
    /\ GilTo(t)
    /\ spholds' = spholds \cup {t}
    /\ Return(t)
    /\ UNCHANGED <<regionVars, handleVars, exportVars, spowner>>

(* spin_release, also __exit__ *)
SpinRelease(t) ==
    /\ Running(t) /\ Open(At[t]) /\ t \in spholds
    /\ spowner' = Nobody
    /\ spholds' = spholds \ {t}
    /\ UNCHANGED <<objectVars, gil>>

(* spin_close, by a thread of the process that runs *)
SpinClose(h) ==
    /\ h \in bound /\ gil[h] # Nobody
    /\ CloseBound(h)
    /\ UNCHANGED <<exportVars, threadVars, spinOnly>>

(* The lock of a killed process stays locked. *)
SpinDies(h) ==
    /\ ProcessDies(h)
    /\ gil' = [gil EXCEPT ![h] = Nobody]
    /\ spholds' = spholds \ ThreadsOf(h)
    /\ UNCHANGED spowner

SpinStep(t) == GilTake(t) \/ SpinTry(t) \/ SpinBack(t) \/ SpinGot(t)

SpinNext ==
    \/ \E t \in Threads : SpinStep(t) \/ GilDrop(t) \/ SpinRelease(t)
    \/ \E t \in Threads, how \in {"plain", "sliced"} : SpinAcquire(t, how)
    \/ \E h \in Handles : SpinClose(h) \/ SpinDies(h)
    \/ \E r \in Regions : CloseRegion(r) /\ UNCHANGED spinOnly

SpinSpec == PlacedInit(1, Threads) /\ SpinInit /\ [][SpinNext]_spinVars

-----------------------------------------------------------------------------

(* Nobody will release the lock: its owner died, or has closed the handle. *)
Orphaned == spowner # Nobody /\ (pc[spowner] = "dead" \/ ~Open(At[spowner]))

(* "A Python thread that spins while holding the GIL can deadlock the      *)
(* interpreter; this implementation does not" (posixipc_m3_spin.inc:1):    *)
(* while a thread spins, the thread of its own process that has the lock   *)
(* still gets to release it.                                               *)
SpinLockFrees ==
    \A t \in Threads :
      pc[t] = "spin" ~> (spowner = Nobody \/ Orphaned \/ pc[t] \in {"idle", "dead"})

=============================================================================
