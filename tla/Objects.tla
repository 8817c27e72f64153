------------------------------- MODULE Objects -------------------------------
(***************************************************************************)
(* The Python objects of the package, side by side.  Each part is one kind *)
(* of object with its handles in one or two processes, on top of the       *)
(* regions they are bound to; a behaviour is about the part it starts in,  *)
(* so the states of this specification are those of its parts together.    *)
(***************************************************************************)
EXTENDS MutexArray, Condition, RWLock, Semaphore, Barrier, SpinLock, MessageQueue,
        Pickle, Linux, Clock

CONSTANT Crews \* by part, the sets of threads that exist

VARIABLE part

Parts == DOMAIN Crews

lockRest   == <<rwOnly, semOnly, barOnly, spinOnly, mqOnly>>
plainRest  == <<layoutVars, pickleVars, linuxVars, clockVars>>
objects    == <<part, condVars, arrayOnly, lockRest, plainRest>>

TypeOK ==
    /\ part \in Parts
    /\ RegionTypeOK /\ MutexTypeOK /\ ArrayTypeOK /\ CondTypeOK /\ RWTypeOK /\ SemTypeOK
    /\ BarTypeOK /\ MqTypeOK /\ LayoutTypeOK /\ LinuxTypeOK /\ ClockTypeOK
    /\ spholds \subseteq Threads

(* The regions and handles a part starts with. *)
PlaceFor(T) ==
    \/ part \in {"mutex", "rwlock", "barrier", "spinlock"} /\ PlacedInit(1, T)
    \/ part = "array" /\ PlacedInit(1, T) /\ hregion = Seat
    \/ part = "condition" /\ PlacedInit(2, T)
    \/ part \in {"region", "mq", "layout", "pickle", "futex", "descriptors", "clock"}
       /\ RegionInit(T)

Init ==
    /\ part \in Parts
    /\ \E T \in Crews[part] :
         IF part = "semaphore" THEN SemInit(T) ELSE PlaceFor(T) /\ SemInitAt(FALSE, NoSem, 0)
    /\ MutexInit
    /\ part \notin {"mutex", "array", "condition"} => ~robust /\ callback = {}
    /\ ArrayInit /\ CondInit /\ RWInit /\ BarInit /\ SpinInit /\ MqInit
    /\ LayoutInit /\ PickleInit /\ LinuxInit /\ ClockInit

Step ==
    \/ /\ part = "region" /\ RegionNext
       /\ UNCHANGED <<mutexOnly, condOnly, arrayOnly, lockRest, plainRest>>
    \/ /\ part = "mutex" /\ MutexNext
       /\ UNCHANGED <<condOnly, arrayOnly, lockRest, plainRest>>
    \/ /\ part = "array" /\ ArrayNext
       /\ UNCHANGED <<condOnly, lockRest, plainRest>>
    \/ /\ part = "condition" /\ CondNext
       /\ UNCHANGED <<arrayOnly, lockRest, plainRest>>
    \/ /\ part = "rwlock" /\ RWNext
       /\ UNCHANGED <<mutexOnly, condOnly, arrayOnly, semOnly, barOnly, spinOnly, mqOnly, plainRest>>
    \/ /\ part = "semaphore" /\ SemNext
       /\ UNCHANGED <<mutexOnly, condOnly, arrayOnly, rwOnly, barOnly, spinOnly, mqOnly, plainRest>>
    \/ /\ part = "barrier" /\ BarNext
       /\ UNCHANGED <<mutexOnly, condOnly, arrayOnly, rwOnly, semOnly, spinOnly, mqOnly, plainRest>>
    \/ /\ part = "spinlock" /\ SpinNext
       /\ UNCHANGED <<mutexOnly, condOnly, arrayOnly, rwOnly, semOnly, barOnly, mqOnly, plainRest>>
    \/ /\ part = "mq" /\ MqNext
       /\ UNCHANGED <<mutexOnly, condOnly, arrayOnly, rwOnly, semOnly, barOnly, spinOnly, plainRest>>
    \/ /\ part = "layout" /\ LayoutNext
       /\ UNCHANGED <<condVars, arrayOnly, lockRest, pickleVars, linuxVars, clockVars>>
    \/ /\ part = "pickle" /\ PickleNext
       /\ UNCHANGED <<condVars, arrayOnly, lockRest, layoutVars, linuxVars, clockVars>>
    \/ /\ part = "futex" /\ FutexNext
       /\ UNCHANGED <<condVars, arrayOnly, lockRest, layoutVars, pickleVars, clockVars>>
    \/ /\ part = "descriptors" /\ DescNext
       /\ UNCHANGED <<condVars, arrayOnly, lockRest, layoutVars, pickleVars, clockVars>>
    \/ /\ part = "clock" /\ ClockNext
       /\ UNCHANGED <<condVars, arrayOnly, lockRest, layoutVars, pickleVars, linuxVars>>

Next == Step /\ UNCHANGED part

(* Every thread that holds the GIL or is in a system call goes on, a mutex *)
(* that is let go again and again is taken by a thread that keeps trying,  *)
(* and a thread that has a lock it was told about releases it.             *)
Fairness ==
    \A t \in Threads :
      /\ WF_mutexVars(part = "mutex" /\ MutexStep(t))
      /\ SF_mutexVars(part = "mutex" /\ MutexExit(t))
      /\ SF_spinVars(part = "spinlock" /\ SpinStep(t))
      /\ SF_spinVars(part = "spinlock" /\ SpinRelease(t))
      /\ WF_spinVars(part = "spinlock" /\ GilDrop(t))

Spec == Init /\ [][Next]_objects /\ Fairness

-----------------------------------------------------------------------------

(* A thread that acquire() told it has an element of a MutexArray, or a    *)
(* read or write lock, has it, whatever other threads did to the handle,   *)
(* the item or the context manager meanwhile.                              *)
LocksBacked == ArrayHeldIsOwned /\ RWHoldsBacked

=============================================================================
