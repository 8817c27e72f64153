------------------------------- MODULE Semaphore -------------------------------
(***************************************************************************)
(* posixipc.Semaphore, a slot of a layout or private (bindings/py_sync.c,  *)
(* core/posixipc_sem.c), and posixipc.NamedSemaphore                       *)
(* (posixipc_m3_nsem.inc, core/posixipc_nsem.c).  acquire() and release()  *)
(* of the two are the same code on the sem_t that o->sem points to; they   *)
(* differ in where that sem_t comes from and in what close() does to it.   *)
(*                                                                         *)
(* A named semaphore is mapped by its process alone and is not pinned:     *)
(* close() unmaps it under a thread that waits in it.                      *)
(***************************************************************************)
EXTENDS Region, Integers

CONSTANTS
    Sems,     \* sem_t objects
    NoSem,    \* a NULL o->sem
    MaxSem,   \* SEM_VALUE_MAX
    MaxTold   \* bound on permits taken and not given back

ASSUME NoSemAssumption == NoSem \notin Sems /\ Sems # {}
ASSUME MaxSemAssumption == MaxSem \in Nat \ {0} /\ MaxTold \in Nat

VARIABLES
    named,   \* the handles are NamedSemaphores
    sname,   \* the semaphore the name stands for
    svalue,  \* each sem_t's value
    sbirth,  \* the value it was created with
    osem,    \* o->sem
    tsem,    \* the local variable sem of a blocked acquire()
    sok,     \* the threads whose wait ended with a permit
    sleft,   \* the posts release() still has to make, of how many
    sout,    \* acquires that returned True less the permits release(n) returned from
    sraised  \* semaphores on which a release(n) has raised

semOnly == <<named, sname, svalue, sbirth, osem, tsem, sok, sleft, sout, sraised>>
semVars == <<objectVars, semOnly>>

SemTypeOK ==
    /\ named \in BOOLEAN
    /\ sname \in Sems \cup {NoSem}
    /\ svalue \in [Sems -> 0..MaxSem]
    /\ sbirth \in [Sems -> 0..MaxSem]
    /\ osem \in [Handles -> Sems \cup {NoSem}]
    /\ tsem \in [Threads -> Sems \cup {NoSem}]
    /\ sok \subseteq Threads
    /\ sleft \in [Threads -> (0..MaxSem) \X (0..MaxSem)]
    /\ sout \in [Sems -> Int]
    /\ sraised \subseteq Sems

SemInitAt(isNamed, s, v) ==
    /\ named = isNamed
    /\ sname = NoSem
    /\ sbirth = [x \in Sems |-> IF x = s THEN v ELSE 0]
    /\ svalue = sbirth
    /\ osem = [h \in Handles |-> IF h \in bound THEN s ELSE NoSem]
    /\ tsem = [t \in Threads |-> NoSem]
    /\ sok = {}
    /\ sleft = [t \in Threads |-> <<0, 0>>]
    /\ sout = [x \in Sems |-> 0]
    /\ sraised = {}

(* semobj_init, posixipc_sem_bind and posixipc_sem_init have made one      *)
(* semaphore all handles share, or there is no named semaphore yet.        *)
SemInit(T) ==
    \/ /\ PlacedInit(1, T)
       /\ \E v \in 0..1 : SemInitAt(FALSE, CHOOSE s \in Sems : TRUE, v)
    \/ RegionInit(T) /\ SemInitAt(TRUE, NoSem, 0)

-----------------------------------------------------------------------------

(* A thread that posts keeps the GIL of its process. *)
GilFree(t) == \A u \in ThreadsOf(At[t]) \ {t} : pc[u] # "posting"

(* The memory of a named semaphore went with sem_close. *)
SemFaulted(t) == Faulted(t) \/ (tsem[t] # NoSem /\ named /\ osem[At[t]] # tsem[t])

Unused(s) ==
    s # sname /\ (\A h \in Handles : osem[h] # s) /\ (\A t \in Threads : tsem[t] # s)

(* nsem_create and nsem_attach, with nsem_from_sem *)
NsemOpen(h, s) ==
    /\ named /\ Calls(h) /\ h \notin bound \cup hclosed
    /\ osem' = [osem EXCEPT ![h] = s]
    /\ bound' = bound \cup {h}
    /\ UNCHANGED <<regionVars, hclosed, hregion, exportVars, threadVars,
                   named, tsem, sok, sleft>>

NsemCreate(h, v) ==
    LET s == CHOOSE x \in Sems : Unused(x) IN
    /\ sname = NoSem /\ \E x \in Sems : Unused(x)
    /\ sname' = s
    /\ svalue' = [svalue EXCEPT ![s] = v]
    /\ sbirth' = [sbirth EXCEPT ![s] = v]
    /\ sout' = [sout EXCEPT ![s] = 0]
    /\ sraised' = sraised \ {s}
    /\ NsemOpen(h, s)

NsemAttach(h) ==
    /\ sname # NoSem
    /\ NsemOpen(h, sname)
    /\ UNCHANGED <<sname, svalue, sbirth, sout, sraised>>

(* nsem_unlink and nsem_unlink_name *)
NsemUnlink ==
    /\ sname # NoSem
    /\ sname' = NoSem
    /\ UNCHANGED <<objectVars, named, svalue, sbirth, osem, tsem, sok, sleft, sout, sraised>>

Take(s) == svalue[s] > 0 /\ svalue' = [svalue EXCEPT ![s] = @ - 1]

Told(s, n) == sout' = [sout EXCEPT ![s] = @ + n]

(* sem_acquire, nsem_acquire and the two __enter__ *)
SemAcquire(t, how) ==
    LET s == osem[At[t]] IN
    /\ pc[t] = "idle" /\ GilFree(t) /\ Open(At[t]) /\ sout[s] < MaxTold
    /\ \/ Take(s) /\ Told(s, 1) /\ UNCHANGED <<threadVars, tsem>>
       \/ /\ svalue[s] = 0 /\ how # "nowait"
          /\ Block(t, "semwait", how)
          /\ tsem' = [tsem EXCEPT ![t] = s]
          /\ UNCHANGED <<svalue, sout>>
    /\ UNCHANGED <<regionVars, handleVars, exportVars, named, sname, sbirth, osem, sok,
                   sleft, sraised>>

SemGrant(t) ==
    /\ pc[t] = "semwait" /\ ~SemFaulted(t)
    /\ Take(tsem[t])
    /\ sok' = sok \cup {t}
    /\ Goto(t, "semgot")
    /\ UNCHANGED <<regionVars, handleVars, exportVars, named, sname, sbirth, osem, tsem,
                   sleft, sout, sraised>>

(* The deadline, a signal handler, or EINTR, which sem_wait does not retry. *)
SemGiveUp(t) ==
    /\ pc[t] = "semwait" /\ ~SemFaulted(t)
    /\ Goto(t, "semgot")
    /\ UNCHANGED <<regionVars, handleVars, exportVars, semOnly>>

SemResume(t) ==
    /\ pc[t] = "semgot" /\ GilFree(t)
    /\ IF t \in sok THEN Told(tsem[t], 1) ELSE UNCHANGED sout
    /\ sok' = sok \ {t}
    /\ tsem' = [tsem EXCEPT ![t] = NoSem]
    /\ Return(t)
    /\ UNCHANGED <<regionVars, handleVars, exportVars, named, sname, svalue, sbirth, osem,
                   sleft, sraised>>

(* sem_release(n), nsem_release(n) and the two __exit__ (n = 1): n calls of *)
(* sem_post, each of which other processes may answer before the next.     *)
SemRelease(t, n) ==
    /\ pc[t] = "idle" /\ GilFree(t) /\ Open(At[t])
    /\ sleft' = [sleft EXCEPT ![t] = <<n, n>>]
    /\ Goto(t, "posting")
    /\ UNCHANGED <<regionVars, handleVars, exportVars, named, sname, svalue, sbirth, osem,
                   tsem, sok, sout, sraised>>

(* Mutant: the answer of sem_post is not looked at. *)
SemPostUnchecked(t) ==
    LET s == osem[At[t]]  left == sleft[t][1] IN
    /\ pc[t] = "posting"
    /\ svalue' = IF svalue[s] = MaxSem THEN svalue ELSE [svalue EXCEPT ![s] = @ + 1]
    /\ IF left = 1
         THEN sleft' = [sleft EXCEPT ![t] = <<0, 0>>] /\ Return(t) /\ Told(s, -sleft[t][2])
         ELSE sleft' = [sleft EXCEPT ![t][1] = left - 1] /\ UNCHANGED <<threadVars, sout>>
    /\ UNCHANGED <<regionVars, handleVars, exportVars, named, sname, sbirth, osem, tsem, sok, sraised>>

(* One post.  The last one returns; at SEM_VALUE_MAX the call raises and   *)
(* leaves the posts it has made.                                           *)
SemPost(t) ==
    LET s == osem[At[t]]  left == sleft[t][1] IN
    /\ pc[t] = "posting"
    /\ IF svalue[s] = MaxSem
         THEN sraised' = sraised \cup {s} /\ UNCHANGED svalue
         ELSE svalue' = [svalue EXCEPT ![s] = @ + 1] /\ UNCHANGED sraised
    /\ IF svalue[s] = MaxSem \/ left = 1
         THEN sleft' = [sleft EXCEPT ![t] = <<0, 0>>] /\ Return(t)
         ELSE sleft' = [sleft EXCEPT ![t][1] = left - 1] /\ UNCHANGED threadVars
    /\ IF svalue[s] < MaxSem /\ left = 1 THEN Told(s, -sleft[t][2]) ELSE UNCHANGED sout
    /\ UNCHANGED <<regionVars, handleVars, exportVars, named, sname, sbirth, osem, tsem, sok>>

(* semobj_close, or nsem_close *)
SemClose(h) ==
    /\ Calls(h) /\ h \in bound
    /\ \A t \in ThreadsOf(h) : pc[t] # "posting"
    /\ CloseBound(h)
    /\ osem' = [osem EXCEPT ![h] = NoSem]
    /\ UNCHANGED <<exportVars, threadVars, named, sname, svalue, sbirth, tsem, sok, sleft,
                   sout, sraised>>

(* A permit a killed thread had taken is gone with it, and the posts its   *)
(* release(n) had made stay: nobody was told.                              *)
SemDies(h) ==
    /\ h \in MayDie \/ \E t \in ThreadsOf(h) : SemFaulted(t)
    /\ ProcessEnds(h)
    /\ sout' = [s \in Sems |->
                  sout[s] + Cardinality({t \in ThreadsOf(h) \cap sok : tsem[t] = s})]
    /\ sraised' = sraised \cup {s \in Sems : \E t \in ThreadsOf(h) :
                                   pc[t] = "posting" /\ osem[h] = s}
    /\ sok' = sok \ ThreadsOf(h)
    /\ osem' = [osem EXCEPT ![h] = NoSem]
    /\ tsem' = [t \in Threads |-> IF At[t] = h THEN NoSem ELSE tsem[t]]
    /\ sleft' = [t \in Threads |-> IF At[t] = h THEN <<0, 0>> ELSE sleft[t]]
    /\ UNCHANGED <<named, sname, svalue, sbirth>>

SemNext ==
    \/ \E h \in Handles, v \in 0..1 : NsemCreate(h, v)
    \/ \E h \in Handles : NsemAttach(h) \/ SemClose(h) \/ SemDies(h)
    \/ NsemUnlink
    \/ \E t \in Threads, how \in Modes : SemAcquire(t, how)
    \/ \E t \in Threads : SemGrant(t) \/ SemGiveUp(t) \/ SemResume(t) \/ SemPost(t)
    \/ \E t \in Threads, n \in 1..MaxSem : SemRelease(t, n)
    \/ \E r \in Regions : CloseRegion(r) /\ UNCHANGED semOnly

SemSpec == SemInit(Threads) /\ [][SemNext]_semVars

-----------------------------------------------------------------------------

(* The posts of releases under way: <<t, i>> is the i-th of t's release(n). *)
Posts(s) ==
    {p \in Threads \X (1..MaxSem) :
       /\ pc[p[1]] = "posting" /\ osem[At[p[1]]] = s
       /\ p[2] <= sleft[p[1]][2] - sleft[p[1]][1]}

(* The threads on their way out of acquire() with a permit. *)
Taking(s) == {t \in sok : tsem[t] = s}

Permits(s) == svalue[s] - Cardinality(Posts(s)) + sout[s] + Cardinality(Taking(s))

(* No permit is lost or made up: what a semaphore was born with is its     *)
(* value, the permits of threads on their way out of acquire(), and those  *)
(* callers have been told of.  A wait that ends by its deadline or a       *)
(* signal takes none; a name that is unlinked and created again does not   *)
(* mix its permits with the old one's; a release(n) that raises, or dies,  *)
(* halfway may leave permits more, never fewer.                            *)
PermitsConserved ==
    \A s \in Sems :
      /\ Permits(s) >= sbirth[s]
      /\ s \notin sraised => Permits(s) = sbirth[s]

=============================================================================
