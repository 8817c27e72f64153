--------------------------------- MODULE Linux ---------------------------------
(***************************************************************************)
(* posixipc.linux without FutexQueue (bindings/py_linux.c): Futex, a word  *)
(* of the process with the kernel's compare-and-sleep, and EventFD and     *)
(* MemFD, objects that own a number in the process's descriptor table.     *)
(* The kernel's side (the sleepers of a word, the table, which file a      *)
(* number leads to) is external.                                           *)
(***************************************************************************)
EXTENDS Naturals, FiniteSets

CONSTANTS
    Callers,    \* threads of one process
    Words,      \* the values of the futex word
    FutexModes, \* how wait() waits: "plain", "timed", "sliced", "slicedTimed"
    Descs,      \* EventFD and MemFD objects
    Fds,        \* descriptor numbers; 0 stands for -1
    Files,      \* open files of the kernel
    NoFile, NoDesc,
    MaxViews    \* bound on the views of one MemFD

ASSUME LinuxAssumption ==
    /\ Fds \subseteq Nat \ {0}
    /\ NoFile \notin Files /\ NoDesc \notin Descs
    /\ MaxViews \in Nat

VARIABLES
    fword,   \* o->word
    fclosed, \* Futex.closed
    fpc,     \* where a caller is in futex_wait
    fexp,    \* the value it expects
    fhow,    \* how it waits
    flate,   \* the callers whose deadline has passed
    ftold,   \* what the last wait() returned
    fdirty,  \* the word was stored to since all sleepers were last woken
    dkind,   \* "eventfd", "memfd", or "none" for memory that is no object
    dfd,     \* o->fd; 0 once it is closed
    dfile,   \* the file it was opened on
    dviews,  \* memoryviews of a MemFD: its pins
    table,   \* the process's descriptor table
    tdesc,   \* the object of the call a thread is in
    tfd,     \* the number it has read
    tfile,   \* the file its system call works on
    tclosed  \* the threads whose object was closed during their call

futexVars == <<fword, fclosed, fpc, fexp, fhow, flate, ftold, fdirty>>
descVars  == <<dkind, dfd, dfile, dviews, table, tdesc, tfd, tfile, tclosed>>
linuxVars == <<futexVars, descVars>>

LinuxTypeOK ==
    /\ fword \in Words /\ fclosed \in BOOLEAN /\ fdirty \in BOOLEAN
    /\ fpc \in [Callers -> {"out", "call", "asleep", "woken", "timedout"}]
    /\ fexp \in [Callers -> Words] /\ fhow \in [Callers -> FutexModes]
    /\ flate \subseteq Callers
    /\ ftold \in [Callers -> {"nothing", "true", "false", "raised"}]
    /\ dkind \in [Descs -> {"none", "eventfd", "memfd"}]
    /\ dfd \in [Descs -> Fds \cup {0}]
    /\ dfile \in [Descs -> Files \cup {NoFile}]
    /\ dviews \in [Descs -> 0..MaxViews]
    /\ table \in [Fds -> Files \cup {NoFile}]
    /\ tdesc \in [Callers -> Descs \cup {NoDesc}]
    /\ tfd \in [Callers -> Fds \cup {0}]
    /\ tfile \in [Callers -> Files \cup {NoFile}]
    /\ tclosed \subseteq Callers

LinuxInit ==
    /\ fword = 0 /\ fclosed = FALSE /\ fdirty = FALSE /\ flate = {}
    /\ fpc = [t \in Callers |-> "out"]
    /\ fexp = [t \in Callers |-> 0]
    /\ fhow = [t \in Callers |-> CHOOSE how \in FutexModes : TRUE]
    /\ ftold = [t \in Callers |-> "nothing"]
    /\ dkind = [o \in Descs |-> "none"]
    /\ dfd = [o \in Descs |-> 0]
    /\ dfile = [o \in Descs |-> NoFile]
    /\ dviews = [o \in Descs |-> 0]
    /\ table = [f \in Fds |-> NoFile]
    /\ tdesc = [t \in Callers |-> NoDesc]
    /\ tfd = [t \in Callers |-> 0]
    /\ tfile = [t \in Callers |-> NoFile]
    /\ tclosed = {}

-----------------------------------------------------------------------------
(* Futex *)

FutexIdle(t) == fpc[t] = "out" /\ ~fclosed

(* wait(expected) that blocks; the arguments are copied, the GIL is free *)
FutexWait(t, v, how) ==
    /\ FutexIdle(t)
    /\ fpc' = [fpc EXCEPT ![t] = "call"]
    /\ fexp' = [fexp EXCEPT ![t] = v]
    /\ fhow' = [fhow EXCEPT ![t] = how]
    /\ ftold' = [ftold EXCEPT ![t] = "nothing"]
    /\ flate' = flate \ {t}
    /\ UNCHANGED <<fword, fclosed, fdirty, descVars>>

(* Mutant: the word is not compared again before the sleep. *)
FutexSleepBlind(t) ==
    /\ fpc[t] = "call"
    /\ fpc' = [fpc EXCEPT ![t] = "asleep"]
    /\ UNCHANGED <<fword, fclosed, fexp, fhow, flate, ftold, fdirty, descVars>>

(* FUTEX_WAIT_BITSET: the kernel compares and puts to sleep in one step;   *)
(* EAGAIN counts as woken.                                                 *)
FutexSleep(t) ==
    /\ fpc[t] = "call"
    /\ fpc' = [fpc EXCEPT ![t] = IF fword = fexp[t] THEN "asleep" ELSE "woken"]
    /\ UNCHANGED <<fword, fclosed, fexp, fhow, flate, ftold, fdirty, descVars>>

FutexStore(t, v) ==
    /\ FutexIdle(t)
    /\ fword' = v /\ fdirty' = TRUE
    /\ UNCHANGED <<fclosed, fpc, fexp, fhow, flate, ftold, descVars>>

Asleep == {t \in Callers : fpc[t] = "asleep"}

(* wake(n): FUTEX_WAKE of at most n of the sleepers *)
FutexWake(t, n) ==
    /\ FutexIdle(t)
    /\ \E S \in SUBSET Asleep :
         /\ Cardinality(S) = n \/ (Cardinality(S) < n /\ S = Asleep)
         /\ fpc' = [u \in Callers |-> IF u \in S THEN "woken" ELSE fpc[u]]
         /\ fdirty' = (fdirty /\ S # Asleep)
    /\ UNCHANGED <<fword, fclosed, fexp, fhow, flate, ftold, descVars>>

FutexDeadline(t) ==
    /\ fpc[t] # "out" /\ fhow[t] \in {"timed", "slicedTimed"}
    /\ flate' = flate \cup {t}
    /\ UNCHANGED <<fword, fclosed, fpc, fexp, fhow, ftold, fdirty, descVars>>

(* The sleep ends without a wake: at the end of a 50 ms slice, at the      *)
(* deadline, or by a signal, which futex_wait_cb reports as ETIMEDOUT too. *)
FutexTimedOut(t, signal) ==
    /\ fpc[t] = "asleep"
    /\ signal \/ fhow[t] \in {"sliced", "slicedTimed"} \/ t \in flate
    /\ fpc' = [fpc EXCEPT ![t] = "timedout"]
    /\ UNCHANGED <<fword, fclosed, fexp, fhow, flate, ftold, fdirty, descVars>>

FutexTold(t, what) ==
    /\ fpc' = [fpc EXCEPT ![t] = "out"]
    /\ ftold' = [ftold EXCEPT ![t] = what]
    /\ UNCHANGED <<fword, fclosed, fexp, fhow, flate, fdirty, descVars>>

FutexWoken(t) == fpc[t] = "woken" /\ FutexTold(t, "true")

(* posixipc_blocking_wait after ETIMEDOUT: at once out if not              *)
(* interruptible; otherwise a signal handler may raise, the deadline may   *)
(* have passed, or the call goes round again.                              *)
FutexAfterSlice(t) ==
    /\ fpc[t] = "timedout"
    /\ \/ fhow[t] \in {"plain", "timed"} /\ FutexTold(t, "false")
       \/ fhow[t] \in {"sliced", "slicedTimed"} /\ FutexTold(t, "raised")
       \/ fhow[t] = "slicedTimed" /\ t \in flate /\ FutexTold(t, "false")
       \/ /\ fhow[t] \in {"sliced", "slicedTimed"} /\ t \notin flate
          /\ fpc' = [fpc EXCEPT ![t] = "call"]
          /\ UNCHANGED <<fword, fclosed, fexp, fhow, flate, ftold, fdirty, descVars>>

(* close() wakes nobody *)
FutexClose(t) ==
    /\ FutexIdle(t)
    /\ fclosed' = TRUE
    /\ UNCHANGED <<fword, fpc, fexp, fhow, flate, ftold, fdirty, descVars>>

FutexNext ==
    \E t \in Callers :
      \/ \E v \in Words : FutexStore(t, v) \/ \E how \in FutexModes : FutexWait(t, v, how)
      \/ \E n \in 0..Cardinality(Callers) : FutexWake(t, n)
      \/ \E signal \in BOOLEAN : FutexTimedOut(t, signal)
      \/ FutexSleep(t) \/ FutexDeadline(t) \/ FutexWoken(t) \/ FutexAfterSlice(t) \/ FutexClose(t)

-----------------------------------------------------------------------------
(* EventFD and MemFD *)

DescOpen(o) == dkind[o] # "none" /\ dfd[o] # 0
FreeFds == {f \in Fds : table[f] = NoFile}
LowestFree == CHOOSE f \in FreeFds : \A g \in FreeFds : f <= g

FreeFiles ==
    {k \in Files : /\ \A f \in Fds : table[f] # k
                   /\ \A t \in Callers : tfile[t] # k
                   /\ \A o \in Descs : DescOpen(o) => dfile[o] # k}

InCall(o) == \E t \in Callers : tdesc[t] = o

(* An object is made around a new number that leads to file k. *)
MakeDesc(o, kind, k) ==
    /\ dkind[o] = "none" /\ FreeFds # {}
    /\ table' = [table EXCEPT ![LowestFree] = k]
    /\ dkind' = [dkind EXCEPT ![o] = kind]
    /\ dfd' = [dfd EXCEPT ![o] = LowestFree]
    /\ dfile' = [dfile EXCEPT ![o] = k]
    /\ UNCHANGED <<futexVars, dviews, tdesc, tfd, tfile, tclosed>>

(* EventFD(), MemFD.create() *)
NewDesc(o, kind) == FreeFiles # {} /\ MakeDesc(o, kind, CHOOSE k \in FreeFiles : TRUE)

(* __reduce__ duplicates the number, _rebuild_* makes an object of it *)
DupDesc(o, from) == DescOpen(from) /\ MakeDesc(o, dkind[from], dfile[from])

(* Mutant: o->fd keeps the number it gave back. *)
CloseFdKeeps(o) ==
    /\ table' = [table EXCEPT ![dfd[o]] = NoFile]
    /\ tclosed' = tclosed \cup {t \in Callers : tdesc[t] = o}
    /\ UNCHANGED dfd

(* the number o->fd is given back to the kernel and forgotten *)
CloseFd(o) ==
    /\ table' = [table EXCEPT ![dfd[o]] = NoFile]
    /\ dfd' = [dfd EXCEPT ![o] = 0]
    /\ tclosed' = tclosed \cup {t \in Callers : tdesc[t] = o}

(* efd_close; memfd_close, which raises BufferError while there are views *)
CloseDesc(o) ==
    /\ DescOpen(o) /\ dviews[o] = 0
    /\ CloseFd(o)
    /\ UNCHANGED <<futexVars, dkind, dfile, dviews, tdesc, tfd, tfile>>

(* The last reference is gone: a view or a call would have been another. *)
DeallocDesc(o) ==
    /\ dkind[o] # "none" /\ dviews[o] = 0 /\ ~InCall(o)
    /\ IF DescOpen(o) THEN CloseFd(o) ELSE UNCHANGED <<table, dfd, tclosed>>
    /\ dkind' = [dkind EXCEPT ![o] = "none"]
    /\ dfile' = [dfile EXCEPT ![o] = NoFile]
    /\ UNCHANGED <<futexVars, dviews, tdesc, tfd, tfile>>

MemView(o) ==
    /\ DescOpen(o) /\ dkind[o] = "memfd" /\ dviews[o] < MaxViews
    /\ dviews' = [dviews EXCEPT ![o] = @ + 1]
    /\ UNCHANGED <<futexVars, dkind, dfd, dfile, table, tdesc, tfd, tfile, tclosed>>

MemRelease(o) ==
    /\ dviews[o] > 0
    /\ dviews' = [dviews EXCEPT ![o] = @ - 1]
    /\ UNCHANGED <<futexVars, dkind, dfd, dfile, table, tdesc, tfd, tfile, tclosed>>

(* efd_write and efd_read find the object open and give up the GIL *)
EventEnter(t, o) ==
    /\ tdesc[t] = NoDesc /\ dkind[o] = "eventfd" /\ DescOpen(o)
    /\ tdesc' = [tdesc EXCEPT ![t] = o]
    /\ UNCHANGED <<futexVars, dkind, dfd, dfile, dviews, table, tfd, tfile, tclosed>>

(* o->fd is read after that *)
EventLoad(t) ==
    /\ tdesc[t] # NoDesc /\ tfd[t] = 0 /\ tfile[t] = NoFile /\ dfd[tdesc[t]] # 0
    /\ tfd' = [tfd EXCEPT ![t] = dfd[tdesc[t]]]
    /\ UNCHANGED <<futexVars, dkind, dfd, dfile, dviews, table, tdesc, tfile, tclosed>>

(* the kernel looks the number up, once *)
EventSyscall(t) ==
    /\ tfd[t] # 0 /\ tfile[t] = NoFile /\ table[tfd[t]] # NoFile
    /\ tfile' = [tfile EXCEPT ![t] = table[tfd[t]]]
    /\ UNCHANGED <<futexVars, dkind, dfd, dfile, dviews, table, tdesc, tfd, tclosed>>

(* The transfer is done, or the number was -1 or led nowhere (EBADF). *)
EventReturn(t) ==
    /\ tdesc[t] # NoDesc
    /\ \/ tfile[t] # NoFile
       \/ tfd[t] = 0 /\ dfd[tdesc[t]] = 0
       \/ tfd[t] # 0 /\ table[tfd[t]] = NoFile
    /\ tdesc' = [tdesc EXCEPT ![t] = NoDesc]
    /\ tfd' = [tfd EXCEPT ![t] = 0]
    /\ tfile' = [tfile EXCEPT ![t] = NoFile]
    /\ tclosed' = tclosed \ {t}
    /\ UNCHANGED <<futexVars, dkind, dfd, dfile, dviews, table>>

DescNext ==
    \/ \E o \in Descs :
         \/ \E kind \in {"eventfd", "memfd"} : NewDesc(o, kind)
         \/ \E from \in Descs : DupDesc(o, from)
         \/ CloseDesc(o) \/ DeallocDesc(o) \/ MemView(o) \/ MemRelease(o)
    \/ \E t \in Callers :
         \/ \E o \in Descs : EventEnter(t, o)
         \/ EventLoad(t) \/ EventSyscall(t) \/ EventReturn(t)

LinuxSpec == LinuxInit /\ [][FutexNext \/ DescNext]_linuxVars

-----------------------------------------------------------------------------

(* After a store and a wake() of all sleepers nobody is asleep on the old  *)
(* value, in whatever slice of its wait a caller was; and an interruptible *)
(* wait() returns False only when its own deadline has passed, although a  *)
(* signal ends a slice with ETIMEDOUT (py_linux.c:47).                     *)
FutexWaitIsRight ==
    /\ ~fdirty => \A t \in Asleep : fexp[t] = fword
    /\ \A t \in Callers : ftold[t] = "false" /\ fhow[t] \in {"sliced", "slicedTimed"} => t \in flate

(* An object that is open owns its number: no other close() gave it away,  *)
(* so a read() or write() works on the object's own file unless the object *)
(* itself was closed during the call; and a MemFD with views is open.      *)
OwnDescriptor ==
    /\ \A o \in Descs : DescOpen(o) => table[dfd[o]] = dfile[o]
    /\ \A o, p \in Descs : DescOpen(o) /\ DescOpen(p) /\ o # p => dfd[o] # dfd[p]
    /\ \A t \in Callers : tfile[t] # NoFile /\ t \notin tclosed => tfile[t] = dfile[tdesc[t]]
    /\ \A o \in Descs : dviews[o] > 0 => DescOpen(o)

=============================================================================
