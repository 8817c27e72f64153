-------------------------------- MODULE Barrier --------------------------------
(***************************************************************************)
(* posixipc.Barrier (bindings/posixipc_m3_barrier.inc,                     *)
(* core/posixipc_barrier.c).  wait() cannot be interrupted and has no      *)
(* deadline.  Unlike the other calls it reads o->bar after it has given up *)
(* the GIL: a close() that comes first makes it fail with EINVAL.          *)
(***************************************************************************)
EXTENDS Region

CONSTANTS Parties, MaxRounds \* MaxRounds bounds the rounds of one barrier

ASSUME PartiesAssumption == Parties \in Nat \ {0} /\ MaxRounds \in Nat \ {0}

VARIABLES
    bround,  \* the round that is gathering
    bcount,  \* threads that have arrived in it
    bserial, \* per round, the thread PTHREAD_BARRIER_SERIAL_THREAD goes to
    bthread, \* the round a thread waits in; 0: it failed with EINVAL
    btrue,   \* per round, the threads told True
    bfalse   \* per round, the threads told False

barOnly == <<bround, bcount, bserial, bthread, btrue, bfalse>>
barVars == <<objectVars, barOnly>>

Rounds == 1..MaxRounds

BarTypeOK ==
    /\ bround \in 1..(MaxRounds + 1)
    /\ bcount \in 0..(Parties - 1)
    /\ bserial \in [Rounds -> Threads \cup {Nobody}]
    /\ bthread \in [Threads -> 0..MaxRounds]
    /\ btrue \in [Rounds -> SUBSET Threads]
    /\ bfalse \in [Rounds -> SUBSET Threads]

BarInit ==
    /\ bround = 1
    /\ bcount = 0
    /\ bserial = [k \in Rounds |-> Nobody]
    /\ bthread = [t \in Threads |-> 0]
    /\ btrue = [k \in Rounds |-> {}]
    /\ bfalse = [k \in Rounds |-> {}]

(* bar_wait up to Py_BEGIN_ALLOW_THREADS *)
BarWait(t) ==
    /\ pc[t] = "idle" /\ Open(At[t]) /\ bround <= MaxRounds
    /\ Block(t, "barenter", "plain")
    /\ UNCHANGED <<regionVars, handleVars, exportVars, barOnly>>

(* pthread_barrier_wait: the last to arrive ends the round and makes one   *)
(* of its threads the serial one.                                          *)
Arrive(t) ==
    /\ bthread' = [bthread EXCEPT ![t] = bround]
    /\ IF bcount + 1 = Parties
         THEN /\ bround' = bround + 1
              /\ bcount' = 0
              /\ \E u \in Threads : /\ u = t \/ (pc[u] = "barwait" /\ bthread[u] = bround)
                                    /\ bserial' = [bserial EXCEPT ![bround] = u]
         ELSE bcount' = bcount + 1 /\ UNCHANGED <<bround, bserial>>

(* posixipc_barrier_wait on whatever o->bar is by now *)
BarArrive(t) ==
    /\ pc[t] = "barenter" /\ bround <= MaxRounds
    /\ IF Open(At[t])
         THEN Arrive(t) /\ Goto(t, "barwait")
         ELSE Goto(t, "bargot") /\ UNCHANGED <<bthread, bround, bcount, bserial>>
    /\ UNCHANGED <<regionVars, handleVars, exportVars, btrue, bfalse>>

BarLeave(t) ==
    /\ pc[t] = "barwait" /\ ~Faulted(t) /\ bthread[t] < bround
    /\ Goto(t, "bargot")
    /\ UNCHANGED <<regionVars, handleVars, exportVars, barOnly>>

(* Mutant: 0 and PTHREAD_BARRIER_SERIAL_THREAD are both True. *)
BarResumeTrue(t) ==
    LET k == bthread[t] IN
    /\ pc[t] = "bargot"
    /\ btrue' = IF k = 0 THEN btrue ELSE [btrue EXCEPT ![k] = @ \cup {t}]
    /\ bthread' = [bthread EXCEPT ![t] = 0]
    /\ Return(t)
    /\ UNCHANGED <<regionVars, handleVars, exportVars, bround, bcount, bserial, bfalse>>

(* True for the serial thread, False for the others, an exception for EINVAL *)
BarResume(t) ==
    LET k == bthread[t] IN
    /\ pc[t] = "bargot"
    /\ IF k = 0
         THEN UNCHANGED <<btrue, bfalse>>
         ELSE IF bserial[k] = t
           THEN btrue' = [btrue EXCEPT ![k] = @ \cup {t}] /\ UNCHANGED bfalse
           ELSE bfalse' = [bfalse EXCEPT ![k] = @ \cup {t}] /\ UNCHANGED btrue
    /\ bthread' = [bthread EXCEPT ![t] = 0]
    /\ Return(t)
    /\ UNCHANGED <<regionVars, handleVars, exportVars, bround, bcount, bserial>>

(* bar_close.  pthread_barrier_destroy is undefined while threads wait, so *)
(* the program does not close a private barrier then.                      *)
BarClose(h) ==
    /\ Calls(h) /\ h \in bound
    /\ hregion[h] = NoRegion => \A t \in ThreadsOf(h) : pc[t] # "barwait"
    /\ CloseBound(h)
    /\ UNCHANGED <<exportVars, threadVars, barOnly>>

(* A killed process has arrived where it had arrived, and never leaves. *)
BarDies(h) ==
    /\ ProcessDies(h)
    /\ bthread' = [t \in Threads |-> IF At[t] = h THEN 0 ELSE bthread[t]]
    /\ UNCHANGED <<bround, bcount, bserial, btrue, bfalse>>

BarNext ==
    \/ \E t \in Threads : BarWait(t) \/ BarArrive(t) \/ BarLeave(t) \/ BarResume(t)
    \/ \E h \in Handles : BarClose(h) \/ BarDies(h)
    \/ \E r \in Regions : CloseRegion(r) /\ UNCHANGED barOnly

BarSpec == PlacedInit(1, Threads) /\ BarInit /\ [][BarNext]_barVars

-----------------------------------------------------------------------------

(* wait() is "True for exactly one waiter" (posixipc_m3_barrier.inc:224):  *)
(* no round has two, and a round everybody has come out of has one, even   *)
(* if a handle was closed as threads were coming in or out.                *)
OneTruePerRound ==
    \A k \in Rounds :
      /\ Cardinality(btrue[k]) <= 1
      /\ Cardinality(btrue[k] \cup bfalse[k]) = Parties => Cardinality(btrue[k]) = 1

=============================================================================
