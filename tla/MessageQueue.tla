---------------------------- MODULE MessageQueue ----------------------------
(***************************************************************************)
(* posixipc.NamedMessageQueue (bindings/py_queue.c, core/posixipc_mq.c): a *)
(* POSIX message queue behind a name, with mq_notify callbacks.            *)
(*                                                                         *)
(* A registered callback is held by the object (notify_fn, notify_armed),  *)
(* and the object by a reference the registration owns.  The kernel starts *)
(* a thread that has nothing but the object's address; it waits for the    *)
(* GIL, and in the meantime the callback may be cancelled or replaced.     *)
(***************************************************************************)
EXTENDS Region, Integers

CONSTANTS
    Mqs,        \* the kernel's message queues
    NoMq,       \* o->mq is -1, or the name does not exist
    Msgs,       \* messages, each of them put once
    MaxMsg,     \* maxmsg
    Callbacks,  \* callables
    NoFn,       \* a NULL notify_fn
    Notifiers,  \* threads the kernel starts for notifications
    NoHandle    \* nobody's registration

ASSUME MqAssumption ==
    /\ NoMq \notin Mqs /\ NoFn \notin Callbacks /\ NoHandle \notin Handles
    /\ {"none", "taken", "got", "lost"} \cap (Mqs \cup {NoMq}) = {}
    /\ IsFiniteSet(Notifiers)

VARIABLES
    mqname,  \* the queue the name stands for
    omq,     \* o->mq
    mplace,  \* per message: the queue it is in, or "none", "taken", "got", "lost"
    mtold,   \* what put() said of it: "nothing", "true", "false"
    tmsg,    \* the message in a thread's hands inside put() or get()
    tmq,     \* the queue it works on
    tdone,   \* the threads whose system call succeeded
    nreg,    \* per queue, the registration in the kernel: <<handle, kind>>
    armed,   \* the handles with notify_armed = 1
    nfn,     \* notify_fn
    nref,    \* the references registrations and running callbacks have on o
    nstate,  \* what each notifier thread does
    nobj,    \* the object whose address it has
    ncall,   \* the callback it runs
    nwanted  \* the callback the program has asked for and that has not run

mqKernel == <<mqname, omq, nreg>>
mqMessages == <<mplace, mtold, tmsg, tmq, tdone>>
mqNotify == <<armed, nfn, nref, nstate, nobj, ncall, nwanted>>
mqOnly == <<mqKernel, mqMessages, mqNotify>>
mqVars == <<objectVars, mqOnly>>

NoMsg == "nomsg"
NoReg == <<NoHandle, "none">>

MqTypeOK ==
    /\ mqname \in Mqs \cup {NoMq}
    /\ omq \in [Handles -> Mqs \cup {NoMq}]
    /\ mplace \in [Msgs -> Mqs \cup {"none", "taken", "got", "lost"}]
    /\ mtold \in [Msgs -> {"nothing", "true", "false"}]
    /\ tmsg \in [Threads -> Msgs \cup {NoMsg}]
    /\ tmq \in [Threads -> Mqs \cup {NoMq}]
    /\ tdone \subseteq Threads
    /\ nreg \in [Mqs -> {NoReg} \cup (Handles \X {"signal", "thread"})]
    /\ armed \subseteq Handles
    /\ nfn \in [Handles -> Callbacks \cup {NoFn}]
    /\ nref \in [Handles -> Int]
    /\ nstate \in [Notifiers -> {"none", "start", "stale", "call"}]
    /\ nobj \in [Notifiers -> Handles \cup {NoHandle}]
    /\ ncall \in [Notifiers -> Callbacks \cup {NoFn}]
    /\ nwanted \in [Handles -> Callbacks \cup {NoFn}]

MqInit ==
    /\ mqname = NoMq
    /\ omq = [h \in Handles |-> NoMq]
    /\ mplace = [m \in Msgs |-> "none"]
    /\ mtold = [m \in Msgs |-> "nothing"]
    /\ tmsg = [t \in Threads |-> NoMsg]
    /\ tmq = [t \in Threads |-> NoMq]
    /\ tdone = {}
    /\ nreg = [q \in Mqs |-> NoReg]
    /\ armed = {}
    /\ nfn = [h \in Handles |-> NoFn]
    /\ nref = [h \in Handles |-> 0]
    /\ nstate = [n \in Notifiers |-> "none"]
    /\ nobj = [n \in Notifiers |-> NoHandle]
    /\ ncall = [n \in Notifiers |-> NoFn]
    /\ nwanted = [h \in Handles |-> NoFn]

-----------------------------------------------------------------------------

InQueue(q) == {m \in Msgs : mplace[m] = q}

(* The kernel keeps a queue for its name, its descriptors and system calls. *)
UnusedMq(q) ==
    /\ q # mqname
    /\ \A h \in Handles : omq[h] # q
    /\ \A t \in Threads : tmq[t] # q

(* nmq_create: O_EXCL *)
MqCreate(h) ==
    LET q == CHOOSE x \in Mqs : UnusedMq(x) IN
    /\ Calls(h) /\ h \notin bound \cup hclosed
    /\ mqname = NoMq /\ \E x \in Mqs : UnusedMq(x)
    /\ mqname' = q
    /\ omq' = [omq EXCEPT ![h] = q]
    /\ bound' = bound \cup {h}
    /\ mplace' = [m \in Msgs |-> IF mplace[m] = q THEN "lost" ELSE mplace[m]]
    /\ nreg' = [nreg EXCEPT ![q] = NoReg]
    /\ UNCHANGED <<regionVars, hclosed, hregion, exportVars, threadVars, mtold, tmsg, tmq,
                   tdone, mqNotify>>

(* nmq_attach, with nmq_from_mq *)
MqAttach(h) ==
    /\ Calls(h) /\ h \notin bound \cup hclosed /\ mqname # NoMq
    /\ omq' = [omq EXCEPT ![h] = mqname]
    /\ bound' = bound \cup {h}
    /\ UNCHANGED <<regionVars, hclosed, hregion, exportVars, threadVars, mqname, nreg,
                   mqMessages, mqNotify>>

MqOpenOrCreate(h) == MqCreate(h) \/ MqAttach(h)

(* nmq_unlink and nmq_unlink_name *)
MqUnlink ==
    /\ mqname # NoMq
    /\ mqname' = NoMq
    /\ UNCHANGED <<objectVars, omq, nreg, mqMessages, mqNotify>>

(* nmq_put and nmq_get up to the system call.  Every way of waiting may    *)
(* end early, see MqGiveUp, so one mode stands for all.                    *)
MqEnter(t, label, m) ==
    /\ pc[t] = "idle" /\ Open(At[t])
    /\ Block(t, label, "sliced")
    /\ tmsg' = [tmsg EXCEPT ![t] = m]
    /\ tmq' = [tmq EXCEPT ![t] = omq[At[t]]]
    /\ UNCHANGED <<regionVars, handleVars, exportVars, mqKernel, mplace, mtold, tdone, mqNotify>>

MqPut(t) ==
    LET fresh == {m \in Msgs : /\ mplace[m] = "none" /\ mtold[m] = "nothing"
                               /\ \A u \in Threads : tmsg[u] # m}
    IN  fresh # {} /\ MqEnter(t, "putwait", CHOOSE m \in fresh : TRUE)

MqGet(t) == MqEnter(t, "getwait", NoMsg)

(* A message in an empty queue that nobody is receiving from fires the     *)
(* registration, which is used up: a new thread for nmq_notify_thread, or  *)
(* a signal.                                                               *)
Fires(q) ==
    /\ nreg[q] # NoReg /\ InQueue(q) = {}
    /\ \A u \in Threads : pc[u] = "getwait" => tmq[u] # q

MqSent(t) ==
    LET q == tmq[t] IN
    /\ pc[t] = "putwait" /\ Cardinality(InQueue(q)) < MaxMsg
    /\ mplace' = [mplace EXCEPT ![tmsg[t]] = q]
    /\ tdone' = tdone \cup {t}
    /\ Goto(t, "putgot")
    /\ nreg' = IF Fires(q) THEN [nreg EXCEPT ![q] = NoReg] ELSE nreg
    /\ IF Fires(q) /\ nreg[q][2] = "thread"
         THEN LET free == {n \in Notifiers : nstate[n] = "none"}
                  n == CHOOSE x \in free : TRUE
              IN  /\ free # {}
                  /\ nstate' = [nstate EXCEPT ![n] = "start"]
                  /\ nobj' = [nobj EXCEPT ![n] = nreg[q][1]]
         ELSE UNCHANGED <<nstate, nobj>>
    /\ UNCHANGED <<regionVars, handleVars, exportVars, mqname, omq, mtold, tmsg, tmq,
                   armed, nfn, nref, ncall, nwanted>>

MqReceived(t) ==
    /\ pc[t] = "getwait"
    /\ \E m \in InQueue(tmq[t]) :
         /\ mplace' = [mplace EXCEPT ![m] = "taken"]
         /\ tmsg' = [tmsg EXCEPT ![t] = m]
    /\ tdone' = tdone \cup {t}
    /\ Goto(t, "getgot")
    /\ UNCHANGED <<regionVars, handleVars, exportVars, mqKernel, mtold, tmq, mqNotify>>

(* The call ends with nothing done: EAGAIN, the deadline, a signal         *)
(* handler, EINTR, or EBADF once the handle was closed between two slices. *)
MqGiveUp(t) ==
    /\ pc[t] \in {"putwait", "getwait"}
    /\ Goto(t, IF pc[t] = "putwait" THEN "putgot" ELSE "getgot")
    /\ UNCHANGED <<regionVars, handleVars, exportVars, mqOnly>>

MqLeave(t) ==
    /\ tmsg' = [tmsg EXCEPT ![t] = NoMsg]
    /\ tmq' = [tmq EXCEPT ![t] = NoMq]
    /\ tdone' = tdone \ {t}
    /\ Return(t)
    /\ UNCHANGED <<regionVars, handleVars, exportVars, mqKernel, mqNotify>>

(* Mutant: a slice that timed out counts as sent. *)
MqPutReturnTrue(t) ==
    /\ pc[t] = "putgot"
    /\ mtold' = [mtold EXCEPT ![tmsg[t]] = "true"]
    /\ MqLeave(t)
    /\ UNCHANGED mplace

(* nmq_put returns True, or False or raises *)
MqPutReturn(t) ==
    /\ pc[t] = "putgot"
    /\ mtold' = [mtold EXCEPT ![tmsg[t]] = IF t \in tdone THEN "true" ELSE "false"]
    /\ MqLeave(t)
    /\ UNCHANGED mplace

MqGetReturn(t) ==
    /\ pc[t] = "getgot"
    /\ mplace' = IF t \in tdone THEN [mplace EXCEPT ![tmsg[t]] = "got"] ELSE mplace
    /\ MqLeave(t)
    /\ UNCHANGED mtold

-----------------------------------------------------------------------------

(* nmq_disarm: mq_notify(NULL), and the reference of a registration whose  *)
(* thread has not run.                                                     *)
Disarmed(h, q) ==
    /\ nreg' = IF nreg[q][1] = h THEN [nreg EXCEPT ![q] = NoReg] ELSE nreg
    /\ nwanted' = [nwanted EXCEPT ![h] = NoFn]

DropsRef(h) == IF h \in armed THEN 1 ELSE 0

(* Mutant: the kernel's registration is cancelled, the object stays armed. *)
MqCancelKernelOnly(t) ==
    LET h == At[t] IN
    /\ pc[t] = "idle" /\ Open(h)
    /\ Disarmed(h, omq[h])
    /\ UNCHANGED <<objectVars, mqname, omq, mqMessages, armed, nfn, nref, nstate, nobj, ncall>>

(* nmq_request_notification(None) *)
MqCancel(t) ==
    LET h == At[t] IN
    /\ pc[t] = "idle" /\ Open(h)
    /\ Disarmed(h, omq[h])
    /\ armed' = armed \ {h}
    /\ nfn' = IF h \in armed THEN [nfn EXCEPT ![h] = NoFn] ELSE nfn
    /\ nref' = [nref EXCEPT ![h] = @ - DropsRef(h)]
    /\ UNCHANGED <<objectVars, mqname, omq, mqMessages, nstate, nobj, ncall>>

(* nmq_request_notification(signo), EBUSY being the same as None *)
MqSignal(t) ==
    LET h == At[t]  q == omq[h] IN
    /\ pc[t] = "idle" /\ Open(h) /\ nreg[q][1] \in {h, NoHandle}
    /\ nreg' = [nreg EXCEPT ![q] = <<h, "signal">>]
    /\ nwanted' = [nwanted EXCEPT ![h] = NoFn]
    /\ armed' = armed \ {h}
    /\ nfn' = IF h \in armed THEN [nfn EXCEPT ![h] = NoFn] ELSE nfn
    /\ nref' = [nref EXCEPT ![h] = @ - DropsRef(h)]
    /\ UNCHANGED <<objectVars, mqname, omq, mqMessages, nstate, nobj, ncall>>

(* nmq_request_notification(callback), which disarms, arms, takes a        *)
(* reference and registers.  If another process is registered mq_notify    *)
(* fails with EBUSY, and all of that is taken back.                        *)
MqRequest(t, c) ==
    LET h == At[t]  q == omq[h] IN
    /\ pc[t] = "idle" /\ Open(h) /\ nreg[q][1] \in {h, NoHandle}
    /\ nreg' = [nreg EXCEPT ![q] = <<h, "thread">>]
    /\ nwanted' = [nwanted EXCEPT ![h] = c]
    /\ armed' = armed \cup {h}
    /\ nfn' = [nfn EXCEPT ![h] = c]
    /\ nref' = [nref EXCEPT ![h] = @ - DropsRef(h) + 1]
    /\ UNCHANGED <<objectVars, mqname, omq, mqMessages, nstate, nobj, ncall>>

(* nmq_close *)
MqClose(h) ==
    /\ Calls(h) /\ Open(h)
    /\ Disarmed(h, omq[h])
    /\ armed' = armed \ {h}
    /\ nfn' = IF h \in armed THEN [nfn EXCEPT ![h] = NoFn] ELSE nfn
    /\ nref' = [nref EXCEPT ![h] = @ - DropsRef(h)]
    /\ omq' = [omq EXCEPT ![h] = NoMq]
    /\ hclosed' = hclosed \cup {h}
    /\ UNCHANGED <<regionVars, bound, hregion, exportVars, threadVars, mqname, mqMessages,
                   nstate, nobj, ncall>>

(* nmq_dealloc: the program has dropped the object, no call is in it and   *)
(* no registration refers to it.  A notifier that has its address is left  *)
(* with a stale one.                                                       *)
MqDealloc(h) ==
    /\ Calls(h) /\ h \in bound /\ nref[h] = 0
    /\ \A t \in ThreadsOf(h) : pc[t] \in {"idle", "dead"}
    /\ nreg' = [q \in Mqs |-> IF nreg[q][1] = h THEN NoReg ELSE nreg[q]]
    /\ nwanted' = [nwanted EXCEPT ![h] = NoFn]
    /\ nfn' = [nfn EXCEPT ![h] = NoFn]
    /\ omq' = [omq EXCEPT ![h] = NoMq]
    /\ bound' = bound \ {h}
    /\ hclosed' = hclosed \ {h}
    /\ nstate' = [n \in Notifiers |->
                    IF nobj[n] = h /\ nstate[n] = "start" THEN "stale" ELSE nstate[n]]
    /\ UNCHANGED <<regionVars, hregion, exportVars, threadVars, mqname, mqMessages, armed,
                   nref, nobj, ncall>>

NotifierEnds(n) ==
    /\ nstate' = [nstate EXCEPT ![n] = "none"]
    /\ nobj' = [nobj EXCEPT ![n] = NoHandle]
    /\ ncall' = [ncall EXCEPT ![n] = NoFn]

(* Mutant: the reference is given up before the call. *)
NotifyStartUnreferenced(n) ==
    LET h == nobj[n] IN
    /\ nstate[n] = "start"
    /\ IF h \notin armed
         THEN NotifierEnds(n) /\ UNCHANGED <<armed, nfn, nref, nwanted>>
         ELSE /\ armed' = armed \ {h}
              /\ nfn' = [nfn EXCEPT ![h] = NoFn]
              /\ nstate' = [nstate EXCEPT ![n] = "call"]
              /\ ncall' = [ncall EXCEPT ![n] = nfn[h]]
              /\ nwanted' = [nwanted EXCEPT ![h] = NoFn]
              /\ nref' = [nref EXCEPT ![h] = @ - 1]
              /\ UNCHANGED nobj
    /\ UNCHANGED <<objectVars, mqKernel, mqMessages>>

(* nmq_notify_thread has the GIL: it disarms, and calls what is registered *)
(* by now.  The callback runs Python code and gives the GIL up.            *)
NotifyStart(n) ==
    LET h == nobj[n] IN
    /\ nstate[n] = "start"
    /\ IF h \notin armed
         THEN NotifierEnds(n) /\ UNCHANGED <<armed, nfn, nref, nwanted>>
         ELSE /\ armed' = armed \ {h}
              /\ nfn' = [nfn EXCEPT ![h] = NoFn]
              /\ IF nfn[h] # NoFn /\ h \notin hclosed
                   THEN /\ nstate' = [nstate EXCEPT ![n] = "call"]
                        /\ ncall' = [ncall EXCEPT ![n] = nfn[h]]
                        /\ nwanted' = [nwanted EXCEPT ![h] = NoFn]
                        /\ UNCHANGED <<nobj, nref>>
                   ELSE /\ NotifierEnds(n)
                        /\ nref' = [nref EXCEPT ![h] = @ - 1]
                        /\ UNCHANGED nwanted
    /\ UNCHANGED <<objectVars, mqKernel, mqMessages>>

(* The callback has returned or raised; Py_DECREF(o). *)
NotifyEnd(n) ==
    /\ nstate[n] = "call"
    /\ NotifierEnds(n)
    /\ nref' = [nref EXCEPT ![nobj[n]] = @ - 1]
    /\ UNCHANGED <<objectVars, mqKernel, mqMessages, armed, nfn, nwanted>>

(* A thread with a stale address finds notify_armed = 0 in freed memory. *)
NotifyStale(n) ==
    /\ nstate[n] = "stale"
    /\ NotifierEnds(n)
    /\ UNCHANGED <<objectVars, mqKernel, mqMessages, armed, nfn, nref, nwanted>>

(* The process is killed, or faults in freed memory.  What it had taken    *)
(* from a queue is lost.                                                   *)
MqDies(h) ==
    /\ h \in MayDie \/ \E n \in Notifiers : nobj[n] = h /\ nstate[n] = "stale"
    /\ ProcessEnds(h)
    /\ omq' = [omq EXCEPT ![h] = NoMq]
    /\ nreg' = [q \in Mqs |-> IF nreg[q][1] = h THEN NoReg ELSE nreg[q]]
    /\ mplace' = [m \in Msgs |-> IF mplace[m] = "taken" /\ \E t \in ThreadsOf(h) : tmsg[t] = m
                                   THEN "lost" ELSE mplace[m]]
    /\ tmsg' = [t \in Threads |-> IF At[t] = h THEN NoMsg ELSE tmsg[t]]
    /\ tmq' = [t \in Threads |-> IF At[t] = h THEN NoMq ELSE tmq[t]]
    /\ tdone' = tdone \ ThreadsOf(h)
    /\ armed' = armed \ {h}
    /\ nfn' = [nfn EXCEPT ![h] = NoFn]
    /\ nref' = [nref EXCEPT ![h] = 0]
    /\ nwanted' = [nwanted EXCEPT ![h] = NoFn]
    /\ nstate' = [n \in Notifiers |-> IF nobj[n] = h THEN "none" ELSE nstate[n]]
    /\ nobj' = [n \in Notifiers |-> IF nobj[n] = h THEN NoHandle ELSE nobj[n]]
    /\ ncall' = [n \in Notifiers |-> IF nobj[n] = h THEN NoFn ELSE ncall[n]]
    /\ UNCHANGED <<mqname, mtold>>

MqNext ==
    \/ \E h \in Handles : MqOpenOrCreate(h) \/ MqClose(h) \/ MqDealloc(h) \/ MqDies(h)
    \/ MqUnlink
    \/ \E t \in Threads : \/ MqPut(t) \/ MqGet(t) \/ MqSent(t) \/ MqReceived(t) \/ MqGiveUp(t)
                          \/ MqPutReturn(t) \/ MqGetReturn(t)
                          \/ MqCancel(t) \/ MqSignal(t)
    \/ \E t \in Threads, c \in Callbacks : MqRequest(t, c)
    \/ \E n \in Notifiers : NotifyStart(n) \/ NotifyEnd(n) \/ NotifyStale(n)

MqSpec == RegionInit(Threads) /\ MqInit /\ [][MqNext]_mqVars

-----------------------------------------------------------------------------

(* A message put() said True to is in a queue, on its way to one receiver, *)
(* received, or lost with its queue or its receiver; one it refused is     *)
(* nowhere (nmq_put turns the outcome of the last slice into its answer).  *)
PutIsTrue ==
    \A m \in Msgs : /\ mtold[m] = "true" => mplace[m] # "none"
                    /\ mtold[m] = "false" => mplace[m] = "none"

(* docs/queue.md:152: a registration is "one-shot" and "`None` cancels".   *)
(* A callback is run only if it is the last one asked for, and not again:  *)
(* neither after request_notification(None) or close(), nor after it was   *)
(* replaced, however late the kernel's thread gets the GIL.                *)
CalledIsWanted ==
    [][\A n \in Notifiers :
         nstate[n] # "call" /\ nstate'[n] = "call" => nwanted[nobj[n]] = ncall'[n]]_mqVars

(* The object is there until its callback has returned: nmq_notify_thread  *)
(* gives up the registration's reference after the call.                   *)
CallbackKeepsObject == \A n \in Notifiers : nstate[n] = "call" => nobj[n] \in bound

=============================================================================
