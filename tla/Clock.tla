--------------------------------- MODULE Clock ---------------------------------
(***************************************************************************)
(* Deadlines and slices: core/posixipc_time.c and the loop of              *)
(* posixipc_blocking_wait (bindings/py_wait.c) around one blocking call.   *)
(* The clock is the one the primitive waits on; the slice is measured on   *)
(* the clock of the caller's deadline, so posixipc_deadline_min never      *)
(* compares two clocks.  A double tells Fine parts of a nanosecond apart.  *)
(* queue_wait_cond and fq_wait_word come through here again, with a new    *)
(* deadline, after a wakeup that found nothing.                            *)
(***************************************************************************)
EXTENDS Naturals

CONSTANTS
    Second,   \* nanoseconds in a second
    SliceNs,  \* SLICE_NS
    MaxAdd,   \* the most seconds a timeout adds
    Fine,     \* parts of a nanosecond
    Timeouts, \* timeouts, in parts of a nanosecond
    Forever,  \* tv_sec of the deadline of a wait that has none
    MaxNow    \* bound on the clock, in nanoseconds

ASSUME ClockAssumption ==
    /\ {Second, MaxAdd, Fine, Forever, MaxNow} \subseteq Nat \ {0}
    /\ SliceNs \in 1..Second
    /\ Timeouts \subseteq Nat
    /\ MaxNow < Forever * Second

VARIABLES
    cnow,      \* the clock
    cpc,       \* "out", "loop", "fn" (the GIL is free) or "timedout"
    cintr,     \* interruptible=
    ctimeout,  \* the caller's timeout, if any
    cuser,     \* the caller's deadline, if any
    cslice,    \* the deadline given to the system call
    cbegan,    \* the clock when the deadline was computed
    ctold      \* what posixipc_blocking_wait returned

clockVars == <<cnow, cpc, cintr, ctimeout, cuser, cslice, cbegan, ctold>>

(* What clock_gettime stores, and the count of nanoseconds it stands for. *)
Timespec(ns) == [sec |-> ns \div Second, nsec |-> ns % Second]
Ns(ts) == ts.sec * Second + ts.nsec

Never == [sec |-> Forever, nsec |-> 0]

ClockInit ==
    /\ cnow = 0 /\ cpc = "out" /\ cintr = TRUE /\ ctimeout = <<>> /\ cuser = <<>>
    /\ cslice = Never /\ cbegan = 0 /\ ctold = "nothing"

(* Less than two seconds of nanoseconds become at most one. *)
Carried(ts) ==
    IF ts.nsec >= Second THEN [sec |-> ts.sec + 1, nsec |-> ts.nsec - Second] ELSE ts

(* add_seconds: whole seconds up to a limit, and the fraction rounded down *)
AddSeconds(ts, timeout) ==
    LET whole == timeout \div (Fine * Second)
        frac  == (timeout % (Fine * Second)) \div Fine
    IN  Carried([sec  |-> ts.sec + (IF whole > MaxAdd THEN MaxAdd ELSE whole),
                 nsec |-> ts.nsec + frac])

AddNs(ts, ns) == Carried([ts EXCEPT !.nsec = @ + ns])

(* Mutant: deadlines within one second count as equal. *)
DeadlineMinBySecond(a, b) == IF b.sec < a.sec THEN b ELSE a

DeadlineMin(a, b) ==
    IF b.sec < a.sec \/ (b.sec = a.sec /\ b.nsec < a.nsec) THEN b ELSE a

Expired(d) ==
    LET now == Timespec(cnow)
    IN  now.sec > d.sec \/ (now.sec = d.sec /\ now.nsec >= d.nsec)

-----------------------------------------------------------------------------

ClockTick ==
    /\ cnow < MaxNow
    /\ cnow' = cnow + 1
    /\ UNCHANGED <<cpc, cintr, ctimeout, cuser, cslice, cbegan, ctold>>

(* A method computes its deadline and calls posixipc_blocking_wait. *)
BlockingWait(timeout, interruptible) ==
    /\ cpc = "out"
    /\ cpc' = "loop" /\ cintr' = interruptible /\ ctimeout' = timeout /\ cbegan' = cnow
    /\ cuser' = IF timeout = <<>> THEN <<>> ELSE <<AddSeconds(Timespec(cnow), timeout[1])>>
    /\ ctold' = "nothing"
    /\ UNCHANGED <<cnow, cslice>>

(* fn is called: until the deadline, or until the end of a slice. *)
CallFn ==
    /\ cpc = "loop"
    /\ cpc' = "fn"
    /\ cslice' = LET slice == AddNs(Timespec(cnow), SliceNs) IN
                 IF cintr
                   THEN IF cuser = <<>> THEN slice ELSE DeadlineMin(cuser[1], slice)
                   ELSE IF cuser = <<>> THEN Never ELSE cuser[1]
    /\ UNCHANGED <<cnow, cintr, ctimeout, cuser, cbegan, ctold>>

WaitReturns(what) ==
    /\ cpc' = "out" /\ ctold' = what
    /\ UNCHANGED <<cnow, cintr, ctimeout, cuser, cslice, cbegan>>

(* fn returns anything but ETIMEDOUT *)
FnReturns == cpc = "fn" /\ WaitReturns("done")

(* fn returns ETIMEDOUT, which ends a wait that is not interruptible *)
FnTimedOut ==
    /\ cpc = "fn" /\ cnow >= Ns(cslice)
    /\ IF cintr
         THEN /\ cpc' = "timedout"
              /\ UNCHANGED <<cnow, cintr, ctimeout, cuser, cslice, cbegan, ctold>>
         ELSE WaitReturns("timeout")

(* Signal handlers run and may raise; then the deadline has passed, or the *)
(* next slice begins.                                                      *)
AfterSlice ==
    /\ cpc = "timedout"
    /\ \/ WaitReturns("interrupted")
       \/ cuser # <<>> /\ Expired(cuser[1]) /\ WaitReturns("timeout")
       \/ /\ cuser # <<>> => ~Expired(cuser[1])
          /\ cpc' = "loop"
          /\ UNCHANGED <<cnow, cintr, ctimeout, cuser, cslice, cbegan, ctold>>

ClockNext ==
    \/ ClockTick \/ CallFn \/ FnReturns \/ FnTimedOut \/ AfterSlice
    \/ \E interruptible \in BOOLEAN, timeout \in {<<>>} \cup {<<s>> : s \in Timeouts} :
         BlockingWait(timeout, interruptible)

ClockSpec == ClockInit /\ [][ClockNext]_clockVars

-----------------------------------------------------------------------------

ClockTypeOK ==
    /\ cnow \in 0..MaxNow /\ cbegan \in 0..cnow
    /\ cpc \in {"out", "loop", "fn", "timedout"}
    /\ ctold \in {"nothing", "done", "timeout", "interrupted"}

(* posixipc_blocking_wait answers ETIMEDOUT only to a caller that gave a   *)
(* timeout, and not a nanosecond before it is over unless it is longer     *)
(* than the limit; no slice goes on after that moment, and none of an      *)
(* interruptible wait keeps signal handlers waiting longer than SLICE_NS,  *)
(* wherever in a second the clock stands.                                  *)
TimeoutIsRight ==
    /\ ctold = "timeout" =>
         /\ ctimeout # <<>>
         /\ \/ (cnow - cbegan) * Fine > ctimeout[1] - Fine
            \/ ctimeout[1] > MaxAdd * Second * Fine /\ cnow - cbegan >= MaxAdd * Second
    /\ cpc = "fn" =>
         /\ cslice.nsec < Second
         /\ ctimeout # <<>> => Ns(cslice) * Fine <= cbegan * Fine + ctimeout[1]
         /\ cintr => Ns(cslice) <= cnow + SliceNs

=============================================================================
