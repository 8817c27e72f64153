---------------------------- MODULE MutexProofs -----------------------------
(***************************************************************************)
(* Who owns a Mutex, a RobustMutex or an element of a MutexArray, and over *)
(* which data, for any number of processes and threads; and that           *)
(* Condition.wait() keeps what acquire() promised. What acquire() tells a  *)
(* thread rests on the answer it brought back from a wait (rc), which it   *)
(* reads only when it has the GIL again, so the inductive invariants       *)
(* follow a thread through "mgot" and the run of on_owner_died.            *)
(***************************************************************************)
EXTENDS MutexArray, Condition, TLAPS

(* Mutex, RobustMutex and Condition *)

(* Where a thread of the mutex and condition parts can be. *)
MutexPlaces == {"idle", "mlock", "mgot", "callback", "dead", "cwait", "crelock", "cgot"}

(* t has the mutex and is about to say so: after acquire()'s wait, or in   *)
(* cond_wait, which has it back whether it was woken or timed out.         *)
Granted(t) ==
    \/ pc[t] = "mgot" /\ rc[t] = "ok"
    \/ pc[t] = "cgot" /\ rc[t] \in {"ok", "timedout"}

(* t has the mutex of a dead owner and still has to answer for its data. *)
Inherited(t) ==
    \/ pc[t] \in {"mgot", "cgot"} /\ rc[t] = "ownerdead"
    \/ pc[t] = "callback"

(* An answer that has not been looked at yet is still true. *)
AnswersTrue ==
    \A t \in Threads :
      /\ Granted(t) => mowner = t /\ t \notin holds /\ mstate = "clean"
      /\ Inherited(t) => mowner = t /\ t \notin holds /\ mstate = "inconsistent"
      /\ pc[t] = "crelock" => rc[t] \in {"ok", "timedout"}

(* Nobody can go on using a mutex that is still inconsistent: its owner is *)
(* about to answer for it, or has no open handle to reach it by.           *)
NotMendedUnreached ==
    mstate = "inconsistent" => /\ robust /\ mowner \in Threads
                               /\ Inherited(mowner) \/ ~Open(At[mowner])

(* Half done data is guarded: by its owner, by the state a robust mutex    *)
(* was left in, or by a dead owner for ever.                               *)
TornGuarded == torn # Nobody /\ mstate = "clean" /\ mowner # Gone => torn \in holds

MutexIInv ==
    /\ MutexTypeOK
    /\ pc \in [Threads -> MutexPlaces]
    /\ AnswersTrue
    /\ \A t \in holds : mowner = t /\ mstate = "clean"
    /\ NotMendedUnreached
    /\ mstate = "dead" => robust
    /\ TornGuarded

(* Handles are not opened again. *)
NoneOpens == \A h \in Handles : Open(h)' => Open(h)

(* posixipc_mutex_after_lock, on an answer that is true of the mutex as t   *)
(* has it (after a wait) or is about to have it (after trylock).            *)
LEMMA AfterLockStep ==
    ASSUME MutexIInv, NEW t \in Threads, NEW a \in Rcs, AfterLock(t, a), UNCHANGED robust, NoneOpens,
           Inherited(t) => a = "ownerdead",
           a = "ok" => t \notin holds /\ mstate = "clean" /\ mowner \in {t, Nobody},
           a = "ownerdead" => t \notin holds /\ mowner \in {t, Nobody} /\ mstate \in {"dead", "inconsistent"}
    PROVE  MutexIInv'
<1> DEFINE h == At[t]
           refused == a = "ownerdead" /\ h \notin callback
<1> USE NobodyAssumption, GoneAssumption, AtAssumption
<1>1. /\ robust \in BOOLEAN /\ mowner \in Threads \cup {Nobody, Gone} /\ mstate \in MStates
      /\ locked \subseteq Handles /\ callback \subseteq Handles /\ rc \in [Threads -> Rcs]
      /\ holds \subseteq Threads /\ torn \in Threads \cup {Nobody}
      /\ pc \in [Threads -> MutexPlaces]
  BY DEF MutexIInv, MutexTypeOK
<1>2. /\ callback' = callback /\ torn' = torn /\ robust' = robust
      /\ rc' = [rc EXCEPT ![t] = "ok"]
      /\ pc' = [pc EXCEPT ![t] = IF a = "ownerdead" /\ ~refused THEN "callback" ELSE "idle"]
      /\ holds' = IF a = "ok" THEN holds \cup {t} ELSE holds
  BY DEF AfterLock
<1>3. locked' \subseteq Handles
  BY <1>1 DEF AfterLock
<1>4. CASE a = "ok"
  <2>1. mowner' = t /\ mstate' = "clean"
    BY <1>4 DEF AfterLock, LockWith
  <2>2. \A u \in holds : u = t
    BY <1>1, <1>4 DEF MutexIInv
  <2>3. AnswersTrue'
    BY <1>1, <1>2, <1>4, <2>1 DEF MutexIInv, AnswersTrue, Granted, Inherited
  <2>4. torn' = Nobody
    BY <1>2, <1>4, <2>2 DEF MutexIInv, TornGuarded
  <2> QED BY <1>1, <1>2, <1>3, <1>4, <2>1, <2>2, <2>3, <2>4
          DEF MutexIInv, MutexTypeOK, TornGuarded, NotMendedUnreached, MStates, Rcs, MutexPlaces
<1>5. CASE a = "ownerdead"
  <2>1. \/ mowner' = Nobody /\ mstate' = "poisoned" /\ pc'[t] = "idle"
        \/ mowner' = t /\ mstate' = "inconsistent" /\ (pc'[t] = "callback" \/ ~Open(h))
    BY <1>1, <1>2, <1>5 DEF AfterLock, LockWith
  <2>2. holds = {} /\ robust
    BY <1>1, <1>5 DEF MutexIInv, NotMendedUnreached
  <2>3. AnswersTrue'
    BY <1>1, <1>2, <1>5, <2>1, <2>2 DEF MutexIInv, AnswersTrue, Granted, Inherited
  <2>4. NotMendedUnreached'
    BY <1>2, <2>1, <2>2 DEF NotMendedUnreached, Inherited, NoneOpens
  <2> QED BY <1>1, <1>2, <1>3, <1>5, <2>1, <2>2, <2>3, <2>4
          DEF MutexIInv, MutexTypeOK, TornGuarded, MStates, Rcs, MutexPlaces
<1>6. CASE a \notin {"ok", "ownerdead"}
  <2>1. mowner' = mowner /\ mstate' = mstate /\ pc'[t] = "idle" /\ holds' = holds
    BY <1>1, <1>2, <1>6 DEF AfterLock, LockWith
  <2>2. AnswersTrue'
    BY <1>1, <1>2, <2>1 DEF MutexIInv, AnswersTrue, Granted, Inherited
  <2>3. NotMendedUnreached'
    BY <1>1, <1>2, <1>6, <2>1 DEF MutexIInv, NotMendedUnreached, Inherited, NoneOpens
  <2> QED BY <1>1, <1>2, <1>3, <2>1, <2>2, <2>3
          DEF MutexIInv, MutexTypeOK, TornGuarded, Rcs, MutexPlaces
<1> QED BY <1>4, <1>5, <1>6

(* What the mutex answers t at once. *)
LEMMA AnswerFacts ==
    ASSUME MutexIInv, NEW t \in Threads
    PROVE  /\ Answer(t) \in Rcs
           /\ Answer(t) = "ok" => mowner = Nobody /\ mstate = "clean" /\ holds = {}
           /\ Answer(t) = "ownerdead" => mowner = Nobody /\ mstate = "dead" /\ holds = {}
<1> USE NobodyAssumption, GoneAssumption
<1>1. holds # {} => mowner \in Threads
  BY DEF MutexIInv, MutexTypeOK
<1>2. /\ mstate \in MStates /\ mowner \in Threads \cup {Nobody, Gone}
      /\ mstate = "inconsistent" => mowner \in Threads
  BY DEF MutexIInv, MutexTypeOK, NotMendedUnreached
<1>3. CASE mstate = "poisoned"
  BY <1>3 DEF Answer, Rcs
<1>4. CASE mstate # "poisoned" /\ mowner = t
  BY <1>4 DEF Answer, Rcs
<1>5. CASE mstate # "poisoned" /\ mowner = Nobody
  BY <1>1, <1>2, <1>5 DEF Answer, Rcs, MStates
<1>6. CASE mstate # "poisoned" /\ mowner # t /\ mowner # Nobody
  BY <1>6 DEF Answer, Rcs
<1> QED BY <1>3, <1>4, <1>5, <1>6

-----------------------------------------------------------------------------

(* mutex_acquire up to the wait *)
LEMMA AcquireStep ==
    ASSUME MutexIInv, NEW t \in Threads, NEW how \in Modes, MutexAcquire(t, how)
    PROVE  MutexIInv'
<1>1. CASE Answer(t) # "busy" /\ AfterLock(t, Answer(t))
  <2>1. UNCHANGED robust /\ NoneOpens /\ ~Inherited(t)
    BY DEF MutexAcquire, NoneOpens, Open, handleVars, Inherited
  <2> QED BY <1>1, <2>1, AnswerFacts, AfterLockStep
<1>2. CASE Block(t, "mlock", how) /\ UNCHANGED <<mowner, mstate, flagVars, rc, dataVars>>
  <2>1. UNCHANGED <<robust, mowner, mstate, locked, callback, rc, holds, torn>>
    BY <1>2 DEF MutexAcquire, flagVars, dataVars
  <2>2. pc' = [pc EXCEPT ![t] = "mlock"]
    BY <1>2 DEF Block
  <2>3. UNCHANGED <<bound, hclosed>> /\ pc[t] = "idle"
    BY DEF MutexAcquire, handleVars
  <2> QED BY <2>1, <2>2, <2>3 DEF Open, MutexPlaces, MutexIInv, MutexTypeOK, AnswersTrue, Granted, Inherited, NotMendedUnreached, TornGuarded
<1> QED BY <1>1, <1>2 DEF MutexAcquire

(* The wait is over, without the GIL. *)
LEMMA GrantStep ==
    ASSUME MutexIInv, NEW t \in Threads, MutexGrant(t)
    PROVE  MutexIInv'
<1> USE NobodyAssumption, GoneAssumption
<1>1. PICK a : a = IF mowner = t THEN "deadlk" ELSE Answer(t)
  OBVIOUS
<1>2. /\ a \in Rcs /\ rc' = [rc EXCEPT ![t] = a] /\ LockWith(t, a)
      /\ pc' = [pc EXCEPT ![t] = "mgot"]
      /\ pc[t] = "mlock" /\ UNCHANGED <<robust, locked, callback, holds, torn, bound, hclosed>>
  BY <1>1, AnswerFacts DEF MutexGrant, Goto, flagVars, dataVars, handleVars, Rcs
<1>3. /\ a = "ok" => mowner = Nobody /\ mstate = "clean" /\ holds = {}
      /\ a = "ownerdead" => mowner = Nobody /\ mstate = "dead" /\ holds = {}
  BY <1>1, AnswerFacts
<1>4. CASE a \in {"ok", "ownerdead"}
  <2>1. /\ mowner' = t /\ holds' = {} /\ holds = {}
        /\ mstate' = IF a = "ok" THEN "clean" ELSE "inconsistent"
    BY <1>2, <1>3, <1>4 DEF LockWith
  <2>2. AnswersTrue'
    BY <1>2, <1>3, <1>4, <2>1 DEF MutexIInv, AnswersTrue, Granted, Inherited, MutexTypeOK
  <2>3. a = "ok" => torn = Nobody
    BY <1>3, <2>1 DEF MutexIInv, TornGuarded
  <2>4. NotMendedUnreached'
    BY <1>2, <1>3, <1>4, <2>1 DEF MutexIInv, MutexTypeOK, NotMendedUnreached, Inherited
  <2> QED BY <1>2, <1>3, <1>4, <2>1, <2>2, <2>3, <2>4
          DEF MutexIInv, MutexTypeOK, TornGuarded, MStates, MutexPlaces
<1>5. CASE a \notin {"ok", "ownerdead"}
  <2>1. mowner' = mowner /\ mstate' = mstate
    BY <1>2, <1>5 DEF LockWith
  <2>2. AnswersTrue'
    BY <1>2, <1>5, <2>1 DEF MutexIInv, AnswersTrue, Granted, Inherited, MutexTypeOK
  <2>3. NotMendedUnreached'
    BY <1>2, <1>5, <2>1 DEF MutexIInv, MutexTypeOK, NotMendedUnreached, Inherited, Open
  <2> QED BY <1>2, <2>1, <2>2, <2>3 DEF MutexIInv, MutexTypeOK, TornGuarded, MutexPlaces
<1> QED BY <1>4, <1>5

(* A wait that failed, and what a thread does when it has the GIL again. *)
LEMMA WaitSteps ==
    ASSUME MutexIInv, NEW t \in Threads, MutexGiveUp(t) \/ MutexResume(t)
    PROVE  MutexIInv'
<1>1. CASE MutexGiveUp(t)
  <2>1. PICK a \in {"timedout", "interrupted"} : rc' = [rc EXCEPT ![t] = a]
    BY <1>1 DEF MutexGiveUp
  <2>2. /\ pc' = [pc EXCEPT ![t] = "mgot"]
        /\ pc[t] = "mlock"
        /\ UNCHANGED <<robust, mowner, mstate, locked, callback, holds, torn, bound, hclosed>>
    BY <1>1 DEF MutexGiveUp, Goto, lockVars, flagVars, dataVars, handleVars
  <2>3. AnswersTrue'
    BY <2>1, <2>2 DEF MutexIInv, AnswersTrue, Granted, Inherited, MutexTypeOK
  <2>4. NotMendedUnreached'
    BY <2>1, <2>2 DEF MutexIInv, MutexTypeOK, NotMendedUnreached, Inherited, Open
  <2> QED BY <2>1, <2>2, <2>3, <2>4 DEF MutexIInv, MutexTypeOK, TornGuarded, Rcs, MutexPlaces
<1>2. CASE MutexResume(t)
  <2>1. PICK a \in Rcs : a = rc[t]
    BY DEF MutexIInv, MutexTypeOK
  <2>2. AfterLock(t, a) /\ pc[t] = "mgot" /\ UNCHANGED robust /\ NoneOpens
    BY <1>2, <2>1 DEF MutexResume, NoneOpens, Open, handleVars
  <2>3. /\ a = "ok" => t \notin holds /\ mstate = "clean" /\ mowner = t
        /\ a = "ownerdead" => t \notin holds /\ mowner = t /\ mstate = "inconsistent"
        /\ Inherited(t) => a = "ownerdead"
    BY <2>1, <2>2 DEF MutexIInv, AnswersTrue, Granted, Inherited
  <2> QED BY <2>2, <2>3, AfterLockStep
<1> QED BY <1>1, <1>2

(* on_owner_died has run. *)
LEMMA CallbackSteps ==
    ASSUME MutexIInv, NEW t \in Threads,
           CallbackRepairs(t) \/ CallbackFails(t) \/ CallbackCloses(t)
    PROVE  MutexIInv'
<1> USE NobodyAssumption, GoneAssumption
<1>1. /\ pc[t] = "callback" /\ mowner = t /\ holds = {} /\ mstate = "inconsistent" /\ robust
      /\ \A u \in Threads \ {t} : /\ pc[u] # "callback"
                                  /\ pc[u] \in {"mgot", "cgot"} => rc[u] \notin {"ok", "ownerdead"}
                                  /\ pc[u] = "cgot" => rc[u] # "timedout"
  <2>1. pc[t] = "callback"
    BY ZenonT(60) DEF CallbackRepairs, CallbackFails, CallbackCloses
  <2>2. mowner = t /\ t \notin holds /\ mstate = "inconsistent"
    BY <2>1 DEF MutexIInv, AnswersTrue, Inherited
  <2> QED BY <2>1, <2>2 DEF MutexIInv, MutexTypeOK, AnswersTrue, Granted, Inherited, NotMendedUnreached
<1>2. /\ pc' = [pc EXCEPT ![t] = "idle"] /\ UNCHANGED <<robust, callback, rc>>
      /\ locked' \subseteq Handles
  BY ZenonT(60) DEF CallbackRepairs, CallbackFails, CallbackCloses, Return, MutexIInv, MutexTypeOK
<1>3. AnswersTrue'
  BY ZenonT(60), <1>1, <1>2 DEF AnswersTrue, Granted, Inherited, MutexIInv, MutexTypeOK
<1>4. CASE CallbackRepairs(t)
  <2>1. /\ mowner' = t /\ torn' = Nobody
        /\ \/ mstate' = "clean" /\ holds' = {t}
           \/ mstate' = "inconsistent" /\ holds' = {} /\ ~Open(At[t])'
    BY ZenonT(60), <1>1, <1>4 DEF CallbackRepairs, handleVars, Open
  <2>2. NotMendedUnreached'
    BY ZenonT(60), <1>1, <1>2, <2>1 DEF NotMendedUnreached
  <2> QED BY ZenonT(60), <1>1, <1>2, <1>3, <2>1, <2>2 DEF MutexIInv, MutexTypeOK, TornGuarded, MStates, MutexPlaces
<1>5. CASE CallbackFails(t) \/ CallbackCloses(t)
  <2>1. /\ torn' = torn /\ holds' = {}
        /\ \/ mowner' = Nobody /\ mstate' = "poisoned"
           \/ mowner' = t /\ mstate' = "inconsistent" /\ ~Open(At[t])'
    <3>1. CASE CallbackFails(t)
      BY ZenonT(60), <1>1, <3>1 DEF CallbackFails, UnlockBy, dataVars, handleVars, Open
    <3>2. CASE CallbackCloses(t)
      BY ZenonT(60), <1>1, <3>2 DEF CallbackCloses, CloseBound, UnlockBy, dataVars, Open
    <3> QED BY ZenonT(60), <1>5, <3>1, <3>2
  <2>2. NotMendedUnreached'
    BY <1>1, <1>2, <2>1 DEF NotMendedUnreached
  <2> QED BY <1>1, <1>2, <1>3, <2>1, <2>2 DEF MutexIInv, MutexTypeOK, TornGuarded, MStates, MutexPlaces
<1> QED BY ZenonT(60), <1>4, <1>5

(* release() and close(): thread t gives up what is its own and nobody     *)
(* else's, and not in the middle of an update.                             *)
LEMMA ReleaseSteps ==
    ASSUME MutexIInv, NEW t \in Threads, MutexRelease(t) \/ MutexClose(t)
    PROVE  MutexIInv'
<1> USE NobodyAssumption, GoneAssumption
<1>1. /\ pc[t] = "idle" /\ pc' = pc /\ UNCHANGED <<robust, callback, rc, torn>>
      /\ locked' \subseteq Handles /\ NoneOpens
  <2>1. CASE MutexRelease(t)
    BY <2>1 DEF MutexRelease, objectVars, threadVars, handleVars, NoneOpens, Open, MutexIInv, MutexTypeOK
  <2>2. CASE MutexClose(t)
    BY ZenonT(60), <2>2 DEF MutexClose, CloseBy, CloseBound, threadVars, NoneOpens, Open, MutexIInv, MutexTypeOK
  <2> QED BY ZenonT(60), <2>1, <2>2
<1>2. CASE mowner = t /\ mowner' = Nobody
  <2>1. /\ torn # t /\ holds \subseteq {t} /\ holds' = {}
        /\ mstate' = IF mstate = "inconsistent" THEN "poisoned" ELSE mstate
    BY <1>2 DEF MutexRelease, MutexClose, CloseBy, UnlockBy, MutexIInv, MutexTypeOK
  <2>2. AnswersTrue'
    BY <1>1, <1>2, <2>1 DEF MutexIInv, AnswersTrue, Granted, Inherited
  <2>3. TornGuarded'
    BY <1>1, <1>2, <2>1 DEF MutexIInv, TornGuarded
  <2> QED BY ZenonT(60), <1>1, <1>2, <2>1, <2>2, <2>3 DEF MutexIInv, MutexTypeOK, MStates, NotMendedUnreached
<1>3. CASE mowner' = mowner /\ mstate' = mstate
  <2>1. holds' = holds
    BY <1>3 DEF MutexRelease, MutexClose, UnlockBy, MutexIInv, MutexTypeOK
  <2>2. AnswersTrue' /\ TornGuarded'
    BY <1>1, <1>3, <2>1 DEF MutexIInv, AnswersTrue, Granted, Inherited, TornGuarded
  <2>3. NotMendedUnreached'
    BY ZenonT(60), <1>1, <1>3, <2>1, AtAssumption DEF MutexIInv, NotMendedUnreached, Inherited, NoneOpens
  <2> QED BY ZenonT(60), <1>1, <1>3, <2>1, <2>2, <2>3 DEF MutexIInv, MutexTypeOK
<1>4. (mowner = t /\ mowner' = Nobody) \/ (mowner' = mowner /\ mstate' = mstate)
  BY ZenonT(60) DEF MutexRelease, MutexClose, CloseBy, UnlockBy
<1> QED BY <1>2, <1>3, <1>4

(* The critical section. *)
LEMMA DataSteps ==
    ASSUME MutexIInv, NEW t \in Threads, Tear(t) \/ Mend(t)
    PROVE  MutexIInv'
<1>1. /\ UNCHANGED <<pc, robust, mowner, mstate, locked, callback, rc, holds, bound, hclosed>>
      /\ torn' = Nobody \/ (torn' = t /\ t \in holds)
  BY DEF Tear, Mend, objectVars, threadVars, handleVars, lockVars, flagVars
<1> QED BY <1>1 DEF Open, MutexIInv, MutexTypeOK, AnswersTrue, Granted, Inherited, NotMendedUnreached, TornGuarded

(* Threads die, one or all of a process.  The kernel hands a robust mutex  *)
(* to the next one as "dead"; a plain one stays locked.                    *)
LEMMA DeathStep ==
    ASSUME MutexIInv, NEW T \in SUBSET Threads, OwnerDies(T), holds' = holds \ T,
           UNCHANGED <<robust, locked, callback, rc, torn>>, NoneOpens,
           pc' = [u \in Threads |-> IF u \in T THEN "dead" ELSE pc[u]]
    PROVE  MutexIInv'
<1> USE NobodyAssumption, GoneAssumption
<1>1. CASE mowner \in T
  <2>1. /\ holds' = {}
        /\ \/ mowner' = Nobody /\ mstate' = "dead"
           \/ mowner' = Gone /\ mstate' = mstate
    BY <1>1 DEF OwnerDies, MutexIInv
  <2>2. AnswersTrue'
    BY ZenonT(60), <1>1, <2>1 DEF MutexIInv, AnswersTrue, Granted, Inherited
  <2>3. ~robust => mstate # "inconsistent"
    BY DEF MutexIInv, NotMendedUnreached
  <2> QED BY <1>1, <2>1, <2>2, <2>3
          DEF MutexIInv, MutexTypeOK, TornGuarded, MStates, OwnerDies, NotMendedUnreached, MutexPlaces
<1>2. CASE mowner \notin T
  <2>1. mowner' = mowner /\ mstate' = mstate /\ holds' = holds
    BY ZenonT(60), <1>2 DEF OwnerDies, MutexIInv
  <2>2. AnswersTrue'
    BY ZenonT(60), <2>1 DEF MutexIInv, AnswersTrue, Granted, Inherited
  <2>3. NotMendedUnreached'
    BY <1>2, <2>1, AtAssumption DEF MutexIInv, NotMendedUnreached, Inherited, NoneOpens
  <2> QED BY <2>1, <2>2, <2>3 DEF MutexIInv, MutexTypeOK, TornGuarded, MutexPlaces
<1> QED BY ZenonT(60), <1>1, <1>2

(* The remaining steps: mutex_set_on_owner_died, close() of a region, a    *)
(* death, and no step.                                                     *)
LEMMA OtherSteps ==
    ASSUME MutexIInv,
           \/ \E h \in Handles : SetOnOwnerDied(h) \/ MutexDies(h)
           \/ \E t \in Threads : ThreadExits(t)
           \/ \E r \in Regions : CloseRegion(r) /\ UNCHANGED mutexOnly
           \/ UNCHANGED mutexVars
    PROVE  MutexIInv'
<1>1. ASSUME NEW h \in Handles, SetOnOwnerDied(h) PROVE MutexIInv'
  <2>1. /\ UNCHANGED <<pc, robust, mowner, mstate, locked, rc, holds, torn, bound, hclosed>>
        /\ callback' \subseteq Handles
    BY <1>1 DEF SetOnOwnerDied, objectVars, threadVars, handleVars, lockVars, dataVars, MutexIInv, MutexTypeOK
  <2> QED BY ZenonT(60), <2>1 DEF Open, MutexIInv, MutexTypeOK, AnswersTrue, Granted, Inherited, NotMendedUnreached, TornGuarded
<1>2. ASSUME NEW h \in Handles, MutexDies(h) PROVE MutexIInv'
  <2>1. pc' = [u \in Threads |-> IF u \in ThreadsOf(h) THEN "dead" ELSE pc[u]]
    BY <1>2 DEF MutexDies, ProcessDies, ProcessEnds, ThreadsOf
  <2>2. ThreadsOf(h) \in SUBSET Threads
    BY ZenonT(60) DEF ThreadsOf
  <2>3. /\ OwnerDies(ThreadsOf(h)) /\ holds' = holds \ ThreadsOf(h)
        /\ UNCHANGED <<robust, locked, callback, rc, torn>> /\ NoneOpens
    BY <1>2 DEF MutexDies, ProcessDies, ProcessEnds, flagVars, NoneOpens, Open
  <2> QED BY ZenonT(60), Z3T(60), <2>1, <2>2, <2>3, DeathStep
<1>3. ASSUME NEW t \in Threads, ThreadExits(t) PROVE MutexIInv'
  <2>1. pc' = [u \in Threads |-> IF u \in {t} THEN "dead" ELSE pc[u]]
    BY ZenonT(60), <1>3 DEF ThreadExits, Goto, MutexIInv
  <2>2. /\ OwnerDies({t}) /\ holds' = holds \ {t}
        /\ UNCHANGED <<robust, locked, callback, rc, torn>> /\ NoneOpens
    BY ZenonT(60), <1>3 DEF ThreadExits, flagVars, handleVars, NoneOpens, Open
  <2> QED BY <2>1, <2>2, DeathStep
<1>4. CASE UNCHANGED <<handleVars, threadVars, mutexOnly>>
  <2>1. UNCHANGED <<pc, robust, mowner, mstate, locked, callback, rc, holds, torn, bound, hclosed>>
    BY <1>4 DEF handleVars, threadVars, mutexOnly, lockVars, flagVars, dataVars
  <2> QED BY <2>1 DEF Open, MutexIInv, MutexTypeOK, AnswersTrue, Granted, Inherited, NotMendedUnreached, TornGuarded
<1>5. ASSUME NEW r \in Regions, CloseRegion(r), UNCHANGED mutexOnly PROVE MutexIInv'
  BY <1>4, <1>5 DEF CloseRegion
<1>6. CASE UNCHANGED mutexVars
  BY <1>4, <1>6 DEF mutexVars, objectVars
<1> QED BY ZenonT(60), <1>1, <1>2, <1>3, <1>5, <1>6

(* Every step of Mutex and RobustMutex. *)
LEMMA MutexIStep == MutexIInv /\ [MutexNext]_mutexVars => MutexIInv'
<1> SUFFICES ASSUME MutexIInv, [MutexNext]_mutexVars PROVE MutexIInv'
  BY ZenonT(60)
<1>1. ASSUME NEW t \in Threads, MutexStep(t) PROVE MutexIInv'
  BY ZenonT(60), <1>1, GrantStep, WaitSteps, CallbackSteps, ReleaseSteps, DataSteps DEF MutexStep, MutexExit
<1>2. ASSUME NEW t \in Threads,
             MutexGiveUp(t) \/ CallbackCloses(t) \/ MutexClose(t) \/ MutexRelease(t) \/ Tear(t)
      PROVE  MutexIInv'
  BY <1>2, WaitSteps, CallbackSteps, ReleaseSteps, DataSteps
<1>3. ASSUME NEW t \in Threads, NEW how \in Modes, MutexAcquire(t, how) PROVE MutexIInv'
  BY ZenonT(60), <1>3, AcquireStep
<1> QED BY <1>1, <1>2, <1>3, OtherSteps DEF MutexNext

(* A new mutex is free and its data whole. *)
LEMMA MutexStart ==
    ASSUME MutexInit, pc \in [Threads -> {"idle", "dead"}]
    PROVE  MutexIInv
BY NobodyAssumption, GoneAssumption
DEF MutexInit, MutexIInv, MutexTypeOK, MutexPlaces, AnswersTrue, Granted, Inherited, NotMendedUnreached,
    TornGuarded, MStates, Rcs

(* The invariant says what both properties say. *)
LEMMA MutexAnswersRight == MutexIInv => HeldIsOwned /\ SeenRecovered
<1> SUFFICES ASSUME MutexIInv, NEW t \in holds PROVE mowner = t /\ torn \in {t, Nobody}
  BY DEF HeldIsOwned, SeenRecovered
<1>1. mowner = t /\ mstate = "clean" /\ t \in Threads
  BY DEF MutexIInv, MutexTypeOK
<1>2. torn # Nobody => torn \in holds
  BY <1>1, GoneAssumption DEF MutexIInv, TornGuarded
<1>3. torn \in holds => torn = t
  BY <1>1 DEF MutexIInv
<1> QED BY <1>1, <1>2, <1>3

(* A thread whose acquire() returned True owns the mutex, and the data it  *)
(* guards is whole or half done by that thread itself: through deaths of   *)
(* threads and processes, on_owner_died that fails, releases or closes,    *)
(* timeouts and signals, and handles closed under a waiter.                *)
THEOREM MutexRight == MutexSpec => [](HeldIsOwned /\ SeenRecovered)
<1>1. PlacedInit(1, Threads) /\ MutexInit => MutexIInv
  <2>1. PlacedInit(1, Threads) => pc \in [Threads -> {"idle", "dead"}]
    BY ZenonT(60) DEF PlacedInit
  <2> QED BY <2>1, MutexStart
<1> QED BY <1>1, MutexAnswersRight, MutexIStep, PTL DEF MutexSpec

(* The queue of the condition variable holds threads that wait. *)
CondIInv == MutexIInv /\ waiters \subseteq {t \in Threads : pc[t] = "cwait"}

(* cond_wait lets go of a mutex that is t's and consistent, and a slice    *)
(* that timed out does so again.                                           *)
LEMMA CondEnqueueSteps ==
    ASSUME CondIInv, NEW t \in Threads,
           CondAgain(t) \/ \E how \in Modes : CondWait(t, how)
    PROVE  CondIInv'
<1> USE NobodyAssumption, GoneAssumption, AtAssumption
<1>0. MutexIInv
  BY DEF CondIInv
<1>1. /\ mowner = t /\ torn # t /\ holds \subseteq {t} /\ holds' = {} /\ mstate # "inconsistent"
      /\ mowner' = Nobody /\ mstate' = mstate /\ pc' = [pc EXCEPT ![t] = "cwait"]
      /\ UNCHANGED <<robust, locked, callback, rc, torn, bound, hclosed>> /\ waiters' = waiters \cup {t}
  <2>1. CASE CondAgain(t)
    <3>1. Granted(t)
      BY <2>1 DEF CondAgain, Granted
    <3>2. mowner = t /\ t \notin holds /\ mstate = "clean"
      BY <1>0, <3>1 DEF MutexIInv, AnswersTrue
    <3>3. holds = {}
      BY <1>0, <3>2 DEF MutexIInv
    <3>4. torn = Nobody
      BY ZenonT(60), <1>0, <3>2, <3>3 DEF MutexIInv, TornGuarded
    <3> QED BY ZenonT(60), <2>1, <3>2, <3>3, <3>4 DEF CondAgain, Enqueue, handleVars, flagVars, dataVars
  <2>2. CASE \E how \in Modes : CondWait(t, how)
    <3>1. pc[t] = "idle" /\ Open(At[t]) /\ mowner = t /\ torn # t /\ holds' = holds \ {t}
      BY <2>2 DEF CondWait
    <3>2. holds \subseteq {t} /\ mstate # "inconsistent"
      BY ZenonT(60), <1>0, <3>1 DEF MutexIInv, NotMendedUnreached, Inherited
    <3> QED BY ZenonT(60), <2>2, <3>1, <3>2 DEF CondWait, Enqueue, Block, handleVars, flagVars
  <2> QED BY ZenonT(60), <2>1, <2>2
<1>2. AnswersTrue'
  BY ZenonT(60), <1>0, <1>1 DEF MutexIInv, AnswersTrue, Granted, Inherited, MutexTypeOK
<1>3. TornGuarded'
  BY ZenonT(60), <1>0, <1>1 DEF MutexIInv, TornGuarded
<1>4. MutexTypeOK'
  BY <1>0, <1>1 DEF MutexIInv, MutexTypeOK
<1>5. pc' \in [Threads -> MutexPlaces]
  BY ZenonT(60), <1>0, <1>1 DEF MutexIInv, MutexPlaces
<1>6. NotMendedUnreached' /\ (mstate' = "dead" => robust')
  BY ZenonT(60), <1>0, <1>1 DEF MutexIInv, NotMendedUnreached
<1>7. MutexIInv'
  BY ZenonT(60), <1>1, <1>2, <1>3, <1>4, <1>5, <1>6 DEF MutexIInv
<1> QED BY <1>0, <1>1, <1>7 DEF CondIInv, MutexIInv

(* notify, notify_all, a spurious wakeup or a deadline. *)
LEMMA CondDequeueSteps ==
    ASSUME CondIInv, NEW T \in SUBSET waiters, NEW a \in {"ok", "timedout"}, Dequeue(T, a)
    PROVE  CondIInv'
<1> USE NobodyAssumption, GoneAssumption
<1>0. MutexIInv /\ T \subseteq Threads /\ (\A t \in T : pc[t] = "cwait")
      /\ \A t \in waiters : t \in Threads /\ pc[t] = "cwait"
  BY ZenonT(60) DEF CondIInv
<1>1. /\ pc' = [t \in Threads |-> IF t \in T THEN "crelock" ELSE pc[t]]
      /\ rc' = [t \in Threads |-> IF t \in T THEN a ELSE rc[t]]
      /\ waiters' = waiters \ T
      /\ UNCHANGED <<robust, mowner, mstate, locked, callback, holds, torn, bound, hclosed>>
  BY ZenonT(60) DEF Dequeue, lockVars, handleVars, flagVars, dataVars
<1>2. AnswersTrue'
  BY ZenonT(60), <1>0, <1>1 DEF MutexIInv, AnswersTrue, Granted, Inherited
<1>3. NotMendedUnreached'
  <2>1. ASSUME NEW t \in Threads, Inherited(t) PROVE Inherited(t)'
    BY ZenonT(60), <1>0, <1>1, <2>1 DEF Inherited
  <2> QED BY ZenonT(60), <1>0, <1>1, <2>1 DEF MutexIInv, NotMendedUnreached, Open
<1>4. MutexTypeOK' /\ pc' \in [Threads -> MutexPlaces]
  BY ZenonT(60), <1>0, <1>1 DEF MutexIInv, MutexTypeOK, MutexPlaces, Rcs
<1>5. MutexIInv'
  BY <1>0, <1>1, <1>2, <1>3, <1>4 DEF MutexIInv, TornGuarded
<1> QED BY <1>0, <1>1, <1>5 DEF CondIInv

(* pthread_cond_wait has the mutex back, or an answer in its place. *)
LEMMA CondRelockStep ==
    ASSUME CondIInv, NEW t \in Threads, CondRelock(t)
    PROVE  CondIInv'
<1> USE NobodyAssumption, GoneAssumption
<1>0. MutexIInv
  BY ZenonT(60) DEF CondIInv
<1>1. PICK a \in Rcs : a = Answer(t)
  BY <1>0, AnswerFacts
<1>2. PICK b \in Rcs : b = IF a = "ok" THEN rc[t] ELSE a
  BY ZenonT(60), <1>0 DEF MutexIInv, MutexTypeOK
<1>3. /\ pc[t] = "crelock" /\ a # "busy" /\ LockWith(t, a)
      /\ rc' = [rc EXCEPT ![t] = b] /\ pc' = [pc EXCEPT ![t] = "cgot"]
      /\ UNCHANGED <<robust, locked, callback, holds, torn, bound, hclosed, waiters>>
  BY ZenonT(60), <1>1, <1>2 DEF CondRelock, Goto, handleVars, flagVars, dataVars, condOnly
<1>4. /\ a = "ok" => mowner = Nobody /\ mstate = "clean" /\ holds = {}
      /\ a = "ownerdead" => mowner = Nobody /\ mstate = "dead" /\ holds = {}
      /\ a \notin {"ok", "timedout"}  \/ a = "ok"
  BY <1>0, <1>1, AnswerFacts DEF Answer
<1>5. rc[t] \in {"ok", "timedout"}
  BY ZenonT(60), <1>0, <1>3 DEF MutexIInv, AnswersTrue
<1>6. CASE a = "ok"
  <2>1. mowner' = t /\ mstate' = "clean" /\ holds = {} /\ holds' = {} /\ torn = Nobody /\ b \in {"ok", "timedout"}
    BY ZenonT(60), <1>0, <1>2, <1>3, <1>4, <1>5, <1>6 DEF LockWith, MutexIInv, TornGuarded
  <2>2. AnswersTrue'
    BY ZenonT(60), <1>0, <1>3, <1>4, <1>6, <2>1 DEF MutexIInv, AnswersTrue, Granted, Inherited, MutexTypeOK
  <2>3. MutexIInv'
    BY ZenonT(60), <1>0, <1>3, <2>1, <2>2
    DEF MutexIInv, MutexTypeOK, NotMendedUnreached, TornGuarded, MStates, MutexPlaces
  <2> QED BY ZenonT(60), <1>0, <1>3, <2>3 DEF CondIInv, MutexIInv
<1>7. CASE a = "ownerdead"
  <2>1. mowner' = t /\ mstate' = "inconsistent" /\ holds = {} /\ holds' = {} /\ b = "ownerdead" /\ robust
    BY ZenonT(60), <1>0, <1>2, <1>3, <1>4, <1>7 DEF LockWith, MutexIInv
  <2>2. AnswersTrue'
    BY ZenonT(60), <1>0, <1>3, <1>4, <1>7, <2>1 DEF MutexIInv, AnswersTrue, Granted, Inherited, MutexTypeOK
  <2>3. NotMendedUnreached'
    BY ZenonT(60), <1>0, <1>3, <2>1 DEF NotMendedUnreached, Inherited, MutexIInv, MutexTypeOK
  <2>4. MutexIInv'
    BY ZenonT(60), <1>0, <1>3, <2>1, <2>2, <2>3 DEF MutexIInv, MutexTypeOK, TornGuarded, MStates, MutexPlaces
  <2> QED BY <1>0, <1>3, <2>4 DEF CondIInv, MutexIInv
<1>8. CASE a \notin {"ok", "ownerdead"}
  <2>1. mowner' = mowner /\ mstate' = mstate /\ b = a /\ b \notin {"ok", "timedout", "ownerdead"}
    BY ZenonT(60), <1>2, <1>3, <1>4, <1>8 DEF LockWith
  <2>2. AnswersTrue'
    BY ZenonT(60), <1>0, <1>3, <2>1 DEF MutexIInv, AnswersTrue, Granted, Inherited, MutexTypeOK
  <2>3. NotMendedUnreached'
    BY ZenonT(60), <1>0, <1>3, <2>1 DEF MutexIInv, MutexTypeOK, NotMendedUnreached, Inherited, Open
  <2>4. MutexIInv'
    BY <1>0, <1>3, <2>1, <2>2, <2>3 DEF MutexIInv, MutexTypeOK, TornGuarded, MutexPlaces
  <2> QED BY <1>0, <1>3, <2>4 DEF CondIInv, MutexIInv
<1> QED BY <1>6, <1>7, <1>8

(* cond_wait returns. *)
LEMMA CondReturnSteps ==
    ASSUME CondIInv, NEW t \in Threads, CondGiveUp(t) \/ CondResume(t)
    PROVE  CondIInv'
<1> USE NobodyAssumption, GoneAssumption, AtAssumption
<1>0. MutexIInv
  BY ZenonT(60) DEF CondIInv
<1>1. CASE CondGiveUp(t)
  <2>1. /\ pc[t] = "cgot" /\ rc[t] = "timedout" /\ pc' = [pc EXCEPT ![t] = "idle"]
        /\ rc' = [rc EXCEPT ![t] = "ok"] /\ holds' = holds \cup {t} /\ locked' = locked \cup {At[t]}
        /\ UNCHANGED <<robust, mowner, mstate, callback, torn, bound, hclosed, waiters>>
    BY ZenonT(60), <1>1 DEF CondGiveUp, Return, lockVars, handleVars, condOnly
  <2>2. mowner = t /\ t \notin holds /\ mstate = "clean" /\ holds = {}
    BY ZenonT(60), <1>0, <2>1 DEF MutexIInv, AnswersTrue, Granted
  <2>3. AnswersTrue'
    BY ZenonT(60), <1>0, <2>1, <2>2 DEF MutexIInv, AnswersTrue, Granted, Inherited, MutexTypeOK
  <2>4. MutexTypeOK' /\ pc' \in [Threads -> MutexPlaces]
    BY ZenonT(60), <1>0, <2>1 DEF MutexIInv, MutexTypeOK, MutexPlaces, Rcs
  <2>5. NotMendedUnreached' /\ TornGuarded'
    BY ZenonT(60), <1>0, <2>1, <2>2 DEF MutexIInv, NotMendedUnreached, TornGuarded
  <2>6. MutexIInv'
    BY ZenonT(60), <2>1, <2>2, <2>3, <2>4, <2>5 DEF MutexIInv
  <2> QED BY ZenonT(60), <1>0, <2>1, <2>6 DEF CondIInv, MutexIInv
<1>2. CASE CondResume(t)
  <2>1. PICK a \in Rcs : a = rc[t]
    BY ZenonT(60), <1>0 DEF MutexIInv, MutexTypeOK
  <2>2. /\ AfterLock(t, a) /\ pc[t] = "cgot" /\ a # "timedout" /\ UNCHANGED <<robust, waiters>> /\ NoneOpens
        /\ pc' = [pc EXCEPT ![t] = pc'[t]]
    BY ZenonT(60), <1>0, <1>2, <2>1 DEF CondResume, NoneOpens, Open, handleVars, condOnly, AfterLock, MutexIInv
  <2>3. /\ a = "ok" => t \notin holds /\ mstate = "clean" /\ mowner = t
        /\ a = "ownerdead" => t \notin holds /\ mowner = t /\ mstate = "inconsistent"
        /\ Inherited(t) => a = "ownerdead"
    BY ZenonT(60), <1>0, <2>1, <2>2 DEF MutexIInv, AnswersTrue, Granted, Inherited
  <2>4. MutexIInv'
    BY ZenonT(60), <1>0, <2>2, <2>3, AfterLockStep
  <2> QED BY <1>0, <2>2, <2>4 DEF CondIInv, MutexIInv
<1> QED BY <1>1, <1>2

(* The steps of the mutex leave the queue alone. *)
LEMMA CondMutexSteps ==
    ASSUME CondIInv, NEW t \in Threads, UNCHANGED condOnly,
           MutexStep(t) \/ MutexClose(t) \/ Tear(t) \/ \E how \in Modes : MutexAcquire(t, how)
    PROVE  CondIInv'
<1>0. MutexIInv /\ waiters' = waiters
  BY DEF CondIInv, condOnly
<1>1. MutexIInv'
  BY <1>0, GrantStep, WaitSteps, CallbackSteps, ReleaseSteps, DataSteps, AcquireStep, ZenonT(60)
  DEF MutexStep, MutexExit
<1>2. \A u \in Threads : pc[u] = "cwait" => pc'[u] = "cwait"
  <2>1. CASE MutexStep(t) \/ MutexClose(t) \/ Tear(t)
    <3>1. pc' = pc \/ (pc[t] # "cwait" /\ \E l : pc' = [pc EXCEPT ![t] = l])
      BY ZenonT(60), <2>1 DEF MutexStep, MutexGrant, MutexGiveUp, MutexResume, AfterLock, CallbackRepairs, CallbackFails,
         MutexExit, MutexRelease, Mend, Tear, MutexClose, Goto, Return, objectVars, threadVars
    <3> QED BY ZenonT(60), <1>0, <3>1 DEF MutexIInv
  <2>2. CASE \E how \in Modes : MutexAcquire(t, how)
    <3>1. pc[t] = "idle" /\ \E l : pc' = [pc EXCEPT ![t] = l]
      BY ZenonT(60), <2>2 DEF MutexAcquire, AfterLock, Block
    <3> QED BY ZenonT(60), <1>0, <3>1 DEF MutexIInv
  <2> QED BY <2>1, <2>2
<1> QED BY <1>0, <1>1, <1>2 DEF CondIInv

(* cond_close, a death, and close() of a region. *)
LEMMA CondOtherSteps ==
    ASSUME CondIInv,
           \/ \E t \in Threads : CondClose(t)
           \/ \E h \in Handles : CondDies(h)
           \/ \E r \in Regions : CloseRegion(r) /\ UNCHANGED <<mutexOnly, condOnly>>
           \/ UNCHANGED condVars
    PROVE  CondIInv'
<1>0. MutexIInv /\ \A t \in waiters : t \in Threads /\ pc[t] = "cwait"
  BY ZenonT(60) DEF CondIInv
<1>1. CASE UNCHANGED <<handleVars, threadVars, mutexOnly, waiters>>
  <2>1. UNCHANGED <<pc, robust, mowner, mstate, locked, callback, rc, holds, torn, bound, hclosed, waiters>>
    BY ZenonT(60), <1>1 DEF handleVars, threadVars, mutexOnly, lockVars, flagVars, dataVars
  <2> QED BY <1>0, <2>1 DEF CondIInv, Open, MutexIInv, MutexTypeOK, AnswersTrue, Granted, Inherited,
             NotMendedUnreached, TornGuarded
<1>2. ASSUME NEW t \in Threads, CondClose(t) PROVE CondIInv'
  BY ZenonT(60), <1>1, <1>2 DEF CondClose
<1>3. ASSUME NEW h \in Handles, CondDies(h) PROVE CondIInv'
  <2>1. MutexDies(h) /\ waiters' = waiters \ ThreadsOf(h)
    BY <1>3 DEF CondDies
  <2>2. MutexIInv'
    BY ZenonT(60), <1>0, <2>1, OtherSteps
  <2>3. pc' = [u \in Threads |-> IF At[u] = h THEN "dead" ELSE pc[u]]
    BY ZenonT(60), <2>1 DEF MutexDies, ProcessDies, ProcessEnds
  <2> QED BY <1>0, <2>1, <2>2, <2>3 DEF CondIInv, ThreadsOf
<1>4. ASSUME NEW r \in Regions, CloseRegion(r), UNCHANGED <<mutexOnly, condOnly>> PROVE CondIInv'
  BY <1>1, <1>4 DEF CloseRegion, condOnly
<1>5. CASE UNCHANGED condVars
  BY <1>1, <1>5 DEF condVars, mutexVars, objectVars, condOnly
<1> QED BY <1>2, <1>3, <1>4, <1>5

(* Every step of Condition. *)
LEMMA CondStep == CondIInv /\ [CondNext]_condVars => CondIInv'
<1> SUFFICES ASSUME CondIInv, [CondNext]_condVars PROVE CondIInv'
  OBVIOUS
<1>1. ASSUME NEW t \in Threads,
             CondNotify(t) \/ CondNotifyAll(t) \/ CondSpurious(t) \/ CondTimeout(t)
      PROVE  CondIInv'
  <2>1. \E T \in SUBSET waiters, a \in {"ok", "timedout"} : Dequeue(T, a)
    BY ZenonT(60), <1>1 DEF CondNotify, CondNotifyAll, CondSpurious, CondTimeout
  <2> QED BY ZenonT(60), <2>1, CondDequeueSteps
<1> QED BY <1>1, CondEnqueueSteps, CondRelockStep, CondReturnSteps, CondMutexSteps, CondOtherSteps,
           ZenonT(60) DEF CondNext

(* wait() keeps the promise of acquire(): it lets go of a mutex only       *)
(* between the answers it gives, and comes back as its owner over whole    *)
(* data, whether it was notified, timed out, interrupted, woken for        *)
(* nothing, or inherits the mutex from an owner that died meanwhile.       *)
THEOREM ConditionRight == CondSpec => [](HeldIsOwned /\ SeenRecovered)
<1>1. PlacedInit(2, Threads) /\ MutexInit /\ CondInit => CondIInv
  <2>1. PlacedInit(2, Threads) => pc \in [Threads -> {"idle", "dead"}]
    BY DEF PlacedInit
  <2> QED BY <2>1, MutexStart DEF CondInit, CondIInv
<1>2. CondIInv => HeldIsOwned /\ SeenRecovered
  BY MutexAnswersRight DEF CondIInv
<1> QED BY <1>1, <1>2, CondStep, PTL DEF CondSpec

-----------------------------------------------------------------------------
(* MutexArray *)

AHolders == {t \in Threads : \E item \in BOOLEAN : <<t, item>> \in aholds}

ArrayAnswersTrue ==
    \A t \in Threads :
      /\ pc[t] = "mgot" /\ rc[t] = "ok" => mowner = t /\ AHolders = {} /\ mstate = "clean"
      /\ pc[t] = "mgot" /\ rc[t] = "ownerdead" =>
           mowner = t /\ AHolders = {} /\ mstate = "inconsistent"
      /\ pc[t] = "callback" => mowner = t /\ AHolders = {} /\ mstate = "inconsistent"

ArrayTornGuarded == torn # Nobody /\ mstate = "clean" /\ mowner # Gone => torn \in AHolders

ArrayIInv ==
    /\ MutexTypeOK /\ ArrayTypeOK
    /\ pc \in [Threads -> {"idle", "mlock", "mgot", "callback", "dead"}]
    /\ ArrayAnswersTrue
    /\ \A t \in AHolders : mowner = t /\ mstate = "clean"
    /\ \A t \in Threads : <<t, TRUE>> \in aholds => At[t] \in ilocked
    /\ mstate = "inconsistent" => robust /\ mowner \in Threads
    /\ mstate = "dead" => robust
    /\ ArrayTornGuarded

(* Those who hold an element are at most one, its owner. *)
LEMMA AHoldersFacts ==
    ASSUME ArrayIInv
    PROVE  /\ AHolders \subseteq Threads /\ (AHolders = {} <=> aholds = {})
           /\ mowner \notin Threads => AHolders = {}
           /\ mstate # "clean" => AHolders = {}
           /\ AHolders # {} => AHolders = {mowner}
<1>1. aholds \subseteq Threads \X BOOLEAN
  BY DEF ArrayIInv, ArrayTypeOK
<1>2. AHolders \subseteq Threads /\ (AHolders = {} <=> aholds = {})
  <2>1. ASSUME NEW x \in aholds PROVE AHolders # {}
    <3>1. PICK u \in Threads, item \in BOOLEAN : x = <<u, item>>
      BY <1>1, <2>1
    <3> QED BY <2>1, <3>1 DEF AHolders
  <2> QED BY ZenonT(60), <2>1 DEF AHolders
<1> QED BY <1>2 DEF ArrayIInv

(* What the pthread mutex of an index answers t at once. *)
LEMMA ArrayAnswerFacts ==
    ASSUME ArrayIInv, NEW t \in Threads
    PROVE  /\ Answer(t) \in Rcs
           /\ Answer(t) = "ok" => mowner = Nobody /\ mstate = "clean" /\ AHolders = {}
           /\ Answer(t) = "ownerdead" => mowner = Nobody /\ mstate = "dead" /\ AHolders = {}
<1> USE NobodyAssumption, GoneAssumption
<1>1. mowner \notin Threads => AHolders = {}
  BY ZenonT(60), AHoldersFacts
<1>2. /\ mstate \in MStates /\ mowner \in Threads \cup {Nobody, Gone}
      /\ mstate = "inconsistent" => mowner \in Threads
  BY ZenonT(60) DEF ArrayIInv, MutexTypeOK
<1>3. CASE mstate = "poisoned"
  BY ZenonT(60), <1>3 DEF Answer, Rcs
<1>4. CASE mstate # "poisoned" /\ mowner = t
  BY ZenonT(60), <1>4 DEF Answer, Rcs
<1>5. CASE mstate # "poisoned" /\ mowner = Nobody
  BY ZenonT(60), <1>1, <1>2, <1>5 DEF Answer, Rcs, MStates
<1>6. CASE mstate # "poisoned" /\ mowner # t /\ mowner # Nobody
  BY ZenonT(60), <1>6 DEF Answer, Rcs
<1> QED BY ZenonT(60), <1>3, <1>4, <1>5, <1>6

(* array_after_lock, on an answer that is true of the mutex as t has it or *)
(* is about to have it.                                                    *)
LEMMA ArrayAfterLockStep ==
    ASSUME ArrayIInv, NEW t \in Threads, NEW a \in Rcs, NEW item \in BOOLEAN,
           ArrayAfterLock(t, a, item), UNCHANGED robust,
           a = "ok" => AHolders = {} /\ mstate = "clean" /\ mowner \in {t, Nobody},
           a = "ownerdead" => /\ AHolders = {} /\ mowner \in {t, Nobody}
                              /\ mstate \in {"dead", "inconsistent"}
    PROVE  ArrayIInv'
<1> DEFINE refused == a = "ownerdead" /\ At[t] \notin callback
<1> USE NobodyAssumption, GoneAssumption, AtAssumption
<1>1. /\ robust \in BOOLEAN /\ mowner \in Threads \cup {Nobody, Gone} /\ mstate \in MStates
      /\ rc \in [Threads -> Rcs] /\ torn \in Threads \cup {Nobody} /\ ilocked \subseteq Handles
      /\ pc \in [Threads -> {"idle", "mlock", "mgot", "callback", "dead"}]
      /\ aholds \subseteq Threads \X BOOLEAN
  BY ZenonT(60) DEF ArrayIInv, MutexTypeOK, ArrayTypeOK
<1>2. /\ UNCHANGED <<locked, callback, holds, torn, robust>>
      /\ rc' = [rc EXCEPT ![t] = "ok"]
      /\ pc' = [pc EXCEPT ![t] = IF a = "ownerdead" /\ ~refused THEN "callback" ELSE "idle"]
      /\ aholds' = IF a = "ok" THEN aholds \cup {<<t, item>>} ELSE aholds
      /\ ilocked' = IF a = "ok" /\ item THEN ilocked \cup {At[t]} ELSE ilocked
      /\ byItem' \subseteq Threads
  BY DEF ArrayAfterLock, Block, Return, AsMutex, ArrayIInv, ArrayTypeOK
<1>3. ArrayTypeOK' /\ \A u \in Threads : <<u, TRUE>> \in aholds' => At[u] \in ilocked'
  <2>1. At[t] \in Handles /\ ArrayTypeOK'
    BY <1>1, <1>2 DEF ArrayTypeOK
  <2>2. ASSUME NEW u \in Threads, <<u, TRUE>> \in aholds' PROVE At[u] \in ilocked'
    <3>1. CASE <<u, TRUE>> \in aholds
      BY ZenonT(60), <1>2, <3>1 DEF ArrayIInv
    <3>2. CASE <<u, TRUE>> = <<t, item>> /\ a = "ok"
      BY ZenonT(60), <1>2, <3>2
    <3> QED BY ZenonT(60), <1>2, <2>2, <3>1, <3>2
  <2> QED BY ZenonT(60), <2>1, <2>2
<1>4. pc' \in [Threads -> {"idle", "mlock", "mgot", "callback", "dead"}] /\ rc' \in [Threads -> Rcs]
  BY <1>1, <1>2 DEF Rcs
<1>5. CASE a = "ok"
  <2>1. mowner' = t /\ mstate' = "clean"
    BY <1>5 DEF ArrayAfterLock, LockWith
  <2>2. aholds' = {<<t, item>>} /\ torn' = Nobody
    BY ZenonT(60), <1>2, <1>5, AHoldersFacts DEF ArrayIInv, ArrayTornGuarded
  <2>3. AHolders' = {t} /\ torn' = Nobody
    BY ZenonT(60), <1>5, <2>2 DEF AHolders
  <2>4. ArrayAnswersTrue'
    BY <1>1, <1>2, <1>5, <2>1 DEF ArrayIInv, ArrayAnswersTrue
  <2> QED BY ZenonT(60), <1>1, <1>2, <1>3, <1>4, <2>1, <2>3, <2>4
          DEF ArrayIInv, MutexTypeOK, ArrayTornGuarded, MStates
<1>6. CASE a = "ownerdead"
  <2>1. \/ mowner' = Nobody /\ mstate' = "poisoned" /\ pc'[t] = "idle"
        \/ mowner' = t /\ mstate' = "inconsistent"
    BY ZenonT(60), <1>1, <1>2, <1>6 DEF ArrayAfterLock, LockWith
  <2>2. AHolders' = {} /\ robust
    BY ZenonT(60), <1>2, <1>6 DEF ArrayIInv, AHolders
  <2>3. ArrayAnswersTrue'
    BY ZenonT(60), <1>1, <1>2, <1>6, <2>1, <2>2 DEF ArrayIInv, ArrayAnswersTrue
  <2> QED BY ZenonT(60), <1>1, <1>2, <1>3, <1>4, <2>1, <2>2, <2>3
          DEF ArrayIInv, MutexTypeOK, ArrayTornGuarded, MStates
<1>7. CASE a \notin {"ok", "ownerdead"}
  <2>1. mowner' = mowner /\ mstate' = mstate /\ pc'[t] = "idle" /\ AHolders' = AHolders
    BY ZenonT(60), <1>1, <1>2, <1>7 DEF ArrayAfterLock, LockWith, AHolders
  <2>2. ArrayAnswersTrue'
    BY <1>1, <1>2, <2>1 DEF ArrayIInv, ArrayAnswersTrue
  <2>3. MutexTypeOK' /\ ArrayTornGuarded'
    BY <1>2, <1>4, <2>1 DEF ArrayIInv, MutexTypeOK, ArrayTornGuarded
  <2>4. /\ \A u \in AHolders' : mowner' = u /\ mstate' = "clean"
        /\ mstate' = "inconsistent" => robust' /\ mowner' \in Threads
        /\ mstate' = "dead" => robust'
    BY <1>2, <2>1 DEF ArrayIInv
  <2> QED BY ZenonT(60), <1>3, <1>4, <2>2, <2>3, <2>4 DEF ArrayIInv
<1> QED BY ZenonT(60), <1>5, <1>6, <1>7

(* acquire() up to the wait, and the wait. *)
LEMMA ArrayAcquireStep ==
    ASSUME ArrayIInv, NEW t \in Threads, NEW how \in Modes, NEW item \in BOOLEAN,
           ArrayAcquire(t, how, item)
    PROVE  ArrayIInv'
<1>1. CASE Answer(t) # "busy" /\ ArrayAfterLock(t, Answer(t), item)
  <2>1. UNCHANGED robust
    BY ZenonT(60) DEF ArrayAcquire
  <2> QED BY ZenonT(60), <1>1, <2>1, ArrayAnswerFacts, ArrayAfterLockStep
<1>2. CASE /\ Block(t, "mlock", how)
           /\ byItem' = byItem \cup (IF item THEN {t} ELSE {})
           /\ UNCHANGED <<mowner, mstate, AsMutex, rc, torn, ilocked, aholds>>
  <2>1. UNCHANGED <<robust, mowner, mstate, locked, callback, rc, holds, torn, ilocked, aholds>>
    BY ZenonT(60), <1>2 DEF ArrayAcquire, AsMutex
  <2>2. pc' = [pc EXCEPT ![t] = "mlock"] /\ AHolders' = AHolders /\ byItem' \subseteq Threads
    BY <1>2 DEF Block, AHolders, ArrayIInv, ArrayTypeOK
  <2> QED BY ZenonT(60), <2>1, <2>2 DEF ArrayIInv, MutexTypeOK, ArrayTypeOK, ArrayAnswersTrue, ArrayTornGuarded
<1> QED BY ZenonT(60), <1>1, <1>2 DEF ArrayAcquire

(* The wait of acquire() is granted, times out or is interrupted. *)
LEMMA ArrayWaitStep ==
    ASSUME ArrayIInv, NEW t \in Threads, ArrayWait(t)
    PROVE  ArrayIInv'
<1> USE NobodyAssumption, GoneAssumption
<1>0. UNCHANGED <<ilocked, byItem, aholds>> /\ AHolders' = AHolders
  BY ZenonT(60) DEF ArrayWait, arrayOnly, AHolders
<1>1. CASE MutexGrant(t)
  <2>1. PICK a : a = IF mowner = t THEN "deadlk" ELSE Answer(t)
    OBVIOUS
  <2>2. /\ a \in Rcs /\ rc' = [rc EXCEPT ![t] = a] /\ LockWith(t, a)
        /\ pc' = [pc EXCEPT ![t] = "mgot"]
        /\ UNCHANGED <<robust, locked, callback, holds, torn>>
    BY <1>1, <2>1, ArrayAnswerFacts DEF MutexGrant, Goto, flagVars, dataVars, Rcs
  <2>3. /\ a = "ok" => mowner = Nobody /\ mstate = "clean" /\ AHolders = {}
        /\ a = "ownerdead" => mowner = Nobody /\ mstate = "dead" /\ AHolders = {}
    BY <2>1, ArrayAnswerFacts
  <2>4. CASE a \in {"ok", "ownerdead"}
    <3>1. /\ mowner' = t /\ AHolders' = {} /\ AHolders = {}
          /\ mstate' = IF a = "ok" THEN "clean" ELSE "inconsistent"
      BY ZenonT(60), <1>0, <2>2, <2>3, <2>4 DEF LockWith
    <3>2. ArrayAnswersTrue'
      BY ZenonT(60), <1>0, <2>2, <2>3, <2>4, <3>1 DEF ArrayIInv, ArrayAnswersTrue, MutexTypeOK
    <3>3. a = "ok" => torn = Nobody
      BY <2>3, <3>1 DEF ArrayIInv, ArrayTornGuarded
    <3> QED BY ZenonT(60), <1>0, <2>2, <2>3, <2>4, <3>1, <3>2, <3>3
            DEF ArrayIInv, MutexTypeOK, ArrayTypeOK, ArrayTornGuarded, MStates
  <2>5. CASE a \notin {"ok", "ownerdead"}
    <3>1. mowner' = mowner /\ mstate' = mstate
      BY ZenonT(60), <2>2, <2>5 DEF LockWith
    <3>2. ArrayAnswersTrue'
      BY <1>0, <2>2, <2>5, <3>1 DEF ArrayIInv, ArrayAnswersTrue, MutexTypeOK
    <3> QED BY ZenonT(60), <1>0, <2>2, <3>1, <3>2 DEF ArrayIInv, MutexTypeOK, ArrayTypeOK, ArrayTornGuarded
  <2> QED BY <2>4, <2>5
<1>2. CASE MutexGiveUp(t)
  <2>1. PICK a \in {"timedout", "interrupted"} : rc' = [rc EXCEPT ![t] = a]
    BY ZenonT(60), <1>2 DEF MutexGiveUp
  <2>2. /\ pc' = [pc EXCEPT ![t] = "mgot"]
        /\ UNCHANGED <<robust, mowner, mstate, locked, callback, holds, torn>>
    BY ZenonT(60), <1>2 DEF MutexGiveUp, Goto, lockVars, flagVars, dataVars
  <2>3. ArrayAnswersTrue'
    BY <1>0, <2>1, <2>2 DEF ArrayIInv, ArrayAnswersTrue, MutexTypeOK
  <2> QED BY ZenonT(60), <1>0, <2>1, <2>2, <2>3 DEF ArrayIInv, MutexTypeOK, ArrayTypeOK, ArrayTornGuarded, Rcs
<1> QED BY <1>1, <1>2 DEF ArrayWait

(* The threads of a process die; a robust mutex is "dead", a plain one     *)
(* stays locked.                                                           *)
LEMMA ArrayDeathStep ==
    ASSUME ArrayIInv, NEW h \in Handles, ProcessEnds(h), ArrayOrphans(h)
    PROVE  ArrayIInv'
<1> USE NobodyAssumption, GoneAssumption
<1> DEFINE T == ThreadsOf(h)
<1>1. /\ pc' = [u \in Threads |-> IF u \in T THEN "dead" ELSE pc[u]]
      /\ OwnerDies(T) /\ T \subseteq Threads
      /\ aholds' = aholds \ (T \X BOOLEAN) /\ byItem' = byItem \ T
      /\ UNCHANGED <<robust, locked, callback, holds, rc, torn, ilocked>>
  BY DEF ProcessEnds, ArrayOrphans, ThreadsOf, AsMutex
<1>2. AHolders' = AHolders \ T
  BY ZenonT(60), <1>1 DEF AHolders
<1>3. ArrayTypeOK' /\ \A u \in Threads : <<u, TRUE>> \in aholds' => At[u] \in ilocked'
  BY ZenonT(60), <1>1 DEF ArrayIInv, ArrayTypeOK
<1> HIDE DEF T
<1>4. CASE mowner \in T
  <2>1. /\ AHolders' = {}
        /\ \/ mowner' = Nobody /\ mstate' = "dead" /\ robust
           \/ mowner' = Gone /\ mstate' = mstate /\ ~robust
    BY ZenonT(60), <1>1, <1>2, <1>4, AHoldersFacts DEF OwnerDies
  <2>2. ArrayAnswersTrue'
    BY ZenonT(60), <1>1, <1>4, <2>1 DEF ArrayIInv, ArrayAnswersTrue
  <2>3. ~robust => mstate # "inconsistent"
    BY DEF ArrayIInv
  <2> QED BY ZenonT(60), <1>1, <1>3, <1>4, <2>1, <2>2, <2>3 DEF ArrayIInv, MutexTypeOK, ArrayTornGuarded, MStates
<1>5. CASE mowner \notin T
  <2>1. mowner' = mowner /\ mstate' = mstate /\ AHolders' = AHolders
    BY ZenonT(60), <1>1, <1>2, <1>5, AHoldersFacts DEF OwnerDies
  <2>2. ArrayAnswersTrue'
    BY <1>1, <2>1 DEF ArrayIInv, ArrayAnswersTrue
  <2> QED BY ZenonT(60), <1>1, <1>3, <2>1, <2>2 DEF ArrayIInv, MutexTypeOK, ArrayTornGuarded
<1> QED BY ZenonT(60), <1>4, <1>5

(* The GIL is t's again, on an array that is open or was closed under it. *)
LEMMA ArrayResumeStep ==
    ASSUME ArrayIInv, NEW t \in Threads, ArrayResume(t)
    PROVE  ArrayIInv'
<1>1. CASE Open(At[t])
  <2>1. PICK a \in Rcs : a = rc[t]
    BY DEF ArrayIInv, MutexTypeOK
  <2>2. PICK item \in BOOLEAN : ArrayAfterLock(t, a, item)
    <3>1. t \in byItem => ArrayAfterLock(t, a, TRUE)
      BY ZenonT(60), <1>1, <2>1 DEF ArrayResume, ArrayAfterLock
    <3>2. ASSUME t \notin byItem PROVE ArrayAfterLock(t, a, FALSE)
      <4>1. (t \in byItem) = FALSE
        BY <3>2, SMT
      <4> QED BY ZenonT(60), <1>1, <2>1, <4>1 DEF ArrayResume
    <3> QED BY ZenonT(60), <3>1, <3>2
  <2>3. ArrayAfterLock(t, a, item) /\ pc[t] = "mgot" /\ UNCHANGED robust
    BY ZenonT(60), <1>1, <2>2 DEF ArrayResume
  <2>4. /\ a = "ok" => AHolders = {} /\ mstate = "clean" /\ mowner = t
        /\ a = "ownerdead" => AHolders = {} /\ mowner = t /\ mstate = "inconsistent"
    BY ZenonT(60), <2>1, <2>3 DEF ArrayIInv, ArrayAnswersTrue
  <2> QED BY ZenonT(60), <2>3, <2>4, ArrayAfterLockStep
<1>2. CASE ~Open(At[t])
  BY ZenonT(60), <1>2, AtAssumption, ArrayDeathStep DEF ArrayResume
<1> QED BY ZenonT(60), <1>1, <1>2

(* on_owner_died has run. *)
LEMMA ArrayCallbackSteps ==
    ASSUME ArrayIInv, NEW t \in Threads, ArrayCallbackRepairs(t) \/ ArrayCallbackFails(t)
    PROVE  ArrayIInv'
<1> USE NobodyAssumption, GoneAssumption, AtAssumption
<1>1. /\ pc[t] = "callback" /\ mowner = t /\ AHolders = {} /\ mstate = "inconsistent" /\ robust
      /\ \A u \in Threads \ {t} : /\ pc[u] # "callback"
                                  /\ pc[u] = "mgot" => rc[u] \notin {"ok", "ownerdead"}
  BY ZenonT(60) DEF ArrayCallbackRepairs, ArrayCallbackFails, ArrayIInv, ArrayAnswersTrue
<1>2. /\ pc' = [pc EXCEPT ![t] = "idle"] /\ UNCHANGED <<robust, locked, callback, holds, rc>>
      /\ ilocked' \subseteq Handles /\ byItem' \subseteq Threads
  <2>1. ArrayTypeOK
    BY DEF ArrayIInv
  <2>2. At[t] \in Handles
    BY AtAssumption
  <2>3. CASE ArrayCallbackRepairs(t)
    BY ZenonT(60), <2>1, <2>2, <2>3 DEF ArrayCallbackRepairs, Return, AsMutex, ArrayTypeOK
  <2>4. CASE ArrayCallbackFails(t)
    BY ZenonT(60), <2>1, <2>2, <2>4 DEF ArrayCallbackFails, Return, AsMutex, ArrayTypeOK
  <2> QED BY ZenonT(60), <2>3, <2>4
<1>3. ArrayAnswersTrue'
  BY <1>1, <1>2 DEF ArrayAnswersTrue, ArrayIInv, MutexTypeOK
<1>4. CASE ArrayCallbackRepairs(t)
  <2>1. PICK item \in BOOLEAN :
          /\ aholds' = aholds \cup {<<t, item>>}
          /\ ilocked' = IF item THEN ilocked \cup {At[t]} ELSE ilocked
    <3>1. CASE t \in byItem
      BY ZenonT(60), <1>4, <3>1 DEF ArrayCallbackRepairs
    <3>2. CASE t \notin byItem
      <4>1. (t \in byItem) = FALSE
        BY <3>2, SMT
      <4>2. aholds' = aholds \cup {<<t, FALSE>>}
        BY ZenonT(60), <1>4, <4>1 DEF ArrayCallbackRepairs
      <4> QED BY ZenonT(60), <1>4, <3>2, <4>2 DEF ArrayCallbackRepairs
    <3> QED BY <3>1, <3>2
  <2>2. /\ mowner' = t /\ torn' = Nobody /\ mstate' = "clean" /\ aholds' = {<<t, item>>}
        /\ ilocked' = IF item THEN ilocked \cup {At[t]} ELSE ilocked
    BY ZenonT(60), <1>1, <1>4, <2>1, AHoldersFacts DEF ArrayCallbackRepairs
  <2>3. AHolders' = {t} /\ ArrayTypeOK' /\ \A u \in Threads : <<u, TRUE>> \in aholds' => At[u] \in ilocked'
    <3>1. AHolders' = {t}
      BY ZenonT(60), <2>2 DEF AHolders
    <3>2. ArrayTypeOK'
      BY <1>2, <2>2 DEF ArrayTypeOK
    <3>3. ASSUME NEW u \in Threads, <<u, TRUE>> \in aholds' PROVE At[u] \in ilocked'
      <4>1. u = t /\ item = TRUE
        BY ZenonT(60), <2>2, <3>3
      <4> QED BY <2>2, <4>1
    <3> QED BY ZenonT(60), <3>1, <3>2, <3>3
  <2> QED BY ZenonT(60), <1>1, <1>2, <1>3, <2>2, <2>3 DEF ArrayIInv, MutexTypeOK, ArrayTornGuarded, MStates
<1>5. CASE ArrayCallbackFails(t)
  <2>1. /\ mowner' = Nobody /\ mstate' = "poisoned" /\ torn' = torn /\ aholds' = {} /\ AHolders' = {}
    BY ZenonT(60), <1>1, <1>5, AHoldersFacts DEF ArrayCallbackFails, UnlockBy, AHolders
  <2> QED BY ZenonT(60), <1>1, <1>2, <1>3, <2>1 DEF ArrayIInv, MutexTypeOK, ArrayTypeOK, ArrayTornGuarded, MStates
<1> QED BY <1>4, <1>5

(* release() of an element. *)
LEMMA ArrayReleaseStep ==
    ASSUME ArrayIInv, NEW t \in Threads, NEW item \in BOOLEAN, ArrayRelease(t, item)
    PROVE  ArrayIInv'
<1> USE NobodyAssumption, GoneAssumption
<1>1. /\ pc[t] = "idle" /\ pc' = pc /\ UNCHANGED <<robust, locked, callback, holds, rc, torn, byItem>>
      /\ ilocked' \subseteq Handles /\ mowner = t /\ torn # t /\ mowner' = Nobody
      /\ mstate' = IF mstate = "inconsistent" THEN "poisoned" ELSE mstate
      /\ aholds' = aholds \ ({t} \X BOOLEAN)
  BY ZenonT(60) DEF ArrayRelease, UnlockBy, objectVars, threadVars, AsMutex, ArrayIInv, ArrayTypeOK
<1>2. AHolders' = AHolders \ {t} /\ AHolders' = {}
  <2>1. AHolders' = AHolders \ {t}
    BY ZenonT(60), <1>1 DEF AHolders
  <2> QED BY <1>1, <2>1, AHoldersFacts
<1>3. aholds' = {}
  BY <1>1, <1>2 DEF AHolders, ArrayIInv, ArrayTypeOK
<1>4. ArrayAnswersTrue'
  BY ZenonT(60), <1>1, <1>2 DEF ArrayIInv, ArrayAnswersTrue
<1>5. ArrayTornGuarded'
  BY ZenonT(60), <1>1, <1>2, AHoldersFacts DEF ArrayIInv, ArrayTornGuarded
<1> QED BY ZenonT(60), <1>1, <1>2, <1>3, <1>4, <1>5 DEF ArrayIInv, MutexTypeOK, ArrayTypeOK, MStates

(* What does not touch the mutex: an update, a close, a callback set. *)
LEMMA ArrayOtherSteps ==
    ASSUME ArrayIInv,
           \/ \E t \in Threads : ArrayTear(t) \/ ArrayClose(t)
           \/ \E h \in Handles : SetOnOwnerDied(h) /\ UNCHANGED arrayOnly
           \/ \E r \in Regions : CloseRegion(r) /\ UNCHANGED <<mutexOnly, arrayOnly>>
           \/ UNCHANGED arrayVars
    PROVE  ArrayIInv'
<1>1. ASSUME UNCHANGED <<pc, robust, mowner, mstate, locked, rc, holds, ilocked, byItem, aholds>>,
             callback' \subseteq Handles,
             torn' \in {torn, Nobody} \cup AHolders
      PROVE  ArrayIInv'
  <2>1. AHolders' = AHolders /\ AHolders \subseteq Threads
    BY ZenonT(60), <1>1 DEF AHolders
  <2> QED BY ZenonT(60), <1>1, <2>1 DEF ArrayIInv, MutexTypeOK, ArrayTypeOK, ArrayAnswersTrue, ArrayTornGuarded
<1>2. callback \subseteq Handles
  BY ZenonT(60) DEF ArrayIInv, MutexTypeOK
<1>3. ASSUME NEW t \in Threads, ArrayTear(t) PROVE ArrayIInv'
  <2>1. torn' \in {torn, Nobody} \cup AHolders
    BY <1>3 DEF ArrayTear, AHolders
  <2> QED BY ZenonT(60), <1>1, <1>2, <1>3, <2>1 DEF ArrayTear, objectVars, threadVars, lockVars, flagVars, arrayOnly
<1>4. ASSUME NEW t \in Threads, ArrayClose(t) PROVE ArrayIInv'
  BY ZenonT(60), <1>1, <1>2, <1>4 DEF ArrayClose, threadVars, mutexOnly, lockVars, flagVars, dataVars, arrayOnly
<1>5. ASSUME NEW h \in Handles, SetOnOwnerDied(h), UNCHANGED arrayOnly PROVE ArrayIInv'
  BY ZenonT(60), <1>1, <1>2, <1>5 DEF SetOnOwnerDied, objectVars, threadVars, lockVars, dataVars, arrayOnly
<1>6. ASSUME NEW r \in Regions, CloseRegion(r), UNCHANGED <<mutexOnly, arrayOnly>> PROVE ArrayIInv'
  BY ZenonT(60), <1>1, <1>2, <1>6 DEF CloseRegion, threadVars, mutexOnly, lockVars, flagVars, dataVars, arrayOnly
<1>7. CASE UNCHANGED arrayVars
  BY <1>1, <1>2, <1>7 DEF arrayVars, mutexVars, objectVars, threadVars, mutexOnly, lockVars, flagVars,
     dataVars, arrayOnly
<1> QED BY <1>3, <1>4, <1>5, <1>6, <1>7

(* Every step of MutexArray. *)
LEMMA ArrayStep == ArrayIInv /\ [ArrayNext]_arrayVars => ArrayIInv'
<1> SUFFICES ASSUME ArrayIInv, [ArrayNext]_arrayVars PROVE ArrayIInv'
  OBVIOUS
<1>1. ASSUME NEW h \in Handles, ArrayDies(h) PROVE ArrayIInv'
  BY <1>1, ArrayDeathStep DEF ArrayDies, ProcessDies
<1>2. ASSUME NEW t \in Threads, ItemExit(t) PROVE ArrayIInv'
  BY ZenonT(60), <1>2, ArrayReleaseStep DEF ItemExit
<1> QED BY ZenonT(60), <1>1, <1>2, ArrayAcquireStep, ArrayWaitStep, ArrayResumeStep, ArrayCallbackSteps,
           ArrayReleaseStep, ArrayOtherSteps DEF ArrayNext

(* A new array: the element is free and its data whole. *)
LEMMA ArrayStart ==
    ASSUME MutexInit, ArrayInit, pc \in [Threads -> {"idle", "dead"}]
    PROVE  ArrayIInv
<1>1. AHolders = {}
  BY DEF ArrayInit, AHolders
<1> QED BY <1>1, NobodyAssumption, GoneAssumption
    DEF MutexInit, ArrayInit, ArrayIInv, MutexTypeOK, ArrayTypeOK, ArrayAnswersTrue, ArrayTornGuarded,
        MStates, Rcs

(* The invariant says what the property says. *)
LEMMA ArrayRight == ArrayIInv => ArrayHeldIsOwned
<1> SUFFICES ASSUME ArrayIInv, NEW t \in Threads, NEW item \in BOOLEAN, <<t, item>> \in aholds
             PROVE  mowner = t /\ torn \in {t, Nobody} /\ (item => At[t] \in ilocked)
  BY DEF ArrayHeldIsOwned
<1>1. t \in AHolders
  BY ZenonT(60) DEF AHolders
<1>2. mowner = t /\ mstate = "clean" /\ AHolders = {t}
  BY ZenonT(60), <1>1, AHoldersFacts DEF ArrayIInv
<1>3. torn # Nobody => torn \in AHolders
  BY <1>2, GoneAssumption DEF ArrayIInv, ArrayTornGuarded
<1>4. item => At[t] \in ilocked
  BY ZenonT(60) DEF ArrayIInv
<1> QED BY <1>2, <1>3, <1>4

(* An element of a MutexArray, robust or not, for any number of processes  *)
(* and threads: whoever was told that they hold it, through the array or   *)
(* through an item, owns the pthread mutex, works on data nobody else has  *)
(* left torn, and an item that holds it has its handle marked locked.      *)
THEOREM MutexArrayRight == ArraySpec => []ArrayHeldIsOwned
<1>1. PlacedInit(1, Threads) => pc \in [Threads -> {"idle", "dead"}]
  BY DEF PlacedInit
<1> QED BY <1>1, ArrayStart, ArrayStep, ArrayRight, PTL DEF ArraySpec

=============================================================================
