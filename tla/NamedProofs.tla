---------------------------- MODULE NamedProofs -----------------------------
(***************************************************************************)
(* The objects that are not a slot of a segment: message queues, and       *)
(* semaphores, which may have a name of their own, for any number of       *)
(* processes, threads, messages and permits.                               *)
(***************************************************************************)
EXTENDS MessageQueue, Semaphore, FiniteSetTheorems, TLAPS

-----------------------------------------------------------------------------
(* Semaphore *)

(* A handle that is open has a sem_t; release(n) is under way on an open   *)
(* handle only, with a post still to make; a thread that waits, or comes   *)
(* out with a permit, knows the sem_t it waited on.                        *)
SemPlaced ==
    /\ \A h \in Handles : Open(h) => osem[h] \in Sems
    /\ \A t \in Threads :
         /\ pc[t] = "posting" => Open(At[t]) /\ sleft[t][1] >= 1 /\ sleft[t][1] <= sleft[t][2]
         /\ pc[t] = "semwait" => tsem[t] \in Sems
         /\ t \in sok => pc[t] = "semgot" /\ tsem[t] \in Sems

SemPlaces == {"idle", "dead", "semwait", "semgot", "posting"}

SemIInv ==
    /\ SemTypeOK
    /\ pc \in [Threads -> SemPlaces]
    /\ SemPlaced
    /\ PermitsConserved

(* The numbers of semaphores and of calls in progress. *)
LEMMA SemNumbers ==
    ASSUME SemTypeOK
    PROVE  /\ \A s \in Sems : /\ svalue[s] \in 0..MaxSem /\ sbirth[s] \in 0..MaxSem /\ sout[s] \in Int
           /\ \A t \in Threads : sleft[t][1] \in 0..MaxSem /\ sleft[t][2] \in 0..MaxSem
           /\ MaxSem \in Nat \ {0}
BY MaxSemAssumption DEF SemTypeOK

(* The posts still to come and the permits in hand can be counted. *)
LEMMA SemSetsFinite ==
    ASSUME NEW s
    PROVE  /\ IsFiniteSet(Posts(s)) /\ Cardinality(Posts(s)) \in Nat
           /\ IsFiniteSet(Posts(s)') /\ Cardinality(Posts(s)') \in Nat
           /\ sok \subseteq Threads => IsFiniteSet(Taking(s)) /\ Cardinality(Taking(s)) \in Nat
           /\ sok' \subseteq Threads => IsFiniteSet(Taking(s)') /\ Cardinality(Taking(s)') \in Nat
<1>1. IsFiniteSet(1..MaxSem)
  BY MaxSemAssumption, FS_Interval
<1>2. IsFiniteSet(Threads \X (1..MaxSem))
  BY ZenonT(60), <1>1, ThreadsAssumption, FS_Product
<1>3. Posts(s) \subseteq Threads \X (1..MaxSem) /\ Posts(s)' \subseteq Threads \X (1..MaxSem)
  BY DEF Posts
<1>4. IsFiniteSet(Posts(s)) /\ IsFiniteSet(Posts(s)')
  BY <1>2, <1>3, FS_Subset
<1>5. /\ sok \subseteq Threads => Taking(s) \in SUBSET Threads
      /\ sok' \subseteq Threads => Taking(s)' \in SUBSET Threads
  BY DEF Taking
<1>6. /\ sok \subseteq Threads => IsFiniteSet(Taking(s))
      /\ sok' \subseteq Threads => IsFiniteSet(Taking(s)')
  BY <1>5, ThreadsAssumption, FS_Subset
<1> QED BY <1>4, <1>6, FS_CardinalityType

(* The account of one semaphore in one step: unchanged, grown as a         *)
(* release(n) on it raised or died, or opened anew.                        *)
Accounted(s) ==
    \/ Permits(s)' = Permits(s) /\ sbirth'[s] = sbirth[s] /\ (s \in sraised => s \in sraised')
    \/ Permits(s)' >= Permits(s) /\ sbirth'[s] = sbirth[s] /\ s \in sraised'
    \/ Permits(s)' = sbirth'[s]

(* An account is a number. *)
LEMMA PermitsType ==
    ASSUME NEW s \in Sems
    PROVE  /\ SemTypeOK => Permits(s) \in Int
           /\ SemTypeOK' => Permits(s)' \in Int
<1>1. /\ SemTypeOK => Cardinality(Posts(s)) \in Nat /\ Cardinality(Taking(s)) \in Nat
      /\ SemTypeOK' => Cardinality(Posts(s)') \in Nat /\ Cardinality(Taking(s)') \in Nat
  BY SemSetsFinite DEF SemTypeOK
<1>2. /\ SemTypeOK => svalue[s] \in Int /\ sout[s] \in Int
      /\ SemTypeOK' => svalue'[s] \in Int /\ sout'[s] \in Int
  BY MaxSemAssumption DEF SemTypeOK
<1> QED BY <1>1, <1>2 DEF Permits

(* When the account of every semaphore moves as Accounted says, permits    *)
(* are conserved.                                                          *)
LEMMA AccountsBalance ==
    ASSUME SemTypeOK, PermitsConserved, SemTypeOK', \A s \in Sems : Accounted(s)
    PROVE  PermitsConserved'
<1> SUFFICES ASSUME NEW s \in Sems
             PROVE  /\ Permits(s)' >= sbirth'[s]
                    /\ s \notin sraised' => Permits(s)' = sbirth'[s]
  BY DEF PermitsConserved
<1>1. Permits(s) >= sbirth[s] /\ (s \notin sraised => Permits(s) = sbirth[s])
  BY DEF PermitsConserved
<1>2. Permits(s) \in Int /\ sbirth[s] \in Int /\ sbirth'[s] \in Int
  BY PermitsType, MaxSemAssumption DEF SemTypeOK
<1>3. Permits(s)' \in Int
  BY PermitsType
<1>4. Accounted(s)
  OBVIOUS
<1> QED BY <1>1, <1>2, <1>3, <1>4 DEF Accounted

(* A step that leaves a semaphore's posts, takers and numbers alone. *)
LEMMA AccountKept ==
    ASSUME NEW s \in Sems, Posts(s)' = Posts(s), Taking(s)' = Taking(s),
           svalue'[s] = svalue[s], sbirth'[s] = sbirth[s], sout'[s] = sout[s],
           sraised \subseteq sraised'
    PROVE  Accounted(s)
BY ZenonT(60) DEF Accounted, Permits

(* Threads that neither start nor stop posting, nor move on in it. *)
LEMMA PostsKept ==
    ASSUME NEW s,
           \A t \in Threads : pc[t] = "posting" \/ pc'[t] = "posting" =>
             /\ osem'[At[t]] = s <=> osem[At[t]] = s
             /\ osem[At[t]] = s => pc[t] = "posting" /\ pc'[t] = "posting" /\ sleft'[t] = sleft[t]
    PROVE  Posts(s)' = Posts(s)
<1>1. ASSUME NEW p \in Threads \X (1..MaxSem) PROVE p \in Posts(s)' <=> p \in Posts(s)
  <2>1. p[1] \in Threads
    OBVIOUS
  <2> QED BY <2>1 DEF Posts
<1>2. Posts(s) \subseteq Threads \X (1..MaxSem) /\ Posts(s)' \subseteq Threads \X (1..MaxSem)
  BY DEF Posts
<1> QED BY <1>1, <1>2

(* pc of t moves between places that are not "posting". *)
LEMMA PostsPc ==
    ASSUME NEW t \in Threads, NEW l, pc \in [Threads -> SemPlaces], pc' = [pc EXCEPT ![t] = l],
           pc[t] # "posting", l # "posting", UNCHANGED <<osem, sleft>>, NEW s
    PROVE  Posts(s)' = Posts(s)
BY PostsKept

(* nsem_create, nsem_attach and nsem_unlink *)
LEMMA NsemSteps ==
    ASSUME SemIInv,
           \/ \E h \in Handles : NsemAttach(h) \/ \E v \in 0..1 : NsemCreate(h, v)
           \/ NsemUnlink
    PROVE  SemIInv'
<1> USE NoSemAssumption, AtAssumption
<1>0. SemTypeOK /\ SemPlaced /\ PermitsConserved
  BY DEF SemIInv
<1>1. ASSUME NEW h \in Handles, NEW s \in Sems, NsemOpen(h, s), sname' \in Sems \cup {NoSem},
             svalue' \in [Sems -> 0..MaxSem], sbirth' \in [Sems -> 0..MaxSem], sout' \in [Sems -> Int],
             sraised' \subseteq Sems,
             \A x \in Sems : \/ Unused(x) /\ svalue'[x] = sbirth'[x] /\ sout'[x] = 0
                             \/ /\ svalue'[x] = svalue[x] /\ sbirth'[x] = sbirth[x] /\ sout'[x] = sout[x]
                                /\ x \in sraised => x \in sraised'
      PROVE  SemIInv'
  <2>1. /\ UNCHANGED <<pc, tsem, sok, sleft, hclosed, named>> /\ bound' = bound \cup {h}
        /\ osem' = [osem EXCEPT ![h] = s] /\ h \notin bound
    BY <1>1 DEF NsemOpen, threadVars
  <2>2. SemTypeOK'
    BY <1>0, <1>1, <2>1 DEF SemTypeOK
  <2>3. SemPlaced'
    BY ZenonT(60), <1>0, <2>1 DEF SemPlaced, SemTypeOK, Open
  <2>4. ASSUME NEW x \in Sems PROVE Posts(x)' = Posts(x) /\ Taking(x)' = Taking(x)
    <3>1. \A t \in Threads : pc[t] = "posting" => At[t] # h
      BY <1>0, <2>1 DEF SemPlaced, Open
    <3>2. \A t \in Threads : At[t] # h => osem'[At[t]] = osem[At[t]]
      BY <1>0, <2>1 DEF SemTypeOK
    <3> QED BY ZenonT(60), <2>1, <3>1, <3>2, PostsKept DEF Taking
  <2>5. ASSUME NEW x \in Sems, Unused(x) PROVE Posts(x) = {} /\ Taking(x) = {}
    BY ZenonT(60), <2>5 DEF Unused, Posts, Taking, SemIInv, SemTypeOK
  <2>6. ASSUME NEW x \in Sems PROVE Accounted(x)
    <3>1. CASE Unused(x) /\ svalue'[x] = sbirth'[x] /\ sout'[x] = 0
      <4>1. Cardinality(Posts(x)') = 0 /\ Cardinality(Taking(x)') = 0
        BY ZenonT(60), <2>4, <2>5, <3>1, FS_EmptySet
      <4>2. sbirth'[x] \in Int
        BY <1>1, MaxSemAssumption
      <4> QED BY <3>1, <4>1, <4>2 DEF Accounted, Permits
    <3>2. CASE /\ svalue'[x] = svalue[x] /\ sbirth'[x] = sbirth[x] /\ sout'[x] = sout[x]
               /\ x \in sraised => x \in sraised'
      BY <2>4, <3>2 DEF Accounted, Permits
    <3> QED BY ZenonT(60), <1>1, <3>1, <3>2
  <2>7. PermitsConserved'
    BY ZenonT(60), <1>0, <2>2, <2>6, AccountsBalance
  <2> QED BY ZenonT(60), <2>1, <2>2, <2>3, <2>7 DEF SemIInv
<1>2. ASSUME NEW h \in Handles, NEW v \in 0..1, NsemCreate(h, v) PROVE SemIInv'
  <2>1. PICK s \in Sems : /\ Unused(s) /\ sname' = s
                          /\ svalue' = [svalue EXCEPT ![s] = v]
                          /\ sbirth' = [sbirth EXCEPT ![s] = v]
                          /\ sout' = [sout EXCEPT ![s] = 0]
                          /\ sraised' = sraised \ {s} /\ NsemOpen(h, s)
    BY ZenonT(60), <1>2 DEF NsemCreate
  <2>2. v \in 0..MaxSem
    BY MaxSemAssumption
  <2>3. /\ svalue' \in [Sems -> 0..MaxSem] /\ sbirth' \in [Sems -> 0..MaxSem]
        /\ sout' \in [Sems -> Int] /\ sraised' \subseteq Sems
    BY <1>0, <2>1, <2>2 DEF SemTypeOK
  <2>4. \A x \in Sems : \/ Unused(x) /\ svalue'[x] = sbirth'[x] /\ sout'[x] = 0
                        \/ /\ svalue'[x] = svalue[x] /\ sbirth'[x] = sbirth[x] /\ sout'[x] = sout[x]
                           /\ x \in sraised => x \in sraised'
    BY <1>0, <2>1 DEF SemTypeOK
  <2> QED BY ZenonT(60), <1>1, <2>1, <2>3, <2>4
<1>3. ASSUME NEW h \in Handles, NsemAttach(h) PROVE SemIInv'
  BY <1>0, <1>1, <1>3 DEF NsemAttach, SemTypeOK
<1>4. CASE NsemUnlink
  <2>1. /\ UNCHANGED <<pc, bound, hclosed, named, svalue, sbirth, osem, tsem, sok, sleft, sout, sraised>>
        /\ sname' = NoSem
    BY <1>4 DEF NsemUnlink, objectVars, threadVars, handleVars
  <2>2. SemTypeOK' /\ SemPlaced'
    BY ZenonT(60), <1>0, <2>1 DEF SemTypeOK, SemPlaced, Open
  <2>3. \A x \in Sems : Posts(x)' = Posts(x) /\ Taking(x)' = Taking(x)
    BY ZenonT(60), <2>1 DEF Posts, Taking
  <2>4. PermitsConserved'
    BY ZenonT(60), <1>0, <2>1, <2>2, <2>3, AccountKept, AccountsBalance
  <2> QED BY <2>1, <2>2, <2>4 DEF SemIInv
<1> QED BY <1>2, <1>3, <1>4

(* acquire(): a permit is taken at once, or by a thread that waits. *)
LEMMA SemTakeSteps ==
    ASSUME SemIInv, NEW t \in Threads,
           SemGrant(t) \/ SemGiveUp(t) \/ \E how \in Modes : SemAcquire(t, how)
    PROVE  SemIInv'
<1> USE NoSemAssumption, AtAssumption
<1>0. /\ SemTypeOK /\ SemPlaced /\ PermitsConserved
      /\ pc \in [Threads -> SemPlaces]
  BY DEF SemIInv
<1>1. CASE SemGrant(t)
  <2>1. PICK s \in Sems : s = tsem[t] /\ svalue[s] > 0 /\ svalue' = [svalue EXCEPT ![s] = @ - 1]
    BY ZenonT(60), <1>0, <1>1 DEF SemGrant, Take, SemPlaced
  <2>2. /\ pc[t] = "semwait" /\ pc' = [pc EXCEPT ![t] = "semgot"] /\ sok' = sok \cup {t} /\ t \notin sok
        /\ UNCHANGED <<bound, hclosed, named, sname, sbirth, osem, tsem, sleft, sout, sraised>>
    BY ZenonT(60), <1>0, <1>1 DEF SemGrant, Goto, handleVars, SemPlaced
  <2>3. SemTypeOK' /\ SemPlaced'
    BY <1>0, <2>1, <2>2, MaxSemAssumption DEF SemTypeOK, SemPlaced, Open
  <2>4. \A x \in Sems : Posts(x)' = Posts(x)
    BY ZenonT(60), <1>0, <2>2, PostsPc
  <2>5. \A x \in Sems : x # s => Taking(x)' = Taking(x) /\ svalue'[x] = svalue[x]
    BY <1>0, <2>1, <2>2 DEF Taking, SemTypeOK
  <2>6. Taking(s)' = Taking(s) \cup {t} /\ t \notin Taking(s) /\ svalue'[s] = svalue[s] - 1
    BY <1>0, <2>1, <2>2 DEF Taking, SemTypeOK
  <2>7. Cardinality(Taking(s)') = Cardinality(Taking(s)) + 1
    <3>1. IsFiniteSet(Taking(s))
      BY <1>0, SemSetsFinite DEF SemTypeOK
    <3> QED BY ZenonT(60), <2>6, <3>1, FS_AddElement
  <2>8. svalue[s] \in Int /\ sout[s] \in Int /\ Cardinality(Posts(s)) \in Int /\ Cardinality(Taking(s)) \in Int
    BY <1>0, SemNumbers, SemSetsFinite DEF SemTypeOK
  <2>9. Accounted(s)
    <3>1. Permits(s)' = Permits(s)
      BY SMTT(60), <2>2, <2>4, <2>6, <2>7, <2>8 DEF Permits
    <3> QED BY ZenonT(60), <2>2, <3>1 DEF Accounted
  <2>10. \A x \in Sems : Accounted(x)
    BY ZenonT(60), <2>2, <2>4, <2>5, <2>9, AccountKept
  <2>11. PermitsConserved'
    BY <1>0, <2>3, <2>10, AccountsBalance
  <2> QED BY ZenonT(60), <1>0, <2>2, <2>3, <2>11 DEF SemIInv, SemPlaces
<1>2. ASSUME NEW l \in {"semwait", "semgot"}, pc[t] \in {"idle", "semwait"}, pc' = [pc EXCEPT ![t] = l],
             \/ tsem' = tsem /\ l = "semgot"
             \/ \E s \in Sems : tsem' = [tsem EXCEPT ![t] = s],
             UNCHANGED <<bound, hclosed, named, sname, svalue, sbirth, osem, sok, sleft, sout, sraised>>
      PROVE  SemIInv'
  <2>1. t \notin sok
    BY ZenonT(60), <1>0, <1>2 DEF SemPlaced
  <2>2. SemTypeOK' /\ SemPlaced'
    BY <1>0, <1>2, <2>1 DEF SemTypeOK, SemPlaced, Open
  <2>3. \A x \in Sems : Posts(x)' = Posts(x)
    BY ZenonT(60), <1>0, <1>2, PostsPc
  <2>4. \A x \in Sems : Taking(x)' = Taking(x)
    BY <1>0, <1>2, <2>1 DEF Taking, SemTypeOK
  <2>5. PermitsConserved'
    BY <1>0, <1>2, <2>2, <2>3, <2>4, AccountKept, AccountsBalance
  <2> QED BY ZenonT(60), <1>0, <1>2, <2>2, <2>5 DEF SemIInv, SemPlaces
<1>3. CASE SemGiveUp(t)
  BY ZenonT(60), <1>2, <1>3 DEF SemGiveUp, Goto, semOnly, handleVars
<1>4. ASSUME NEW how \in Modes, SemAcquire(t, how) PROVE SemIInv'
  <2>1. PICK s \in Sems : s = osem[At[t]]
    BY ZenonT(60), <1>0, <1>4 DEF SemAcquire, SemPlaced
  <2>2. /\ pc[t] = "idle"
        /\ UNCHANGED <<bound, hclosed, named, sname, sbirth, osem, sok, sleft, sraised>>
    BY ZenonT(60), <1>4 DEF SemAcquire, handleVars
  <2>3. CASE Take(s) /\ Told(s, 1) /\ UNCHANGED <<threadVars, tsem>>
    <3>1. /\ svalue[s] > 0 /\ svalue' = [svalue EXCEPT ![s] = @ - 1] /\ sout' = [sout EXCEPT ![s] = @ + 1]
          /\ UNCHANGED <<pc, tsem>>
      BY ZenonT(60), <2>3 DEF Take, Told, threadVars
    <3>2. SemTypeOK' /\ SemPlaced'
      BY <1>0, <2>2, <3>1, MaxSemAssumption DEF SemTypeOK, SemPlaced, Open
    <3>3. \A x \in Sems : Posts(x)' = Posts(x) /\ Taking(x)' = Taking(x)
      BY ZenonT(60), <2>2, <3>1 DEF Posts, Taking
    <3>4. \A x \in Sems : x # s => svalue'[x] = svalue[x] /\ sout'[x] = sout[x]
      BY ZenonT(60), <1>0, <3>1 DEF SemTypeOK
    <3>5. svalue[s] \in Int /\ sout[s] \in Int /\ Cardinality(Posts(s)) \in Int /\ Cardinality(Taking(s)) \in Int
      BY <1>0, SemNumbers, SemSetsFinite DEF SemTypeOK
    <3>6. svalue'[s] = svalue[s] - 1 /\ sout'[s] = sout[s] + 1
      BY ZenonT(60), <1>0, <3>1 DEF SemTypeOK
    <3>7. Accounted(s)
      BY SMTT(60), <2>2, <3>3, <3>5, <3>6 DEF Accounted, Permits
    <3>8. \A x \in Sems : Accounted(x)
      BY ZenonT(60), <2>2, <3>3, <3>4, <3>7, AccountKept
    <3>9. PermitsConserved'
      BY ZenonT(60), <1>0, <3>2, <3>8, AccountsBalance
    <3> QED BY ZenonT(60), <1>0, <3>1, <3>2, <3>9 DEF SemIInv
  <2>4. CASE Block(t, "semwait", how) /\ tsem' = [tsem EXCEPT ![t] = s] /\ UNCHANGED <<svalue, sout>>
    BY ZenonT(60), <1>2, <2>2, <2>4 DEF Block
  <2> QED BY ZenonT(60), <1>4, <2>1, <2>3, <2>4 DEF SemAcquire
<1> QED BY ZenonT(60), <1>1, <1>3, <1>4

(* The thread comes out: the permit it took is the caller's now. *)
LEMMA SemResumeStep ==
    ASSUME SemIInv, NEW t \in Threads, SemResume(t)
    PROVE  SemIInv'
<1> USE NoSemAssumption, AtAssumption
<1>0. /\ SemTypeOK /\ SemPlaced /\ PermitsConserved
      /\ pc \in [Threads -> SemPlaces]
  BY DEF SemIInv
<1>1. /\ pc[t] = "semgot" /\ pc' = [pc EXCEPT ![t] = "idle"] /\ sok' = sok \ {t}
      /\ tsem' = [tsem EXCEPT ![t] = NoSem]
      /\ UNCHANGED <<bound, hclosed, named, sname, svalue, sbirth, osem, sleft, sraised>>
  BY DEF SemResume, Return, handleVars
<1>2. \A x \in Sems : Posts(x)' = Posts(x)
  BY ZenonT(60), <1>0, <1>1, PostsPc
<1>3. \A x \in Sems : Taking(x)' = Taking(x) \ {t}
  BY <1>0, <1>1 DEF Taking, SemTypeOK
<1>4. SemPlaced'
  BY <1>0, <1>1 DEF SemPlaced, Open, SemTypeOK
<1>5. CASE t \notin sok
  <2>1. sout' = sout /\ SemTypeOK'
    BY ZenonT(60), <1>0, <1>1, <1>5 DEF SemResume, SemTypeOK
  <2>2. \A x \in Sems : Taking(x)' = Taking(x)
    BY ZenonT(60), <1>3, <1>5 DEF Taking
  <2>3. PermitsConserved'
    BY ZenonT(60), <1>0, <1>1, <1>2, <2>1, <2>2, AccountKept, AccountsBalance
  <2> QED BY <1>0, <1>1, <1>4, <2>1, <2>3 DEF SemIInv, SemPlaces
<1>6. CASE t \in sok
  <2>1. PICK s \in Sems : s = tsem[t] /\ sout' = [sout EXCEPT ![s] = @ + 1]
    BY ZenonT(60), <1>0, <1>6 DEF SemResume, Told, SemPlaced
  <2>2. SemTypeOK'
    BY <1>0, <1>1, <2>1 DEF SemTypeOK
  <2>3. \A x \in Sems : x # s => Taking(x)' = Taking(x) /\ sout'[x] = sout[x]
    BY ZenonT(60), <1>0, <1>3, <2>1 DEF Taking, SemTypeOK
  <2>4. t \in Taking(s) /\ Taking(s)' = Taking(s) \ {t}
    BY ZenonT(60), <1>3, <1>6, <2>1 DEF Taking
  <2>5. Cardinality(Taking(s)') = Cardinality(Taking(s)) - 1 /\ Cardinality(Taking(s)) \in Int
    <3>1. IsFiniteSet(Taking(s)) /\ Cardinality(Taking(s)) \in Int
      BY <1>0, SemSetsFinite DEF SemTypeOK
    <3> QED BY ZenonT(60), <2>4, <3>1, FS_RemoveElement
  <2>6. svalue[s] \in Int /\ sout[s] \in Int /\ Cardinality(Posts(s)) \in Int
    BY <1>0, SemNumbers, SemSetsFinite
  <2>7. sout'[s] = sout[s] + 1
    BY ZenonT(60), <1>0, <2>1 DEF SemTypeOK
  <2>8. Accounted(s)
    BY SMTT(60), <1>1, <1>2, <2>5, <2>6, <2>7 DEF Accounted, Permits
  <2>9. \A x \in Sems : Accounted(x)
    BY ZenonT(60), <1>1, <1>2, <2>3, <2>8, AccountKept
  <2>10. PermitsConserved'
    BY ZenonT(60), <1>0, <2>2, <2>9, AccountsBalance
  <2> QED BY ZenonT(60), <1>0, <1>1, <1>4, <2>2, <2>10 DEF SemIInv, SemPlaces
<1> QED BY <1>5, <1>6

(* release(n) begins: no post yet. *)
LEMMA SemReleaseStep ==
    ASSUME SemIInv, NEW t \in Threads, NEW n \in 1..MaxSem, SemRelease(t, n)
    PROVE  SemIInv'
<1> USE NoSemAssumption, AtAssumption
<1>0. /\ SemTypeOK /\ SemPlaced /\ PermitsConserved
      /\ pc \in [Threads -> SemPlaces]
  BY ZenonT(60) DEF SemIInv
<1>1. /\ pc[t] = "idle" /\ pc' = [pc EXCEPT ![t] = "posting"] /\ Open(At[t])
      /\ sleft' = [sleft EXCEPT ![t] = <<n, n>>]
      /\ UNCHANGED <<bound, hclosed, named, sname, svalue, sbirth, osem, tsem, sok, sout, sraised>>
  BY DEF SemRelease, Goto, handleVars
<1>2. n \in 0..MaxSem /\ n >= 1 /\ n - n = 0
  BY MaxSemAssumption
<1>3. SemTypeOK'
  BY ZenonT(60), <1>0, <1>1, <1>2 DEF SemTypeOK
<1>4. SemPlaced'
  BY <1>0, <1>1, <1>2 DEF SemPlaced, Open, SemTypeOK
<1>5. ASSUME NEW x \in Sems PROVE Posts(x)' = Posts(x)
  <2>1. ASSUME NEW p \in Threads \X (1..MaxSem) PROVE p \in Posts(x)' <=> p \in Posts(x)
    <3>1. p[1] \in Threads /\ p[2] \in 1..MaxSem
      OBVIOUS
    <3>2. CASE p[1] = t
      <4>1. p \notin Posts(x)
        BY ZenonT(60), <1>1, <3>2 DEF Posts
      <4>2. sleft'[p[1]][2] - sleft'[p[1]][1] = 0
        BY ZenonT(60), <1>0, <1>1, <1>2, <3>2 DEF SemTypeOK
      <4>3. p \notin Posts(x)'
        BY <3>1, <4>2, MaxSemAssumption DEF Posts
      <4> QED BY ZenonT(60), <4>1, <4>3
    <3>3. CASE p[1] # t
      BY ZenonT(60), <1>0, <1>1, <3>1, <3>3 DEF Posts, SemTypeOK
    <3> QED BY <3>2, <3>3
  <2>2. Posts(x) \subseteq Threads \X (1..MaxSem) /\ Posts(x)' \subseteq Threads \X (1..MaxSem)
    BY DEF Posts
  <2> QED BY ZenonT(60), <2>1, <2>2
<1>6. \A x \in Sems : Taking(x)' = Taking(x)
  BY ZenonT(60), <1>1 DEF Taking
<1>7. PermitsConserved'
  BY ZenonT(60), <1>0, <1>1, <1>3, <1>5, <1>6, AccountKept, AccountsBalance
<1> QED BY ZenonT(60), <1>0, <1>1, <1>3, <1>4, <1>7 DEF SemIInv, SemPlaces

(* The posts of one release(n) that is over. *)
LEMMA PostsOver ==
    ASSUME NEW S, IsFiniteSet(S), NEW t, NEW k \in Nat, {t} \X (1..k) \subseteq S
    PROVE  Cardinality(S \ ({t} \X (1..k))) = Cardinality(S) - k
<1> DEFINE D == {t} \X (1..k)
<1>1. IsFiniteSet(1..k) /\ Cardinality(1..k) = k
  BY FS_Interval
<1>2. IsFiniteSet({t}) /\ Cardinality({t}) = 1
  BY ZenonT(60), FS_Singleton
<1>3. Cardinality(D) = 1 * k
  BY ZenonT(60), <1>1, <1>2, FS_Product
<1>4. PICK E : E = D
  BY ZenonT(60)
<1>5. Cardinality(E) = k /\ S \cap E = E
  BY <1>3, <1>4
<1>6. Cardinality(S \ E) = Cardinality(S) - Cardinality(S \cap E)
  BY ZenonT(60), FS_Difference
<1>7. Cardinality(S \ E) = Cardinality(S) - k
  BY <1>5, <1>6
<1> QED BY ONLY <1>4, <1>7, ZenonT(30)

(* One sem_post of a release(n), the last one, or one that fails. *)
LEMMA SemPostStep ==
    ASSUME SemIInv, NEW t \in Threads, SemPost(t)
    PROVE  SemIInv'
<1> USE NoSemAssumption, AtAssumption
<1>0. SemTypeOK /\ SemPlaced /\ PermitsConserved /\ pc \in [Threads -> SemPlaces]
  BY ZenonT(60) DEF SemIInv
<1>1. /\ pc[t] = "posting" /\ Open(At[t])
      /\ UNCHANGED <<bound, hclosed, named, sname, sbirth, osem, tsem, sok>>
  BY ZenonT(60), <1>0 DEF SemPost, SemPlaced, handleVars
<1>2. PICK s \in Sems : s = osem[At[t]]
  BY ZenonT(60), <1>0, <1>1 DEF SemPlaced
<1>3. PICK n \in 1..MaxSem, left \in 1..MaxSem : sleft[t] = <<left, n>> /\ left <= n
  <2>1. sleft[t] \in (0..MaxSem) \X (0..MaxSem) /\ sleft[t] = <<sleft[t][1], sleft[t][2]>>
    BY <1>0 DEF SemTypeOK
  <2>2. sleft[t][1] >= 1 /\ sleft[t][1] <= sleft[t][2]
    BY ZenonT(60), <1>0, <1>1 DEF SemPlaced
  <2> QED BY SMTT(60), <2>1, <2>2, MaxSemAssumption
<1>4. /\ n \in Nat /\ left \in Nat /\ n - left \in Nat /\ MaxSem \in Nat \ {0} /\ n - left <= MaxSem
      /\ svalue[s] \in 0..MaxSem /\ sout[s] \in Int /\ Cardinality(Posts(s)) \in Int
      /\ Cardinality(Taking(s)) \in Int /\ IsFiniteSet(Posts(s))
  BY <1>0, <1>3, MaxSemAssumption, SemSetsFinite DEF SemTypeOK
<1>5. \A x \in Sems : Taking(x)' = Taking(x)
  BY ZenonT(60), <1>1 DEF Taking
<1>6. \A i : <<t, i>> \in Posts(s) <=> i \in 1..(n - left)
  BY SMTT(60), <1>1, <1>2, <1>3, <1>4 DEF Posts
<1>7. CASE svalue[s] # MaxSem /\ left # 1
  <2>1. /\ sraised' = sraised /\ svalue' = [svalue EXCEPT ![s] = @ + 1] /\ sout' = sout
        /\ sleft' = [sleft EXCEPT ![t][1] = left - 1] /\ pc' = pc
    BY <1>2, <1>3, <1>7 DEF SemPost, threadVars
  <2>2. sleft'[t] = <<left - 1, n>> /\ \A u \in Threads : u # t => sleft'[u] = sleft[u]
    BY <1>0, <1>3, <2>1 DEF SemTypeOK
  <2>3. sleft' \in [Threads -> (0..MaxSem) \X (0..MaxSem)]
    <3>1. <<left - 1, n>> \in (0..MaxSem) \X (0..MaxSem)
      BY SMTT(60), <1>3, <1>4
    <3>2. DOMAIN sleft' = Threads /\ sleft' = [u \in Threads |-> sleft'[u]]
      BY ZenonT(60), <1>0, <2>1 DEF SemTypeOK
    <3>3. \A u \in Threads : sleft'[u] \in (0..MaxSem) \X (0..MaxSem)
      BY ZenonT(60), <1>0, <2>2, <3>1 DEF SemTypeOK
    <3> QED BY ZenonT(60), <3>2, <3>3
  <2>4. SemTypeOK'
    <3>0. svalue[s] + 1 \in 0..MaxSem
      BY ONLY SMTT(60), <1>4, <1>7
    <3>1. svalue' \in [Sems -> 0..MaxSem]
      BY ZenonT(60), <1>0, <2>1, <3>0 DEF SemTypeOK
    <3> QED BY ZenonT(60), <1>0, <1>1, <2>1, <2>3, <3>1 DEF SemTypeOK
  <2>5. SemPlaced'
    BY SMTT(60), <1>0, <1>1, <1>3, <1>4, <1>7, <2>1, <2>2 DEF SemPlaced, Open
  <2>6. ASSUME NEW x \in Sems, x # s PROVE Posts(x)' = Posts(x)
    BY ZenonT(60), <1>1, <1>2, <2>1, <2>2, <2>6, PostsKept
  <2>7. PICK p : p = <<t, n - left + 1>>
    BY ZenonT(60)
  <2>8. Posts(s)' = Posts(s) \cup {p} /\ p \notin Posts(s)
    <3>1. p \notin Posts(s)
      BY SMTT(60), <1>4, <1>6, <2>7
    <3>2. ASSUME NEW q \in Threads \X (1..MaxSem) PROVE q \in Posts(s)' <=> q \in Posts(s) \/ q = p
      <4>1. q[1] \in Threads /\ q[2] \in 1..MaxSem /\ q = <<q[1], q[2]>>
        OBVIOUS
      <4>2. CASE q[1] = t
        BY SMTT(60), <1>1, <1>2, <1>3, <1>4, <2>1, <2>2, <2>7, <4>1, <4>2 DEF Posts
      <4>3. CASE q[1] # t
        BY <1>1, <2>1, <2>2, <2>7, <4>1, <4>3 DEF Posts
      <4> QED BY <4>2, <4>3
    <3>3. p \in Threads \X (1..MaxSem)
      BY SMTT(60), <1>3, <1>4, <1>7, <2>7
    <3>4. Posts(s) \subseteq Threads \X (1..MaxSem) /\ Posts(s)' \subseteq Threads \X (1..MaxSem)
      BY ZenonT(60) DEF Posts
    <3> QED BY <3>1, <3>2, <3>3, <3>4
  <2>9. Cardinality(Posts(s)') = Cardinality(Posts(s)) + 1
    BY ZenonT(60), <1>4, <2>8, FS_AddElement
  <2>10. svalue'[s] = svalue[s] + 1 /\ \A x \in Sems : x # s => svalue'[x] = svalue[x]
    BY <1>0, <2>1 DEF SemTypeOK
  <2>11. Accounted(s)
    BY <1>1, <1>4, <1>5, <2>1, <2>9, <2>10 DEF Accounted, Permits
  <2>12. \A x \in Sems : Accounted(x)
    BY ZenonT(60), <1>1, <1>5, <2>1, <2>6, <2>10, <2>11, AccountKept
  <2>13. PermitsConserved'
    BY ZenonT(60), <1>0, <2>4, <2>12, AccountsBalance
  <2> QED BY ZenonT(60), <1>0, <2>1, <2>4, <2>5, <2>13 DEF SemIInv
<1>8. CASE svalue[s] = MaxSem \/ left = 1
  <2>1. /\ sleft' = [sleft EXCEPT ![t] = <<0, 0>>] /\ pc' = [pc EXCEPT ![t] = "idle"]
        /\ \/ /\ svalue[s] = MaxSem /\ svalue' = svalue /\ sout' = sout /\ sraised' = sraised \cup {s}
           \/ /\ svalue[s] # MaxSem /\ left = 1 /\ svalue' = [svalue EXCEPT ![s] = @ + 1]
              /\ sout' = [sout EXCEPT ![s] = @ + (-n)] /\ sraised' = sraised
    BY <1>2, <1>3, <1>4, <1>8 DEF SemPost, Return, Told
  <2>2. SemTypeOK'
    <3>1. svalue' \in [Sems -> 0..MaxSem] /\ sout' \in [Sems -> Int] /\ sraised' \subseteq Sems
      <4>1. CASE svalue[s] = MaxSem
        BY ZenonT(60), <1>0, <2>1, <4>1 DEF SemTypeOK
      <4>2. CASE svalue[s] # MaxSem
        <5>1. svalue[s] + 1 \in 0..MaxSem /\ sout[s] + (-n) \in Int
          BY ONLY <1>4, <4>2
        <5>2. /\ svalue' = [svalue EXCEPT ![s] = @ + 1] /\ sout' = [sout EXCEPT ![s] = @ + (-n)]
              /\ sraised' = sraised
          BY ZenonT(60), <2>1, <4>2
        <5>3. svalue' \in [Sems -> 0..MaxSem]
          BY ZenonT(60), <1>0, <5>1, <5>2 DEF SemTypeOK
        <5>4. sout' \in [Sems -> Int]
          BY ZenonT(60), <1>0, <5>1, <5>2 DEF SemTypeOK
        <5> QED BY ZenonT(60), <1>0, <5>2, <5>3, <5>4 DEF SemTypeOK
      <4> QED BY ZenonT(60), <4>1, <4>2
    <3>2. sleft' \in [Threads -> (0..MaxSem) \X (0..MaxSem)]
      BY <1>0, <1>4, <2>1 DEF SemTypeOK
    <3> QED BY ZenonT(60), <1>0, <1>1, <3>1, <3>2 DEF SemTypeOK
  <2>3. SemPlaced'
    BY ZenonT(60), <1>0, <1>1, <2>1 DEF SemPlaced, Open, SemTypeOK
  <2>4. ASSUME NEW x \in Sems, x # s PROVE Posts(x)' = Posts(x)
    BY ZenonT(60), <1>0, <1>1, <1>2, <2>1, <2>4, PostsKept DEF SemTypeOK
  <2>5. Posts(s)' = Posts(s) \ ({t} \X (1..(n - left))) /\ {t} \X (1..(n - left)) \subseteq Posts(s)
    <3>1. {t} \X (1..(n - left)) \subseteq Posts(s)
      BY <1>6
    <3>2. ASSUME NEW q \in Threads \X (1..MaxSem)
          PROVE  q \in Posts(s)' <=> q \in Posts(s) /\ q \notin {t} \X (1..(n - left))
      <4>1. q[1] \in Threads /\ q[2] \in 1..MaxSem /\ q = <<q[1], q[2]>>
        OBVIOUS
      <4>2. CASE q[1] = t
        <5>1. q \notin Posts(s)'
          BY ZenonT(60), <1>0, <2>1, <4>1, <4>2 DEF Posts
        <5>2. q \in Posts(s) => q[2] \in 1..(n - left)
          BY ZenonT(60), <1>6, <4>1, <4>2
        <5> QED BY ZenonT(60), <4>1, <4>2, <5>1, <5>2
      <4>3. CASE q[1] # t
        <5>1. q \in Posts(s)' <=> q \in Posts(s)
          BY ZenonT(60), <1>0, <1>1, <2>1, <4>1, <4>3 DEF Posts, SemTypeOK
        <5> QED BY ZenonT(60), <4>3, <5>1
      <4> QED BY ZenonT(60), <4>2, <4>3
    <3>3. Posts(s) \subseteq Threads \X (1..MaxSem) /\ Posts(s)' \subseteq Threads \X (1..MaxSem)
      BY DEF Posts
    <3> QED BY ZenonT(60), <3>1, <3>2, <3>3
  <2>6. Cardinality(Posts(s)') = Cardinality(Posts(s)) - (n - left)
    <3>1. Cardinality(Posts(s) \ ({t} \X (1..(n - left)))) = Cardinality(Posts(s)) - (n - left)
      BY <1>4, <2>5, PostsOver, ZenonT(60)
    <3> QED BY ONLY <2>5, <3>1, ZenonT(60)
  <2>7. Accounted(s)
    <3>1. CASE svalue[s] = MaxSem /\ svalue' = svalue /\ sout' = sout /\ sraised' = sraised \cup {s}
      BY SMTT(60), <1>1, <1>4, <1>5, <2>6, <3>1 DEF Accounted, Permits
    <3>2. CASE /\ svalue[s] # MaxSem /\ left = 1 /\ svalue' = [svalue EXCEPT ![s] = @ + 1]
               /\ sout' = [sout EXCEPT ![s] = @ + (-n)] /\ sraised' = sraised
      <4>1. svalue'[s] = svalue[s] + 1 /\ sout'[s] = sout[s] - n
        BY ZenonT(60), <1>0, <1>4, <3>2 DEF SemTypeOK
      <4> QED BY <1>1, <1>4, <1>5, <2>6, <3>2, <4>1 DEF Accounted, Permits
    <3> QED BY ZenonT(60), <2>1, <3>1, <3>2
  <2>8. \A x \in Sems : x # s => svalue'[x] = svalue[x] /\ sout'[x] = sout[x]
    BY ZenonT(60), <1>0, <2>1 DEF SemTypeOK
  <2>9. \A x \in Sems : Accounted(x)
    BY ZenonT(60), <1>1, <1>5, <2>1, <2>4, <2>7, <2>8, AccountKept
  <2>10. PermitsConserved'
    BY <1>0, <2>2, <2>9, AccountsBalance
  <2> QED BY ZenonT(60), <1>0, <2>1, <2>2, <2>3, <2>10 DEF SemIInv, SemPlaces
<1> QED BY <1>7, <1>8

(* sem_close and nsem_close: no release(n) is under way in the process. *)
LEMMA SemCloseStep ==
    ASSUME SemIInv, NEW h \in Handles, SemClose(h)
    PROVE  SemIInv'
<1> USE NoSemAssumption, AtAssumption
<1>0. SemTypeOK /\ SemPlaced /\ PermitsConserved
  BY ZenonT(60) DEF SemIInv
<1>1. /\ UNCHANGED <<pc, bound, named, sname, svalue, sbirth, tsem, sok, sleft, sout, sraised>>
      /\ osem' = [osem EXCEPT ![h] = NoSem] /\ hclosed' = hclosed \cup {h}
      /\ \A t \in Threads : At[t] = h => pc[t] # "posting"
  BY DEF SemClose, CloseBound, ThreadsOf, threadVars
<1>2. SemTypeOK'
  BY ZenonT(60), <1>0, <1>1 DEF SemTypeOK
<1>3. SemPlaced'
  BY ZenonT(60), <1>0, <1>1 DEF SemPlaced, Open, SemTypeOK
<1>4. ASSUME NEW s \in Sems PROVE Accounted(s)
  <2>1. Posts(s)' = Posts(s)
    BY ZenonT(60), <1>0, <1>1, PostsKept DEF SemTypeOK
  <2>2. Taking(s)' = Taking(s)
    BY <1>1 DEF Taking
  <2> QED BY ZenonT(60), <1>1, <2>1, <2>2, AccountKept
<1>5. PermitsConserved'
  BY ZenonT(60), <1>0, <1>2, <1>4, AccountsBalance
<1> QED BY ZenonT(60), <1>1, <1>2, <1>3, <1>5 DEF SemIInv

(* The process of h ends: the permits its threads were on their way out    *)
(* with count as told, and posts of a release(n) it leaves are explained   *)
(* by sraised.                                                             *)
LEMMA SemDiesStep ==
    ASSUME SemIInv, NEW h \in Handles, SemDies(h)
    PROVE  SemIInv'
<1> USE NoSemAssumption, AtAssumption
<1>0. SemTypeOK /\ SemPlaced /\ PermitsConserved /\ pc \in [Threads -> SemPlaces]
  BY ZenonT(60) DEF SemIInv
<1>1. /\ pc' = [t \in Threads |-> IF At[t] = h THEN "dead" ELSE pc[t]]
      /\ bound' = bound \ {h} /\ hclosed' = hclosed
      /\ sout' = [s \in Sems |-> sout[s] + Cardinality({t \in ThreadsOf(h) \cap sok : tsem[t] = s})]
      /\ sraised' = sraised \cup {s \in Sems : \E t \in ThreadsOf(h) : pc[t] = "posting" /\ osem[h] = s}
      /\ sok' = sok \ ThreadsOf(h)
      /\ osem' = [osem EXCEPT ![h] = NoSem]
      /\ tsem' = [t \in Threads |-> IF At[t] = h THEN NoSem ELSE tsem[t]]
      /\ sleft' = [t \in Threads |-> IF At[t] = h THEN <<0, 0>> ELSE sleft[t]]
      /\ UNCHANGED <<named, sname, svalue, sbirth>>
  BY ZenonT(60) DEF SemDies, ProcessEnds
<1>2. ASSUME NEW s \in Sems
      PROVE  LET G == {t \in ThreadsOf(h) \cap sok : tsem[t] = s} IN
             /\ Cardinality(G) \in Nat
             /\ Taking(s)' = Taking(s) \ G /\ Taking(s) \cap G = G
             /\ Cardinality(Taking(s)') = Cardinality(Taking(s)) - Cardinality(G)
  <2>1. PICK G : G = {t \in ThreadsOf(h) \cap sok : tsem[t] = s}
    BY ZenonT(60)
  <2>2. G \subseteq Taking(s) /\ Taking(s) \cap G = G
    BY <2>1 DEF Taking
  <2>3. Taking(s)' = Taking(s) \ G
    BY <1>0, <1>1, <2>1 DEF Taking, ThreadsOf, SemTypeOK
  <2>4. IsFiniteSet(Taking(s))
    BY <1>0, SemSetsFinite DEF SemTypeOK
  <2>5. IsFiniteSet(G) /\ Cardinality(G) \in Nat
    BY ZenonT(60), <2>2, <2>4, FS_Subset, FS_CardinalityType
  <2>6. Cardinality(Taking(s) \ G) = Cardinality(Taking(s)) - Cardinality(Taking(s) \cap G)
    BY ZenonT(60), <2>4, FS_Difference
  <2>7. Cardinality(Taking(s)') = Cardinality(Taking(s)) - Cardinality(G)
    BY ONLY <2>2, <2>3, <2>6, ZenonT(60)
  <2> QED BY ONLY <2>1, <2>2, <2>3, <2>5, <2>7, ZenonT(60)
<1>3. SemTypeOK'
  <2>1. sout' \in [Sems -> Int]
    <3>1. ASSUME NEW s \in Sems PROVE sout[s] + Cardinality({t \in ThreadsOf(h) \cap sok : tsem[t] = s}) \in Int
      <4>1. sout[s] \in Int
        BY ZenonT(60), <1>0 DEF SemTypeOK
      <4>2. PICK c \in Nat : c = Cardinality({t \in ThreadsOf(h) \cap sok : tsem[t] = s})
        BY ZenonT(60), <1>2
      <4>3. sout[s] + c \in Int
        BY <4>1
      <4> QED BY ONLY <4>2, <4>3, ZenonT(60)
    <3> QED BY ONLY <1>1, <3>1, ZenonT(60)
  <2>2. sleft' \in [Threads -> (0..MaxSem) \X (0..MaxSem)]
    BY <1>0, <1>1, MaxSemAssumption DEF SemTypeOK
  <2>3. /\ osem' \in [Handles -> Sems \cup {NoSem}] /\ tsem' \in [Threads -> Sems \cup {NoSem}]
        /\ sok' \subseteq Threads /\ sraised' \subseteq Sems
    BY <1>0, <1>1 DEF SemTypeOK
  <2> QED BY <1>0, <1>1, <2>1, <2>2, <2>3 DEF SemTypeOK
<1>4. SemPlaced'
  BY ZenonT(60), <1>0, <1>1 DEF SemPlaced, Open, SemTypeOK, ThreadsOf
<1>5. ASSUME NEW s \in Sems PROVE Accounted(s)
  <2>1. PICK g \in Nat : g = Cardinality({t \in ThreadsOf(h) \cap sok : tsem[t] = s})
    BY ZenonT(60), <1>2
  <2>2. Cardinality(Taking(s)') = Cardinality(Taking(s)) - g
    BY ZenonT(60), <1>2, <2>1
  <2>3. sout'[s] = sout[s] + g
    BY ZenonT(60), <1>1, <2>1
  <2>4. /\ svalue[s] \in Int /\ sout[s] \in Int /\ Cardinality(Taking(s)) \in Int
        /\ Cardinality(Posts(s)) \in Nat /\ Cardinality(Posts(s)') \in Nat /\ IsFiniteSet(Posts(s))
    BY <1>0, SemNumbers, SemSetsFinite DEF SemTypeOK
  <2>5. CASE \E t \in ThreadsOf(h) : pc[t] = "posting" /\ osem[h] = s
    <3>1. s \in sraised'
      BY ZenonT(60), <1>1, <2>5
    <3>2. Posts(s)' \subseteq Posts(s)
      <4>1. ASSUME NEW p \in Threads \X (1..MaxSem), p \in Posts(s)' PROVE p \in Posts(s)
        <5>1. p[1] \in Threads
          OBVIOUS
        <5>2. At[p[1]] # h /\ pc'[p[1]] = "posting" /\ osem'[At[p[1]]] = s
              /\ p[2] <= sleft'[p[1]][2] - sleft'[p[1]][1]
          BY ZenonT(60), <1>1, <4>1, <5>1 DEF Posts
        <5> QED BY ZenonT(60), <1>0, <1>1, <5>1, <5>2 DEF Posts, SemTypeOK
      <4> QED BY ZenonT(60), <4>1 DEF Posts
    <3>3. Cardinality(Posts(s)') <= Cardinality(Posts(s))
      BY ZenonT(60), <2>4, <3>2, FS_Subset
    <3>4. Permits(s)' >= Permits(s)
      BY SMTT(60), <1>1, <2>2, <2>3, <2>4, <3>3 DEF Permits
    <3> QED BY ZenonT(60), <1>1, <3>1, <3>4 DEF Accounted
  <2>6. CASE ~ \E t \in ThreadsOf(h) : pc[t] = "posting" /\ osem[h] = s
    <3>1. Posts(s)' = Posts(s)
      <4>1. \A t \in Threads : pc[t] = "posting" \/ pc'[t] = "posting" =>
              /\ osem'[At[t]] = s <=> osem[At[t]] = s
              /\ osem[At[t]] = s => pc[t] = "posting" /\ pc'[t] = "posting" /\ sleft'[t] = sleft[t]
        BY ZenonT(60), <1>0, <1>1, <2>6 DEF ThreadsOf, SemTypeOK
      <4> QED BY ZenonT(60), <4>1, PostsKept
    <3>2. Permits(s)' = Permits(s)
      BY SMTT(60), <1>1, <2>2, <2>3, <2>4, <3>1 DEF Permits
    <3> QED BY ZenonT(60), <1>1, <3>2 DEF Accounted
  <2> QED BY ZenonT(60), <2>5, <2>6
<1>6. PermitsConserved'
  BY ZenonT(60), <1>0, <1>3, <1>5, AccountsBalance
<1> QED BY ZenonT(60), <1>0, <1>1, <1>3, <1>4, <1>6 DEF SemIInv, SemPlaces

(* A step that leaves the semaphores, the calls and the bindings alone. *)
LEMMA SemStutters ==
    ASSUME SemIInv, UNCHANGED <<pc, bound, hclosed, semOnly>>
    PROVE  SemIInv'
BY ZenonT(60) DEF SemIInv, SemTypeOK, SemPlaced, Open, PermitsConserved, Permits, Posts, Taking, semOnly

(* Every step of Semaphore and NamedSemaphore. *)
LEMMA SemStep ==
    ASSUME SemIInv, [SemNext]_semVars
    PROVE  SemIInv'
<1>1. ASSUME NEW r \in Regions, CloseRegion(r), UNCHANGED semOnly PROVE SemIInv'
  BY ZenonT(60), <1>1, SemStutters DEF CloseRegion, handleVars, threadVars
<1>2. CASE UNCHANGED semVars
  BY ZenonT(60), <1>2, SemStutters DEF semVars, objectVars, handleVars, threadVars
<1> QED BY <1>1, <1>2, NsemSteps, SemTakeSteps, SemResumeStep, SemReleaseStep, SemPostStep,
           SemCloseStep, SemDiesStep, ZenonT(60) DEF SemNext

(* A placed semaphore starts with the value it was added with, a named one *)
(* does not exist yet.                                                     *)
LEMMA SemStart ==
    ASSUME NEW T, SemInit(T)
    PROVE  SemIInv
<1>1. \E s \in Sems \cup {NoSem}, v \in 0..1, b \in BOOLEAN :
        SemInitAt(b, s, v) /\ (s = NoSem => bound = {})
  <2>1. CASE PlacedInit(1, T) /\ \E v \in 0..1 : SemInitAt(FALSE, CHOOSE x \in Sems : TRUE, v)
    <3>1. (CHOOSE x \in Sems : TRUE) \in Sems
      BY NoSemAssumption
    <3> QED BY ZenonT(60), <2>1, <3>1, NoSemAssumption
  <2>2. CASE RegionInit(T) /\ SemInitAt(TRUE, NoSem, 0)
    <3>1. bound = {} /\ 0 \in 0..1 /\ NoSem \in Sems \cup {NoSem} /\ TRUE \in BOOLEAN
      BY <2>2 DEF RegionInit
    <3> QED BY <2>2, <3>1, ZenonT(30)
  <2> QED BY ZenonT(60), <2>1, <2>2 DEF SemInit
<1>2. pc \in [Threads -> SemPlaces] /\ \A t \in Threads : pc[t] \in {"idle", "dead"}
  BY ZenonT(60) DEF SemInit, PlacedInit, RegionInit, SemPlaces
<1>3. PICK s \in Sems \cup {NoSem}, v \in 0..1, b \in BOOLEAN :
        SemInitAt(b, s, v) /\ (s = NoSem => bound = {})
  BY <1>1
<1>4. /\ named \in BOOLEAN /\ sname = NoSem /\ sok = {} /\ sraised = {} /\ svalue = sbirth
      /\ sbirth = [x \in Sems |-> IF x = s THEN v ELSE 0]
      /\ osem = [h \in Handles |-> IF h \in bound THEN s ELSE NoSem]
      /\ tsem = [t \in Threads |-> NoSem]
      /\ sleft = [t \in Threads |-> <<0, 0>>]
      /\ sout = [x \in Sems |-> 0]
  BY <1>3 DEF SemInitAt
<1>5. SemTypeOK
  <2>1. sbirth \in [Sems -> 0..MaxSem]
    BY <1>4, MaxSemAssumption
  <2>2. sleft \in [Threads -> (0..MaxSem) \X (0..MaxSem)]
    BY <1>4, MaxSemAssumption
  <2> QED BY <1>3, <1>4, <2>1, <2>2 DEF SemTypeOK
<1>6. SemPlaced
  BY ZenonT(60), <1>2, <1>3, <1>4 DEF SemPlaced, Open
<1>7. ASSUME NEW x \in Sems PROVE Permits(x) = sbirth[x]
  <2>1. Posts(x) = {} /\ Taking(x) = {}
    BY ZenonT(60), <1>2, <1>4 DEF Posts, Taking
  <2>2. Cardinality(Posts(x)) = 0 /\ Cardinality(Taking(x)) = 0
    BY ZenonT(60), <2>1, FS_EmptySet
  <2> QED BY <1>3, <1>4, <2>2 DEF Permits
<1>8. PermitsConserved
  <2>1. \A x \in Sems : sbirth[x] \in Int
    BY <1>3, <1>4
  <2> QED BY <1>7, <2>1 DEF PermitsConserved
<1> QED BY ZenonT(60), <1>2, <1>5, <1>6, <1>8 DEF SemIInv

(* The invariant holds throughout. *)
LEMMA SemRight == SemSpec => []SemIInv
<1>1. SemInit(Threads) => SemIInv
  BY SemStart
<1>2. SemIInv /\ [SemNext]_semVars => SemIInv'
  BY SemStep
<1> QED BY <1>1, <1>2, PTL DEF SemSpec

(* No permit of a Semaphore or a NamedSemaphore is lost or made up, for    *)
(* any number of threads and semaphores and any SEM_VALUE_MAX: its value,  *)
(* the permits on their way out of acquire() and those callers were told   *)
(* of add up to what it was born with, and to more only after a release(n) *)
(* on it raised or died halfway.                                           *)
THEOREM SemaphoreRight == SemSpec => []PermitsConserved
<1>1. SemIInv => PermitsConserved
  BY ZenonT(60) DEF SemIInv
<1> QED BY <1>1, SemRight, PTL

-----------------------------------------------------------------------------
(* MessageQueue *)

Putting == {t \in Threads : pc[t] \in {"putwait", "putgot"}}

(* What a thread has in its hands, before its outcome is looked at. *)
InHand ==
    \A t \in Threads :
      /\ pc[t] \notin {"putgot", "getgot"} => t \notin tdone
      /\ pc[t] = "putwait" => tmsg[t] \in Msgs /\ mplace[tmsg[t]] = "none"
      /\ pc[t] = "putgot" => tmsg[t] \in Msgs /\ (t \in tdone <=> mplace[tmsg[t]] # "none")
      /\ pc[t] = "getgot" /\ t \in tdone => tmsg[t] \in Msgs /\ mplace[tmsg[t]] # "none"

(* A message is put by one thread, which has not been told yet. *)
OnePutter ==
    /\ \A t \in Putting : mtold[tmsg[t]] = "nothing"
    /\ \A t, u \in Putting : tmsg[t] = tmsg[u] => t = u

MessageFcns ==
    /\ pc \in [Threads -> {"idle", "dead", "putwait", "putgot", "getwait", "getgot"}]
    /\ mplace \in [Msgs -> Mqs \cup {NoMq, "none", "taken", "got", "lost"}]
    /\ mtold \in [Msgs -> {"nothing", "true", "false"}]
    /\ tmsg \in [Threads -> Msgs \cup {NoMsg}]
    /\ tmq \in [Threads -> Mqs \cup {NoMq}]
    /\ tdone \subseteq Threads
    /\ omq \in [Handles -> Mqs \cup {NoMq}]
    /\ mqname \in Mqs \cup {NoMq}

MessageIInv == MessageFcns /\ InHand /\ OnePutter /\ PutIsTrue

(* The notifications of h that run its callback. *)
Calling(h) == {n \in Notifiers : nstate[n] = "call" /\ nobj[n] = h}

(* A reference for the registration, and one for each running callback. *)
RefsCounted == \A h \in Handles : nref[h] = DropsRef(h) + Cardinality(Calling(h))

NotifyFcns ==
    /\ armed \subseteq bound /\ bound \subseteq Handles
    /\ nref \in [Handles -> Int]
    /\ nfn = [h \in Handles |-> nfn[h]] /\ nwanted = [h \in Handles |-> nwanted[h]]
    /\ nstate = [n \in Notifiers |-> nstate[n]] /\ nobj = [n \in Notifiers |-> nobj[n]]
    /\ ncall = [n \in Notifiers |-> ncall[n]]

ArmedIsWanted == \A h \in armed : nwanted[h] = nfn[h]

NotifyIInv == NotifyFcns /\ RefsCounted /\ ArmedIsWanted /\ CallbackKeepsObject

-----------------------------------------------------------------------------
(* Messages *)

(* Steps that leave the messages alone: those of the notifications. *)
LEMMA MessagesKept ==
    ASSUME MessageIInv, UNCHANGED <<pc, mplace, mtold, tmsg, tmq, tdone, omq, mqname>>
    PROVE  MessageIInv'
BY DEF MessageIInv, MessageFcns, InHand, OnePutter, Putting, PutIsTrue

(* nmq_put and nmq_get up to the system call *)
LEMMA EnterSteps ==
    ASSUME MessageIInv, NEW t \in Threads, MqPut(t) \/ MqGet(t)
    PROVE  MessageIInv'
<1> USE AtAssumption
<1>1. CASE MqPut(t)
  <2> DEFINE fresh == {m \in Msgs : /\ mplace[m] = "none" /\ mtold[m] = "nothing"
                                   /\ \A u \in Threads : tmsg[u] # m}
  <2>1. PICK m : m = CHOOSE x \in fresh : TRUE
    BY ZenonT(60)
  <2>2. m \in fresh /\ MqEnter(t, "putwait", m)
    BY ZenonT(60), <1>1, <2>1 DEF MqPut
  <2>3. /\ m \in Msgs /\ mplace[m] = "none" /\ mtold[m] = "nothing" /\ \A u \in Threads : tmsg[u] # m
        /\ pc[t] = "idle" /\ pc' = [pc EXCEPT ![t] = "putwait"]
        /\ tmsg' = [tmsg EXCEPT ![t] = m] /\ tmq' = [tmq EXCEPT ![t] = omq[At[t]]]
        /\ UNCHANGED <<mplace, mtold, tdone, omq, mqname>>
    BY ZenonT(60), <2>2 DEF MqEnter, Block, mqKernel
  <2>4. MessageFcns'
    BY ZenonT(60), <2>3 DEF MessageIInv, MessageFcns
  <2>5. InHand'
    BY ZenonT(60), <2>3 DEF MessageIInv, MessageFcns, InHand
  <2>6. OnePutter'
    BY ZenonT(60), <2>3 DEF MessageIInv, MessageFcns, OnePutter, Putting
  <2> QED BY ZenonT(60), <2>3, <2>4, <2>5, <2>6 DEF MessageIInv, PutIsTrue
<1>2. CASE MqGet(t)
  <2>1. /\ pc[t] = "idle" /\ pc' = [pc EXCEPT ![t] = "getwait"]
        /\ tmsg' = [tmsg EXCEPT ![t] = NoMsg] /\ tmq' = [tmq EXCEPT ![t] = omq[At[t]]]
        /\ UNCHANGED <<mplace, mtold, tdone, omq, mqname>>
    BY ZenonT(60), <1>2 DEF MqGet, MqEnter, Block, mqKernel
  <2>2. MessageFcns'
    BY ZenonT(60), <2>1 DEF MessageIInv, MessageFcns
  <2>3. InHand'
    BY ZenonT(60), <2>1 DEF MessageIInv, MessageFcns, InHand
  <2>4. OnePutter'
    BY <2>1 DEF MessageIInv, MessageFcns, OnePutter, Putting
  <2> QED BY ZenonT(60), <2>1, <2>2, <2>3, <2>4 DEF MessageIInv, PutIsTrue
<1> QED BY ZenonT(60), <1>1, <1>2

(* The system call, and a call that ends with nothing done *)
LEMMA SyscallSteps ==
    ASSUME MessageIInv, NEW t \in Threads, MqSent(t) \/ MqReceived(t) \/ MqGiveUp(t)
    PROVE  MessageIInv'
<1>1. CASE MqSent(t)
  <2>1. /\ pc[t] = "putwait" /\ pc' = [pc EXCEPT ![t] = "putgot"]
        /\ mplace' = [mplace EXCEPT ![tmsg[t]] = tmq[t]] /\ tdone' = tdone \cup {t}
        /\ UNCHANGED <<mtold, tmsg, tmq, omq, mqname>>
    BY ZenonT(60), <1>1 DEF MqSent, Goto
  <2>2. tmsg[t] \in Msgs /\ mplace[tmsg[t]] = "none" /\ mtold[tmsg[t]] = "nothing" /\ tmq[t] # "none"
    BY ZenonT(60), <2>1, MqAssumption DEF MessageIInv, MessageFcns, InHand, OnePutter, Putting
  <2>3. MessageFcns'
    BY ZenonT(60), <2>1, <2>2 DEF MessageIInv, MessageFcns
  <2>4. InHand'
    BY ZenonT(60), <2>1, <2>2 DEF MessageIInv, MessageFcns, InHand, OnePutter, Putting
  <2>5. OnePutter'
    BY <2>1 DEF MessageIInv, MessageFcns, OnePutter, Putting
  <2>6. PutIsTrue'
    BY ZenonT(60), <2>1, <2>2 DEF MessageIInv, MessageFcns, PutIsTrue
  <2> QED BY ZenonT(60), <2>3, <2>4, <2>5, <2>6 DEF MessageIInv
<1>2. CASE MqReceived(t)
  <2>1. PICK m \in InQueue(tmq[t]) : /\ mplace' = [mplace EXCEPT ![m] = "taken"]
                                     /\ tmsg' = [tmsg EXCEPT ![t] = m]
    BY ZenonT(60), <1>2 DEF MqReceived
  <2>2. /\ pc[t] = "getwait" /\ pc' = [pc EXCEPT ![t] = "getgot"] /\ tdone' = tdone \cup {t}
        /\ UNCHANGED <<mtold, tmq, omq, mqname>>
    BY ZenonT(60), <1>2 DEF MqReceived, Goto, mqKernel
  <2>3. m \in Msgs /\ mplace[m] # "none"
    BY ZenonT(60), <2>1, MqAssumption DEF MessageIInv, MessageFcns, InQueue
  <2>4. MessageFcns'
    BY ZenonT(60), <2>1, <2>2, <2>3 DEF MessageIInv, MessageFcns
  <2>5. InHand'
    BY ZenonT(60), <2>1, <2>2, <2>3 DEF MessageIInv, MessageFcns, InHand
  <2>6. OnePutter'
    BY ZenonT(60), <2>1, <2>2 DEF MessageIInv, MessageFcns, OnePutter, Putting
  <2>7. PutIsTrue'
    BY ZenonT(60), <2>1, <2>2, <2>3 DEF MessageIInv, MessageFcns, PutIsTrue
  <2> QED BY ZenonT(60), <2>4, <2>5, <2>6, <2>7 DEF MessageIInv
<1>3. CASE MqGiveUp(t)
  <2>1. /\ pc[t] \in {"putwait", "getwait"}
        /\ pc' = [pc EXCEPT ![t] = IF pc[t] = "putwait" THEN "putgot" ELSE "getgot"]
        /\ UNCHANGED <<mplace, mtold, tmsg, tmq, tdone, omq, mqname>>
    BY ZenonT(60), <1>3 DEF MqGiveUp, Goto, mqOnly, mqKernel, mqMessages
  <2>2. MessageFcns' /\ InHand'
    BY ZenonT(60), <2>1 DEF MessageIInv, MessageFcns, InHand
  <2>3. OnePutter'
    BY <2>1 DEF MessageIInv, MessageFcns, OnePutter, Putting
  <2> QED BY ZenonT(60), <2>1, <2>2, <2>3 DEF MessageIInv, PutIsTrue
<1> QED BY ZenonT(60), <1>1, <1>2, <1>3

(* nmq_put and nmq_get turn the outcome into their answer. *)
LEMMA ReturnSteps ==
    ASSUME MessageIInv, NEW t \in Threads, MqPutReturn(t) \/ MqGetReturn(t)
    PROVE  MessageIInv'
<1>1. /\ pc' = [pc EXCEPT ![t] = "idle"] /\ tmsg' = [tmsg EXCEPT ![t] = NoMsg]
      /\ tmq' = [tmq EXCEPT ![t] = NoMq] /\ tdone' = tdone \ {t} /\ UNCHANGED <<omq, mqname>>
  BY DEF MqPutReturn, MqGetReturn, MqLeave, Return, mqKernel
<1>2. CASE MqPutReturn(t)
  <2>1. /\ pc[t] = "putgot" /\ mplace' = mplace
        /\ mtold' = [mtold EXCEPT ![tmsg[t]] = IF t \in tdone THEN "true" ELSE "false"]
    BY ZenonT(60), <1>2 DEF MqPutReturn
  <2>2. tmsg[t] \in Msgs /\ (t \in tdone <=> mplace[tmsg[t]] # "none")
    BY ZenonT(60), <2>1 DEF MessageIInv, InHand
  <2>3. MessageFcns'
    BY ZenonT(60), <1>1, <2>1, <2>2 DEF MessageIInv, MessageFcns
  <2>4. InHand'
    BY ZenonT(60), <1>1, <2>1 DEF MessageIInv, MessageFcns, InHand
  <2>5. OnePutter'
    BY ZenonT(60), <1>1, <2>1, <2>2 DEF MessageIInv, MessageFcns, InHand, OnePutter, Putting
  <2>6. PutIsTrue'
    BY ZenonT(60), <2>1, <2>2 DEF MessageIInv, MessageFcns, PutIsTrue
  <2> QED BY ZenonT(60), <2>3, <2>4, <2>5, <2>6 DEF MessageIInv
<1>3. CASE MqGetReturn(t)
  <2>1. /\ pc[t] = "getgot" /\ mtold' = mtold
        /\ mplace' = IF t \in tdone THEN [mplace EXCEPT ![tmsg[t]] = "got"] ELSE mplace
    BY ZenonT(60), <1>3 DEF MqGetReturn
  <2>2. t \in tdone => tmsg[t] \in Msgs /\ mplace[tmsg[t]] # "none"
    BY ZenonT(60), <2>1 DEF MessageIInv, InHand
  <2>3. /\ MessageFcns'
        /\ \A m \in Msgs : mplace'[m] = "none" <=> mplace[m] = "none"
    BY ZenonT(60), <1>1, <2>1, <2>2 DEF MessageIInv, MessageFcns
  <2>4. InHand'
    BY ZenonT(60), <1>1, <2>1, <2>3 DEF MessageIInv, MessageFcns, InHand
  <2>5. OnePutter'
    BY ZenonT(60), <1>1, <2>1 DEF MessageIInv, MessageFcns, OnePutter, Putting
  <2>6. PutIsTrue'
    BY ZenonT(60), <2>1, <2>3 DEF MessageIInv, PutIsTrue
  <2> QED BY ZenonT(60), <2>3, <2>4, <2>5, <2>6 DEF MessageIInv
<1> QED BY ZenonT(60), <1>2, <1>3

(* A queue's messages are lost with it, and a killed receiver's with the   *)
(* receiver; a thread that dies leaves nothing behind in its hands.        *)
LEMMA LosingSteps ==
    ASSUME MessageIInv, NEW h \in Handles, MqCreate(h) \/ MqDies(h)
    PROVE  MessageIInv'
<1>1. \A m \in Msgs : mplace'[m] = "none" <=> mplace[m] = "none"
  <2>1. CASE MqCreate(h)
    <3>1. PICK q : q = CHOOSE x \in Mqs : UnusedMq(x)
      BY ZenonT(60)
    <3>2. q \in Mqs /\ mplace' = [m \in Msgs |-> IF mplace[m] = q THEN "lost" ELSE mplace[m]]
      BY ZenonT(60), <2>1, <3>1 DEF MqCreate
    <3> QED BY ZenonT(60), <3>2, MqAssumption
  <2>2. CASE MqDies(h)
    BY ZenonT(60), <2>2 DEF MqDies
  <2> QED BY ZenonT(60), <2>1, <2>2
<1>2. mtold' = mtold
  BY ZenonT(60) DEF MqCreate, MqDies
<1>3. CASE MqCreate(h)
  <2>1. PICK q : q = CHOOSE x \in Mqs : UnusedMq(x)
    BY ZenonT(60)
  <2>2. /\ q \in Mqs /\ mplace' = [m \in Msgs |-> IF mplace[m] = q THEN "lost" ELSE mplace[m]]
        /\ mqname' = q /\ omq' = [omq EXCEPT ![h] = q] /\ UNCHANGED <<pc, tmsg, tmq, tdone>>
    BY ZenonT(60), <1>3, <2>1 DEF MqCreate, threadVars
  <2>3. MessageFcns'
    BY <1>2, <2>2 DEF MessageIInv, MessageFcns
  <2>4. InHand' /\ OnePutter' /\ PutIsTrue'
    BY ZenonT(60), <1>1, <1>2, <2>2 DEF MessageIInv, MessageFcns, InHand, OnePutter, Putting, PutIsTrue
  <2> QED BY ZenonT(60), <2>3, <2>4 DEF MessageIInv
<1>4. CASE MqDies(h)
  <2>1. /\ pc' = [t \in Threads |-> IF At[t] = h THEN "dead" ELSE pc[t]]
        /\ tmsg' = [t \in Threads |-> IF At[t] = h THEN NoMsg ELSE tmsg[t]]
        /\ tmq' = [t \in Threads |-> IF At[t] = h THEN NoMq ELSE tmq[t]]
        /\ tdone' = tdone \ {t \in Threads : At[t] = h}
        /\ omq' = [omq EXCEPT ![h] = NoMq] /\ mqname' = mqname
        /\ mplace' = [m \in Msgs |-> IF mplace[m] = "taken" /\ \E t \in ThreadsOf(h) : tmsg[t] = m
                                       THEN "lost" ELSE mplace[m]]
    BY ZenonT(60), <1>4 DEF MqDies, ProcessEnds, ThreadsOf
  <2>2. MessageFcns'
    BY ZenonT(60), <1>2, <2>1 DEF MessageIInv, MessageFcns
  <2>3. InHand'
    BY ZenonT(60), <1>1, <2>1 DEF MessageIInv, MessageFcns, InHand
  <2>4. OnePutter'
    BY ZenonT(60), <1>2, <2>1 DEF MessageIInv, MessageFcns, OnePutter, Putting
  <2>5. PutIsTrue'
    BY ZenonT(60), <1>1, <1>2 DEF MessageIInv, PutIsTrue
  <2> QED BY <2>2, <2>3, <2>4, <2>5 DEF MessageIInv
<1> QED BY <1>3, <1>4

(* Every step, as far as messages are concerned. *)
LEMMA MessageStep == MessageIInv /\ [MqNext]_mqVars => MessageIInv'
<1> SUFFICES ASSUME MessageIInv, [MqNext]_mqVars PROVE MessageIInv'
  OBVIOUS
<1>1. ASSUME NEW h \in Handles, MqAttach(h) \/ MqClose(h) \/ MqDealloc(h) PROVE MessageIInv'
  <2>1. /\ UNCHANGED <<pc, mplace, mtold, tmsg, tmq, tdone, mqname>>
        /\ omq' \in [Handles -> Mqs \cup {NoMq}]
    BY ZenonT(60), <1>1 DEF MqAttach, MqClose, MqDealloc, threadVars, mqMessages, MessageIInv, MessageFcns
  <2> QED BY ZenonT(60), <2>1 DEF MessageIInv, MessageFcns, InHand, OnePutter, Putting, PutIsTrue
<1>2. CASE MqUnlink
  <2>1. UNCHANGED <<pc, mplace, mtold, tmsg, tmq, tdone, omq>> /\ mqname' = NoMq
    BY ZenonT(60), <1>2 DEF MqUnlink, objectVars, threadVars, mqMessages
  <2> QED BY ZenonT(60), <2>1 DEF MessageIInv, MessageFcns, InHand, OnePutter, Putting, PutIsTrue
<1>3. ASSUME UNCHANGED <<objectVars, mqname, omq, mqMessages>> PROVE MessageIInv'
  BY ZenonT(60), <1>3, MessagesKept DEF objectVars, threadVars, mqMessages
<1>4. ASSUME NEW t \in Threads, MqCancel(t) \/ MqSignal(t) \/ \E c \in Callbacks : MqRequest(t, c)
      PROVE  MessageIInv'
  BY ZenonT(60), <1>3, <1>4 DEF MqCancel, MqSignal, MqRequest
<1>5. ASSUME NEW n \in Notifiers, NotifyStart(n) \/ NotifyEnd(n) \/ NotifyStale(n)
      PROVE  MessageIInv'
  BY ZenonT(60), <1>3, <1>5 DEF NotifyStart, NotifyEnd, NotifyStale, mqKernel
<1>6. CASE UNCHANGED mqVars
  BY ZenonT(60), <1>3, <1>6 DEF mqVars, mqOnly, mqKernel
<1> QED BY ZenonT(60), <1>1, <1>2, <1>4, <1>5, <1>6, EnterSteps, SyscallSteps, ReturnSteps, LosingSteps
        DEF MqNext, MqOpenOrCreate

-----------------------------------------------------------------------------
(* Callbacks *)

(* Those inside a callback are threads, so they can be counted. *)
LEMMA CallingFinite == \A h : IsFiniteSet(Calling(h)) /\ Cardinality(Calling(h)) \in Nat
<1>1. TAKE h
<1>2. Calling(h) \subseteq Notifiers
  BY ZenonT(60) DEF Calling
<1> QED BY ZenonT(60), <1>2, MqAssumption, FS_Subset, FS_CardinalityType

(* Steps that change no registration and no running callback. *)
LEMMA NotifyKept ==
    ASSUME NotifyIInv, UNCHANGED <<armed, nfn, nref, nwanted>>,
           bound \subseteq bound', bound' \subseteq Handles,
           nstate' = [n \in Notifiers |-> nstate'[n]], nobj' = [n \in Notifiers |-> nobj'[n]],
           ncall' = [n \in Notifiers |-> ncall'[n]],
           \A n \in Notifiers : /\ nstate'[n] = "call" <=> nstate[n] = "call"
                                /\ nstate[n] = "call" => nobj'[n] = nobj[n]
    PROVE  NotifyIInv'
<1>1. \A h : Calling(h)' = Calling(h)
  BY ZenonT(60) DEF Calling
<1>2. RefsCounted'
  BY ZenonT(60), <1>1 DEF NotifyIInv, RefsCounted, DropsRef
<1>3. NotifyFcns' /\ ArmedIsWanted' /\ CallbackKeepsObject'
  BY ZenonT(60) DEF NotifyIInv, NotifyFcns, ArmedIsWanted, CallbackKeepsObject
<1> QED BY ZenonT(60), <1>2, <1>3 DEF NotifyIInv

(* request_notification with None, a signal or a callback, and close(): h  *)
(* is armed or disarmed, and its reference counted with it.                *)
LEMMA ArmStep ==
    ASSUME NotifyIInv, NEW h \in Handles, bound' = bound, UNCHANGED <<nstate, nobj, ncall>>,
           NEW fn, nfn' = [nfn EXCEPT ![h] = fn] \/ nfn' = nfn,
           NEW c, nwanted' = [nwanted EXCEPT ![h] = c],
           \/ /\ armed' = armed \ {h} /\ nref' = [nref EXCEPT ![h] = @ - DropsRef(h)]
           \/ /\ armed' = armed \cup {h} /\ nref' = [nref EXCEPT ![h] = @ - DropsRef(h) + 1]
              /\ h \in bound /\ c = fn /\ nfn' = [nfn EXCEPT ![h] = fn]
    PROVE  NotifyIInv'
<1>1. \A g : Calling(g)' = Calling(g)
  BY ZenonT(60) DEF Calling
<1>2. \A g \in Handles \ {h} : DropsRef(g)' = DropsRef(g) /\ nref'[g] = nref[g]
  BY ZenonT(60) DEF DropsRef, NotifyIInv, NotifyFcns
<1>3. nref[h] \in Int /\ nref[h] = DropsRef(h) + Cardinality(Calling(h)) /\ DropsRef(h) \in {0, 1}
  BY ZenonT(60) DEF NotifyIInv, NotifyFcns, RefsCounted, DropsRef
<1>4. nref'[h] = nref[h] - DropsRef(h) + DropsRef(h)'
  <2>1. CASE armed' = armed \ {h} /\ nref' = [nref EXCEPT ![h] = @ - DropsRef(h)]
    BY <1>3, <2>1 DEF DropsRef, NotifyIInv, NotifyFcns
  <2>2. CASE armed' = armed \cup {h} /\ nref' = [nref EXCEPT ![h] = @ - DropsRef(h) + 1]
    BY ZenonT(60), <1>3, <2>2 DEF DropsRef, NotifyIInv, NotifyFcns
  <2> QED BY ZenonT(60), <2>1, <2>2
<1>5. DropsRef(h)' \in {0, 1}
  BY ZenonT(60) DEF DropsRef
<1>6. RefsCounted'
  BY SMTT(60), <1>1, <1>2, <1>3, <1>4, <1>5, CallingFinite DEF NotifyIInv, RefsCounted
<1>7. NotifyFcns'
  <2>1. nref' \in [Handles -> Int]
    BY <1>3 DEF NotifyIInv, NotifyFcns
  <2> QED BY ZenonT(60), <2>1 DEF NotifyIInv, NotifyFcns
<1>8. ArmedIsWanted' /\ CallbackKeepsObject'
  BY ZenonT(60) DEF NotifyIInv, NotifyFcns, ArmedIsWanted, CallbackKeepsObject
<1> QED BY ZenonT(60), <1>6, <1>7, <1>8 DEF NotifyIInv

(* request_notification, with a callback, a signal or none. *)
LEMMA RequestSteps ==
    ASSUME NotifyIInv, NEW t \in Threads,
           MqCancel(t) \/ MqSignal(t) \/ \E c \in Callbacks : MqRequest(t, c)
    PROVE  NotifyIInv'
<1>1. PICK h \in Handles : h = At[t]
  BY AtAssumption
<1>2. UNCHANGED <<bound, nstate, nobj, ncall>>
  BY ZenonT(60) DEF MqCancel, MqSignal, MqRequest, objectVars, handleVars
<1>3. CASE MqCancel(t) \/ MqSignal(t)
  <2>1. /\ nfn' = [nfn EXCEPT ![h] = NoFn] \/ nfn' = nfn
        /\ nwanted' = [nwanted EXCEPT ![h] = NoFn]
        /\ armed' = armed \ {h} /\ nref' = [nref EXCEPT ![h] = @ - DropsRef(h)]
    BY ZenonT(60), <1>1, <1>3 DEF MqCancel, MqSignal, Disarmed
  <2> QED BY ZenonT(60), <1>2, <2>1, ArmStep
<1>4. ASSUME NEW c \in Callbacks, MqRequest(t, c) PROVE NotifyIInv'
  <2>1. /\ nfn' = [nfn EXCEPT ![h] = c] /\ nwanted' = [nwanted EXCEPT ![h] = c] /\ h \in bound
        /\ armed' = armed \cup {h} /\ nref' = [nref EXCEPT ![h] = @ - DropsRef(h) + 1]
    BY ZenonT(60), <1>1, <1>4 DEF MqRequest, Open
  <2> QED BY ZenonT(60), <1>2, <2>1, ArmStep
<1> QED BY ZenonT(60), <1>3, <1>4

(* nmq_dealloc meets neither a registration nor a running callback, and a  *)
(* process that ends takes its own with it.                                *)
LEMMA EndSteps ==
    ASSUME NotifyIInv, NEW h \in Handles, MqDealloc(h) \/ MqDies(h)
    PROVE  NotifyIInv'
<1>1. bound' = bound \ {h}
  BY ZenonT(60) DEF MqDealloc, MqDies, ProcessEnds
<1>2. CASE MqDealloc(h)
  <2>1. /\ nref[h] = 0 /\ UNCHANGED <<armed, nref, nobj, ncall>>
        /\ nwanted' = [nwanted EXCEPT ![h] = NoFn] /\ nfn' = [nfn EXCEPT ![h] = NoFn]
        /\ nstate' = [n \in Notifiers |->
                        IF nobj[n] = h /\ nstate[n] = "start" THEN "stale" ELSE nstate[n]]
    BY ZenonT(60), <1>2 DEF MqDealloc
  <2>2. Cardinality(Calling(h)) \in Nat /\ IsFiniteSet(Calling(h)) /\ DropsRef(h) \in {0, 1}
    BY ZenonT(60), CallingFinite DEF DropsRef
  <2>3. DropsRef(h) = 0 /\ Cardinality(Calling(h)) = 0
    BY <2>1, <2>2 DEF NotifyIInv, RefsCounted
  <2>4. h \notin armed /\ Calling(h) = {}
    <3>1. h \notin armed
      BY SMTT(60), <2>3 DEF DropsRef
    <3>2. Calling(h) = {}
      BY SMTT(60), <2>2, <2>3, FS_EmptySet
    <3> QED BY <3>1, <3>2
  <2>5. \A g : Calling(g)' = Calling(g)
    BY ZenonT(60), <2>1 DEF Calling
  <2>6. RefsCounted'
    BY ZenonT(60), <2>1, <2>5 DEF NotifyIInv, RefsCounted, DropsRef
  <2>7. NotifyFcns' /\ ArmedIsWanted'
    BY ZenonT(60), <1>1, <2>1, <2>4 DEF NotifyIInv, NotifyFcns, ArmedIsWanted
  <2>8. CallbackKeepsObject'
    BY ZenonT(60), <1>1, <2>1, <2>4 DEF NotifyIInv, NotifyFcns, CallbackKeepsObject, Calling
  <2> QED BY ZenonT(60), <2>6, <2>7, <2>8 DEF NotifyIInv
<1>3. CASE MqDies(h)
  <2>1. /\ armed' = armed \ {h} /\ nref' = [nref EXCEPT ![h] = 0]
        /\ nwanted' = [nwanted EXCEPT ![h] = NoFn] /\ nfn' = [nfn EXCEPT ![h] = NoFn]
        /\ nstate' = [n \in Notifiers |-> IF nobj[n] = h THEN "none" ELSE nstate[n]]
        /\ nobj' = [n \in Notifiers |-> IF nobj[n] = h THEN NoHandle ELSE nobj[n]]
        /\ ncall' = [n \in Notifiers |-> IF nobj[n] = h THEN NoFn ELSE ncall[n]]
    BY ZenonT(60), <1>3 DEF MqDies
  <2>2. Calling(h)' = {} /\ \A g \in Handles \ {h} : Calling(g)' = Calling(g)
    BY ZenonT(60), <2>1, MqAssumption DEF Calling
  <2>3. RefsCounted'
    <3>1. nref'[h] = 0 /\ DropsRef(h)' = 0 /\ Cardinality(Calling(h)') = 0
      BY ZenonT(60), <2>1, <2>2, FS_EmptySet DEF NotifyIInv, NotifyFcns, DropsRef
    <3>2. \A g \in Handles \ {h} : nref'[g] = nref[g] /\ DropsRef(g)' = DropsRef(g)
      BY ZenonT(60), <2>1 DEF NotifyIInv, NotifyFcns, DropsRef
    <3> QED BY SMTT(60), <2>2, <3>1, <3>2 DEF NotifyIInv, RefsCounted
  <2>4. NotifyFcns'
    <3>1. nref' \in [Handles -> Int]
      BY <2>1 DEF NotifyIInv, NotifyFcns
    <3>2. armed' \subseteq bound' /\ bound' \subseteq Handles
      BY ZenonT(60), <1>1, <2>1 DEF NotifyIInv, NotifyFcns
    <3>3. nfn' = [g \in Handles |-> nfn'[g]] /\ nwanted' = [g \in Handles |-> nwanted'[g]]
      BY ZenonT(60), <2>1 DEF NotifyIInv, NotifyFcns
    <3>4. /\ nstate' = [n \in Notifiers |-> nstate'[n]] /\ nobj' = [n \in Notifiers |-> nobj'[n]]
          /\ ncall' = [n \in Notifiers |-> ncall'[n]]
      BY ZenonT(60), <2>1
    <3> QED BY ZenonT(60), <3>1, <3>2, <3>3, <3>4 DEF NotifyFcns
  <2>5. ArmedIsWanted'
    BY ZenonT(60), <2>1 DEF NotifyIInv, NotifyFcns, ArmedIsWanted
  <2>6. CallbackKeepsObject'
    BY ZenonT(60), <1>1, <2>1 DEF NotifyIInv, NotifyFcns, CallbackKeepsObject
  <2> QED BY ZenonT(60), <2>3, <2>4, <2>5, <2>6 DEF NotifyIInv
<1> QED BY <1>2, <1>3

(* nmq_notify_thread: the registration's reference becomes the callback's. *)
LEMMA StartStep ==
    ASSUME NotifyIInv, NEW n \in Notifiers, NotifyStart(n)
    PROVE  NotifyIInv'
<1>1. PICK h : h = nobj[n]
  BY ZenonT(60)
<1>2. bound' = bound /\ nstate[n] = "start"
  BY ZenonT(60) DEF NotifyStart, objectVars, handleVars
<1>3. CASE h \notin armed
  <2>1. UNCHANGED <<armed, nfn, nref, nwanted>> /\ NotifierEnds(n)
    BY ZenonT(60), <1>1, <1>3 DEF NotifyStart
  <2>2. /\ nstate' = [m \in Notifiers |-> nstate'[m]] /\ nobj' = [m \in Notifiers |-> nobj'[m]]
        /\ ncall' = [m \in Notifiers |-> ncall'[m]]
        /\ \A m \in Notifiers : /\ nstate'[m] = "call" <=> nstate[m] = "call"
                                /\ nstate[m] = "call" => nobj'[m] = nobj[m]
    BY ZenonT(60), <1>2, <2>1 DEF NotifierEnds, NotifyIInv, NotifyFcns
  <2> QED BY ZenonT(60), <1>2, <2>1, <2>2, NotifyKept DEF NotifyIInv, NotifyFcns
<1>4. CASE h \in armed
  <2>0. h \in Handles /\ h \in bound
    BY ZenonT(60), <1>4 DEF NotifyIInv, NotifyFcns
  <2>1. /\ armed' = armed \ {h} /\ nfn' = [nfn EXCEPT ![h] = NoFn]
        /\ nwanted' = nwanted \/ nwanted' = [nwanted EXCEPT ![h] = NoFn]
        /\ \/ /\ nstate' = [nstate EXCEPT ![n] = "call"] /\ UNCHANGED <<nobj, nref>>
              /\ ncall' = [ncall EXCEPT ![n] = nfn[h]]
           \/ /\ nstate' = [nstate EXCEPT ![n] = "none"] /\ nobj' = [nobj EXCEPT ![n] = NoHandle]
              /\ ncall' = [ncall EXCEPT ![n] = NoFn] /\ nref' = [nref EXCEPT ![h] = @ - 1]
    BY ZenonT(60), <1>1, <1>4 DEF NotifyStart, NotifierEnds
  <2>2. \A g \in Handles \ {h} :
          Calling(g)' = Calling(g) /\ DropsRef(g)' = DropsRef(g) /\ nref'[g] = nref[g]
    BY ZenonT(60), <1>1, <1>2, <2>1 DEF Calling, DropsRef, NotifyIInv, NotifyFcns
  <2>3. /\ DropsRef(h) = 1 /\ DropsRef(h)' = 0 /\ nref[h] \in Int
        /\ nref[h] = 1 + Cardinality(Calling(h)) /\ Cardinality(Calling(h)) \in Nat
    BY ZenonT(60), <1>4, <2>0, <2>1, CallingFinite DEF DropsRef, NotifyIInv, NotifyFcns, RefsCounted
  <2>4. nref'[h] = Cardinality(Calling(h)')
    <3>1. CASE nstate' = [nstate EXCEPT ![n] = "call"] /\ UNCHANGED <<nobj, nref>>
      <4>1. Calling(h)' = Calling(h) \cup {n} /\ n \notin Calling(h)
        BY ZenonT(60), <1>1, <1>2, <3>1 DEF Calling, NotifyIInv, NotifyFcns
      <4>2. Cardinality(Calling(h) \cup {n}) = Cardinality(Calling(h)) + 1
        BY ZenonT(60), <4>1, CallingFinite, FS_AddElement
      <4> QED BY SMTT(60), <2>3, <3>1, <4>1, <4>2
    <3>2. CASE nstate' = [nstate EXCEPT ![n] = "none"] /\ nref' = [nref EXCEPT ![h] = @ - 1]
               /\ nobj' = [nobj EXCEPT ![n] = NoHandle]
      <4>1. Calling(h)' = Calling(h)
        BY ZenonT(60), <1>2, <3>2 DEF Calling, NotifyIInv, NotifyFcns
      <4> QED BY SMTT(60), <2>0, <2>3, <3>2, <4>1 DEF NotifyIInv, NotifyFcns
    <3> QED BY ZenonT(60), <2>1, <3>1, <3>2
  <2>6. nref' \in [Handles -> Int]
    BY <2>1, <2>3 DEF NotifyIInv, NotifyFcns
  <2>5. RefsCounted'
    <3>1. nref'[h] = DropsRef(h)' + Cardinality(Calling(h)')
      BY SMTT(60), <2>0, <2>3, <2>4, <2>6
    <3>2. \A g \in Handles \ {h} : nref'[g] = DropsRef(g)' + Cardinality(Calling(g)')
      BY ZenonT(60), <2>2 DEF NotifyIInv, RefsCounted
    <3> QED BY ZenonT(60), <3>1, <3>2 DEF RefsCounted
  <2>7. NotifyFcns'
    BY ZenonT(60), <1>2, <2>1, <2>6 DEF NotifyIInv, NotifyFcns
  <2>8. ArmedIsWanted'
    BY ZenonT(60), <2>1 DEF NotifyIInv, NotifyFcns, ArmedIsWanted
  <2>9. CallbackKeepsObject'
    BY ZenonT(60), <1>1, <1>2, <2>0, <2>1 DEF NotifyIInv, NotifyFcns, CallbackKeepsObject
  <2> QED BY ZenonT(60), <2>5, <2>7, <2>8, <2>9 DEF NotifyIInv
<1> QED BY ZenonT(60), <1>3, <1>4

(* The callback has returned: Py_DECREF(o). *)
LEMMA CallEndStep ==
    ASSUME NotifyIInv, NEW n \in Notifiers, NotifyEnd(n)
    PROVE  NotifyIInv'
<1>1. PICK h : h = nobj[n]
  BY ZenonT(60)
<1>2. /\ nstate[n] = "call" /\ UNCHANGED <<bound, armed, nfn, nwanted>>
      /\ nstate' = [nstate EXCEPT ![n] = "none"] /\ nobj' = [nobj EXCEPT ![n] = NoHandle]
      /\ ncall' = [ncall EXCEPT ![n] = NoFn] /\ nref' = [nref EXCEPT ![h] = @ - 1]
  BY ZenonT(60), <1>1 DEF NotifyEnd, NotifierEnds, objectVars, handleVars
<1>3. h \in Handles
  BY ZenonT(60), <1>1, <1>2 DEF NotifyIInv, NotifyFcns, CallbackKeepsObject
<1>4. \A g \in Handles : DropsRef(g)' = DropsRef(g)
  BY ZenonT(60), <1>2 DEF DropsRef
<1>5. \A g \in Handles \ {h} : Calling(g)' = Calling(g) /\ nref'[g] = nref[g]
  BY ZenonT(60), <1>1, <1>2 DEF Calling, NotifyIInv, NotifyFcns
<1>6. Calling(h)' = Calling(h) \ {n} /\ n \in Calling(h)
  BY ZenonT(60), <1>1, <1>2 DEF Calling, NotifyIInv, NotifyFcns
<1>7. Cardinality(Calling(h) \ {n}) = Cardinality(Calling(h)) - 1
  BY ZenonT(60), <1>6, CallingFinite, FS_RemoveElement
<1>8. nref'[h] = nref[h] - 1 /\ nref[h] \in Int /\ DropsRef(h) \in {0, 1}
  BY ZenonT(60), <1>2, <1>3 DEF NotifyIInv, NotifyFcns, DropsRef
<1>9. RefsCounted'
  <2>1. nref[h] = DropsRef(h) + Cardinality(Calling(h)) /\ Cardinality(Calling(h)) \in Nat
    BY ZenonT(60), <1>3, CallingFinite DEF NotifyIInv, RefsCounted
  <2>2. nref'[h] = DropsRef(h) + (Cardinality(Calling(h)) - 1)
    BY <1>8, <2>1
  <2>3. nref'[h] = DropsRef(h)' + Cardinality(Calling(h)')
    BY ZenonT(60), <1>3, <1>4, <1>6, <1>7, <2>2
  <2>4. \A g \in Handles \ {h} : nref'[g] = DropsRef(g)' + Cardinality(Calling(g)')
    BY ZenonT(60), <1>4, <1>5 DEF NotifyIInv, RefsCounted
  <2> QED BY <2>3, <2>4 DEF RefsCounted
<1>10. nref' \in [Handles -> Int]
  BY SMTT(60), <1>2, <1>3, <1>8 DEF NotifyIInv, NotifyFcns
<1>11. NotifyFcns'
  BY ZenonT(60), <1>2, <1>10 DEF NotifyIInv, NotifyFcns
<1>12. ArmedIsWanted' /\ CallbackKeepsObject'
  BY ZenonT(60), <1>2 DEF NotifyIInv, NotifyFcns, ArmedIsWanted, CallbackKeepsObject
<1> QED BY ZenonT(60), <1>9, <1>11, <1>12 DEF NotifyIInv

(* Every step, as far as notifications are concerned. *)
LEMMA NotifyStep == NotifyIInv /\ [MqNext]_mqVars => NotifyIInv'
<1> SUFFICES ASSUME NotifyIInv, [MqNext]_mqVars PROVE NotifyIInv'
  OBVIOUS
<1>1. ASSUME UNCHANGED mqNotify, bound \subseteq bound', bound' \subseteq Handles PROVE NotifyIInv'
  BY ZenonT(60), <1>1, NotifyKept DEF mqNotify, NotifyIInv, NotifyFcns
<1>2. ASSUME NEW h \in Handles, MqOpenOrCreate(h) PROVE NotifyIInv'
  <2>1. UNCHANGED mqNotify /\ bound' = bound \cup {h}
    BY ZenonT(60), <1>2 DEF MqOpenOrCreate, MqCreate, MqAttach
  <2> QED BY ZenonT(60), <1>1, <2>1 DEF NotifyIInv, NotifyFcns
<1>3. ASSUME NEW h \in Handles, MqClose(h) PROVE NotifyIInv'
  <2>1. /\ nfn' = [nfn EXCEPT ![h] = NoFn] \/ nfn' = nfn
        /\ nwanted' = [nwanted EXCEPT ![h] = NoFn]
        /\ armed' = armed \ {h} /\ nref' = [nref EXCEPT ![h] = @ - DropsRef(h)]
        /\ UNCHANGED <<bound, nstate, nobj, ncall>>
    BY ZenonT(60), <1>3 DEF MqClose, Disarmed
  <2> QED BY ZenonT(60), <2>1, ArmStep
<1>4. ASSUME UNCHANGED <<mqNotify, bound>> PROVE NotifyIInv'
  BY <1>1, <1>4 DEF NotifyIInv, NotifyFcns
<1>5. CASE MqUnlink \/ UNCHANGED mqVars
  BY ZenonT(60), <1>4, <1>5 DEF MqUnlink, mqVars, mqOnly, objectVars, handleVars
<1>6. ASSUME NEW t \in Threads,
             MqPut(t) \/ MqGet(t) \/ MqReceived(t) \/ MqGiveUp(t) \/ MqPutReturn(t) \/ MqGetReturn(t)
      PROVE  NotifyIInv'
  BY ZenonT(60), <1>4, <1>6 DEF MqPut, MqGet, MqEnter, MqReceived, MqGiveUp, MqPutReturn, MqGetReturn, MqLeave,
                    mqOnly, handleVars
<1>7. ASSUME NEW t \in Threads, MqSent(t) PROVE NotifyIInv'
  <2>1. UNCHANGED <<armed, nfn, nref, nwanted, ncall, bound>>
    BY ZenonT(60), <1>7 DEF MqSent, handleVars
  <2>2. /\ nstate' = [n \in Notifiers |-> nstate'[n]] /\ nobj' = [n \in Notifiers |-> nobj'[n]]
        /\ \A n \in Notifiers : /\ nstate'[n] = "call" <=> nstate[n] = "call"
                                /\ nstate[n] = "call" => nobj'[n] = nobj[n]
    <3> DEFINE free == {n \in Notifiers : nstate[n] = "none"}
    <3>1. PICK m, g : m = (CHOOSE x \in free : TRUE) /\ g = nreg[tmq[t]][1]
      BY SMTT(60)
    <3>2. \/ UNCHANGED <<nstate, nobj>>
          \/ m \in free /\ nstate' = [nstate EXCEPT ![m] = "start"] /\ nobj' = [nobj EXCEPT ![m] = g]
      BY ZenonT(60), <1>7, <3>1 DEF MqSent
    <3> QED BY ZenonT(60), <3>2 DEF NotifyIInv, NotifyFcns
  <2> QED BY ZenonT(60), <2>1, <2>2, NotifyKept DEF NotifyIInv, NotifyFcns
<1>8. ASSUME NEW n \in Notifiers, NotifyStale(n) PROVE NotifyIInv'
  <2>1. UNCHANGED <<armed, nfn, nref, nwanted, bound>> /\ NotifierEnds(n) /\ nstate[n] = "stale"
    BY <1>8 DEF NotifyStale, objectVars, handleVars
  <2>2. /\ nstate' = [m \in Notifiers |-> nstate'[m]] /\ nobj' = [m \in Notifiers |-> nobj'[m]]
        /\ ncall' = [m \in Notifiers |-> ncall'[m]]
        /\ \A m \in Notifiers : /\ nstate'[m] = "call" <=> nstate[m] = "call"
                                /\ nstate[m] = "call" => nobj'[m] = nobj[m]
    BY ZenonT(60), <2>1 DEF NotifierEnds, NotifyIInv, NotifyFcns
  <2> QED BY ZenonT(60), <2>1, <2>2, NotifyKept DEF NotifyIInv, NotifyFcns
<1> QED BY ZenonT(60), <1>2, <1>3, <1>5, <1>6, <1>7, <1>8, RequestSteps, EndSteps, StartStep, CallEndStep
        DEF MqNext

-----------------------------------------------------------------------------

(* No queue is open, no message sent and no callback wanted. *)
LEMMA MqStart == RegionInit(Threads) /\ MqInit => MessageIInv /\ NotifyIInv
<1> SUFFICES ASSUME RegionInit(Threads), MqInit PROVE MessageIInv /\ NotifyIInv
  OBVIOUS
<1>1. MessageIInv
  BY ZenonT(60) DEF RegionInit, MqInit, MessageIInv, MessageFcns, InHand, OnePutter, Putting, PutIsTrue
<1>2. \A h : Calling(h) = {}
  BY ZenonT(60) DEF MqInit, Calling
<1>3. RefsCounted
  BY SMTT(60), <1>2, FS_EmptySet DEF MqInit, RefsCounted, DropsRef
<1>4. NotifyFcns /\ ArmedIsWanted /\ CallbackKeepsObject
  BY DEF RegionInit, MqInit, NotifyFcns, ArmedIsWanted, CallbackKeepsObject
<1> QED BY ZenonT(60), <1>1, <1>3, <1>4 DEF NotifyIInv

(* A message that put() answered True is in a queue, in a receiver's       *)
(* hands, received, or lost with its queue or receiver, and one it refused *)
(* was never sent, whatever was closed, killed or created again meanwhile. *)
THEOREM PutAnswersRight == MqSpec => []PutIsTrue
<1>1. MessageIInv => PutIsTrue
  BY DEF MessageIInv
<1> QED BY <1>1, MqStart, MessageStep, PTL DEF MqSpec

(* The object of a running callback is alive until the callback returns.   *)
THEOREM CallbackObjectLives == MqSpec => []CallbackKeepsObject
<1>1. NotifyIInv => CallbackKeepsObject
  BY DEF NotifyIInv
<1> QED BY <1>1, MqStart, NotifyStep, PTL DEF MqSpec

(* A callback that starts is the last one asked for, and has not been      *)
(* cancelled, replaced or run before.                                      *)
THEOREM CallbackIsWanted == MqSpec => CalledIsWanted
<1> DEFINE Wanted == \A n \in Notifiers :
             nstate[n] # "call" /\ nstate'[n] = "call" => nwanted[nobj[n]] = ncall'[n]
<1>1. ASSUME NotifyIInv, MqNext PROVE Wanted
  <2> SUFFICES ASSUME NEW n \in Notifiers, nstate[n] # "call", nstate'[n] = "call"
               PROVE  nwanted[nobj[n]] = ncall'[n]
    OBVIOUS
  <2>1. ASSUME NEW m \in Notifiers, NotifyStart(m) PROVE nwanted[nobj[n]] = ncall'[n]
    <3>1. /\ nobj[m] \in armed /\ nstate' = [nstate EXCEPT ![m] = "call"]
          /\ ncall' = [ncall EXCEPT ![m] = nfn[nobj[m]]]
      BY ZenonT(60), <1>1, <2>1 DEF NotifyStart, NotifierEnds, NotifyIInv, NotifyFcns
    <3>2. n = m
      BY ZenonT(60), <1>1, <3>1 DEF NotifyIInv, NotifyFcns
    <3> QED BY ZenonT(60), <1>1, <3>1, <3>2 DEF NotifyIInv, NotifyFcns, ArmedIsWanted
  <2>2. ASSUME NEW t \in Threads, MqSent(t) PROVE FALSE
    <3> DEFINE free == {x \in Notifiers : nstate[x] = "none"}
    <3>1. PICK m : m = CHOOSE x \in free : TRUE
      BY ZenonT(60)
    <3>2. nstate' = nstate \/ nstate' = [nstate EXCEPT ![m] = "start"]
      BY ZenonT(60), <2>2, <3>1 DEF MqSent
    <3> QED BY ZenonT(60), <1>1, <3>2 DEF NotifyIInv, NotifyFcns
  <2>3. ASSUME NEW h \in Handles, MqDealloc(h) \/ MqDies(h) PROVE FALSE
    BY ZenonT(60), <2>3 DEF MqDealloc, MqDies
  <2>4. ASSUME NEW m \in Notifiers, NotifyEnd(m) \/ NotifyStale(m) PROVE FALSE
    BY ZenonT(60), <1>1, <2>4 DEF NotifyEnd, NotifyStale, NotifierEnds, NotifyIInv, NotifyFcns
  <2>5. ASSUME nstate' = nstate PROVE FALSE
    BY ZenonT(60), <2>5
  <2>6. ASSUME NEW h \in Handles, MqOpenOrCreate(h) \/ MqClose(h) PROVE FALSE
    BY ZenonT(60), <2>5, <2>6 DEF MqOpenOrCreate, MqCreate, MqAttach, MqClose, mqNotify
  <2>7. ASSUME NEW t \in Threads,
               \/ MqPut(t) \/ MqGet(t) \/ MqReceived(t) \/ MqGiveUp(t) \/ MqPutReturn(t) \/ MqGetReturn(t)
               \/ MqCancel(t) \/ MqSignal(t) \/ \E c \in Callbacks : MqRequest(t, c)
        PROVE  FALSE
    BY ZenonT(60), <2>5, <2>7 DEF MqPut, MqGet, MqEnter, MqReceived, MqGiveUp, MqPutReturn, MqGetReturn, MqLeave,
                      MqCancel, MqSignal, MqRequest, mqOnly, mqNotify
  <2>8. ~MqUnlink
    BY ZenonT(60), <2>5 DEF MqUnlink, mqNotify
  <2> QED BY ZenonT(60), <1>1, <2>1, <2>2, <2>3, <2>4, <2>6, <2>7, <2>8 DEF MqNext
<1>2. NotifyIInv /\ [MqNext]_mqVars => [Wanted]_mqVars
  BY ZenonT(60), <1>1
<1> QED BY <1>2, MqStart, NotifyStep, PTL DEF MqSpec, CalledIsWanted

=============================================================================
