----------------------------- MODULE RingProofs -----------------------------
(***************************************************************************)
(* Lemmas about the stores of Ring, one per store: from which shape of the *)
(* ring to which shape it leads.  The shapes between two stores of one     *)
(* operation are named after the last store made.                          *)
(***************************************************************************)
EXTENDS Ring, Sequences, FiniteSetTheorems, WellFoundedInduction, TLAPS

PutReserved ==
    /\ count < Depth
    /\ tail = Plus(head, count)
    /\ \A i \in Slots : state[i] = IF i = tail THEN "RESERVED_PUT"
                                   ELSE IF InRun(i, head, count) THEN "READY" ELSE "EMPTY"

Published ==
    /\ count < Depth
    /\ tail = Plus(head, count)
    /\ RunReady(head, count + 1)

TailAdvanced ==
    /\ count < Depth
    /\ tail = Plus(head, count + 1)
    /\ RunReady(head, count + 1)

GetReserved ==
    /\ count > 0
    /\ tail = Plus(head, count)
    /\ \A i \in Slots : state[i] = IF i = head THEN "RESERVED_GET"
                                   ELSE IF InRun(i, head, count) THEN "READY" ELSE "EMPTY"

Released ==
    /\ count > 0
    /\ tail = Plus(head, count)
    /\ RunReady(Plus(head, 1), count - 1)

HeadAdvanced ==
    /\ count > 0
    /\ tail = Plus(head, count - 1)
    /\ RunReady(head, count - 1)

(* What a crash may leave: the items that survive are one run of slots     *)
(* that starts at head, or just behind it if a get was killed before it    *)
(* could advance head.                                                     *)
Recoverable ==
    \E h \in Slots, n \in 0 .. Depth :
       /\ \A i \in Slots : Occupied(i) <=> InRun(i, h, n)
       /\ h = head \/ (h = Plus(head, 1) /\ n < Depth)

(* The shapes speak of head, tail, count and the slot headers only.        *)
LEMMA SameShape ==
    ASSUME UNCHANGED <<head, tail, count, state>>
    PROVE  /\ Settled' = Settled
           /\ PutReserved' = PutReserved
           /\ Published' = Published
           /\ TailAdvanced' = TailAdvanced
           /\ GetReserved' = GetReserved
           /\ Released' = Released
           /\ HeadAdvanced' = HeadAdvanced
           /\ Recoverable' = Recoverable
BY DEF Settled, PutReserved, Published, TailAdvanced, GetReserved, Released, HeadAdvanced,
       Recoverable, RunReady, Occupied

-----------------------------------------------------------------------------
(* Arithmetic modulo Depth. *)

(* (h + n) % depth, as posixipc_queue.c computes it, is Plus(h, n).        *)
LEMMA ModIsPlus ==
    ASSUME NEW h \in Slots, NEW n \in 0 .. Depth
    PROVE  (h + n) % Depth = Plus(h, n)
BY DepthAssumption, SMT DEF Slots, Plus

(* Counting on from a slot leads to a slot.                                *)
LEMMA PlusType ==
    ASSUME NEW h \in Slots, NEW n \in 0 .. Depth
    PROVE  Plus(h, n) \in Slots
BY DepthAssumption, SMT DEF Slots, Plus

(* (idx + 1) % depth is a slot, the one that follows idx.                  *)
LEMMA NextSlotIsPlus ==
    ASSUME NEW h \in Slots
    PROVE  NextSlot(h) = Plus(h, 1) /\ NextSlot(h) \in Slots
BY DepthAssumption, ModIsPlus, SMT DEF Slots, Plus, NextSlot

-----------------------------------------------------------------------------
(* posixipc_queue_put. *)

(* Reserving the tail slot of a resting ring leaves the items alone: the   *)
(* slot put is about to overwrite holds none.                              *)
LEMMA PutReserveShape ==
    ASSUME RingTypeOK, Settled, PutReserve
    PROVE  PutReserved'
BY DepthAssumption, SMT
   DEF RingTypeOK, Slots, Settled, RunReady, PutReserve, SetState, PutReserved, InRun, Plus

(* Publishing the reserved slot makes the run one slot longer.             *)
LEMMA PutPublishShape ==
    ASSUME RingTypeOK, PutReserved, PutPublish
    PROVE  Published'
BY DepthAssumption, SMT
   DEF RingTypeOK, Slots, PutReserved, RunReady, PutPublish, SetState, Published, InRun, Plus

(* tail = (idx + 1) % depth points behind the longer run.                  *)
LEMMA PutAdvanceShape ==
    ASSUME RingTypeOK, Published, PutAdvance
    PROVE  TailAdvanced'
<1>1. tail' = Plus(tail, 1)
    BY NextSlotIsPlus DEF RingTypeOK, PutAdvance
<1> QED
    BY <1>1, DepthAssumption, SMT
       DEF RingTypeOK, Slots, Published, RunReady, PutAdvance, TailAdvanced, InRun, Plus

(* count += 1 brings the ring back to rest.                                *)
LEMMA PutCountShape ==
    ASSUME RingTypeOK, TailAdvanced, PutCount
    PROVE  Settled'
BY DepthAssumption, SMT
   DEF RingTypeOK, Slots, TailAdvanced, RunReady, PutCount, Settled, InRun, Plus

-----------------------------------------------------------------------------
(* posixipc_queue_get. *)

(* In a resting ring that is not empty the head slot is READY, so get does *)
(* not answer EINVAL.                                                      *)
LEMMA SettledGetFindsItem ==
    ASSUME RingTypeOK, Settled
    PROVE  ~GetBad
BY DepthAssumption, SMT DEF RingTypeOK, Slots, Settled, RunReady, GetBad, InRun

(* Claiming the head slot keeps its item in place.                         *)
LEMMA GetReserveShape ==
    ASSUME RingTypeOK, Settled, GetReserve
    PROVE  GetReserved'
BY DepthAssumption, SMT
   DEF RingTypeOK, Slots, Settled, RunReady, GetReserve, SetState, GetReserved, InRun, Plus

(* Releasing the head slot makes the run start one slot later.             *)
LEMMA GetReleaseShape ==
    ASSUME RingTypeOK, GetReserved, GetRelease
    PROVE  Released'
BY DepthAssumption, SMT
   DEF RingTypeOK, Slots, GetReserved, RunReady, GetRelease, SetState, Released, InRun, Plus

(* head = (idx + 1) % depth points at the shorter run.                     *)
LEMMA GetAdvanceShape ==
    ASSUME RingTypeOK, Released, GetAdvance
    PROVE  HeadAdvanced'
<1>1. head' = Plus(head, 1)
    BY NextSlotIsPlus DEF RingTypeOK, GetAdvance
<1> QED
    BY <1>1, DepthAssumption, SMT
       DEF RingTypeOK, Slots, Released, RunReady, GetAdvance, HeadAdvanced, InRun, Plus

(* count -= 1 brings the ring back to rest.                                *)
LEMMA GetCountShape ==
    ASSUME RingTypeOK, HeadAdvanced, GetCount
    PROVE  Settled'
BY DepthAssumption, SMT
   DEF RingTypeOK, Slots, HeadAdvanced, RunReady, GetCount, Settled, InRun, Plus

-----------------------------------------------------------------------------
(* posixipc_queue_recover.  Whatever store the dead owner made last, the   *)
(* surviving items are one run.                                            *)

(* Killed at rest, or between the stores of a put.                         *)
LEMMA PutCrashShape ==
    ASSUME RingTypeOK, Settled \/ PutReserved \/ Published \/ TailAdvanced
    PROVE  Recoverable
<1>1. CASE Settled
    <2>1. \A i \in Slots : Occupied(i) <=> InRun(i, head, count)
        BY <1>1 DEF Settled, RunReady, Occupied
    <2> QED BY <2>1 DEF Recoverable, RingTypeOK
<1>2. CASE PutReserved
    <2>1. \A i \in Slots : Occupied(i) <=> InRun(i, head, count)
        BY <1>2, DepthAssumption, SMT
           DEF PutReserved, Occupied, RingTypeOK, Slots, InRun, Plus
    <2> QED BY <2>1 DEF Recoverable, RingTypeOK
<1>3. CASE Published \/ TailAdvanced
    <2>1. \A i \in Slots : Occupied(i) <=> InRun(i, head, count + 1)
        BY <1>3 DEF Published, TailAdvanced, RunReady, Occupied
    <2>2. count + 1 \in 0 .. Depth
        BY <1>3, DepthAssumption DEF Published, TailAdvanced, RingTypeOK
    <2> QED BY <2>1, <2>2 DEF Recoverable, RingTypeOK
<1> QED BY <1>1, <1>2, <1>3

(* Killed between the stores of a get.                                     *)
LEMMA GetCrashShape ==
    ASSUME RingTypeOK, GetReserved \/ Released \/ HeadAdvanced
    PROVE  Recoverable
<1>1. CASE GetReserved
    <2>1. \A i \in Slots : Occupied(i) <=> InRun(i, head, count)
        BY <1>1, DepthAssumption, SMT
           DEF GetReserved, Occupied, RingTypeOK, Slots, InRun
    <2> QED BY <2>1 DEF Recoverable, RingTypeOK
<1>2. CASE Released
    <2>1. \A i \in Slots : Occupied(i) <=> InRun(i, Plus(head, 1), count - 1)
        BY <1>2 DEF Released, RunReady, Occupied
    <2>2. count - 1 \in 0 .. Depth /\ count - 1 < Depth /\ Plus(head, 1) \in Slots
        BY <1>2, DepthAssumption DEF Released, RingTypeOK, Slots, Plus
    <2> QED BY <2>1, <2>2 DEF Recoverable
<1>3. CASE HeadAdvanced
    <2>1. \A i \in Slots : Occupied(i) <=> InRun(i, head, count - 1)
        BY <1>3 DEF HeadAdvanced, RunReady, Occupied
    <2>2. count - 1 \in 0 .. Depth
        BY <1>3, DepthAssumption DEF HeadAdvanced, RingTypeOK
    <2> QED BY <2>1, <2>2 DEF Recoverable, RingTypeOK
<1> QED BY <1>1, <1>2, <1>3

(* A store of the header pass keeps the same items.                        *)
LEMMA RecoverSlotShape ==
    ASSUME RingTypeOK, Recoverable, NEW k \in Slots, RecoverSlot(k)
    PROVE  Recoverable'
<1>1. \A i \in Slots : Occupied(i)' <=> Occupied(i)
    BY DEF RingTypeOK, RecoverSlot, SetState, RecoveredState, Occupied
<1>2. head' = head
    BY DEF RecoverSlot
<1> QED BY <1>1, <1>2 DEF Recoverable

(* A run of n slots has n slots.                                           *)
LEMMA RunSize ==
    ASSUME NEW h \in Slots, NEW n \in 0 .. Depth
    PROVE  Cardinality({i \in Slots : InRun(i, h, n)}) = n
<1>1. CASE h + n <= Depth
    <2>1. {i \in Slots : InRun(i, h, n)} = h .. h + n - 1
        BY <1>1, DepthAssumption DEF InRun, Slots
    <2>2. CASE n = 0
        <3>1. {i \in Slots : InRun(i, h, n)} = {}
            BY <2>2, DepthAssumption DEF InRun, Slots
        <3> QED BY <3>1, <2>2, FS_EmptySet
    <2>3. CASE n > 0
        <3>1. Cardinality(h .. h + n - 1) = (h + n - 1) - h + 1
            BY <2>3, FS_Interval, DepthAssumption DEF Slots
        <3>2. (h + n - 1) - h + 1 = n
            BY DepthAssumption DEF Slots
        <3> QED BY ZenonT(60), <2>1, <3>1, <3>2
    <2> QED BY <2>2, <2>3
<1>2. CASE h + n > Depth
    <2> DEFINE U == h .. Depth - 1
               V == 0 .. h + n - Depth - 1
    <2>1. /\ {i \in Slots : InRun(i, h, n)} = U \cup V
          /\ U \cap V = {}
        BY <1>2, DepthAssumption DEF InRun, Slots
    <2>2. /\ IsFiniteSet(U) /\ Cardinality(U) = (Depth - 1) - h + 1
          /\ IsFiniteSet(V) /\ Cardinality(V) = (h + n - Depth - 1) - 0 + 1
        BY <1>2, FS_Interval, DepthAssumption DEF Slots
    <2> HIDE DEF U, V
    <2>3. Cardinality(U \cup V) = Cardinality(U) + Cardinality(V) - Cardinality(U \cap V)
        BY <2>2, FS_Union
    <2>4. Cardinality(U \cap V) = 0
        BY <2>1, FS_EmptySet
    <2> QED BY <2>1, <2>2, <2>3, <2>4, DepthAssumption DEF Slots
<1> QED BY <1>1, <1>2, DepthAssumption DEF Slots

(* Once the pass is over and unless the items are wrapped, they are one    *)
(* interval of slot numbers, and the control word computed from the        *)
(* headers is that interval.                                               *)
LEMMA RecoverCtrlRun ==
    ASSUME RingTypeOK, RecoverCtrl, ~Wrapped,
           \A i \in Slots : state[i] \in {"READY", "EMPTY"},
           NEW h \in Slots, NEW n \in 0 .. Depth,
           \A i \in Slots : Occupied(i) <=> InRun(i, h, n),
           h = head \/ (h = Plus(head, 1) /\ n < Depth)
    PROVE  count' = n /\ head' = (IF n = 0 THEN 0 ELSE h) /\ Settled'
<1>1. \A i \in Slots : i \in ReadySlots <=> InRun(i, h, n)
    BY DEF ReadySlots, Occupied
<1>2. CASE n = 0
    <2>1. ReadySlots = {}
        BY <1>1, <1>2, DepthAssumption DEF ReadySlots, InRun, Slots
    <2>2. count' = 0 /\ head' = 0 /\ tail' = 0 /\ state' = state
        BY <2>1, FS_EmptySet DEF RecoverCtrl
    <2>3. \A i \in Slots : state[i] = "EMPTY"
        BY <2>1 DEF ReadySlots
    <2> QED BY <1>2, <2>2, <2>3, DepthAssumption DEF Settled, RunReady, Plus, InRun, Slots
<1>3. CASE n > 0
    <2>1. h \in Int /\ n \in Int
        BY DEF Slots
    <2>2. h + n <= Depth
        <3> SUFFICES ASSUME h + n > Depth PROVE FALSE
            BY DepthAssumption DEF Slots
        <3>1. Occupied(0) /\ Occupied(h) /\ 0 \in Slots
            BY <1>3, DepthAssumption DEF Slots, InRun
        <3>2. ~(0 < head /\ head <= h)
            BY <3>1 DEF Wrapped
        <3> QED BY <3>2, DepthAssumption DEF Slots, Plus, RingTypeOK
    <2>3. ReadySlots = h .. h + n - 1
        BY <1>1, <1>3, <2>2, DepthAssumption DEF ReadySlots, InRun, Slots
    <2>4. count' = n
        <3>1. Cardinality(h .. h + n - 1) = (h + n - 1) - h + 1
            BY <1>3, FS_Interval, DepthAssumption DEF Slots
        <3> QED BY <2>3, <3>1, DepthAssumption DEF RecoverCtrl, Slots
    <2>5. head' = h
        <3>1. ReadySlots # {} /\ h \in ReadySlots /\ \A j \in ReadySlots : h <= j
            BY <2>3, <1>3, <2>1
        <3>2. PICK m \in ReadySlots : head' = m /\ \A j \in ReadySlots : m <= j
            BY <3>1 DEF RecoverCtrl
        <3> QED BY <3>1, <3>2, <2>3, DepthAssumption DEF Slots
    <2>6. tail' = Plus(h, n)
        <3>1. h \in ReadySlots
            BY <2>3, <1>3, <2>1
        <3>2. tail' = (head' + count') % Depth
            BY <3>1 DEF RecoverCtrl
        <3> QED BY <3>2, <2>4, <2>5, ModIsPlus
    <2>7. state' = state
        BY DEF RecoverCtrl
    <2>8. RunReady(h, n)
        BY <1>1 DEF RunReady, ReadySlots
    <2> QED BY <1>3, <2>4, <2>5, <2>6, <2>7, <2>8 DEF Settled, RunReady
<1> QED BY <1>2, <1>3, DepthAssumption

(* So it brings the ring back to rest.                                     *)
LEMMA RecoverCtrlShape ==
    ASSUME RingTypeOK, Recoverable, RecoverCtrl, ~Wrapped,
           \A i \in Slots : state[i] \in {"READY", "EMPTY"}
    PROVE  Settled'
<1>1. PICK h \in Slots, n \in 0 .. Depth :
          /\ \A i \in Slots : Occupied(i) <=> InRun(i, h, n)
          /\ h = head \/ (h = Plus(head, 1) /\ n < Depth)
    BY DEF Recoverable
<1> QED BY <1>1, RecoverCtrlRun

(* The control word recovery computes is within bounds on any headers.     *)
LEMMA RecoverCtrlType ==
    ASSUME RingTypeOK, RecoverCtrl
    PROVE  RingTypeOK'
<1>1. IsFiniteSet(Slots) /\ Cardinality(Slots) = Depth
    BY FS_Interval, DepthAssumption DEF Slots
<1>2. count' \in 0 .. Depth
    <2>1. ReadySlots \subseteq Slots
        BY DEF ReadySlots
    <2>2. /\ IsFiniteSet(ReadySlots)
          /\ Cardinality(ReadySlots) \in Nat
          /\ Cardinality(ReadySlots) <= Depth
        BY <1>1, <2>1, FS_Subset, FS_CardinalityType
    <2> QED BY <2>2, DepthAssumption DEF RecoverCtrl
<1>3. head' \in Slots /\ tail' \in Slots
    <2>1. CASE ReadySlots = {}
        BY <2>1, DepthAssumption DEF RecoverCtrl, Slots
    <2>2. CASE ReadySlots # {}
        <3>1. ReadySlots \in SUBSET Int /\ \A i \in ReadySlots : i >= 0
            BY DepthAssumption DEF ReadySlots, Slots
        <3>2. \E i \in ReadySlots : \A j \in ReadySlots : i <= j
            <4> DEFINE Less == {ss \in Nat \X Nat : ss[1] < ss[2]}
            <4>1. IsWellFoundedOn(Less, Nat)
                BY NatLessThanWellFounded, Zenon DEF OpToRel
            <4>2. ReadySlots \subseteq Nat
                BY <3>1
            <4>3. \A x, y \in Nat : x < y => <<x, y>> \in Less
                OBVIOUS
            <4> HIDE DEF Less
            <4>4. PICK m \in ReadySlots : \A j \in ReadySlots : ~(<<j, m>> \in Less)
                BY ZenonT(60), <2>2, <4>1, <4>2, WFMin
            <4>5. \A j \in ReadySlots : m <= j
                <5> TAKE j \in ReadySlots
                <5>1. j \in Nat /\ m \in Nat
                    BY <4>2
                <5>2. ~(j < m)
                    BY ZenonT(60), <5>1, <4>3, <4>4
                <5> QED BY <5>1, <5>2
            <4> QED BY <4>5
        <3>3. head' \in Slots
            BY <2>2, <3>2 DEF RecoverCtrl, ReadySlots
        <3>4. tail' = Plus(head', count')
            BY <2>2, <1>2, <3>3, ModIsPlus DEF RecoverCtrl
        <3> QED BY <3>3, <3>4, <1>2, PlusType
    <2> QED BY <2>1, <2>2
<1> QED BY <1>2, <1>3 DEF RingTypeOK, RecoverCtrl

-----------------------------------------------------------------------------
(* The items of a ring in order.  They are read off head, the headers and  *)
(* the payloads; as operators of these three they can be compared before   *)
(* and after a step.                                                       *)

Holds(st, i) == st[i] \in {"READY", "RESERVED_GET"}

ContentsOf(hd, st, pl) ==
    LET first == IF Holds(st, hd) THEN hd ELSE NextSlot(hd)
    IN  [k \in 1 .. Cardinality({i \in Slots : Holds(st, i)}) |-> pl[Plus(first, k - 1)]]

(* The occupied slots are the n slots from h on, and h is where a reader   *)
(* that knows head finds them.                                             *)
IsRun(hd, st, h, n) ==
    /\ hd \in Slots /\ h \in Slots /\ n \in 0 .. Depth
    /\ \A i \in Slots : Holds(st, i) <=> InRun(i, h, n)
    /\ h = hd \/ (h = Plus(hd, 1) /\ n < Depth)

RunItems(pl, h, n) == [k \in 1 .. n |-> pl[Plus(h, k - 1)]]

(* The slot a put works on is not among the occupied ones.                 *)
LEMMA RunAvoidsTail ==
    ASSUME RingTypeOK, PutReserved
    PROVE  \A k \in 1 .. count : Plus(head, k - 1) \in Slots /\ Plus(head, k - 1) # tail
BY DepthAssumption DEF PutReserved, Plus, RingTypeOK, Slots

(* The contents of a run of slots are its payloads, in order.              *)
LEMMA ContentsOfRun ==
    ASSUME NEW hd, NEW st, NEW pl, NEW h, NEW n, IsRun(hd, st, h, n)
    PROVE  ContentsOf(hd, st, pl) = RunItems(pl, h, n)
<1>1. Cardinality({i \in Slots : Holds(st, i)}) = n
    <2>1. {i \in Slots : Holds(st, i)} = {i \in Slots : InRun(i, h, n)}
        BY DEF IsRun
    <2> QED BY <2>1, RunSize DEF IsRun
<1>2. CASE n = 0
    <2>1. 1 .. n = {}
        BY <1>2
    <2> QED BY <1>1, <2>1 DEF ContentsOf, RunItems
<1>3. CASE n # 0
    <2>1. h = hd => Holds(st, hd)
        BY <1>3 DEF IsRun, InRun, Slots
    <2>2. h # hd => ~Holds(st, hd) /\ h = NextSlot(hd)
        <3> SUFFICES ASSUME h # hd PROVE ~Holds(st, hd) /\ h = NextSlot(hd)
            OBVIOUS
        <3>1. ~InRun(hd, h, n)
            BY DepthAssumption DEF IsRun, InRun, Slots, Plus
        <3> QED BY <3>1, NextSlotIsPlus DEF IsRun
    <2>3. (IF Holds(st, hd) THEN hd ELSE NextSlot(hd)) = h
        BY <2>1, <2>2
    <2> QED BY <1>1, <2>3 DEF ContentsOf, RunItems
<1> QED BY <1>2, <1>3

(* The run of occupied slots in each shape of the ring.                    *)
LEMMA ShapeRuns ==
    RingTypeOK =>
       /\ Settled \/ PutReserved \/ GetReserved => IsRun(head, state, head, count)
       /\ Published \/ TailAdvanced => IsRun(head, state, head, count + 1)
       /\ Released => IsRun(head, state, Plus(head, 1), count - 1)
       /\ HeadAdvanced => IsRun(head, state, head, count - 1)
<1> SUFFICES ASSUME RingTypeOK
             PROVE  /\ Settled \/ PutReserved \/ GetReserved => IsRun(head, state, head, count)
                    /\ Published \/ TailAdvanced => IsRun(head, state, head, count + 1)
                    /\ Released => IsRun(head, state, Plus(head, 1), count - 1)
                    /\ HeadAdvanced => IsRun(head, state, head, count - 1)
    OBVIOUS
<1> USE DEF IsRun, Holds, RingTypeOK
<1>1. Settled => IsRun(head, state, head, count)
    BY DEF Settled, RunReady
<1>2. PutReserved => IsRun(head, state, head, count)
    BY DepthAssumption DEF PutReserved, Slots, InRun, Plus
<1>3. GetReserved => IsRun(head, state, head, count)
    BY DepthAssumption DEF GetReserved, Slots, InRun
<1>4. Published \/ TailAdvanced => IsRun(head, state, head, count + 1)
    BY DepthAssumption DEF Published, TailAdvanced, RunReady
<1>5. Released => IsRun(head, state, Plus(head, 1), count - 1)
    <2>1. Released => count - 1 \in 0 .. Depth /\ count - 1 < Depth /\ Plus(head, 1) \in Slots
        BY DepthAssumption DEF Released, Slots, Plus
    <2> QED BY <2>1 DEF Released, RunReady
<1>6. HeadAdvanced => IsRun(head, state, head, count - 1)
    BY DepthAssumption DEF HeadAdvanced, RunReady
<1> QED BY <1>1, <1>2, <1>3, <1>4, <1>5, <1>6

(* The same after a step.                                                  *)
LEMMA ShapeRunsNext ==
    ASSUME RingTypeOK'
    PROVE  /\ Settled' \/ PutReserved' \/ GetReserved' => IsRun(head', state', head', count')
           /\ Published' \/ TailAdvanced' => IsRun(head', state', head', count' + 1)
           /\ Released' => IsRun(head', state', Plus(head', 1), count' - 1)
           /\ HeadAdvanced' => IsRun(head', state', head', count' - 1)
<1>1. (RingTypeOK =>
          /\ Settled \/ PutReserved \/ GetReserved => IsRun(head, state, head, count)
          /\ Published \/ TailAdvanced => IsRun(head, state, head, count + 1)
          /\ Released => IsRun(head, state, Plus(head, 1), count - 1)
          /\ HeadAdvanced => IsRun(head, state, head, count - 1))'
    BY ShapeRuns, PTL
<1> QED BY <1>1 DEF IsRun, Holds

(* A function on 1 .. n is a sequence of length n.                         *)
LEMMA FunctionIsSeq ==
    ASSUME NEW S, NEW n \in Nat, NEW s \in [1 .. n -> S]
    PROVE  s \in Seq(S) /\ Len(s) = n
OBVIOUS

(* A sequence is a function on 1 .. Len.                                   *)
LEMMA SeqIsFunction ==
    ASSUME NEW S, NEW s \in Seq(S)
    PROVE  s \in [1 .. Len(s) -> S]
OBVIOUS

(* Functions that agree everywhere are equal.                              *)
LEMMA SameFunction ==
    ASSUME NEW S, NEW D, NEW f \in [D -> S], NEW g \in [D -> S], \A k \in D : f[k] = g[k]
    PROVE  f = g
OBVIOUS

(* A run that grows by one slot at its end appends one item.               *)
LEMMA RunAppend ==
    ASSUME NEW S, NEW pl \in [Slots -> S], NEW h \in Slots, NEW n \in 0 .. Depth, n < Depth
    PROVE  /\ Len(RunItems(pl, h, n)) = n
           /\ RunItems(pl, h, n + 1) = Append(RunItems(pl, h, n), pl[Plus(h, n)])
<1> DEFINE s == RunItems(pl, h, n)
           t == RunItems(pl, h, n + 1)
           x == pl[Plus(h, n)]
<1>1. \A k \in 1 .. n + 1 : Plus(h, k - 1) \in Slots
    BY DepthAssumption DEF Slots, Plus
<1>2. /\ s \in [1 .. n -> S]
      /\ t \in [1 .. n + 1 -> S]
      /\ x \in S
    BY <1>1, PlusType DEF RunItems
<1>3. /\ \A k \in 1 .. n : t[k] = s[k]
      /\ t[n + 1] = x
    BY DEF RunItems
<1> HIDE DEF s, t, x
<1>4. s \in Seq(S) /\ Len(s) = n
    BY <1>2, FunctionIsSeq
<1>5. Append(s, x) \in Seq(S) /\ Len(Append(s, x)) = n + 1
    BY <1>2, <1>4
<1>6. Append(s, x) \in [1 .. n + 1 -> S]
    BY ZenonT(60), <1>5, SeqIsFunction
<1>7. \A k \in 1 .. n + 1 : t[k] = Append(s, x)[k]
    BY <1>2, <1>3, <1>4
<1>8. t = Append(s, x)
    BY <1>2, <1>6, <1>7, SameFunction
<1> QED BY <1>4, <1>8 DEF s, t, x

(* A run that loses its first slot loses its first item.                   *)
LEMMA RunTail ==
    ASSUME NEW S, NEW pl \in [Slots -> S], NEW h \in Slots, NEW n \in 0 .. Depth, n > 0
    PROVE  /\ RunItems(pl, h, n) # << >>
           /\ Head(RunItems(pl, h, n)) = pl[h]
           /\ RunItems(pl, Plus(h, 1), n - 1) = Tail(RunItems(pl, h, n))
<1> DEFINE s == RunItems(pl, h, n)
           t == RunItems(pl, Plus(h, 1), n - 1)
<1>1. /\ \A k \in 1 .. n : Plus(h, k - 1) \in Slots
      /\ \A k \in 1 .. n - 1 : Plus(Plus(h, 1), k - 1) = Plus(h, (k + 1) - 1)
      /\ Plus(h, 1 - 1) = h
    BY DepthAssumption DEF Slots, Plus
<1>2. /\ s \in [1 .. n -> S]
      /\ t \in [1 .. n - 1 -> S]
      /\ \A k \in 1 .. n - 1 : t[k] = s[k + 1]
      /\ s[1] = pl[h]
    BY <1>1 DEF RunItems
<1> HIDE DEF s, t
<1>3. s \in Seq(S) /\ Len(s) = n /\ s # << >> /\ Head(s) = pl[h]
    BY <1>2, FunctionIsSeq
<1>4. Tail(s) \in Seq(S) /\ Len(Tail(s)) = n - 1
    BY <1>3
<1>5. Tail(s) \in [1 .. n - 1 -> S]
    BY ZenonT(60), <1>4, SeqIsFunction
<1>6. \A k \in 1 .. n - 1 : t[k] = Tail(s)[k]
    BY <1>2, <1>3
<1>7. t = Tail(s)
    BY <1>2, <1>5, <1>6, SameFunction
<1> QED BY <1>3, <1>7 DEF s, t

-----------------------------------------------------------------------------
(* Counting. *)

(* More of them are still enough.                                          *)
LEMMA EnoughMore ==
    ASSUME NEW A, NEW B, IsFiniteSet(B), A \subseteq B, NEW n \in Int, NEW k \in Int,
           Cardinality(A) >= n, k <= n
    PROVE  Cardinality(B) >= k
<1>1. /\ IsFiniteSet(A)
      /\ Cardinality(A) <= Cardinality(B)
    BY FS_Subset
<1>2. Cardinality(A) \in Nat /\ Cardinality(B) \in Nat
    BY <1>1, FS_CardinalityType
<1> QED BY <1>1, <1>2

(* One joins.                                                              *)
LEMMA EnoughAdd ==
    ASSUME NEW A, IsFiniteSet(A), NEW x, x \notin A, NEW n \in Int, Cardinality(A) >= n
    PROVE  Cardinality(A \cup {x}) >= n + 1
<1>1. Cardinality(A \cup {x}) = Cardinality(A) + 1
    BY FS_AddElement
<1>2. Cardinality(A) \in Nat
    BY FS_CardinalityType
<1> QED BY <1>1, <1>2

(* One leaves.                                                             *)
LEMMA EnoughRemove ==
    ASSUME NEW A, IsFiniteSet(A), NEW x, x \in A, NEW n \in Int, Cardinality(A) >= n
    PROVE  Cardinality(A \ {x}) >= n - 1
<1>1. Cardinality(A \ {x}) = Cardinality(A) - 1
    BY FS_RemoveElement
<1>2. Cardinality(A) \in Nat
    BY FS_CardinalityType
<1> QED BY <1>1, <1>2
=============================================================================
