---------------------------- MODULE FormatProofs ----------------------------
(***************************************************************************)
(* Pure functions, for every argument: the layout of a segment and the     *)
(* sizes that are computed for it, what a pickled handle is rebuilt with,  *)
(* and the clock arithmetic of timeouts.                                   *)
(***************************************************************************)
EXTENDS Pickle, Clock, TLAPS

Types == Kinds \cup {"array", "queue", "futexqueue", "nothing"}

HandleSet == [type : Types, first : Nat, count : Int, offset : Word, size : Word]

(* Where the slots begin: after the header and a directory of n entries. *)
Base(n) == HeaderBytes + n * SlotBytes

Shapes ==
    /\ lslots \in Seq(Slot) /\ Len(lslots) <= SlotMax
    /\ lhandles \in Seq(HandleSet)
    /\ \A k \in 1..Len(lhandles) : lhandles[k].first < Len(lslots)
    /\ lsealed \in BOOLEAN
    /\ li \in 0..Len(lslots) /\ lcursor \in Word
    /\ lcall.adds \in Types /\ lcall.start \in 0..Len(lslots)
    /\ lpc = "build" => \A k \in 1..Len(lhandles) : lhandles[k].first < lcall.start
    /\ lpc = "build" /\ lcall.does = "add" => lcall.start < Len(lslots)
    /\ lpc # "build" => lcall.start = 0 /\ li = 0

(* Where the slot before slot i of a directory ends. *)
EndBefore(slots, i) ==
    IF i = 1 THEN Base(Len(slots)) ELSE slots[i - 1].offset + slots[i - 1].size

(* Slot i is where a build puts it, and a build accepts it. *)
InPlace(slots, i) ==
    /\ slots[i].align # 0 /\ slots[i].size # 0 /\ slots[i].offset # 0
    /\ slots[i].offset = AlignUp(EndBefore(slots, i), slots[i].align)
    /\ slots[i].offset + slots[i].size <= WordMax

(* The first n slots lie between the directory and the cursor, in order. *)
InOrder(slots, n, cursor) ==
    \A i \in 1..n :
      /\ Base(Len(slots)) <= slots[i].offset
      /\ slots[i].offset + slots[i].size <= cursor
      /\ \A j \in 1..n : i < j => slots[i].offset + slots[i].size <= slots[j].offset

Building ==
    lpc = "build" =>
      /\ Base(Len(lslots)) <= lcursor
      /\ lcursor = EndBefore(lslots, li + 1)
      /\ \A i \in 1..li : InPlace(lslots, i)
      /\ InOrder(lslots, li, lcursor)

Sealed ==
    lsealed =>
      /\ \A i \in 1..Len(lslots) : InPlace(lslots, i)
      /\ InOrder(lslots, Len(lslots), WordMax)
      /\ \A k \in 1..Len(lhandles) : lhandles[k].offset = lslots[lhandles[k].first + 1].offset

LayoutIInv == Shapes /\ Building /\ Sealed /\ \A k \in DOMAIN lname : Disjoint(lname[k])

-----------------------------------------------------------------------------

(* slots is a sequence of at most SlotMax slots. *)
LEMMA SlotsShape ==
    ASSUME LayoutIInv
    PROVE  /\ lslots \in Seq(Slot) /\ Len(lslots) \in 0..SlotMax /\ Len(lslots) \in Nat
           /\ DOMAIN lslots = 1..Len(lslots)
BY LayoutAssumption DEF LayoutIInv, Shapes

(* What x % a is worth. *)
LEMMA Remainder == \A x \in Nat, a \in Nat \ {0} : x % a \in Nat /\ x % a < a
OBVIOUS

(* A word is at most WordMax. *)
LEMMA WordBound == \A w \in Word : w <= WordMax
BY LayoutAssumption DEF Word

(* align_up never moves a value back, and stays in a word. *)
LEMMA AlignUpRight ==
    ASSUME NEW v \in Nat, NEW a \in Word
    PROVE  /\ AlignUp(v, a) \in Nat
           /\ v \in Word => AlignUp(v, a) \in Word
           /\ AlignUp(v, a) = 0 \/ v <= AlignUp(v, a)
<1>1. v \in Nat /\ a \in Nat /\ WordMax \in Nat /\ a <= WordMax
  BY LayoutAssumption DEF Word
<1>2. CASE a <= 1
  BY <1>1, <1>2 DEF AlignUp, Word
<1>3. CASE a > 1 /\ PowerOfTwo(a)
  <2>1. CASE v > WordMax - (a - 1)
    BY <1>1, <1>3, <2>1 DEF AlignUp, Word
  <2>2. CASE ~(v > WordMax - (a - 1))
    <3>1. PICK r : r = (v + a - 1) % a
      BY ZenonT(60)
    <3>2. r \in Nat /\ r < a
      BY <1>1, <1>3, <3>1, Remainder
    <3>3. AlignUp(v, a) = (v + a - 1) - r
      BY <1>1, <1>3, <2>2, <3>1 DEF AlignUp
    <3> QED BY <1>1, <1>3, <2>2, <3>2, <3>3 DEF Word
  <2> QED BY <2>1, <2>2
<1>4. CASE a > 1 /\ ~PowerOfTwo(a)
  <2>1. PICK r : r = v % a
    BY ZenonT(60)
  <2>2. r \in Nat /\ r < a
    BY <1>1, <1>4, <2>1, Remainder
  <2>3. AlignUp(v, a) = IF r = 0 THEN v ELSE IF v > WordMax - (a - r) THEN 0 ELSE v + (a - r)
    BY <1>1, <1>4, <2>1 DEF AlignUp
  <2> QED BY <1>1, <1>4, <2>2, <2>3 DEF Word
<1> QED BY <1>1, <1>2, <1>3, <1>4

(* A directory of as many slots as its counter allows fits in a word. *)
LEMMA BaseRight == \A n \in 0..SlotMax : Base(n) \in Word /\ Base(n) >= 1
<1>1. TAKE n \in 0..SlotMax
<1>2. n \in Nat /\ SlotBytes \in Nat /\ HeaderBytes \in Nat /\ HeaderBytes >= 1
  BY LayoutAssumption
<1>3. n * SlotBytes \in Nat
  BY <1>2
<1>4. Base(n) \in Word
  BY ZenonT(60), LayoutAssumption DEF Base
<1>5. Base(n) >= 1
  BY <1>2, <1>3 DEF Base
<1> QED BY <1>4, <1>5

-----------------------------------------------------------------------------

(* What the list of handles is made of. *)
LEMMA HandleShape ==
    ASSUME LayoutIInv
    PROVE  /\ DOMAIN lhandles = 1..Len(lhandles) /\ Len(lhandles) \in Nat
           /\ \A k \in 1..Len(lhandles) : lhandles[k] \in HandleSet /\ lhandles[k].first \in Nat
<1>1. lhandles \in Seq(HandleSet)
  BY DEF LayoutIInv, Shapes
<1>2. \A k \in 1..Len(lhandles) : lhandles[k] \in HandleSet
  BY <1>1
<1>3. \A h \in HandleSet : h.first \in Nat
  BY DEF HandleSet
<1> QED BY <1>1, <1>2, <1>3

(* A call that adds slots, up to the loop of posixipc_layout_build. *)
LEMMA AddsStep ==
    ASSUME LayoutIInv, NEW type \in Types, NEW slots \in Seq(Slot), Len(slots) >= 1,
           Adds(type, slots)
    PROVE  LayoutIInv'
<1> DEFINE all == lslots \o slots
<1>1. /\ ~lsealed /\ lsealed' = lsealed /\ lhandles' = lhandles /\ lname' = lname
      /\ lslots' = all /\ lpc' = "build" /\ li' = 0 /\ lcursor' = Base(Len(all))
      /\ lcall' = [adds |-> type, start |-> Len(lslots), does |-> "add"]
      /\ Len(lslots) + Len(slots) <= SlotMax
  BY DEF Adds, StartBuild, Base
<1>2. lslots \in Seq(Slot) /\ Len(lslots) \in Nat /\ Len(slots) \in Nat
  BY SlotsShape
<1>3. all \in Seq(Slot) /\ Len(all) = Len(lslots) + Len(slots)
  BY <1>2
<1>4. Len(all) \in 0..SlotMax
  BY <1>1, <1>2, <1>3, LayoutAssumption
<1>5. Base(Len(all)) \in Word /\ Base(Len(all)) \in Int
  BY <1>4, BaseRight, LayoutAssumption DEF Word
<1> HIDE DEF all
<1>6. Shapes'
  <2>1. \A k \in 1..Len(lhandles) : lhandles[k].first \in Nat /\ lhandles[k].first < Len(lslots)
    BY HandleShape DEF LayoutIInv, Shapes
  <2>2. /\ lcall'.adds \in Types /\ lcall'.start = Len(lslots) /\ lcall'.start \in 0..Len(all)
        /\ lcall'.start < Len(all)
    BY <1>1, <1>2, <1>3
  <2>3. \A k \in 1..Len(lhandles) : lhandles[k].first < Len(all)
    BY <1>2, <1>3, <2>1
  <2>4. lhandles \in Seq(HandleSet) /\ lsealed \in BOOLEAN
    BY DEF LayoutIInv, Shapes
  <2> QED BY <1>1, <1>3, <1>4, <1>5, <2>1, <2>2, <2>3, <2>4 DEF Shapes
<1>7. Building'
  BY <1>1, <1>5 DEF Building, EndBefore, InOrder
<1>8. Sealed' /\ \A k \in DOMAIN lname' : Disjoint(lname'[k])
  BY <1>1 DEF LayoutIInv, Sealed
<1> QED BY <1>6, <1>7, <1>8 DEF LayoutIInv, Disjoint

(* The slots a call appends are slots: of a primitive, and of memory. *)
LEMMA FreshIsSlot ==
    \A kind \in Kinds, aux \in Seq(Int) : Fresh(kind, 0, 0, aux) \in Slot
BY LayoutAssumption DEF Fresh, Slot, Word

(* A slot of memory has a padded size that is a word, or 0. *)
LEMMA BytesIsSlot ==
    \A n \in Word, aux \in Seq(Int) : Bytes(n, aux) \in Slot
<1>1. TAKE n \in Word, aux \in Seq(Int)
<1>2. CacheLine \in Word /\ KindAlign["bytes"] \in Word /\ 0 \in Word /\ "bytes" \in Kinds
  BY LayoutAssumption DEF Kinds, Word
<1>3. n \in Nat
  BY LayoutAssumption DEF Word
<1>4. AlignUp(n, CacheLine) \in Word
  BY <1>2, <1>3, AlignUpRight
<1> QED BY <1>2, <1>4 DEF Bytes, Fresh, Slot

(* posixipc_queue_bytes_size and posixipc_futexq_bytes_size stay in a word. *)
LEMMA QueueBytesInWord ==
    ASSUME NEW d \in Nat, NEW i \in Nat
    PROVE  QueueBytes(d, i) \in Word /\ FutexQueueBytes(d, i) \in Word
<1>1. /\ WordMax \in Nat /\ CtrlBytes \in Nat /\ PrefixBytes \in Nat /\ StateBytes \in Nat
      /\ CacheLine \in Word
  BY LayoutAssumption DEF Word
<1>2. PICK sb, stride : /\ sb = IF d > WordMax \div StateBytes THEN 0 ELSE AlignUp(d * StateBytes, CacheLine)
                        /\ stride = AlignUp(i, CacheLine)
  OBVIOUS
<1>3. d * StateBytes \in Nat
  BY <1>1
<1>4. sb \in Nat /\ stride \in Nat
  BY <1>1, <1>2, <1>3, AlignUpRight
<1>5. d * stride \in Nat
  BY <1>4
<1>6. \/ QueueBytes(d, i) = 0
      \/ /\ QueueBytes(d, i) = CtrlBytes + sb + d * stride
         /\ ~(CtrlBytes + sb > WordMax - d * stride)
  BY <1>2 DEF QueueBytes
<1>7. QueueBytes(d, i) \in Word
  BY <1>1, <1>4, <1>5, <1>6 DEF Word
<1>8. \/ FutexQueueBytes(d, i) = 0
      \/ /\ FutexQueueBytes(d, i) = PrefixBytes + QueueBytes(d, i)
         /\ ~(PrefixBytes > WordMax - QueueBytes(d, i))
  BY DEF FutexQueueBytes
<1> QED BY <1>1, <1>7, <1>8 DEF Word

(* Every kind of add(). *)
LEMMA LayoutAddStep ==
    ASSUME LayoutIInv, LayoutAdd
    PROVE  LayoutIInv'
<1>1. \A aux \in Seq(Int), kind \in Kinds :
        <<Fresh(kind, 0, 0, aux)>> \in Seq(Slot) /\ Len(<<Fresh(kind, 0, 0, aux)>>) >= 1
  BY FreshIsSlot
<1>2. Kinds \subseteq Types /\ {"array", "queue", "futexqueue"} \subseteq Types
      /\ {"robust", "cond", "bytes"} \subseteq Kinds
  BY DEF Types, Kinds
<1>3. ASSUME NEW kind \in PlainKinds \cup {"robust"}, AddPlain(kind) PROVE LayoutIInv'
  <2>1. kind \in Kinds /\ << >> \in Seq(Int)
    BY DEF Kinds
  <2> QED BY ZenonT(60), <1>1, <1>2, <1>3, <2>1, AddsStep DEF AddPlain
<1>4. ASSUME NEW kind \in CountKinds, NEW n \in CountOf[kind], AddCounted(kind, n) PROVE LayoutIInv'
  <2>1. kind \in Kinds /\ <<n>> \in Seq(Int)
    BY LayoutAssumption DEF Kinds
  <2> QED BY ZenonT(60), <1>1, <1>2, <1>4, <2>1, AddsStep DEF AddCounted
<1>5. ASSUME NEW m \in DOMAIN lhandles, AddCondition(m) PROVE LayoutIInv'
  <2>1. lhandles[m].first \in Nat
    BY HandleShape
  <2>2. <<lhandles[m].first>> \in Seq(Int)
    BY <2>1
  <2> QED BY ZenonT(60), <1>1, <1>2, <1>5, <2>2, AddsStep DEF AddCondition
<1>6. ASSUME NEW n \in ByteSizes, AddBytes(n) PROVE LayoutIInv'
  <2>1. n \in Word /\ << >> \in Seq(Int)
    BY <1>6, LayoutAssumption DEF AddBytes, Word
  <2>2. PICK b \in Slot : b = Bytes(n, << >>)
    BY ZenonT(60), <2>1, BytesIsSlot
  <2>3. <<b>> \in Seq(Slot) /\ Len(<<b>>) >= 1 /\ Adds("bytes", <<b>>)
    BY <1>6, <2>2 DEF AddBytes
  <2> QED BY ZenonT(60), <1>2, <2>3, AddsStep
<1>7. ASSUME NEW kind \in {"mutex", "robust"}, NEW count \in ArrayCounts, AddArray(kind, count),
             kind \in Kinds
      PROVE  LayoutIInv'
  <2> DEFINE slots == [j \in 1..count |-> Fresh(kind, 0, 0, << >>)]
  <2>1. count \in Nat /\ count >= 1 /\ << >> \in Seq(Int)
    BY <1>7, LayoutAssumption DEF AddArray
  <2>2. slots \in [1..count -> Slot]
    BY ZenonT(60), <1>7, <2>1, FreshIsSlot
  <2>3. Adds("array", slots)
    BY <1>7 DEF AddArray
  <2> HIDE DEF slots
  <2>4. slots \in Seq(Slot) /\ Len(slots) = count
    BY <2>1, <2>2
  <2> QED BY <1>2, <2>1, <2>3, <2>4, AddsStep
<1>8. ASSUME NEW d \in Depths, NEW i \in ItemSizes, AddQueue(d, i) PROVE LayoutIInv'
  <2>1. d \in Nat /\ i \in Nat /\ <<d, i>> \in Seq(Int) /\ << >> \in Seq(Int)
    BY LayoutAssumption
  <2>2. PICK f : f = Len(lslots)
    BY ZenonT(60)
  <2>3. <<f>> \in Seq(Int) /\ <<f + 1>> \in Seq(Int)
    BY <2>2, SlotsShape
  <2>4. PICK r, c, e, b : /\ r = Fresh("robust", 0, 0, << >>) /\ c = Fresh("cond", 0, 0, <<f>>)
                          /\ e = Fresh("cond", 0, 0, <<f + 1>>) /\ b = Bytes(QueueBytes(d, i), <<d, i>>)
    OBVIOUS
  <2>5. r \in Slot /\ c \in Slot /\ e \in Slot /\ b \in Slot
    BY ZenonT(60), <1>2, <2>1, <2>3, <2>4, FreshIsSlot, BytesIsSlot, QueueBytesInWord
  <2>6. <<r, r, c, e, b>> \in Seq(Slot) /\ Len(<<r, r, c, e, b>>) >= 1
    BY <2>5
  <2>7. Adds("queue", <<r, r, c, e, b>>)
    BY <1>8, <2>2, <2>4 DEF AddQueue
  <2> QED BY ZenonT(60), <1>2, <2>6, <2>7, AddsStep
<1>9. ASSUME NEW d \in Depths, NEW i \in ItemSizes, AddFutexQueue(d, i) PROVE LayoutIInv'
  <2>1. d \in Nat /\ i \in Nat /\ <<d, i>> \in Seq(Int) /\ << >> \in Seq(Int)
    BY LayoutAssumption
  <2>2. PICK r, b : r = Fresh("robust", 0, 0, << >>) /\ b = Bytes(FutexQueueBytes(d, i), <<d, i>>)
    BY ZenonT(60)
  <2>3. r \in Slot /\ b \in Slot
    BY ZenonT(60), <1>2, <2>1, <2>2, FreshIsSlot, BytesIsSlot, QueueBytesInWord
  <2>4. <<r, r, b>> \in Seq(Slot) /\ Len(<<r, r, b>>) >= 1
    BY <2>3
  <2>5. Adds("futexqueue", <<r, r, b>>)
    BY <1>9, <2>2 DEF AddFutexQueue
  <2> QED BY ZenonT(60), <1>2, <2>4, <2>5, AddsStep
<1>10. "mutex" \in Kinds
  BY ZenonT(60), LayoutAssumption DEF Kinds
<1> QED BY <1>2, <1>3, <1>4, <1>5, <1>6, <1>7, <1>8, <1>9, <1>10 DEF LayoutAdd

(* The call fails: what it added is taken off again. *)
LEMMA FailStep ==
    ASSUME LayoutIInv, lpc = "build", ~lsealed,
           NEW slots \in Seq(Slot), Len(slots) = Len(lslots), BuildFails(slots)
    PROVE  LayoutIInv'
<1>1. /\ lslots' = SubSeq(slots, 1, lcall.start) /\ lpc' = "idle" /\ lcall' = Idle
      /\ li' = 0 /\ lcursor' = 0 /\ lhandles' = lhandles /\ lsealed' = lsealed /\ lname' = lname
  BY ZenonT(60) DEF BuildFails
<1>2. /\ lcall.start \in 0..Len(slots) /\ Len(slots) <= SlotMax /\ Len(slots) \in Nat
      /\ \A k \in 1..Len(lhandles) : lhandles[k].first < lcall.start
      /\ lhandles \in Seq(HandleSet) /\ lsealed \in BOOLEAN
  BY DEF LayoutIInv, Shapes
<1>3. lslots' \in Seq(Slot) /\ Len(lslots') = lcall.start
  BY <1>1, <1>2
<1>4. Idle.adds \in Types /\ Idle.start = 0
  BY DEF Idle, Types
<1>5. 0 \in Word
  BY LayoutAssumption DEF Word
<1>6. Len(lslots') <= SlotMax /\ 0 \in 0..Len(lslots')
  BY <1>2, <1>3, LayoutAssumption
<1>7. Shapes'
  BY <1>1, <1>2, <1>3, <1>4, <1>5, <1>6 DEF Shapes
<1> QED BY <1>1, <1>7 DEF LayoutIInv, Building, Sealed, Disjoint

(* posixipc_layout_build places one slot. *)
LEMMA PlaceStep ==
    ASSUME LayoutIInv, Place
    PROVE  LayoutIInv'
<1>1. /\ lpc = "build" /\ li < Len(lslots) /\ li \in Nat /\ Len(lslots) \in 0..SlotMax
      /\ lslots \in Seq(Slot) /\ lcursor \in Word /\ WordMax \in Nat
  BY LayoutAssumption DEF Place, LayoutIInv, Shapes
<1>2. PICK s \in Slot : s = lslots[li + 1]
  BY <1>1
<1>3. PICK a, z : a = AlignOf(s) /\ z = SizeOf(s)
  BY ZenonT(60)
<1>4. a \in Word /\ z \in Word
  BY <1>2, <1>3, LayoutAssumption DEF AlignOf, SizeOf, Slot
<1>5. Base(Len(lslots)) \in Word /\ Base(Len(lslots)) >= 1 /\ Base(Len(lslots)) \in Nat
  BY <1>1, BaseRight DEF Word
<1>6. /\ Base(Len(lslots)) <= lcursor /\ lcursor \in Nat /\ lcursor # 0
      /\ lcursor = EndBefore(lslots, li + 1)
      /\ \A i \in 1..li : InPlace(lslots, i)
      /\ InOrder(lslots, li, lcursor)
  BY <1>1, <1>5 DEF LayoutIInv, Building, Word
<1>7. PICK off : off = AlignUp(lcursor, a)
  BY ZenonT(60)
<1>8. off \in Word /\ off \in Nat /\ (off = 0 \/ lcursor <= off)
  BY <1>1, <1>4, <1>6, <1>7, AlignUpRight
<1>9. PICK rec : rec = [s EXCEPT !.align = a, !.size = z, !.offset = off]
  BY ZenonT(60)
<1>10. /\ rec \in Slot /\ rec.align = a /\ rec.size = z /\ rec.offset = off
       /\ s.align = a /\ s.size = z /\ s.offset = off => rec = s
  BY ZenonT(60), <1>2, <1>4, <1>8, <1>9 DEF Slot
<1>11. PICK put : put = [lslots EXCEPT ![li + 1] = rec]
  BY ZenonT(60)
<1>12. /\ put \in Seq(Slot) /\ Len(put) = Len(lslots) /\ put[li + 1] = rec
       /\ \A i \in 1..Len(lslots) : i # li + 1 => put[i] = lslots[i]
       /\ rec = s => put = lslots
  BY <1>1, <1>2, <1>10, <1>11
<1>13. IF a = 0 \/ z = 0 \/ (off = 0 /\ lcursor # 0)
         THEN BuildFails(lslots)
       ELSE IF z > WordMax - off
         THEN BuildFails(put)
       ELSE /\ lslots' = put /\ lcursor' = off + z /\ li' = li + 1
            /\ UNCHANGED <<lcap, lhandles, lsealed, lpc, lcall, lname>>
  BY ZenonT(60), <1>2, <1>3, <1>7, <1>9, <1>11 DEF Place
<1>14. lsealed => /\ s.align = a /\ s.size = z /\ s.offset = off
                  /\ a # 0 /\ z # 0 /\ off # 0 /\ off + z <= WordMax
  <2> SUFFICES ASSUME lsealed
               PROVE  /\ s.align = a /\ s.size = z /\ s.offset = off
                      /\ a # 0 /\ z # 0 /\ off # 0 /\ off + z <= WordMax
    OBVIOUS
  <2>1. li + 1 \in 1..Len(lslots)
    BY <1>1
  <2>2. InPlace(lslots, li + 1)
    BY <2>1 DEF LayoutIInv, Sealed
  <2>3. s.align # 0 /\ s.size # 0
    BY <1>2, <2>2 DEF InPlace
  <2>4. s.align = a /\ s.size = z
    BY <1>3, <2>3 DEF AlignOf, SizeOf
  <2> QED BY <1>2, <1>6, <1>7, <2>2, <2>4 DEF InPlace
<1>15. CASE a = 0 \/ z = 0 \/ off = 0
  BY <1>1, <1>6, <1>13, <1>14, <1>15, FailStep
<1>16. CASE a # 0 /\ z # 0 /\ off # 0 /\ z > WordMax - off
  <2>1. ~lsealed
    BY <1>1, <1>4, <1>8, <1>14, <1>16 DEF Word
  <2>2. BuildFails(put)
    BY ZenonT(60), <1>13, <1>16
  <2> QED BY <1>1, <1>12, <2>1, <2>2, FailStep
<1>17. CASE a # 0 /\ z # 0 /\ off # 0 /\ ~(z > WordMax - off)
  <2>1. /\ lslots' = put /\ lcursor' = off + z /\ li' = li + 1
        /\ UNCHANGED <<lhandles, lsealed, lpc, lcall, lname>>
    BY <1>13, <1>17
  <2>2. z \in Nat /\ off + z \in Word /\ off + z <= WordMax
    BY <1>1, <1>4, <1>8, <1>17 DEF Word
  <2>3. Shapes'
    <3>1. li' \in 0..Len(lslots') /\ Len(lslots') <= SlotMax
      BY <1>1, <1>12, <2>1
    <3> QED BY <1>1, <1>12, <2>1, <2>2, <3>1 DEF LayoutIInv, Shapes
  <2>4. Sealed'
    BY ZenonT(60), <1>10, <1>12, <1>14, <2>1 DEF LayoutIInv, Sealed
  <2>5. Building'
    <3>1. \A i \in 1..(li + 1) : EndBefore(put, i) = EndBefore(lslots, i)
      <4> SUFFICES ASSUME NEW i \in 1..(li + 1) PROVE EndBefore(put, i) = EndBefore(lslots, i)
        BY ZenonT(60)
      <4>1. i # 1 => i - 1 \in 1..Len(lslots) /\ i - 1 # li + 1
        BY <1>1
      <4>2. i # 1 => put[i - 1] = lslots[i - 1]
        BY ZenonT(60), <1>12, <4>1
      <4> QED BY ZenonT(60), <1>12, <4>2 DEF EndBefore
    <3>2. \A i \in 1..li : InPlace(put, i)
      BY <1>1, <1>6, <1>12, <3>1 DEF InPlace
    <3>3. InPlace(put, li + 1)
      BY <1>1, <1>6, <1>7, <1>10, <1>12, <1>17, <2>2, <3>1 DEF InPlace
    <3>4. \A i \in 1..(li + 1) : InPlace(put, i)
      BY <1>1, <3>2, <3>3
    <3>5. EndBefore(put, li + 2) = off + z
      BY <1>1, <1>10, <1>12 DEF EndBefore
    <3>6. \A i \in 1..li : /\ put[i].offset \in Nat /\ put[i].size \in Nat
                           /\ Base(Len(put)) <= put[i].offset
                           /\ put[i].offset + put[i].size <= lcursor
                           /\ \A j \in 1..li : i < j => put[i].offset + put[i].size <= put[j].offset
      <4>1. \A x \in Slot : x.offset \in Nat /\ x.size \in Nat
        BY LayoutAssumption DEF Slot, Word
      <4>2. \A i \in 1..li : put[i] = lslots[i] /\ put[i] \in Slot
        BY <1>1, <1>12
      <4> QED BY ZenonT(60), <1>6, <1>12, <4>1, <4>2 DEF InOrder
    <3>7. InOrder(put, li + 1, off + z)
      <4>1. /\ lcursor \in Nat /\ off \in Nat /\ z \in Nat /\ lcursor <= off
            /\ Base(Len(put)) \in Nat /\ Base(Len(put)) <= lcursor
            /\ put[li + 1].offset = off /\ put[li + 1].size = z
        BY <1>5, <1>6, <1>8, <1>10, <1>12, <1>17, <2>2
      <4>2. \A i \in 1..(li + 1) : i \in 1..li \/ i = li + 1
        BY <1>1
      <4>3. ASSUME NEW i \in 1..(li + 1)
            PROVE  /\ Base(Len(put)) <= put[i].offset
                   /\ put[i].offset + put[i].size <= off + z
        <5>1. CASE i \in 1..li
          <6>1. /\ put[i].offset + put[i].size \in Nat /\ put[i].offset + put[i].size <= lcursor
                /\ Base(Len(put)) <= put[i].offset
            BY <3>6, <5>1
          <6> QED BY ONLY <4>1, <6>1
        <5>2. CASE i = li + 1
          BY ONLY <4>1, <5>2
        <5> QED BY ZenonT(60), <4>2, <5>1, <5>2
      <4>4. ASSUME NEW i \in 1..(li + 1), NEW j \in 1..(li + 1), i < j
            PROVE  put[i].offset + put[i].size <= put[j].offset
        <5>1. i \in 1..li
          BY <1>1, <4>4
        <5>2. CASE j \in 1..li
          BY ZenonT(60), <3>6, <4>4, <5>1, <5>2
        <5>3. CASE j = li + 1
          <6>1. put[i].offset + put[i].size \in Nat /\ put[i].offset + put[i].size <= lcursor
            BY <3>6, <5>1
          <6> QED BY ONLY <4>1, <5>3, <6>1
        <5> QED BY <4>2, <5>2, <5>3
      <4> QED BY ZenonT(60), <4>3, <4>4 DEF InOrder
    <3>8. Base(Len(put)) <= off + z
      BY <1>5, <1>6, <1>8, <1>12, <1>17, <2>2
    <3>9. li' + 1 = li + 2
      BY <1>1, <2>1
    <3> QED BY <2>1, <3>4, <3>5, <3>7, <3>8, <3>9 DEF Building
  <2> QED BY <2>1, <2>3, <2>4, <2>5 DEF LayoutIInv, Disjoint
<1> QED BY <1>15, <1>16, <1>17

(* The loop is over: the directory is in order and each handle is told its  *)
(* offset, whatever the call then does with the name and the seal.          *)
LEMMA EndStep ==
    ASSUME LayoutIInv, NEW does, BuildEnds(does),
           NEW hs \in Seq(HandleSet), \A k \in 1..Len(hs) : hs[k].first < Len(lslots),
           lhandles' = Synced(hs), lsealed' \in BOOLEAN, lname' = lname \/ lname' = <<lslots>>
    PROVE  LayoutIInv'
<1>1. /\ lpc = "build" /\ li = Len(lslots) /\ lpc' = "idle" /\ lcall' = Idle
      /\ li' = 0 /\ lcursor' = 0 /\ lslots' = lslots
  BY ZenonT(60) DEF BuildEnds
<1>2. /\ lslots \in Seq(Slot) /\ Len(lslots) <= SlotMax /\ Len(lslots) \in Nat
      /\ lcursor \in Nat /\ lcursor <= WordMax /\ WordMax \in Nat
  BY LayoutAssumption DEF LayoutIInv, Shapes, Word
<1>3. \A i \in 1..Len(lslots) : InPlace(lslots, i)
  BY ZenonT(60), <1>1 DEF LayoutIInv, Building
<1>4. InOrder(lslots, Len(lslots), WordMax)
  <2>1. InOrder(lslots, Len(lslots), lcursor)
    BY ZenonT(60), <1>1 DEF LayoutIInv, Building
  <2>2. \A i \in 1..Len(lslots) : lslots[i].offset \in Nat /\ lslots[i].size \in Nat
    <3>1. \A x \in Slot : x.offset \in Nat /\ x.size \in Nat
      BY LayoutAssumption DEF Slot, Word
    <3>2. \A i \in 1..Len(lslots) : lslots[i] \in Slot
      BY <1>2
    <3> QED BY <3>1, <3>2
  <2>3. \A i \in 1..Len(lslots) : lslots[i].offset + lslots[i].size <= WordMax
    <3>1. \A x, y \in Nat : x + y <= lcursor => x + y <= WordMax
      BY <1>2
    <3> QED BY <2>1, <2>2, <3>1 DEF InOrder
  <2> QED BY ZenonT(60), <2>1, <2>3 DEF InOrder
<1>5. Disjoint(lslots)
  <2>1. DOMAIN lslots = 1..Len(lslots)
    BY <1>2
  <2> QED BY <1>4, <2>1 DEF InOrder, Disjoint, Base
<1>6. PICK new : new = Synced(hs)
  BY ZenonT(60)
<1>7. /\ DOMAIN hs = 1..Len(hs) /\ Len(hs) \in Nat
      /\ \A k \in 1..Len(hs) : hs[k] \in HandleSet
  BY SMTT(60)
<1>8. new = [k \in 1..Len(hs) |->
               [hs[k] EXCEPT !.offset = lslots[hs[k].first + 1].offset,
                             !.size = lslots[hs[k].first + 1].size]]
  BY ZenonT(60), <1>6, <1>7 DEF Synced
<1>9. ASSUME NEW k \in 1..Len(hs)
      PROVE  /\ new[k] \in HandleSet /\ new[k].first = hs[k].first
             /\ new[k].offset = lslots[hs[k].first + 1].offset
  <2>1. hs[k].first \in Nat /\ hs[k].first < Len(lslots)
    BY <1>7 DEF HandleSet
  <2>2. lslots[hs[k].first + 1] \in Slot
    BY <1>2, <2>1
  <2>3. lslots[hs[k].first + 1].offset \in Word /\ lslots[hs[k].first + 1].size \in Word
    BY SMTT(60), <2>2 DEF Slot
  <2> QED BY ZenonT(60), <1>7, <1>8, <2>3 DEF HandleSet
<1>10. new \in [1..Len(hs) -> HandleSet]
  BY ZenonT(60), <1>8, <1>9
<1>11. new \in Seq(HandleSet) /\ Len(new) = Len(hs)
  BY <1>7, <1>10
<1>12. Shapes'
  <2>1. Idle.adds \in Types /\ Idle.start = 0 /\ 0 \in Word /\ 0 \in 0..Len(lslots)
    BY <1>2, LayoutAssumption DEF Idle, Types, Word
  <2>2. \A k \in 1..Len(new) : new[k].first < Len(lslots)
    BY ZenonT(60), <1>9, <1>11
  <2> QED BY ZenonT(60), <1>1, <1>2, <1>6, <1>11, <2>1, <2>2 DEF Shapes
<1>13. Sealed'
  BY <1>1, <1>3, <1>4, <1>6, <1>9, <1>11 DEF Sealed
<1>14. \A k \in DOMAIN lname' : Disjoint(lname'[k])
  BY <1>5 DEF LayoutIInv
<1> QED BY ZenonT(60), <1>1, <1>12, <1>13, <1>14 DEF LayoutIInv, Building, Disjoint

(* The five ways a build ends well. *)
LEMMA DoneStep ==
    ASSUME LayoutIInv, AddDone \/ CreateDone \/ AttachDone \/ OpenOrCreateDone \/ SlotsDone
    PROVE  LayoutIInv'
<1>1. /\ lhandles \in Seq(HandleSet) /\ lsealed \in BOOLEAN
      /\ \A k \in 1..Len(lhandles) : lhandles[k].first < Len(lslots)
  BY ZenonT(60) DEF LayoutIInv, Shapes
<1>2. CASE AddDone
  <2>1. PICK h : h = Handle(lcall.adds, lcall.start, Len(lslots) - lcall.start)
    BY ZenonT(60)
  <2>2. /\ lcall.adds \in Types /\ lcall.start \in Nat /\ lcall.start < Len(lslots)
        /\ Len(lslots) \in Nat /\ 0 \in Word
    BY <1>2, LayoutAssumption DEF AddDone, BuildEnds, LayoutIInv, Shapes, Word
  <2>3. h \in HandleSet /\ h.first < Len(lslots)
    BY <2>1, <2>2 DEF Handle, HandleSet
  <2>4. PICK hs : hs = Append(lhandles, h)
    BY ZenonT(60)
  <2>5. hs \in Seq(HandleSet) /\ \A k \in 1..Len(hs) : hs[k].first < Len(lslots)
    <3>1. Len(hs) = Len(lhandles) + 1 /\ Len(lhandles) \in Nat /\ hs \in Seq(HandleSet)
      BY <1>1, <2>3, <2>4
    <3>2. \A k \in 1..Len(hs) : hs[k] = IF k = Len(hs) THEN h ELSE lhandles[k]
      BY <1>1, <2>4, <3>1
    <3> QED BY <1>1, <2>3, <3>1, <3>2
  <2>6. BuildEnds("add") /\ lhandles' = Synced(hs) /\ lsealed' = lsealed /\ lname' = lname
    BY ZenonT(60), <1>2, <2>1, <2>4 DEF AddDone
  <2> QED BY <1>1, <2>5, <2>6, EndStep
<1>3. CASE CreateDone
  <2>1. /\ BuildEnds("create") /\ lhandles' = Synced(lhandles)
        /\ lsealed' \in BOOLEAN /\ (lname' = lname \/ lname' = <<lslots>>)
    BY ZenonT(60), <1>1, <1>3 DEF CreateDone
  <2> QED BY <1>1, <2>1, EndStep
<1>4. CASE AttachDone
  <2>1. /\ BuildEnds("attach") /\ lhandles' = Synced(lhandles)
        /\ lsealed' \in BOOLEAN /\ lname' = lname
    BY <1>1, <1>4 DEF AttachDone
  <2> QED BY <1>1, <2>1, EndStep
<1>5. CASE OpenOrCreateDone
  <2>1. /\ BuildEnds("open") /\ lhandles' = Synced(lhandles)
        /\ lsealed' \in BOOLEAN /\ (lname' = lname \/ lname' = <<lslots>>)
    BY <1>1, <1>5 DEF OpenOrCreateDone
  <2> QED BY <1>1, <2>1, EndStep
<1>6. CASE SlotsDone
  <2>1. /\ BuildEnds("slots") /\ lhandles' = Synced(lhandles)
        /\ lsealed' = lsealed /\ lname' = lname
    BY <1>6 DEF SlotsDone
  <2> QED BY <1>1, <2>1, EndStep
<1> QED BY <1>2, <1>3, <1>4, <1>5, <1>6

(* create(), attach(), open_or_create() and slots start from the directory *)
(* as it is; the other calls leave it alone or begin an empty one.         *)
LEMMA OtherStep ==
    ASSUME LayoutIInv,
           \/ \E does \in {"create", "attach", "open", "slots"} : Builds(does)
           \/ AddRefused \/ UnlinkLayout \/ NewLayout \/ UNCHANGED layoutVars
    PROVE  LayoutIInv'
<1>1. /\ lslots \in Seq(Slot) /\ Len(lslots) \in 0..SlotMax /\ Len(lslots) \in Nat
      /\ lhandles \in Seq(HandleSet)
  BY LayoutAssumption DEF LayoutIInv, Shapes
<1>2. ASSUME NEW does \in {"create", "attach", "open", "slots"}, Builds(does)
      PROVE  LayoutIInv'
  <2>1. /\ lslots' = lslots /\ lhandles' = lhandles /\ lsealed' = lsealed /\ lname' = lname
        /\ lpc' = "build" /\ li' = 0 /\ lcursor' = Base(Len(lslots))
        /\ lcall'.adds = "nothing" /\ lcall'.start = Len(lslots) /\ lcall'.does = does
    BY ZenonT(60), <1>2 DEF Builds, StartBuild, Base
  <2>2. Base(Len(lslots)) \in Word /\ Base(Len(lslots)) \in Int
    BY <1>1, BaseRight, LayoutAssumption DEF Word
  <2>3. Shapes'
    BY <1>1, <2>1, <2>2 DEF LayoutIInv, Shapes, Types
  <2>4. Building'
    BY <2>1, <2>2 DEF Building, EndBefore, InOrder
  <2>5. Sealed'
    BY ZenonT(60), <2>1 DEF LayoutIInv, Sealed
  <2> QED BY ZenonT(60), <2>1, <2>3, <2>4, <2>5 DEF LayoutIInv, Disjoint
<1>3. CASE AddRefused \/ UNCHANGED layoutVars
  <2>1. UNCHANGED <<lslots, lhandles, lsealed, lpc, lcall, li, lcursor, lname>>
    BY <1>3 DEF AddRefused, layoutVars
  <2> QED BY ZenonT(60), <2>1 DEF LayoutIInv, Shapes, Building, Sealed, Disjoint
<1>4. CASE UnlinkLayout
  <2>1. UNCHANGED <<lslots, lhandles, lsealed, lpc, lcall, li, lcursor>> /\ lname' = << >>
    BY ZenonT(60), <1>4 DEF UnlinkLayout
  <2>2. Shapes' /\ Building' /\ Sealed'
    BY ZenonT(60), <2>1 DEF LayoutIInv, Shapes, Building, Sealed
  <2> QED BY <2>1, <2>2 DEF LayoutIInv
<1>5. CASE NewLayout
  <2>1. /\ lslots' = << >> /\ lhandles' = << >> /\ lsealed' = FALSE /\ lpc = "idle"
        /\ UNCHANGED <<lpc, lcall, li, lcursor, lname>>
    BY <1>5 DEF NewLayout
  <2>2. Shapes'
    <3>1. /\ << >> \in Seq(Slot) /\ << >> \in Seq(HandleSet) /\ Len(<< >>) = 0 /\ 0 <= SlotMax
          /\ lcall.start = 0 /\ li = 0
      BY <2>1, LayoutAssumption DEF LayoutIInv, Shapes
    <3>2. 0 \in 0..Len(lslots') /\ 1..Len(lhandles') = {} /\ Len(lslots') <= SlotMax
      BY <2>1, <3>1
    <3>3. lcursor \in Word /\ lcall.adds \in Types
      BY ZenonT(60) DEF LayoutIInv, Shapes
    <3> QED BY ZenonT(60), <2>1, <3>1, <3>2, <3>3 DEF Shapes
  <2> QED BY <2>1, <2>2 DEF LayoutIInv, Building, Sealed, Disjoint
<1> QED BY ZenonT(60), <1>2, <1>3, <1>4, <1>5

(* An empty layout, and no segment. *)
LEMMA LayoutStart == LayoutInit => LayoutIInv
<1> SUFFICES ASSUME LayoutInit PROVE LayoutIInv
  BY ZenonT(60)
<1>1. /\ << >> \in Seq(Slot) /\ << >> \in Seq(HandleSet) /\ Len(<< >>) = 0 /\ 0 <= SlotMax
      /\ 0 \in Word /\ Idle.adds \in Types /\ Idle.start = 0
  BY LayoutAssumption DEF Idle, Types, Word
<1>2. Shapes
  <2>1. 0 \in 0..Len(lslots) /\ 1..Len(lhandles) = {} /\ Len(lslots) <= SlotMax
    BY <1>1 DEF LayoutInit
  <2> QED BY ZenonT(60), <1>1, <2>1 DEF LayoutInit, Shapes
<1> QED BY <1>2 DEF LayoutInit, LayoutIInv, Building, Sealed

(* No step leaves the invariant. *)
LEMMA LayoutStep == LayoutIInv /\ [LayoutNext]_layoutVars => LayoutIInv'
BY LayoutAddStep, PlaceStep, DoneStep, OtherStep DEF LayoutNext

(* A published directory is sound, and so are the offsets of bound handles: *)
(* posixipc_layout_build under any sequence of add(), create(), attach(),   *)
(* open_or_create(), slots and unlink(), with the add() calls that fail     *)
(* half way.                                                                *)
THEOREM LayoutIsSound == LayoutSpec => []LayoutSound
<1>1. LayoutIInv => LayoutSound
  <2> SUFFICES ASSUME LayoutIInv PROVE LayoutSound
    BY ZenonT(60)
  <2>1. DOMAIN lslots = 1..Len(lslots) /\ DOMAIN lhandles = 1..Len(lhandles)
    BY HandleShape DEF LayoutIInv, Shapes
  <2>2. lsealed => Disjoint(lslots)
    BY <2>1 DEF LayoutIInv, Sealed, InOrder, Disjoint, Base
  <2> QED BY <2>1, <2>2 DEF LayoutIInv, Sealed, LayoutSound
<1> QED BY <1>1, LayoutStart, LayoutStep, PTL DEF LayoutSpec

-----------------------------------------------------------------------------
(* Nothing wraps.  What add() has accepted is what a build can place: there *)
(* are cursors that lead through the accepted slots.  An add() that fails   *)
(* half way moves the slots it leaves behind, but not their sizes and       *)
(* alignments, and on these alone the cursors depend.                       *)

(* The cursors of a build of the first n slots. *)
Cursors(c, slots, n) ==
    /\ c \in [0..n -> Word] /\ c[0] = Base(n)
    /\ \A i \in 1..n :
         /\ AlignUp(c[i - 1], AlignOf(slots[i])) # 0
         /\ c[i] = AlignUp(c[i - 1], AlignOf(slots[i])) + SizeOf(slots[i])

Accepted ==
    /\ lpc # "build" => \E c : Cursors(c, lslots, Len(lslots))
    /\ lpc = "build" =>
         \E c : /\ Cursors(c, lslots, lcall.start)
                /\ lcall.does # "add" => lcall.start = Len(lslots) /\ c[li] = lcursor

(* A ring slot has room for the ring. *)
RingRoom(s) ==
    Len(s.aux) = 2 =>
      /\ s.size # 0
      /\ s.size >= CtrlBytes + s.aux[1] * StateBytes + s.aux[1] * s.aux[2]

WrapInv ==
    /\ Accepted
    /\ \A i \in 1..Len(lslots) : RingRoom(lslots[i])
    /\ \A k \in DOMAIN lname : \A i \in DOMAIN lname[k] :
         lname[k][i].offset % lname[k][i].align = 0 /\ RingRoom(lname[k][i])

-----------------------------------------------------------------------------

(* Dividing by a. *)
LEMMA DivMod ==
    ASSUME NEW x \in Nat, NEW a \in Nat, a > 0
    PROVE  x \div a \in Nat /\ x % a = x - a * (x \div a)
BY SMTT(60)

(* A multiple of a leaves no remainder. *)
LEMMA Multiple ==
    ASSUME NEW q \in Nat, NEW a \in Nat, a > 0
    PROVE  (a * q) % a = 0
BY SMTT(60)

(* Multiplying keeps the order. *)
LEMMA TimesMonotone == \A x, y, z \in Nat : y <= z => x * y <= x * z
BY SMTT(60)

(* What align_up returns is aligned, or 0. *)
LEMMA AlignUpAligned ==
    ASSUME NEW v \in Nat, NEW a \in Word, a # 0
    PROVE  AlignUp(v, a) % a = 0
<1>1. a \in Nat /\ a > 0 /\ WordMax \in Nat
  BY LayoutAssumption DEF Word
<1>2. 0 % a = 0
  BY <1>1
<1>3. CASE a <= 1
  BY <1>1, <1>3 DEF AlignUp
<1>4. CASE a > 1 /\ PowerOfTwo(a)
  <2>1. PICK y \in Nat : y = v + a - 1
    BY <1>1
  <2>2. AlignUp(v, a) = 0 \/ AlignUp(v, a) = y - (y % a)
    BY <1>4, <2>1, <1>1 DEF AlignUp
  <2>3. y - (y % a) = a * (y \div a) /\ y \div a \in Nat
    <3>1. PICK q, r : q = y \div a /\ r = y % a
      BY ZenonT(60)
    <3>2. q \in Nat /\ r = y - a * q
      BY <1>1, <3>1, DivMod
    <3>3. a * q \in Int
      BY <1>1, <3>2
    <3> QED BY <3>1, <3>2, <3>3
  <2> QED BY <1>1, <1>2, <2>2, <2>3, Multiple
<1>5. CASE a > 1 /\ ~PowerOfTwo(a)
  <2>1. PICK q, r : q = v \div a /\ r = v % a
    BY ZenonT(60)
  <2>2. q \in Nat /\ r = v - a * q /\ r \in Nat /\ r < a
    BY <1>1, <2>1, DivMod, Remainder
  <2>3. AlignUp(v, a) = IF r = 0 THEN v ELSE IF v > WordMax - (a - r) THEN 0 ELSE v + (a - r)
    BY <1>1, <1>5, <2>1 DEF AlignUp
  <2>4. v + (a - r) = a * (q + 1) /\ q + 1 \in Nat
    <3>1. a * (q + 1) = a * q + a /\ a * q \in Int
      BY <1>1, <2>2
    <3> QED BY <1>1, <2>2, <3>1
  <2>5. r = 0 => v = a * q
    <3>1. a * q \in Int
      BY <1>1, <2>2
    <3> QED BY <2>2, <3>1
  <2> QED BY ZenonT(60), <1>1, <1>2, <2>2, <2>3, <2>4, <2>5, Multiple
<1> QED BY <1>1, <1>3, <1>4, <1>5

(* posixipc_queue_bytes_size: a ring it accepts has room for its parts. *)
LEMMA QueueBytesRoom ==
    ASSUME NEW d \in Nat, NEW i \in Nat
    PROVE  /\ QueueBytes(d, i) # 0 => QueueBytes(d, i) >= CtrlBytes + d * StateBytes + d * i
           /\ FutexQueueBytes(d, i) # 0 => FutexQueueBytes(d, i) >= CtrlBytes + d * StateBytes + d * i
<1>1. /\ WordMax \in Nat /\ CtrlBytes \in Nat /\ PrefixBytes \in Nat /\ StateBytes \in Nat
      /\ CacheLine \in Word
  BY LayoutAssumption DEF Word
<1>2. PICK sb, stride : /\ sb = IF d > WordMax \div StateBytes THEN 0 ELSE AlignUp(d * StateBytes, CacheLine)
                        /\ stride = AlignUp(i, CacheLine)
  OBVIOUS
<1>3. d * StateBytes \in Nat /\ d * i \in Nat
  BY <1>1
<1>4. /\ sb \in Nat /\ (sb # 0 => d * StateBytes <= sb)
      /\ stride \in Nat /\ (stride # 0 => i <= stride)
  BY <1>1, <1>2, <1>3, AlignUpRight
<1>5. d * stride \in Nat /\ (stride # 0 => d * i <= d * stride)
  BY <1>4, TimesMonotone
<1>6. QueueBytes(d, i) # 0 => /\ QueueBytes(d, i) = CtrlBytes + sb + d * stride
                              /\ sb # 0 /\ stride # 0
  BY <1>2 DEF QueueBytes
<1>7. QueueBytes(d, i) # 0 => QueueBytes(d, i) >= CtrlBytes + d * StateBytes + d * i
  BY <1>1, <1>3, <1>4, <1>5, <1>6
<1>8. FutexQueueBytes(d, i) # 0 => /\ FutexQueueBytes(d, i) = PrefixBytes + QueueBytes(d, i)
                                   /\ QueueBytes(d, i) # 0
  BY DEF FutexQueueBytes
<1>9. QueueBytes(d, i) \in Nat
  BY <1>1, QueueBytesInWord DEF Word
<1> QED BY <1>1, <1>3, <1>7, <1>8, <1>9

-----------------------------------------------------------------------------

(* The cursors depend on sizes and alignments alone. *)
LEMMA CursorsSame ==
    ASSUME NEW c, NEW slots, NEW n, Cursors(c, slots, n), NEW other,
           \A i \in 1..n : AlignOf(other[i]) = AlignOf(slots[i]) /\ SizeOf(other[i]) = SizeOf(slots[i])
    PROVE  Cursors(c, other, n)
BY ZenonT(60) DEF Cursors

(* The slot of a primitive, or of plain memory, is no ring slot. *)
LEMMA FreshRoom ==
    /\ \A kind : RingRoom(Fresh(kind, 0, 0, << >>))
    /\ \A kind, x : RingRoom(Fresh(kind, 0, 0, <<x>>))
    /\ \A n : RingRoom(Bytes(n, << >>))
BY DEF RingRoom, Fresh, Bytes

(* The slot of an accepted ring has room for it. *)
LEMMA BytesRoom ==
    ASSUME NEW d \in Nat, NEW i \in Nat, NEW n \in {QueueBytes(d, i), FutexQueueBytes(d, i)},
           n # 0, AlignUp(n, CacheLine) # 0
    PROVE  RingRoom(Bytes(n, <<d, i>>))
<1>1. n \in Nat /\ CacheLine \in Word
  <2>1. n \in Word
    BY QueueBytesInWord
  <2> QED BY <2>1, LayoutAssumption DEF Word
<1>2. n >= CtrlBytes + d * StateBytes + d * i
  BY QueueBytesRoom
<1>3. AlignUp(n, CacheLine) \in Nat /\ n <= AlignUp(n, CacheLine)
  BY <1>1, AlignUpRight
<1>4. CtrlBytes + d * StateBytes + d * i \in Int
  <2>1. CtrlBytes \in Nat /\ StateBytes \in Nat
    BY LayoutAssumption
  <2> QED BY <2>1
<1>5. AlignUp(n, CacheLine) >= CtrlBytes + d * StateBytes + d * i
  BY <1>1, <1>2, <1>3, <1>4
<1>6. /\ Bytes(n, <<d, i>>).aux = <<d, i>>
      /\ Bytes(n, <<d, i>>).size = AlignUp(n, CacheLine)
  BY ZenonT(60) DEF Bytes, Fresh
<1> QED BY <1>5, <1>6 DEF RingRoom

(* A call that adds slots. *)
LEMMA WrapAdds ==
    ASSUME LayoutIInv, WrapInv, NEW type, NEW slots \in Seq(Slot),
           \A i \in 1..Len(slots) : RingRoom(slots[i]), Adds(type, slots)
    PROVE  WrapInv'
<1>1. /\ lpc = "idle" /\ lname' = lname /\ lslots' = lslots \o slots /\ lpc' = "build"
      /\ lcall' = [adds |-> type, start |-> Len(lslots), does |-> "add"]
  BY ZenonT(60) DEF Adds, StartBuild
<1>2. lslots \in Seq(Slot) /\ Len(lslots) \in Nat /\ Len(slots) \in Nat
  BY SlotsShape
<1>3. /\ Len(lslots') = Len(lslots) + Len(slots)
      /\ \A i \in 1..Len(lslots) : lslots'[i] = lslots[i]
      /\ \A i \in 1..Len(lslots') : i > Len(lslots) => lslots'[i] = slots[i - Len(lslots)]
  BY <1>1, <1>2
<1>4. PICK c : Cursors(c, lslots, Len(lslots))
  BY ZenonT(60), <1>1 DEF WrapInv, Accepted
<1>5. Cursors(c, lslots', Len(lslots))
  BY ZenonT(60), <1>3, <1>4, CursorsSame
<1>6. Accepted'
  BY ZenonT(60), <1>1, <1>5 DEF Accepted
<1>7. \A i \in 1..Len(lslots') : RingRoom(lslots'[i])
  <2> TAKE i \in 1..Len(lslots')
  <2>1. CASE i <= Len(lslots)
    BY <1>2, <1>3, <2>1 DEF WrapInv
  <2>2. CASE i > Len(lslots)
    <3>1. i - Len(lslots) \in 1..Len(slots)
      BY <1>2, <1>3, <2>2
    <3> QED BY ZenonT(60), <1>3, <2>2, <3>1
  <2> QED BY <1>2, <2>1, <2>2
<1> QED BY ZenonT(60), <1>1, <1>6, <1>7 DEF WrapInv, RingRoom

(* Every kind of add(). *)
LEMMA WrapLayoutAdd ==
    ASSUME LayoutIInv, WrapInv, LayoutAdd
    PROVE  WrapInv'
<1>2. \A aux \in Seq(Int), kind \in Kinds : <<Fresh(kind, 0, 0, aux)>> \in Seq(Slot)
  BY FreshIsSlot
<1>3. {"robust", "cond", "bytes"} \subseteq Kinds
  BY DEF Kinds
<1>4. ASSUME NEW type, NEW s, <<s>> \in Seq(Slot), RingRoom(s), Adds(type, <<s>>) PROVE WrapInv'
  <2>1. Len(<<s>>) = 1 /\ \A j \in 1..Len(<<s>>) : RingRoom(<<s>>[j])
    BY <1>4
  <2> QED BY ZenonT(60), <1>4, <2>1, WrapAdds
<1>5. ASSUME NEW kind \in PlainKinds \cup {"robust"}, AddPlain(kind) PROVE WrapInv'
  <2>1. kind \in Kinds /\ << >> \in Seq(Int)
    BY DEF Kinds
  <2> QED BY ZenonT(60), <1>2, <1>4, <1>5, <2>1, FreshRoom DEF AddPlain
<1>6. ASSUME NEW kind \in CountKinds, NEW n \in CountOf[kind], AddCounted(kind, n) PROVE WrapInv'
  <2>1. kind \in Kinds /\ <<n>> \in Seq(Int)
    BY LayoutAssumption DEF Kinds
  <2> QED BY ZenonT(60), <1>2, <1>4, <1>6, <2>1, FreshRoom DEF AddCounted
<1>7. ASSUME NEW m \in DOMAIN lhandles, AddCondition(m) PROVE WrapInv'
  <2>1. lhandles[m].first \in Nat
    BY HandleShape
  <2>2. <<lhandles[m].first>> \in Seq(Int)
    BY <2>1
  <2> QED BY ZenonT(60), <1>2, <1>3, <1>4, <1>7, <2>2, FreshRoom DEF AddCondition
<1>8. ASSUME NEW n \in ByteSizes, AddBytes(n) PROVE WrapInv'
  <2>1. n \in Word /\ << >> \in Seq(Int)
    BY <1>8, LayoutAssumption DEF AddBytes, Word
  <2>2. PICK b \in Slot : b = Bytes(n, << >>)
    BY ZenonT(60), <2>1, BytesIsSlot
  <2>3. <<b>> \in Seq(Slot) /\ Adds("bytes", <<b>>) /\ RingRoom(b)
    BY <1>8, <2>2, FreshRoom DEF AddBytes
  <2> QED BY ZenonT(60), <1>4, <2>3
<1>9. ASSUME NEW kind \in {"mutex", "robust"}, NEW count \in ArrayCounts, AddArray(kind, count)
      PROVE  WrapInv'
  <2> DEFINE slots == [j \in 1..count |-> Fresh(kind, 0, 0, << >>)]
  <2>1. count \in Nat /\ << >> \in Seq(Int) /\ kind \in Kinds
    BY <1>9, LayoutAssumption DEF AddArray, Kinds
  <2>2. slots \in [1..count -> Slot] /\ \A j \in 1..count : RingRoom(slots[j])
    BY ZenonT(60), <2>1, FreshIsSlot, FreshRoom
  <2>3. Adds("array", slots)
    BY <1>9 DEF AddArray
  <2> HIDE DEF slots
  <2>4. slots \in Seq(Slot) /\ Len(slots) = count
    BY <2>1, <2>2
  <2> QED BY ZenonT(60), <2>2, <2>3, <2>4, WrapAdds
<1>10. ASSUME NEW d \in Depths, NEW i \in ItemSizes, AddQueue(d, i) PROVE WrapInv'
  <2>1. d \in Nat /\ i \in Nat /\ <<d, i>> \in Seq(Int) /\ << >> \in Seq(Int)
    BY LayoutAssumption
  <2>2. PICK f : f = Len(lslots)
    BY ZenonT(60)
  <2>3. <<f>> \in Seq(Int) /\ <<f + 1>> \in Seq(Int)
    BY <2>2, SlotsShape
  <2>4. PICK r, c, e, b : /\ r = Fresh("robust", 0, 0, << >>) /\ c = Fresh("cond", 0, 0, <<f>>)
                          /\ e = Fresh("cond", 0, 0, <<f + 1>>) /\ b = Bytes(QueueBytes(d, i), <<d, i>>)
    OBVIOUS
  <2>5. r \in Slot /\ c \in Slot /\ e \in Slot /\ b \in Slot
    BY ZenonT(60), <1>3, <2>1, <2>3, <2>4, FreshIsSlot, BytesIsSlot, QueueBytesInWord
  <2>6. RingRoom(r) /\ RingRoom(c) /\ RingRoom(e) /\ RingRoom(b)
    BY <1>10, <2>1, <2>4, FreshRoom, BytesRoom DEF AddQueue
  <2>7. PICK slots : slots = <<r, r, c, e, b>>
    BY ZenonT(60)
  <2>8. slots \in Seq(Slot) /\ \A j \in 1..Len(slots) : RingRoom(slots[j])
    BY <2>5, <2>6, <2>7
  <2>9. Adds("queue", slots)
    BY <1>10, <2>2, <2>4, <2>7 DEF AddQueue
  <2> QED BY ZenonT(60), <2>8, <2>9, WrapAdds
<1>11. ASSUME NEW d \in Depths, NEW i \in ItemSizes, AddFutexQueue(d, i) PROVE WrapInv'
  <2>1. d \in Nat /\ i \in Nat /\ <<d, i>> \in Seq(Int) /\ << >> \in Seq(Int)
    BY LayoutAssumption
  <2>2. PICK r, b : r = Fresh("robust", 0, 0, << >>) /\ b = Bytes(FutexQueueBytes(d, i), <<d, i>>)
    BY ZenonT(60)
  <2>3. r \in Slot /\ b \in Slot
    BY ZenonT(60), <1>3, <2>1, <2>2, FreshIsSlot, BytesIsSlot, QueueBytesInWord
  <2>4. RingRoom(r) /\ RingRoom(b)
    BY <1>11, <2>1, <2>2, FreshRoom, BytesRoom DEF AddFutexQueue
  <2>5. PICK slots : slots = <<r, r, b>>
    BY ZenonT(60)
  <2>6. slots \in Seq(Slot) /\ \A j \in 1..Len(slots) : RingRoom(slots[j])
    BY <2>3, <2>4, <2>5
  <2>7. Adds("futexqueue", slots)
    BY <1>11, <2>2, <2>5 DEF AddFutexQueue
  <2> QED BY ZenonT(60), <2>6, <2>7, WrapAdds
<1> QED BY <1>5, <1>6, <1>7, <1>8, <1>9, <1>10, <1>11 DEF LayoutAdd

(* The call fails: the slots that stay have the sizes they had. *)
LEMMA WrapFail ==
    ASSUME LayoutIInv, WrapInv, lpc = "build", NEW slots \in Seq(Slot), Len(slots) = Len(lslots),
           \A i \in 1..Len(lslots) : /\ AlignOf(slots[i]) = AlignOf(lslots[i])
                                     /\ SizeOf(slots[i]) = SizeOf(lslots[i])
                                     /\ RingRoom(slots[i]),
           BuildFails(slots)
    PROVE  WrapInv'
<1>1. lslots' = SubSeq(slots, 1, lcall.start) /\ lpc' = "idle" /\ lname' = lname
  BY ZenonT(60) DEF BuildFails
<1>2. lcall.start \in 0..Len(slots) /\ Len(slots) \in Nat
  BY DEF LayoutIInv, Shapes
<1>3. Len(lslots') = lcall.start /\ \A i \in 1..lcall.start : lslots'[i] = slots[i]
  BY <1>1, <1>2
<1>4. PICK c : Cursors(c, lslots, lcall.start)
  BY ZenonT(60) DEF WrapInv, Accepted
<1>5. \A i \in 1..lcall.start : i \in 1..Len(lslots)
  BY <1>2
<1>6. Cursors(c, lslots', Len(lslots'))
  BY ZenonT(60), <1>3, <1>4, <1>5, CursorsSame
<1>7. Accepted'
  BY ZenonT(60), <1>1, <1>6 DEF Accepted
<1> QED BY ZenonT(60), <1>1, <1>3, <1>5, <1>7 DEF WrapInv, RingRoom

(* posixipc_layout_build places one slot. *)
LEMMA WrapPlace ==
    ASSUME LayoutIInv, WrapInv, Place
    PROVE  WrapInv'
<1>1. /\ lpc = "build" /\ li < Len(lslots) /\ li \in Nat /\ Len(lslots) \in Nat
      /\ lslots \in Seq(Slot) /\ li + 1 \in 1..Len(lslots)
      /\ lcall.start \in 0..Len(lslots) /\ lcursor \in Word
  BY DEF Place, LayoutIInv, Shapes
<1>2. PICK s \in Slot : s = lslots[li + 1]
  BY <1>1
<1>3. PICK a, z, off : a = AlignOf(s) /\ z = SizeOf(s) /\ off = AlignUp(lcursor, a)
  BY ZenonT(60)
<1>4. /\ a \in Word /\ z \in Word /\ off \in Word
      /\ s.size # 0 => z = s.size
  <2>1. a \in Word /\ z \in Word
    BY ZenonT(60), <1>2, <1>3, LayoutAssumption DEF AlignOf, SizeOf, Slot
  <2>2. lcursor \in Nat
    BY <1>1, LayoutAssumption DEF Word
  <2>3. off \in Word
    BY <1>1, <1>3, <2>1, <2>2, AlignUpRight
  <2> QED BY ZenonT(60), <1>3, <2>1, <2>3 DEF SizeOf
<1>5. PICK rec : rec = [s EXCEPT !.align = a, !.size = z, !.offset = off]
  BY ZenonT(60)
<1>6. rec \in Slot /\ rec.align = a /\ rec.size = z /\ rec.aux = s.aux /\ rec.kind = s.kind
  BY ZenonT(60), <1>2, <1>4, <1>5 DEF Slot
<1>7. PICK put : put = [lslots EXCEPT ![li + 1] = rec]
  BY ZenonT(60)
<1>8. /\ put \in Seq(Slot) /\ Len(put) = Len(lslots) /\ put[li + 1] = rec
      /\ \A i \in 1..Len(lslots) : i # li + 1 => put[i] = lslots[i]
  BY <1>1, <1>2, <1>6, <1>7
<1>9. IF a = 0 \/ z = 0 \/ (off = 0 /\ lcursor # 0)
        THEN BuildFails(lslots)
      ELSE IF z > WordMax - off
        THEN BuildFails(put)
      ELSE /\ lslots' = put /\ lcursor' = off + z /\ li' = li + 1
           /\ UNCHANGED <<lcap, lhandles, lsealed, lpc, lcall, lname>>
  BY ZenonT(60), <1>2, <1>3, <1>5, <1>7 DEF Place
<1>10. \A i \in 1..Len(lslots) : RingRoom(lslots[i])
  BY ZenonT(60) DEF WrapInv
<1>11. CASE a = 0 \/ z = 0 \/ (off = 0 /\ lcursor # 0)
  BY <1>1, <1>9, <1>10, <1>11, WrapFail
<1>12. CASE ~(a = 0 \/ z = 0 \/ (off = 0 /\ lcursor # 0))
  <2>1. AlignOf(rec) = a /\ SizeOf(rec) = z
    BY ZenonT(60), <1>6, <1>12 DEF AlignOf, SizeOf
  <2>2. RingRoom(rec)
    BY ZenonT(60), <1>1, <1>2, <1>4, <1>6, <1>10 DEF RingRoom
  <2>3. \A i \in 1..Len(lslots) : /\ AlignOf(put[i]) = AlignOf(lslots[i])
                                  /\ SizeOf(put[i]) = SizeOf(lslots[i])
                                  /\ RingRoom(put[i])
    BY ZenonT(60), <1>2, <1>3, <1>8, <1>10, <2>1, <2>2
  <2>4. CASE z > WordMax - off
    BY ZenonT(60), <1>1, <1>8, <1>9, <1>12, <2>3, <2>4, WrapFail
  <2>5. CASE ~(z > WordMax - off)
    <3>1. /\ lslots' = put /\ lcursor' = off + z /\ li' = li + 1
          /\ lpc' = lpc /\ lcall' = lcall /\ lname' = lname
      BY ZenonT(60), <1>9, <1>12, <2>5
    <3>2. PICK c : /\ Cursors(c, lslots, lcall.start)
                   /\ lcall.does # "add" => lcall.start = Len(lslots) /\ c[li] = lcursor
      BY <1>1 DEF WrapInv, Accepted
    <3>3. \A i \in 1..lcall.start : i \in 1..Len(lslots)
      BY <1>1
    <3>4. Cursors(c, put, lcall.start)
      BY ZenonT(60), <2>3, <3>2, <3>3, CursorsSame
    <3>5. ASSUME lcall.does # "add" PROVE lcall.start = Len(put) /\ c[li + 1] = off + z
      <4>1. lcall.start = Len(lslots) /\ c[li] = lcursor
        BY ZenonT(60), <3>2, <3>5
      <4>2. c[li + 1] = AlignUp(c[(li + 1) - 1], AlignOf(lslots[li + 1])) + SizeOf(lslots[li + 1])
        BY <1>1, <3>2, <4>1 DEF Cursors
      <4>3. (li + 1) - 1 = li
        BY <1>1
      <4> QED BY ZenonT(60), <1>2, <1>3, <1>8, <4>1, <4>2, <4>3
    <3>6. Accepted'
      BY ZenonT(60), <1>1, <3>1, <3>4, <3>5 DEF Accepted
    <3> QED BY ZenonT(60), <1>8, <2>3, <3>1, <3>6 DEF WrapInv, RingRoom
  <2> QED BY ZenonT(60), <2>4, <2>5
<1> QED BY <1>11, <1>12

(* The loop is over. *)
LEMMA WrapEnd ==
    ASSUME LayoutIInv, WrapInv, NEW does, BuildEnds(does), lname' = lname \/ lname' = <<lslots>>
    PROVE  WrapInv'
<1>1. lpc = "build" /\ li = Len(lslots) /\ lpc' = "idle" /\ lslots' = lslots
  BY ZenonT(60) DEF BuildEnds
<1>2. lslots \in Seq(Slot) /\ Len(lslots) \in 0..SlotMax /\ Len(lslots) \in Nat /\ DOMAIN lslots = 1..Len(lslots)
  BY ZenonT(60), SlotsShape
<1>3. \A i \in 1..Len(lslots) : InPlace(lslots, i)
  BY ZenonT(60), <1>1 DEF LayoutIInv, Building
<1>4. \A s \in Slot : s.offset \in Nat /\ s.size \in Nat /\ s.align \in Word
  BY LayoutAssumption DEF Slot, Word
<1>5. \A i \in 1..Len(lslots) : lslots[i] \in Slot
  BY <1>2
<1>6. Base(Len(lslots)) \in Word
  BY ZenonT(60), <1>2, BaseRight
<1> DEFINE c == [i \in 0..Len(lslots) |-> EndBefore(lslots, i + 1)]
<1>7. \A i \in 0..Len(lslots) :
        c[i] = IF i = 0 THEN Base(Len(lslots)) ELSE lslots[i].offset + lslots[i].size
  <2> TAKE i \in 0..Len(lslots)
  <2>1. (i + 1) - 1 = i /\ (i + 1 = 1 <=> i = 0)
    BY <1>2
  <2> QED BY ZenonT(60), <2>1 DEF EndBefore
<1>8. ASSUME NEW i \in 1..Len(lslots) PROVE c[i] \in Word
  <2>1. /\ lslots[i].offset \in Nat /\ lslots[i].size \in Nat
        /\ lslots[i].offset + lslots[i].size <= WordMax
    BY ZenonT(60), <1>3, <1>4, <1>5 DEF InPlace
  <2>2. c[i] = lslots[i].offset + lslots[i].size
    BY <1>2, <1>7
  <2> QED BY <2>1, <2>2, LayoutAssumption DEF Word
<1>9. c \in [0..Len(lslots) -> Word] /\ c[0] = Base(Len(lslots))
  <2>1. \A i \in 0..Len(lslots) : i = 0 \/ i \in 1..Len(lslots)
    BY <1>2
  <2>2. 0 \in 0..Len(lslots)
    BY <1>2
  <2> QED BY ZenonT(60), <1>6, <1>7, <1>8, <2>1, <2>2
<1>10. ASSUME NEW i \in 1..Len(lslots)
       PROVE  /\ AlignUp(c[i - 1], AlignOf(lslots[i])) # 0
              /\ c[i] = AlignUp(c[i - 1], AlignOf(lslots[i])) + SizeOf(lslots[i])
  <2>1. i - 1 \in 0..Len(lslots) /\ (i - 1) + 1 = i /\ i # 0 /\ i \in 0..Len(lslots)
    BY <1>2
  <2>2. c[i - 1] = EndBefore(lslots, i) /\ c[i] = lslots[i].offset + lslots[i].size
    BY ZenonT(60), <1>7, <2>1
  <2>3. AlignOf(lslots[i]) = lslots[i].align /\ SizeOf(lslots[i]) = lslots[i].size
    BY <1>3 DEF InPlace, AlignOf, SizeOf
  <2> QED BY <1>3, <2>2, <2>3 DEF InPlace
<1> HIDE DEF c
<1>11. Accepted'
  BY ZenonT(60), <1>1, <1>9, <1>10 DEF Accepted, Cursors
<1>12. \A i \in DOMAIN lslots : lslots[i].offset % lslots[i].align = 0 /\ RingRoom(lslots[i])
  <2> SUFFICES ASSUME NEW i \in 1..Len(lslots)
               PROVE  lslots[i].offset % lslots[i].align = 0 /\ RingRoom(lslots[i])
    BY ZenonT(60), <1>2
  <2>1. /\ lslots[i].align \in Word /\ lslots[i].align # 0
        /\ lslots[i].offset = AlignUp(EndBefore(lslots, i), lslots[i].align)
    BY ZenonT(60), <1>3, <1>4, <1>5 DEF InPlace
  <2>2. EndBefore(lslots, i) \in Nat
    <3>1. i = 1 \/ i - 1 \in 1..Len(lslots)
      BY <1>2
    <3>2. Base(Len(lslots)) \in Nat
      BY <1>6, LayoutAssumption DEF Word
    <3>3. i - 1 \in 1..Len(lslots) => lslots[i - 1].offset \in Nat /\ lslots[i - 1].size \in Nat
      BY ZenonT(60), <1>4, <1>5
    <3> QED BY <3>1, <3>2, <3>3 DEF EndBefore
  <2> QED BY ZenonT(60), <2>1, <2>2, AlignUpAligned DEF WrapInv
<1>13. \A k \in DOMAIN lname' : \A i \in DOMAIN lname'[k] :
         lname'[k][i].offset % lname'[k][i].align = 0 /\ RingRoom(lname'[k][i])
  <2>1. CASE lname' = lname
    BY ZenonT(60), <2>1 DEF WrapInv
  <2>2. CASE lname' = <<lslots>>
    <3>1. \A k \in DOMAIN lname' : lname'[k] = lslots
      BY <2>2
    <3> QED BY <1>12, <3>1
  <2> QED BY ZenonT(60), <2>1, <2>2
<1> QED BY <1>1, <1>11, <1>13 DEF WrapInv, RingRoom

(* Starting a build, and the calls that build nothing. *)
LEMMA WrapOther ==
    ASSUME LayoutIInv, WrapInv,
           \/ \E does \in {"create", "attach", "open", "slots"} : Builds(does)
           \/ AddRefused \/ UnlinkLayout \/ NewLayout \/ UNCHANGED layoutVars
    PROVE  WrapInv'
<1>1. Len(lslots) \in Nat
  BY ZenonT(60), SlotsShape
<1>2. ASSUME NEW does \in {"create", "attach", "open", "slots"}, Builds(does) PROVE WrapInv'
  <2>1. /\ lpc = "idle" /\ lslots' = lslots /\ lname' = lname /\ lpc' = "build" /\ li' = 0
        /\ lcursor' = Base(Len(lslots)) /\ lcall'.start = Len(lslots)
    BY ZenonT(60), <1>2 DEF Builds, StartBuild, Base
  <2>2. PICK c : Cursors(c, lslots, Len(lslots))
    BY ZenonT(60), <2>1 DEF WrapInv, Accepted
  <2>3. c[0] = Base(Len(lslots))
    BY ZenonT(60), <2>2 DEF Cursors
  <2>4. Accepted'
    BY ZenonT(60), <2>1, <2>2, <2>3 DEF Accepted
  <2> QED BY ZenonT(60), <2>1, <2>4 DEF WrapInv, RingRoom
<1>3. CASE AddRefused \/ UNCHANGED layoutVars
  <2>1. UNCHANGED <<lslots, lpc, lcall, li, lcursor, lname>>
    BY ZenonT(60), <1>3 DEF AddRefused, layoutVars
  <2> QED BY ZenonT(60), <2>1 DEF WrapInv, Accepted, RingRoom
<1>4. CASE UnlinkLayout
  <2>1. UNCHANGED <<lslots, lpc, lcall, li, lcursor>> /\ lname' = << >>
    BY ZenonT(60), <1>4 DEF UnlinkLayout
  <2>2. Accepted'
    BY <2>1 DEF WrapInv, Accepted
  <2>3. DOMAIN lname' = {}
    BY <2>1
  <2> QED BY ZenonT(60), <2>1, <2>2, <2>3 DEF WrapInv, RingRoom
<1>5. CASE NewLayout
  <2>1. lslots' = << >> /\ lpc' = "idle" /\ lname' = lname /\ Len(<< >>) = 0
    BY ZenonT(60), <1>5 DEF NewLayout
  <2>2. Base(0) \in Word
    BY BaseRight, LayoutAssumption
  <2>3. Cursors([i \in 0..0 |-> Base(0)], << >>, 0)
    BY <2>2 DEF Cursors
  <2>4. Accepted'
    BY ZenonT(60), <2>1, <2>3 DEF Accepted
  <2> QED BY <2>1, <2>4 DEF WrapInv, RingRoom
<1> QED BY ZenonT(60), <1>2, <1>3, <1>4, <1>5

(* An empty layout can be built. *)
LEMMA WrapStart == LayoutInit => WrapInv
<1> SUFFICES ASSUME LayoutInit PROVE WrapInv
  OBVIOUS
<1>1. lslots = << >> /\ lpc = "idle" /\ lname = << >> /\ Len(<< >>) = 0 /\ DOMAIN << >> = {}
  BY DEF LayoutInit
<1>2. Base(0) \in Word
  BY BaseRight, LayoutAssumption
<1>3. Cursors([i \in 0..0 |-> Base(0)], << >>, 0)
  BY <1>2 DEF Cursors
<1>4. Accepted
  BY <1>1, <1>3 DEF Accepted
<1> QED BY <1>1, <1>4 DEF WrapInv

(* No step leaves it. *)
LEMMA WrapStep == LayoutIInv /\ WrapInv /\ [LayoutNext]_layoutVars => WrapInv'
<1> SUFFICES ASSUME LayoutIInv, WrapInv, [LayoutNext]_layoutVars PROVE WrapInv'
  OBVIOUS
<1>1. CASE AddDone \/ CreateDone \/ AttachDone \/ OpenOrCreateDone \/ SlotsDone
  <2>1. \E does : BuildEnds(does) /\ (lname' = lname \/ lname' = <<lslots>>)
    BY <1>1 DEF AddDone, CreateDone, AttachDone, OpenOrCreateDone, SlotsDone
  <2> QED BY ZenonT(60), <2>1, WrapEnd
<1> QED BY <1>1, WrapLayoutAdd, WrapPlace, WrapOther DEF LayoutNext

(* No size of a layout wraps: published slots are aligned, a ring slot has *)
(* room for its ring, and create(), attach(), open_or_create() and slots   *)
(* find room for every slot that add() accepted, whatever add() failed     *)
(* half way in between.                                                    *)
THEOREM LayoutNothingWraps == LayoutSpec => []NothingWraps
<1>1. LayoutIInv /\ WrapInv => NothingWraps
  <2> SUFFICES ASSUME LayoutIInv, WrapInv PROVE NothingWraps
    BY ZenonT(60)
  <2>1. \A k \in DOMAIN lname : \A i \in DOMAIN lname[k] :
          LET s == lname[k][i] IN
          /\ s.offset % s.align = 0
          /\ Len(s.aux) = 2 =>
               s.size >= CtrlBytes + s.aux[1] * StateBytes + s.aux[1] * s.aux[2]
    BY DEF WrapInv, RingRoom
  <2>2. ASSUME lpc = "build", lcall.does # "add", li < Len(lslots)
        PROVE  LET s == lslots[li + 1]  off == AlignUp(lcursor, AlignOf(s))
               IN  off # 0 /\ off + SizeOf(s) <= WordMax
    <3>1. li \in Nat /\ Len(lslots) \in Nat /\ li + 1 \in 1..Len(lslots) /\ (li + 1) - 1 = li
          /\ li + 1 \in 0..Len(lslots)
      <4>1. li \in 0..Len(lslots)
        BY ZenonT(60) DEF LayoutIInv, Shapes
      <4> QED BY <2>2, <4>1, SlotsShape
    <3>2. PICK c : Cursors(c, lslots, Len(lslots)) /\ c[li] = lcursor
      BY ZenonT(60), <2>2 DEF WrapInv, Accepted
    <3>3. /\ AlignUp(lcursor, AlignOf(lslots[li + 1])) # 0
          /\ c[li + 1] = AlignUp(lcursor, AlignOf(lslots[li + 1])) + SizeOf(lslots[li + 1])
          /\ c[li + 1] \in Word
      BY ZenonT(60), <3>1, <3>2 DEF Cursors
    <3>4. c[li + 1] <= WordMax
      BY ZenonT(60), <3>3, WordBound
    <3> QED BY ZenonT(60), <3>3, <3>4
  <2> QED BY <2>1, <2>2 DEF NothingWraps
<1> QED BY <1>1, LayoutStart, LayoutStep, WrapStart, WrapStep, PTL DEF LayoutSpec

-----------------------------------------------------------------------------
(* Pickles.  What _attach_* does not compare it may rely on: a Condition   *)
(* is pickled as a slot, and only the two queues have a shape.             *)

Reduced(p) ==
    /\ p.kinds = <<"cond">> => p.by = "slot"
    /\ p.shape # <<>> => p.by \in {"queue", "futexqueue"}

Fits(p, dir) ==
    /\ p.first + Len(p.kinds) <= Len(dir)
    /\ \A i \in DOMAIN p.kinds : dir[p.first + i].kind = p.kinds[i]
    /\ p.kinds = <<"cond">> => dir[MutexOf(dir, p.first) + 1].kind \in {"mutex", "robust"}
    /\ p.shape # <<>> => dir[p.first + Len(p.kinds)].aux = p.shape

PickleIInv ==
    /\ pickle # <<>> => Reduced(pickle[1])
    /\ phandle # <<>> => \E p, dir : phandle = <<[of |-> p, dir |-> dir]>> /\ Fits(p, dir)

(* What __reduce__ can give. *)
LEMMA ReductionsReduced == ASSUME NEW dir, NEW p \in Reductions(dir) PROVE Reduced(p)
<1>1. CASE p \in SlotReductions(dir)
  <2>1. p.by = "slot" /\ p.shape = <<>>
    BY <1>1 DEF SlotReductions, Shape
  <2> QED BY ZenonT(60), <2>1 DEF Reduced
<1>2. ASSUME NEW k, p \in ArrayReductions(dir, k) PROVE Reduced(p)
  <2>1. p.kinds = <<k, k>> /\ p.shape = <<>>
    BY <1>2 DEF ArrayReductions, Shape
  <2> QED BY <2>1 DEF Reduced
<1>3. ASSUME NEW kinds, NEW by \in {"queue", "futexqueue"}, kinds # <<"cond">>,
             p \in RingReductions(dir, kinds, by)
      PROVE  Reduced(p)
  <2>1. p.kinds = kinds /\ p.by = by
    BY <1>3 DEF RingReductions, Shape
  <2> QED BY ZenonT(60), <1>3, <2>1 DEF Reduced
<1>4. QueueKinds # <<"cond">> /\ FutexQueueKinds # <<"cond">>
  BY ZenonT(60) DEF QueueKinds, FutexQueueKinds
<1> QED BY <1>1, <1>2, <1>3, <1>4 DEF Reductions

(* _attach_slot, _attach_array, _attach_queue and _attach_futex_queue. *)
LEMMA UnpickleStep == PickleIInv /\ Unpickle => PickleIInv'
<1> SUFFICES ASSUME PickleIInv, Unpickle PROVE PickleIInv'
  OBVIOUS
<1>1. PICK p, dir : p = pickle[1] /\ dir = pname[1]
  BY ZenonT(60)
<1>2. Reduced(p) /\ pickle' = pickle
  BY ZenonT(60), <1>1 DEF Unpickle, PickleIInv
<1>3. CASE UNCHANGED phandle
  BY ZenonT(60), <1>2, <1>3 DEF PickleIInv
<1>4. CASE /\ InRange(p, dir) /\ SameKinds(p, dir) /\ MutexSlotValid(p, dir) /\ SameShape(p, dir)
           /\ phandle' = <<[of |-> p, dir |-> dir]>>
  <2>1. \A i \in DOMAIN p.kinds : dir[p.first + i].kind = p.kinds[i]
    BY ZenonT(60), <1>4 DEF SameKinds, KindsAt
  <2>2. p.kinds = <<"cond">> => dir[MutexOf(dir, p.first) + 1].kind \in {"mutex", "robust"}
    BY ZenonT(60), <1>2, <1>4 DEF MutexSlotValid, Reduced
  <2>3. p.shape # <<>> => dir[p.first + Len(p.kinds)].aux = p.shape
    BY ZenonT(60), <1>2, <1>4 DEF SameShape, Reduced
  <2>4. Fits(p, dir)
    BY <1>4, <2>1, <2>2, <2>3 DEF Fits, InRange
  <2> QED BY ZenonT(60), <1>2, <1>4, <2>4 DEF PickleIInv
<1> QED BY <1>1, <1>3, <1>4 DEF Unpickle

(* A handle that comes out of a pickle lies on slots of its kinds, with    *)
(* its mutex and its shape, for every set of directories and every digest  *)
(* function: a digest that is the same by chance lets nothing through that *)
(* does not fit.                                                           *)
THEOREM PickleUnpickledFits == PickleSpec => []UnpickledFits
<1>1. PickleInit => PickleIInv
  BY DEF PickleInit, PickleIInv
<1>2. PickleIInv /\ [PickleNext /\ UNCHANGED layoutVars]_<<pickleVars, layoutVars>> => PickleIInv'
  <2> SUFFICES ASSUME PickleIInv, [PickleNext /\ UNCHANGED layoutVars]_<<pickleVars, layoutVars>>
               PROVE  PickleIInv'
    OBVIOUS
  <2>1. CASE UnlinkDirectory \/ (\E dir \in Directories : PublishDirectory(dir)) \/ UNCHANGED pickleVars
    BY ZenonT(60), <2>1 DEF UnlinkDirectory, PublishDirectory, pickleVars, PickleIInv
  <2>2. CASE Reduce
    <3>1. PICK p \in Reductions(pname[1]) : pickle' = <<p>>
      BY <2>2 DEF Reduce
    <3>2. pickle'[1] = p /\ Reduced(p) /\ phandle' = phandle
      BY <2>2, <3>1, ReductionsReduced DEF Reduce
    <3> QED BY <3>2 DEF PickleIInv
  <2>3. CASE Unpickle
    BY <2>3, UnpickleStep
  <2> QED BY <2>1, <2>2, <2>3 DEF PickleNext
<1>3. PickleIInv => UnpickledFits
  <2> SUFFICES ASSUME PickleIInv, NEW k \in DOMAIN phandle
               PROVE  Fits(phandle[k].of, phandle[k].dir)
    BY DEF UnpickledFits, Fits
  <2>1. PICK p, dir : phandle = <<[of |-> p, dir |-> dir]>> /\ Fits(p, dir)
    BY DEF PickleIInv
  <2>2. k = 1 /\ phandle[k] = [of |-> p, dir |-> dir]
    BY <2>1
  <2> QED BY ZenonT(60), <2>1, <2>2
<1> QED BY <1>1, <1>2, <1>3, PTL DEF PickleSpec

-----------------------------------------------------------------------------
(* Deadlines.  Timespecs are compared and added as pairs; the invariant     *)
(* says what the pairs stand for as counts of nanoseconds.                  *)

Timespecs == [sec : Nat, nsec : 0..(Second - 1)]

(* d is the deadline of a timeout that began at the count of nanoseconds b. *)
IsDeadline(d, b, timeout) ==
    /\ d \in Timespecs
    /\ Ns(d) * Fine <= b * Fine + timeout
    /\ \/ Ns(d) * Fine > b * Fine + timeout - Fine
       \/ timeout > MaxAdd * Second * Fine /\ Ns(d) >= b + MaxAdd * Second

ClockIInv ==
    /\ cnow \in 0..MaxNow /\ cbegan \in Nat /\ cintr \in BOOLEAN
    /\ \/ ctimeout = <<>> /\ cuser = <<>>
       \/ \E s \in Timeouts, d \in Timespecs :
            ctimeout = <<s>> /\ cuser = <<d>> /\ IsDeadline(d, cbegan, s)
    /\ cpc = "fn" =>
         /\ cslice \in Timespecs
         /\ cintr => Ns(cslice) <= cnow + SliceNs
         /\ cuser # <<>> => Ns(cslice) <= Ns(cuser[1])
         /\ ~cintr => cslice = IF cuser = <<>> THEN Never ELSE cuser[1]
    /\ ctold = "timeout" => cuser # <<>> /\ cnow >= Ns(cuser[1])

(* Dividing, and multiplying with what the constants are. *)
LEMMA ClockConstants ==
    /\ Second \in Nat /\ Second > 0 /\ MaxAdd \in Nat /\ Fine \in Nat /\ Fine > 0
    /\ Forever \in Nat /\ MaxNow \in Nat /\ SliceNs \in Nat /\ SliceNs <= Second
    /\ MaxNow < Forever * Second
BY ClockAssumption

(* Quotient and remainder. *)
LEMMA Division ==
    ASSUME NEW x \in Nat, NEW a \in Nat, a > 0
    PROVE  /\ x \div a \in Nat /\ x % a \in Nat /\ x % a < a
           /\ x = (x \div a) * a + (x % a)
BY SMTT(60)

(* clock_gettime's pair stands for the clock. *)
LEMMA TimespecRight ==
    ASSUME NEW x \in Nat
    PROVE  Timespec(x) \in Timespecs /\ Ns(Timespec(x)) = x
<1>1. PICK q, r : q = x \div Second /\ r = x % Second
  BY ZenonT(60)
<1>2. q \in Nat /\ r \in Nat /\ r < Second /\ x = q * Second + r
  BY ZenonT(60), <1>1, Division, ClockConstants
<1>3. Timespec(x) = [sec |-> q, nsec |-> r]
  BY <1>1 DEF Timespec
<1>4. r \in 0..(Second - 1)
  BY <1>2, ClockConstants
<1> QED BY <1>2, <1>3, <1>4 DEF Timespecs, Ns

(* The carry of add_seconds and add_ns. *)
LEMMA CarriedRight ==
    ASSUME NEW s \in Nat, NEW n \in Nat, n < 2 * Second
    PROVE  /\ Carried([sec |-> s, nsec |-> n]) \in Timespecs
           /\ Ns(Carried([sec |-> s, nsec |-> n])) = s * Second + n
<1>1. s * Second \in Nat /\ (s + 1) * Second = s * Second + Second
  BY ClockConstants
<1>2. CASE n >= Second
  <2>1. Carried([sec |-> s, nsec |-> n]) = [sec |-> s + 1, nsec |-> n - Second]
    BY <1>2 DEF Carried
  <2>2. n - Second \in 0..(Second - 1) /\ s + 1 \in Nat
    BY <1>2, ClockConstants
  <2>3. (s + 1) * Second + (n - Second) = s * Second + n
    BY <1>1, ClockConstants
  <2> QED BY <2>1, <2>2, <2>3 DEF Timespecs, Ns
<1>3. CASE ~(n >= Second)
  <2>1. Carried([sec |-> s, nsec |-> n]) = [sec |-> s, nsec |-> n]
    BY <1>3 DEF Carried
  <2>2. n \in 0..(Second - 1)
    BY <1>3, ClockConstants
  <2> QED BY <2>1, <2>2 DEF Timespecs, Ns
<1> QED BY <1>2, <1>3

(* add_ns is an addition. *)
LEMMA AddNsRight ==
    ASSUME NEW x \in Nat
    PROVE  /\ AddNs(Timespec(x), SliceNs) \in Timespecs
           /\ Ns(AddNs(Timespec(x), SliceNs)) = x + SliceNs
<1>1. PICK s \in Nat, n \in Nat : /\ Timespec(x) = [sec |-> s, nsec |-> n]
                                  /\ n < Second /\ s * Second + n = x
  <2>1. Timespec(x).sec \in Nat /\ Timespec(x).nsec \in Nat /\ Timespec(x).nsec < Second
    BY TimespecRight, ClockConstants DEF Timespecs
  <2>2. Timespec(x) = [sec |-> Timespec(x).sec, nsec |-> Timespec(x).nsec]
    BY DEF Timespec
  <2> QED BY ZenonT(60), <2>1, <2>2, TimespecRight DEF Ns
<1>2. AddNs(Timespec(x), SliceNs) = Carried([sec |-> s, nsec |-> n + SliceNs])
  BY <1>1 DEF AddNs
<1>3. n + SliceNs \in Nat /\ n + SliceNs < 2 * Second
  BY <1>1, ClockConstants
<1>4. s * Second \in Nat
  BY ClockConstants
<1> QED BY <1>1, <1>2, <1>3, <1>4, CarriedRight, ClockConstants

(* posixipc_deadline_min takes the earlier one. *)
LEMMA DeadlineMinRight ==
    ASSUME NEW a \in Timespecs, NEW b \in Timespecs
    PROVE  /\ DeadlineMin(a, b) \in Timespecs
           /\ Ns(DeadlineMin(a, b)) <= Ns(a) /\ Ns(DeadlineMin(a, b)) <= Ns(b)
<1>1. /\ a.sec \in Nat /\ a.nsec \in Nat /\ a.nsec < Second
      /\ b.sec \in Nat /\ b.nsec \in Nat /\ b.nsec < Second
  BY ClockConstants DEF Timespecs
<1>2. /\ b.sec < a.sec => b.sec * Second + Second <= a.sec * Second
      /\ a.sec < b.sec => a.sec * Second + Second <= b.sec * Second
      /\ a.sec * Second \in Nat /\ b.sec * Second \in Nat
  BY <1>1, ClockConstants
<1>3. CASE b.sec < a.sec \/ (b.sec = a.sec /\ b.nsec < a.nsec)
  BY <1>1, <1>2, <1>3, ClockConstants DEF DeadlineMin, Ns
<1>4. CASE ~(b.sec < a.sec \/ (b.sec = a.sec /\ b.nsec < a.nsec))
  BY <1>1, <1>2, <1>4, ClockConstants DEF DeadlineMin, Ns
<1> QED BY <1>3, <1>4

(* add_seconds: the deadline is the timeout rounded down to nanoseconds,   *)
(* or the limit.                                                           *)
LEMMA AddSecondsRight ==
    ASSUME NEW b \in Nat, NEW t \in Nat
    PROVE  IsDeadline(AddSeconds(Timespec(b), t), b, t)
<1> DEFINE D == Fine * Second
<1>1. D \in Nat /\ D > 0
  BY ClockConstants
<1>2. PICK whole, rem : whole = t \div D /\ rem = t % D
  BY ZenonT(60)
<1>3. whole \in Nat /\ rem \in Nat /\ rem < D /\ t = whole * D + rem
  BY <1>1, <1>2, Division
<1>4. PICK frac, sub : frac = rem \div Fine /\ sub = rem % Fine
  BY ZenonT(60)
<1>5. frac \in Nat /\ sub \in Nat /\ sub < Fine /\ rem = frac * Fine + sub
  BY ZenonT(60), <1>3, <1>4, Division, ClockConstants
<1>6. frac < Second
  <2> SUFFICES ASSUME frac >= Second PROVE FALSE
    BY <1>5, ClockConstants
  <2>1. frac * Fine >= D
    BY <1>5, ClockConstants
  <2> QED BY <1>1, <1>3, <1>5, <2>1, ClockConstants
<1>7. PICK w \in Nat : w = IF whole > MaxAdd THEN MaxAdd ELSE whole
  BY ZenonT(60), <1>3, ClockConstants
<1>8. PICK s \in Nat, n \in Nat : /\ Timespec(b) = [sec |-> s, nsec |-> n]
                                  /\ n < Second /\ s * Second + n = b
  <2>1. Timespec(b).sec \in Nat /\ Timespec(b).nsec \in Nat /\ Timespec(b).nsec < Second
    BY TimespecRight, ClockConstants DEF Timespecs
  <2>2. Timespec(b) = [sec |-> Timespec(b).sec, nsec |-> Timespec(b).nsec]
    BY DEF Timespec
  <2> QED BY <2>1, <2>2, TimespecRight DEF Ns
<1>9. PICK d : d = AddSeconds(Timespec(b), t)
  BY ZenonT(60)
<1>10. d = Carried([sec |-> s + w, nsec |-> n + frac])
  BY <1>2, <1>4, <1>7, <1>8, <1>9 DEF AddSeconds
<1>11. d \in Timespecs /\ Ns(d) = (s + w) * Second + (n + frac)
  <2>1. s + w \in Nat /\ n + frac \in Nat /\ n + frac < 2 * Second
    BY <1>5, <1>6, <1>8, ClockConstants
  <2> QED BY ZenonT(60), <1>10, <2>1, CarriedRight
<1>12. Ns(d) = b + w * Second + frac /\ w * Second \in Nat
  <2>1. (s + w) * Second = s * Second + w * Second /\ s * Second \in Nat /\ w * Second \in Nat
    BY ClockConstants
  <2> QED BY <1>5, <1>8, <1>11, <2>1, ClockConstants
<1>13. Ns(d) * Fine = b * Fine + w * D + frac * Fine
  <2>1. (b + w * Second + frac) * Fine = b * Fine + (w * Second) * Fine + frac * Fine
    BY <1>5, <1>12, ClockConstants
  <2>2. (w * Second) * Fine = w * D
    BY ClockConstants
  <2> QED BY ZenonT(60), <1>12, <2>1, <2>2
<1>14. /\ b * Fine \in Nat /\ w * D \in Nat /\ frac * Fine \in Nat /\ whole * D \in Nat
       /\ MaxAdd * D \in Nat /\ MaxAdd * Second * Fine = MaxAdd * D
  <2>1. /\ b * Fine \in Nat /\ frac * Fine \in Nat
        /\ MaxAdd * Second * Fine = MaxAdd * D
    BY <1>5, ClockConstants
  <2> HIDE DEF D
  <2>2. w * D \in Nat /\ whole * D \in Nat /\ MaxAdd * D \in Nat
    BY <1>1, <1>3, ClockConstants
  <2> QED BY <2>1, <2>2
<1> HIDE DEF D
<1>15. CASE whole > MaxAdd
  <2>1. w = MaxAdd /\ whole * D >= MaxAdd * D + D
    BY <1>1, <1>3, <1>7, <1>15, ClockConstants
  <2>2. Ns(d) * Fine <= b * Fine + t
    BY <1>1, <1>3, <1>5, <1>13, <1>14, <2>1
  <2>3. t > MaxAdd * Second * Fine
    BY <1>1, <1>3, <1>14, <2>1
  <2>4. Ns(d) >= b + MaxAdd * Second
    BY <1>5, <1>12, <2>1
  <2> QED BY ZenonT(60), <1>9, <1>11, <2>2, <2>3, <2>4 DEF IsDeadline
<1>16. CASE ~(whole > MaxAdd)
  <2>1. w = whole
    BY ZenonT(60), <1>7, <1>16
  <2>2. Ns(d) * Fine <= b * Fine + t /\ Ns(d) * Fine > b * Fine + t - Fine
    BY <1>3, <1>5, <1>13, <1>14, <2>1, ClockConstants
  <2> QED BY <1>9, <1>11, <2>2 DEF IsDeadline
<1> QED BY <1>15, <1>16

(* posixipc_deadline_expired compares pairs. *)
LEMMA ExpiredRight ==
    ASSUME cnow \in Nat, NEW d \in Timespecs, Expired(d)
    PROVE  cnow >= Ns(d)
<1>1. PICK s, n : s = Timespec(cnow).sec /\ n = Timespec(cnow).nsec
  BY ZenonT(60)
<1>2. s \in Nat /\ n \in Nat /\ n < Second /\ s * Second + n = cnow
  <2>1. Timespec(cnow) \in Timespecs /\ Ns(Timespec(cnow)) = cnow
    BY ZenonT(60), TimespecRight
  <2>2. s \in Nat /\ n \in Nat /\ n < Second
    BY <1>1, <2>1, ClockConstants DEF Timespecs
  <2> QED BY <1>1, <2>1, <2>2 DEF Ns
<1>3. d.sec \in Nat /\ d.nsec \in Nat /\ d.nsec < Second
  BY ClockConstants DEF Timespecs
<1>4. s > d.sec \/ (s = d.sec /\ n >= d.nsec)
  BY ZenonT(60), <1>1 DEF Expired
<1>5. s > d.sec => s * Second >= d.sec * Second + Second
  BY <1>2, <1>3, ClockConstants
<1>6. s * Second \in Nat /\ d.sec * Second \in Nat
  BY <1>2, <1>3, ClockConstants
<1> QED BY <1>2, <1>3, <1>4, <1>5, <1>6, ClockConstants DEF Ns

(* A deadline is a count of nanoseconds. *)
LEMMA NsType ==
    ASSUME NEW d \in Timespecs
    PROVE  Ns(d) \in Nat /\ d.nsec < Second
<1>1. d.sec \in Nat /\ d.nsec \in Nat /\ d.nsec < Second
  BY ClockConstants DEF Timespecs
<1>2. d.sec * Second \in Nat
  BY <1>1, ClockConstants
<1> QED BY <1>1, <1>2 DEF Ns

(* A fresh process has no wait. *)
LEMMA ClockStart == ClockInit => ClockIInv
BY ClockConstants DEF ClockInit, ClockIInv

(* A deadline is computed when the wait begins, and a slice never ends     *)
(* later than it.                                                          *)
LEMMA ClockStep == ClockIInv /\ [ClockNext]_clockVars => ClockIInv'
<1> SUFFICES ASSUME ClockIInv, [ClockNext]_clockVars PROVE ClockIInv'
  BY ZenonT(60)
<1>1. cnow \in Nat /\ cnow <= MaxNow
  BY ClockConstants DEF ClockIInv
<1>2. \/ ctimeout = <<>> /\ cuser = <<>>
      \/ \E s \in Timeouts, d \in Timespecs :
           ctimeout = <<s>> /\ cuser = <<d>> /\ IsDeadline(d, cbegan, s)
  BY DEF ClockIInv
<1>3. cuser = <<>> \/ (cuser # <<>> /\ cuser[1] \in Timespecs)
  BY <1>2
<1>4. CASE ClockTick
  <2>1. /\ cnow' \in 0..MaxNow /\ cnow' >= cnow /\ cnow' = cnow + 1
        /\ UNCHANGED <<cpc, cintr, ctimeout, cuser, cslice, cbegan, ctold>>
    BY <1>1, <1>4, ClockConstants DEF ClockTick
  <2>2. cpc = "fn" /\ cintr => Ns(cslice) <= cnow' + SliceNs
    <3> SUFFICES ASSUME cpc = "fn", cintr PROVE Ns(cslice) <= cnow' + SliceNs
      OBVIOUS
    <3>1. Ns(cslice) \in Nat /\ Ns(cslice) <= cnow + SliceNs
      BY ZenonT(60), NsType DEF ClockIInv
    <3> QED BY <1>1, <2>1, <3>1, ClockConstants
  <2>3. ctold = "timeout" => cuser # <<>> /\ cnow' >= Ns(cuser[1])
    <3> SUFFICES ASSUME ctold = "timeout" PROVE cuser # <<>> /\ cnow' >= Ns(cuser[1])
      OBVIOUS
    <3>1. cuser # <<>> /\ cnow >= Ns(cuser[1])
      BY ZenonT(60) DEF ClockIInv
    <3>2. Ns(cuser[1]) \in Nat
      BY ZenonT(60), <1>3, <3>1, NsType
    <3> QED BY <1>1, <2>1, <3>1, <3>2
  <2> QED BY ZenonT(60), <2>1, <2>2, <2>3 DEF ClockIInv, IsDeadline
<1>5. ASSUME NEW interruptible \in BOOLEAN, NEW timeout \in {<<>>} \cup {<<s>> : s \in Timeouts},
             BlockingWait(timeout, interruptible)
      PROVE  ClockIInv'
  <2>1. /\ cpc' = "loop" /\ cintr' = interruptible /\ ctimeout' = timeout /\ cbegan' = cnow
        /\ cuser' = IF timeout = <<>> THEN <<>> ELSE <<AddSeconds(Timespec(cnow), timeout[1])>>
        /\ ctold' = "nothing" /\ cnow' = cnow
    BY ZenonT(60), <1>5 DEF BlockingWait
  <2>2. CASE timeout = <<>>
    BY ZenonT(60), <2>1, <2>2, <1>1 DEF ClockIInv
  <2>3. ASSUME NEW s \in Timeouts, timeout = <<s>> PROVE ClockIInv'
    <3>1. PICK d : d = AddSeconds(Timespec(cnow), s)
      BY ZenonT(60)
    <3>2. s \in Nat
      BY ZenonT(60), ClockAssumption
    <3>3. IsDeadline(d, cnow, s)
      BY ZenonT(60), <1>1, <3>1, <3>2, AddSecondsRight
    <3>4. timeout # <<>> /\ timeout[1] = s
      BY ZenonT(60), <2>3
    <3>5. ctimeout' = <<s>> /\ cuser' = <<d>> /\ d \in Timespecs
      BY ZenonT(60), <2>1, <2>3, <3>1, <3>3, <3>4 DEF IsDeadline
    <3>6. cintr' \in BOOLEAN
      BY ZenonT(60), <2>1
    <3> QED BY ZenonT(60), <1>1, <2>1, <3>3, <3>5, <3>6 DEF ClockIInv, IsDeadline
  <2> QED BY ZenonT(60), <2>2, <2>3
<1>6. CASE CallFn
  <2>1. UNCHANGED <<cnow, cintr, ctimeout, cuser, cbegan, ctold>>
    BY <1>6 DEF CallFn
  <2>2. PICK slice : slice = AddNs(Timespec(cnow), SliceNs)
    BY ZenonT(60)
  <2>3. slice \in Timespecs /\ Ns(slice) = cnow + SliceNs
    BY ZenonT(60), <1>1, <2>2, AddNsRight
  <2>4. cslice' = IF cintr THEN IF cuser = <<>> THEN slice ELSE DeadlineMin(cuser[1], slice)
                  ELSE IF cuser = <<>> THEN Never ELSE cuser[1]
    BY ZenonT(60), <1>6, <2>2 DEF CallFn
  <2>5. Never \in Timespecs
    BY ClockConstants DEF Never, Timespecs
  <2>6. \A d \in Timespecs : Ns(d) <= Ns(d)
    BY NsType
  <2>7. cnow + SliceNs <= cnow + SliceNs
    BY <1>1, ClockConstants
  <2>8. /\ cslice' \in Timespecs
        /\ cintr => Ns(cslice') <= cnow + SliceNs
        /\ cuser # <<>> => Ns(cslice') <= Ns(cuser[1])
        /\ ~cintr => cslice' = IF cuser = <<>> THEN Never ELSE cuser[1]
    <3>1. CASE cintr
      BY ZenonT(60), <1>3, <2>3, <2>4, <2>7, <3>1, DeadlineMinRight
    <3>2. CASE ~cintr
      BY ZenonT(60), <1>3, <2>4, <2>5, <2>6, <3>2
    <3> QED BY ZenonT(60), <3>1, <3>2
  <2>9. Ns(cslice)' = Ns(cslice')
    BY ZenonT(60) DEF Ns
  <2> QED BY ZenonT(60), <2>1, <2>8, <2>9 DEF ClockIInv, IsDeadline, Ns
<1>7. CASE FnReturns
  BY ZenonT(60), <1>7 DEF FnReturns, WaitReturns, ClockIInv, IsDeadline
<1>8. CASE FnTimedOut
  <2>1. UNCHANGED <<cnow, cintr, ctimeout, cuser, cslice, cbegan>> /\ cpc' # "fn"
    BY <1>8 DEF FnTimedOut, WaitReturns
  <2>2. ctold' = "timeout" => cuser # <<>> /\ cnow >= Ns(cuser[1])
    <3>1. CASE cintr
      BY <1>8, <3>1 DEF FnTimedOut, ClockIInv
    <3>2. CASE ~cintr
      <4>1. cslice = (IF cuser = <<>> THEN Never ELSE cuser[1]) /\ cnow >= Ns(cslice)
        BY ZenonT(60), <1>8, <3>2 DEF FnTimedOut, ClockIInv
      <4>2. Ns(Never) = Forever * Second
        BY ClockConstants DEF Ns, Never
      <4>3. ~(cnow >= Forever * Second)
        BY <1>1, ClockConstants
      <4> QED BY ZenonT(60), <4>1, <4>2, <4>3
    <3> QED BY ZenonT(60), <3>1, <3>2
  <2> QED BY ZenonT(60), <2>1, <2>2 DEF ClockIInv, IsDeadline
<1>9. CASE AfterSlice
  <2>1. UNCHANGED <<cnow, cintr, ctimeout, cuser, cslice, cbegan>> /\ cpc' # "fn"
    BY ZenonT(60), <1>9 DEF AfterSlice, WaitReturns
  <2>2. \/ ctold' \in {"interrupted", ctold}
        \/ cuser # <<>> /\ Expired(cuser[1])
    BY ZenonT(60), <1>9 DEF AfterSlice, WaitReturns
  <2>3. ctold' = "timeout" => cuser # <<>> /\ cnow >= Ns(cuser[1])
    BY ZenonT(60), <1>1, <1>3, <2>2, ExpiredRight DEF ClockIInv
  <2> QED BY <2>1, <2>3 DEF ClockIInv, IsDeadline
<1>10. CASE UNCHANGED clockVars
  BY ZenonT(60), <1>10 DEF clockVars, ClockIInv, IsDeadline
<1> QED BY <1>4, <1>5, <1>6, <1>7, <1>8, <1>9, <1>10 DEF ClockNext

(* Timeouts are right for every clock, every resolution of the timeout and *)
(* every slice: posixipc_blocking_wait answers ETIMEDOUT never early,      *)
(* hands the system call no deadline past the caller's, and lets it sleep  *)
(* no longer than a slice when signal handlers may have to run.            *)
THEOREM ClockTimeoutIsRight == ClockSpec => []TimeoutIsRight
<1>1. ClockIInv => TimeoutIsRight
  <2> SUFFICES ASSUME ClockIInv PROVE TimeoutIsRight
    OBVIOUS
  <2>1. cnow \in Nat /\ cbegan \in Nat
    BY ClockConstants DEF ClockIInv
  <2>2. \/ ctimeout = <<>> /\ cuser = <<>>
        \/ \E s \in Timeouts, d \in Timespecs :
             ctimeout = <<s>> /\ cuser = <<d>> /\ IsDeadline(d, cbegan, s)
    BY ZenonT(60) DEF ClockIInv
  <2>3. ASSUME ctold = "timeout"
        PROVE  /\ ctimeout # <<>>
               /\ \/ (cnow - cbegan) * Fine > ctimeout[1] - Fine
                  \/ ctimeout[1] > MaxAdd * Second * Fine /\ cnow - cbegan >= MaxAdd * Second
    <3>1. cuser # <<>> /\ cnow >= Ns(cuser[1])
      BY <2>3 DEF ClockIInv
    <3>2. PICK s \in Timeouts, d \in Timespecs :
              ctimeout = <<s>> /\ cuser = <<d>> /\ IsDeadline(d, cbegan, s)
      BY ZenonT(60), <2>2, <3>1
    <3>3. s \in Nat /\ Ns(d) \in Nat /\ cnow >= Ns(d)
      BY ZenonT(60), <3>1, <3>2, NsType, ClockAssumption
    <3>4. /\ cnow * Fine >= Ns(d) * Fine /\ (cnow - cbegan) * Fine = cnow * Fine - cbegan * Fine
          /\ cnow * Fine \in Nat /\ Ns(d) * Fine \in Nat /\ cbegan * Fine \in Nat
          /\ MaxAdd * Second \in Nat
      BY <2>1, <3>3, ClockConstants
    <3>5. Ns(d) * Fine > cbegan * Fine + s - Fine => (cnow - cbegan) * Fine > s - Fine
      BY <2>1, <3>3, <3>4, ClockConstants
    <3>6. Ns(d) >= cbegan + MaxAdd * Second => cnow - cbegan >= MaxAdd * Second
      BY <2>1, <3>3, <3>4
    <3>7. ctimeout # <<>> /\ ctimeout[1] = s
      BY ZenonT(60), <3>2
    <3> QED BY ZenonT(60), <3>2, <3>5, <3>6, <3>7 DEF IsDeadline
  <2>4. ASSUME cpc = "fn"
        PROVE  /\ cslice.nsec < Second
               /\ ctimeout # <<>> => Ns(cslice) * Fine <= cbegan * Fine + ctimeout[1]
               /\ cintr => Ns(cslice) <= cnow + SliceNs
    <3>1. /\ cslice \in Timespecs
          /\ cintr => Ns(cslice) <= cnow + SliceNs
          /\ cuser # <<>> => Ns(cslice) <= Ns(cuser[1])
      BY ZenonT(60), <2>4 DEF ClockIInv
    <3>2. ASSUME ctimeout # <<>> PROVE Ns(cslice) * Fine <= cbegan * Fine + ctimeout[1]
      <4>1. PICK s \in Timeouts, d \in Timespecs :
                ctimeout = <<s>> /\ cuser = <<d>> /\ IsDeadline(d, cbegan, s)
        BY ZenonT(60), <2>2, <3>2
      <4>2. s \in Nat /\ Ns(d) \in Nat /\ Ns(cslice) \in Nat /\ Ns(cslice) <= Ns(d)
        BY ZenonT(60), <3>1, <4>1, NsType, ClockAssumption
      <4>3. /\ Ns(cslice) * Fine <= Ns(d) * Fine /\ cbegan * Fine \in Nat
            /\ Ns(cslice) * Fine \in Nat /\ Ns(d) * Fine \in Nat
        BY <2>1, <4>2, ClockConstants
      <4>4. Ns(d) * Fine <= cbegan * Fine + s /\ ctimeout[1] = s
        BY <4>1 DEF IsDeadline
      <4> QED BY <4>2, <4>3, <4>4
    <3> QED BY ZenonT(60), <3>1, <3>2, NsType
  <2> QED BY ZenonT(60), <2>3, <2>4 DEF TimeoutIsRight
<1> QED BY <1>1, ClockStart, ClockStep, PTL DEF ClockSpec

=============================================================================
