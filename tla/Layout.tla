-------------------------------- MODULE Layout --------------------------------
(***************************************************************************)
(* posixipc.Layout: the slots of a segment, added one call at a time and   *)
(* laid out again by every call (bindings/py_layout.c,                     *)
(* core/posixipc_layout.c).  The 32-bit and 16-bit words of the code are   *)
(* WordMax and SlotMax, so that small instances reach their ends.          *)
(*                                                                         *)
(* A call holds the GIL while it works on l->slots, so nothing runs        *)
(* between the steps of one call: the loop of posixipc_layout_build is one *)
(* step per slot, and no other call starts before it ends.  No thread is   *)
(* taken to call add() while another is inside create() or attach().       *)
(***************************************************************************)
EXTENDS Integers, Sequences

CONSTANTS
    WordMax,     \* UINT32_MAX
    SlotMax,     \* 0xffff, the most slots a layout has
    HeaderBytes, \* POSIXIPC_HEADER_BYTES
    SlotBytes,   \* sizeof(posixipc_slot)
    CacheLine,   \* POSIXIPC_CACHELINE_BYTES
    CtrlBytes,   \* the ring's control words, padded to cache lines
    PrefixBytes, \* the futex words before the ring of a FutexQueue, padded
    StateBytes,  \* sizeof of one entry of the ring's state array
    KindAlign,   \* alignof, by kind
    KindSize,    \* posixipc_kind_size, by kind (0 for "bytes")
    PlainKinds,  \* kinds that add() takes without a parameter
    CountKinds,  \* kinds with a count in their flags: semaphore, barrier
    CountOf,     \* the counts add() is called with, by kind
    ByteSizes,   \* the sizes add_bytes() is called with
    ArrayCounts, \* the counts add_array() is called with
    Depths, ItemSizes, \* the shapes of the queues
    MaxHandles   \* bound on the handles of one layout

Kinds == PlainKinds \cup CountKinds \cup {"robust", "cond", "bytes"}

Word == 0..WordMax

ASSUME LayoutAssumption ==
    /\ WordMax \in Nat /\ SlotMax \in Nat
    /\ HeaderBytes \in Nat \ {0} /\ SlotBytes \in Nat
    /\ CacheLine \in Nat \ {0} /\ CacheLine <= WordMax
    /\ CtrlBytes \in Nat /\ PrefixBytes \in Nat /\ StateBytes \in Nat \ {0}
    /\ \A n \in 0..SlotMax : HeaderBytes + n * SlotBytes \in Word
    /\ "mutex" \in PlainKinds
    /\ KindAlign \in [Kinds -> Word] /\ KindSize \in [Kinds -> Word]
    /\ ByteSizes \subseteq Nat /\ ArrayCounts \subseteq Nat
    /\ Depths \subseteq Nat /\ ItemSizes \subseteq Nat
    /\ \A kind \in CountKinds : CountOf[kind] \subseteq Int

VARIABLES
    lslots,   \* l->slots[0 .. nslots - 1]
    lcap,     \* l->cap
    lhandles, \* l->handles, with the slot fields each handle was given
    lsealed,  \* l->sealed
    lpc,      \* "idle", or "build" inside posixipc_layout_build
    lcall,    \* the call that builds: what it adds, and where its slots start
    li,       \* slots placed by the running build
    lcursor,  \* its cursor
    lname     \* what the name leads to: <<>> or <<directory>>

layoutVars == <<lslots, lcap, lhandles, lsealed, lpc, lcall, li, lcursor, lname>>

Slot == [kind : Kinds, align : Word, size : Word, offset : Word, aux : Seq(Int)]

Idle == [adds |-> "nothing", start |-> 0, does |-> "nothing"]

LayoutTypeOK ==
    /\ lslots \in Seq(Slot)
    /\ lcap \in Len(lslots)..SlotMax
    /\ lsealed \in BOOLEAN
    /\ lpc \in {"idle", "build"}
    /\ lcall.start \in 0..Len(lslots)
    /\ li \in 0..Len(lslots)
    /\ lcursor \in Word
    /\ Len(lname) <= 1

LayoutInit ==
    /\ lslots = <<>> /\ lcap = 0 /\ lhandles = <<>> /\ lsealed = FALSE
    /\ lpc = "idle" /\ lcall = Idle /\ li = 0 /\ lcursor = 0
    /\ lname = <<>>

-----------------------------------------------------------------------------

PowerOfTwo(a) == \E k \in 0..31 : a = 2^k

(* align_up: 0 for a value that has no aligned successor in a word.  For a *)
(* power of two the test is on the mask, so it may also refuse a value     *)
(* that is aligned already.                                                *)
AlignUp(value, align) ==
    IF align <= 1 THEN value
    ELSE IF PowerOfTwo(align)
      THEN IF value > WordMax - (align - 1) THEN 0
           ELSE (value + align - 1) - ((value + align - 1) % align)
    ELSE IF value % align = 0 THEN value
    ELSE IF value > WordMax - (align - (value % align)) THEN 0
    ELSE value + (align - (value % align))

(* Mutant: the sizes are added in a word without a test. *)
QueueBytesWraps(depth, item) ==
    (CtrlBytes + AlignUp(depth * StateBytes, CacheLine) + depth * AlignUp(item, CacheLine))
        % (WordMax + 1)

(* posixipc_queue_bytes_size: control words, state array and payload of a  *)
(* ring, or 0 when they do not fit in a word.                              *)
QueueBytes(depth, item) ==
    LET sb     == IF depth > WordMax \div StateBytes THEN 0 ELSE AlignUp(depth * StateBytes, CacheLine)
        stride == AlignUp(item, CacheLine)
    IN  IF \/ depth < 1 \/ item < 1 \/ sb = 0 \/ stride = 0
           \/ depth > WordMax \div stride
           \/ CtrlBytes > WordMax - sb
           \/ CtrlBytes + sb > WordMax - depth * stride
          THEN 0
          ELSE CtrlBytes + sb + depth * stride

(* posixipc_futexq_bytes_size *)
FutexQueueBytes(depth, item) ==
    LET ring == QueueBytes(depth, item)
    IN  IF ring = 0 \/ PrefixBytes > WordMax - ring THEN 0 ELSE PrefixBytes + ring

(* Mutant: the capacity is doubled once, not until it is enough. *)
GrownOnce(cap, need) ==
    IF cap >= need THEN cap ELSE IF cap = 0 THEN 4 ELSE (cap * 2) % (SlotMax + 1)

(* layout_ensure's capacity for need slots; ncap * 2u wraps in 16 bits *)
Grown(cap, need) ==
    LET double[c \in 1..SlotMax] ==
          LET next == (c * 2) % (SlotMax + 1)
          IN  IF c >= need THEN c ELSE IF next <= c THEN SlotMax ELSE double[next]
    IN  IF cap >= need THEN cap ELSE double[IF cap = 0 THEN 4 ELSE cap]

Fresh(kind, align, size, aux) ==
    [kind |-> kind, align |-> align, size |-> size, offset |-> 0, aux |-> aux]

(* A slot of memory; size is the requested size, padded to cache lines. *)
Bytes(size, aux) == Fresh("bytes", KindAlign["bytes"], AlignUp(size, CacheLine), aux)

StartBuild(slots, call) ==
    /\ lpc' = "build" /\ li' = 0
    /\ lcall' = call
    /\ lslots' = slots
    /\ lcursor' = HeaderBytes + Len(slots) * SlotBytes

(* A call that adds slots: refused when sealed or when there are too many, *)
(* otherwise the slots are appended and the layout is built.               *)
Adds(type, slots) ==
    /\ lpc = "idle" /\ ~lsealed /\ Len(lhandles) < MaxHandles
    /\ Len(lslots) + Len(slots) <= SlotMax
    /\ lcap' = Grown(lcap, Len(lslots) + Len(slots))
    /\ StartBuild(lslots \o slots, [adds |-> type, start |-> Len(lslots), does |-> "add"])
    /\ UNCHANGED <<lhandles, lsealed, lname>>

AddPlain(kind) == Adds(kind, <<Fresh(kind, 0, 0, <<>>)>>)

AddCounted(kind, n) == Adds(kind, <<Fresh(kind, 0, 0, <<n>>)>>)

(* Condition(mutex=m): m is a mutex among this layout's handles, and its   *)
(* slot goes into the flags.                                               *)
AddCondition(m) ==
    /\ m \in DOMAIN lhandles /\ lhandles[m].type \in {"mutex", "robust"}
    /\ Adds("cond", <<Fresh("cond", 0, 0, <<lhandles[m].first>>)>>)

AddBytes(n) ==
    /\ n \in 1..WordMax /\ AlignUp(n, CacheLine) # 0
    /\ Adds("bytes", <<Bytes(n, <<>>)>>)

(* layout_commit_n copies the first slot count - 1 times *)
AddArray(kind, count) ==
    /\ count \in 1..SlotMax
    /\ Adds("array", [i \in 1..count |-> Fresh(kind, 0, 0, <<>>)])

(* A Queue is two locks, two conditions on them, and a ring.  The code     *)
(* hashes the ring's shape into the flags of its slot; here they hold it.  *)
AddQueue(depth, item) ==
    LET first == Len(lslots) IN
    /\ QueueBytes(depth, item) # 0 /\ AlignUp(QueueBytes(depth, item), CacheLine) # 0
    /\ Adds("queue", <<Fresh("robust", 0, 0, <<>>), Fresh("robust", 0, 0, <<>>),
                       Fresh("cond", 0, 0, <<first>>), Fresh("cond", 0, 0, <<first + 1>>),
                       Bytes(QueueBytes(depth, item), <<depth, item>>)>>)

AddFutexQueue(depth, item) ==
    /\ FutexQueueBytes(depth, item) # 0 /\ AlignUp(FutexQueueBytes(depth, item), CacheLine) # 0
    /\ Adds("futexqueue", <<Fresh("robust", 0, 0, <<>>), Fresh("robust", 0, 0, <<>>),
                            Bytes(FutexQueueBytes(depth, item), <<depth, item>>)>>)

(* layout_add reserves a slot before it looks at the arguments of the      *)
(* kind: a call it then refuses leaves the larger table.                   *)
AddRefused ==
    /\ lpc = "idle" /\ ~lsealed /\ Len(lslots) < SlotMax
    /\ lcap' = Grown(lcap, Len(lslots) + 1)
    /\ UNCHANGED <<lslots, lhandles, lsealed, lpc, lcall, li, lcursor, lname>>

-----------------------------------------------------------------------------

(* The call fails: its handle is taken off the list and nslots goes back.  *)
(* The slots that stay keep what the build wrote into them.                *)
BuildFails(slots) ==
    /\ lslots' = SubSeq(slots, 1, lcall.start)
    /\ lpc' = "idle" /\ lcall' = Idle /\ li' = 0 /\ lcursor' = 0
    /\ UNCHANGED <<lcap, lhandles, lsealed, lname>>

AlignOf(s) == IF s.align # 0 THEN s.align ELSE KindAlign[s.kind]
SizeOf(s)  == IF s.size # 0 THEN s.size ELSE KindSize[s.kind]

(* Mutant: the cursor advances by the size, from where it was unaligned. *)
PlacePacked ==
    LET s   == lslots[li + 1]
        off == AlignUp(lcursor, AlignOf(s))
    IN
    /\ lpc = "build" /\ li < Len(lslots)
    /\ IF off = 0 \/ SizeOf(s) > WordMax - off
         THEN BuildFails(lslots)
       ELSE /\ lslots' = [lslots EXCEPT ![li + 1] =
                            [s EXCEPT !.align = AlignOf(s), !.size = SizeOf(s), !.offset = off]]
            /\ lcursor' = lcursor + SizeOf(s)
            /\ li' = li + 1
            /\ UNCHANGED <<lcap, lhandles, lsealed, lpc, lcall, lname>>

(* posixipc_layout_build places one slot *)
Place ==
    LET s   == lslots[li + 1]
        off == AlignUp(lcursor, AlignOf(s))
        put == [lslots EXCEPT ![li + 1] =
                  [s EXCEPT !.align = AlignOf(s), !.size = SizeOf(s), !.offset = off]]
    IN
    /\ lpc = "build" /\ li < Len(lslots)
    /\ IF AlignOf(s) = 0 \/ SizeOf(s) = 0 \/ (off = 0 /\ lcursor # 0)
         THEN BuildFails(lslots)
       ELSE IF SizeOf(s) > WordMax - off
         THEN BuildFails(put)
       ELSE /\ lslots' = put
            /\ lcursor' = off + SizeOf(s)
            /\ li' = li + 1
            /\ UNCHANGED <<lcap, lhandles, lsealed, lpc, lcall, lname>>

Handle(type, first, count) == [type |-> type, first |-> first, count |-> count, offset |-> 0, size |-> 0]

(* layout_apply_slot_meta on every handle *)
Synced(handles) ==
    [k \in DOMAIN handles |->
       LET s == lslots[handles[k].first + 1]
       IN  [handles[k] EXCEPT !.offset = s.offset, !.size = s.size]]

BuildEnds(does) ==
    /\ lpc = "build" /\ li = Len(lslots) /\ lcall.does = does
    /\ lpc' = "idle" /\ lcall' = Idle /\ li' = 0 /\ lcursor' = 0
    /\ UNCHANGED <<lslots, lcap>>

(* layout_commit and its variants: the handle is on the list *)
AddDone ==
    /\ BuildEnds("add")
    /\ lhandles' = Synced(Append(lhandles,
                     Handle(lcall.adds, lcall.start, Len(lslots) - lcall.start)))
    /\ UNCHANGED <<lsealed, lname>>

(* create(), attach() and open_or_create() first build the layout again. *)
Builds(does) ==
    /\ lpc = "idle"
    /\ StartBuild(lslots, [adds |-> "nothing", start |-> Len(lslots), does |-> does])
    /\ UNCHANGED <<lcap, lhandles, lsealed, lname>>

(* The name is free: the directory is copied into a new segment, its       *)
(* primitives are initialised, the handles are bound, the layout is sealed.*)
(* The name is taken: EEXIST.                                              *)
CreateDone ==
    /\ BuildEnds("create")
    /\ lhandles' = Synced(lhandles)
    /\ IF lname = <<>>
         THEN lname' = <<lslots>> /\ lsealed' = TRUE
         ELSE UNCHANGED <<lname, lsealed>>

(* attach() compares the directory of the segment with its own, slot by    *)
(* slot; it binds and seals, or raises LayoutMismatchError.                *)
AttachDone ==
    /\ BuildEnds("attach")
    /\ lhandles' = Synced(lhandles)
    /\ lsealed' = (lsealed \/ lname = <<lslots>>)
    /\ UNCHANGED lname

OpenOrCreateDone ==
    /\ BuildEnds("open")
    /\ lhandles' = Synced(lhandles)
    /\ lname' = IF lname = <<>> THEN <<lslots>> ELSE lname
    /\ lsealed' = (lsealed \/ lname \in {<<>>, <<lslots>>})

(* layout_get_slots syncs too *)
SlotsDone ==
    /\ BuildEnds("slots")
    /\ lhandles' = Synced(lhandles)
    /\ UNCHANGED <<lsealed, lname>>

UnlinkLayout ==
    /\ lpc = "idle" /\ lname # <<>>
    /\ lname' = <<>>
    /\ UNCHANGED <<lslots, lcap, lhandles, lsealed, lpc, lcall, li, lcursor>>

(* The program makes another Layout *)
NewLayout ==
    /\ lpc = "idle" /\ lsealed
    /\ lslots' = <<>> /\ lcap' = 0 /\ lhandles' = <<>> /\ lsealed' = FALSE
    /\ UNCHANGED <<lpc, lcall, li, lcursor, lname>>

LayoutAdd ==
    \/ \E kind \in PlainKinds \cup {"robust"} : AddPlain(kind)
    \/ \E kind \in CountKinds : \E n \in CountOf[kind] : AddCounted(kind, n)
    \/ \E m \in DOMAIN lhandles : AddCondition(m)
    \/ \E n \in ByteSizes : AddBytes(n)
    \/ \E kind \in {"mutex", "robust"}, n \in ArrayCounts : AddArray(kind, n)
    \/ \E d \in Depths, i \in ItemSizes : AddQueue(d, i) \/ AddFutexQueue(d, i)

LayoutNext ==
    \/ LayoutAdd \/ AddRefused
    \/ \E does \in {"create", "attach", "open", "slots"} : Builds(does)
    \/ Place \/ AddDone \/ CreateDone \/ AttachDone \/ OpenOrCreateDone \/ SlotsDone
    \/ UnlinkLayout \/ NewLayout

LayoutSpec == LayoutInit /\ [][LayoutNext]_layoutVars

-----------------------------------------------------------------------------

(* Slots that lie after a directory of their number, in order, without     *)
(* overlap, in a segment whose size is a word.                             *)
Disjoint(slots) ==
    \A i \in DOMAIN slots :
      /\ HeaderBytes + Len(slots) * SlotBytes <= slots[i].offset
      /\ slots[i].offset + slots[i].size <= WordMax
      /\ \A j \in DOMAIN slots : i < j => slots[i].offset + slots[i].size <= slots[j].offset

(* The directory posixipc_layout_build computed and create() published has *)
(* no two slots that overlap and none that reaches into the header or past *)
(* the segment, whatever was added and whatever add() failed before; the   *)
(* offset of a slot is the one each of its bound handles has.              *)
LayoutSound ==
    /\ \A k \in DOMAIN lname : Disjoint(lname[k])
    /\ lsealed /\ lpc = "idle" =>
         /\ Disjoint(lslots)
         /\ \A k \in DOMAIN lhandles : lhandles[k].offset = lslots[lhandles[k].first + 1].offset

(* No size has wrapped: slots are aligned, the ring slot of a queue has    *)
(* room for its control words, state array and payload as plain integers,  *)
(* and once add() has accepted slots only another call that adds slots     *)
(* runs out of room, also after an add() that failed half way and left     *)
(* the earlier slots at other offsets.                                     *)
NothingWraps ==
    /\ \A k \in DOMAIN lname : \A i \in DOMAIN lname[k] :
         LET s == lname[k][i] IN
         /\ s.offset % s.align = 0
         /\ Len(s.aux) = 2 =>
              s.size >= CtrlBytes + s.aux[1] * StateBytes + s.aux[1] * s.aux[2]
    /\ lpc = "build" /\ lcall.does # "add" /\ li < Len(lslots) =>
         LET s == lslots[li + 1]  off == AlignUp(lcursor, AlignOf(s))
         IN  off # 0 /\ off + SizeOf(s) <= WordMax

=============================================================================
