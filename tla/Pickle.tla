-------------------------------- MODULE Pickle --------------------------------
(***************************************************************************)
(* Pickled handles.  __reduce__ of a bound handle gives the segment's      *)
(* name, the handle's slots and the segment's digest; _attach_slot,        *)
(* _attach_array, _attach_queue and _attach_futex_queue attach the segment *)
(* the name leads to by then, which another program may have unlinked and  *)
(* created again from another layout (bindings/py_layout.c:1515-1984).     *)
(* The digest is a hash, so different layouts may have the same one; it is *)
(* scaled down to DigestMax so that small instances contain such layouts.  *)
(***************************************************************************)
EXTENDS Layout

CONSTANTS
    Directories, \* the directories of the segments that are created
    KindCode,    \* posixipc_kind, as a number
    DigestMax,   \* the largest digest; DigestMax + 1 is a power of two
    Prime        \* the multiplier of the hash

VARIABLES
    pname,   \* what the name leads to: <<>> or <<directory>>
    pickle,  \* the pickle in transit: <<>> or <<record>>
    phandle  \* the handle it became: <<>> or <<[of, dir]>>

pickleVars == <<pname, pickle, phandle>>

(* The exclusive or of two digests, bit by bit: the divisors of a power of *)
(* two are the powers of two up to it.                                     *)
XorOf == [a, b \in 0..DigestMax |->
    LET Odd(n, k) == (n \div k) % 2 = 1
        Differ(k) == (DigestMax + 1) % k = 0 /\ Odd(a, k) # Odd(b, k)
        upTo[k \in 0..DigestMax] ==
          IF k = 0 THEN 0 ELSE upTo[k - 1] + (IF Differ(k) THEN k ELSE 0)
    IN  upTo[DigestMax]]

(* a ^ b, of which a digest keeps the low bits *)
Xor(a, b) == XorOf[a % (DigestMax + 1), b % (DigestMax + 1)]

Feed(h, x) == (Xor(h, x) * Prime) % (DigestMax + 1)

(* The flags of a slot: the count or the mutex slot, or the hash of the    *)
(* shape of a ring, which is never 0.                                      *)
Flags(s) ==
    CASE Len(s.aux) = 0 -> 0
      [] Len(s.aux) = 1 -> s.aux[1]
      [] Len(s.aux) = 2 -> LET h == Xor(s.aux[1] * 5, s.aux[2] * 3)
                           IN  IF h = 0 THEN 1 ELSE h

(* posixipc_layout_digest; 0 is no digest *)
Digest(dir) ==
    LET slot(h, s) == Feed(Feed(Feed(Feed(h, KindCode[s.kind]), s.align), s.size), Flags(s))
        h[i \in 0..Len(dir)] == IF i = 0 THEN 1 ELSE slot(h[i - 1], dir[i])
    IN  IF h[Len(dir)] = 0 THEN 1 ELSE h[Len(dir)]

QueueKinds == <<"robust", "robust", "cond", "cond", "bytes">>
FutexQueueKinds == <<"robust", "robust", "bytes">>

KindsAt(dir, first, count) == [i \in 1..count |-> dir[first + i].kind]

Shape(first, kinds, shape, by, digest) ==
    [first |-> first, kinds |-> kinds, shape |-> shape, by |-> by, digest |-> digest]

(* What __reduce__ of a handle on the segment can be: of any one slot, of  *)
(* an array of mutexes, of a queue of either sort with its shape.          *)
Firsts(dir, kinds) == {f \in 0..(Len(dir) - Len(kinds)) : KindsAt(dir, f, Len(kinds)) = kinds}

SlotReductions(dir) ==
    {Shape(f, <<dir[f + 1].kind>>, <<>>, "slot", Digest(dir)) : f \in 0..(Len(dir) - 1)}

ArrayReductions(dir, k) ==
    {Shape(f, <<k, k>>, <<>>, "array", Digest(dir)) : f \in Firsts(dir, <<k, k>>)}

RingReductions(dir, kinds, by) ==
    {Shape(f, kinds, dir[f + Len(kinds)].aux, by, Digest(dir)) :
       f \in {g \in Firsts(dir, kinds) : Len(dir[g + Len(kinds)].aux) = 2}}

Reductions(dir) ==
    SlotReductions(dir) \cup ArrayReductions(dir, "mutex") \cup ArrayReductions(dir, "robust")
    \cup RingReductions(dir, QueueKinds, "queue")
    \cup RingReductions(dir, FutexQueueKinds, "futexqueue")

PickleInit == pname = <<>> /\ pickle = <<>> /\ phandle = <<>>

PublishDirectory(dir) ==
    /\ pname = <<>>
    /\ pname' = <<dir>>
    /\ UNCHANGED <<pickle, phandle>>

UnlinkDirectory ==
    /\ pname # <<>>
    /\ pname' = <<>>
    /\ UNCHANGED <<pickle, phandle>>

Reduce ==
    /\ pname # <<>> /\ pickle = <<>>
    /\ \E p \in Reductions(pname[1]) : pickle' = <<p>>
    /\ UNCHANGED <<pname, phandle>>

(* the digest and the slot range, as each _attach_* compares them *)
InRange(p, dir) == Digest(dir) = p.digest /\ p.first + Len(p.kinds) <= Len(dir)

(* Mutant: the digest is taken for proof of the kinds. *)
SameKindsByDigest(p, dir) == TRUE

(* the kinds of the slots, as each _attach_* and bind compares them *)
SameKinds(p, dir) == KindsAt(dir, p.first, Len(p.kinds)) = p.kinds

(* _attach_slot of a Condition attaches its mutex as well *)
MutexOf(dir, first) == dir[first + 1].aux[1]
MutexSlotValid(p, dir) ==
    p.by = "slot" /\ p.kinds = <<"cond">> =>
      /\ MutexOf(dir, p.first) < Len(dir)
      /\ dir[MutexOf(dir, p.first) + 1].kind \in {"mutex", "robust"}

(* The ring slot is large enough for the pickled shape, and then the       *)
(* control words, which the creator initialised, hold that shape.          *)
SameShape(p, dir) ==
    p.by \in {"queue", "futexqueue"} =>
      LET ring == dir[p.first + Len(p.kinds)]
          need == IF p.by = "queue" THEN QueueBytes(p.shape[1], p.shape[2])
                                    ELSE FutexQueueBytes(p.shape[1], p.shape[2])
      IN  need # 0 /\ ring.size >= need /\ ring.aux = p.shape

(* _attach_*: all the checks pass and there is a handle, or an exception *)
Unpickle ==
    /\ pickle # <<>> /\ phandle = <<>> /\ pname # <<>>
    /\ LET p == pickle[1]  dir == pname[1] IN
       IF InRange(p, dir) /\ SameKinds(p, dir) /\ MutexSlotValid(p, dir) /\ SameShape(p, dir)
         THEN phandle' = <<[of |-> p, dir |-> dir]>>
         ELSE UNCHANGED phandle
    /\ UNCHANGED <<pname, pickle>>

PickleNext ==
    \/ \E dir \in Directories : PublishDirectory(dir)
    \/ UnlinkDirectory \/ Reduce \/ Unpickle

PickleSpec == PickleInit /\ LayoutInit /\ [][PickleNext /\ UNCHANGED layoutVars]_<<pickleVars, layoutVars>>

-----------------------------------------------------------------------------

(* A handle that came out of a pickle lies on slots of the segment that    *)
(* are of its kinds, its condition goes with a mutex and its ring is of    *)
(* its shape, even when the name leads to a segment of another layout that *)
(* has the digest of the pickled one (py_layout.c:1542, 1548).             *)
UnpickledFits ==
    \A k \in DOMAIN phandle :
      LET p == phandle[k].of  dir == phandle[k].dir IN
      /\ p.first + Len(p.kinds) <= Len(dir)
      /\ \A i \in DOMAIN p.kinds : dir[p.first + i].kind = p.kinds[i]
      /\ p.kinds = <<"cond">> => dir[MutexOf(dir, p.first) + 1].kind \in {"mutex", "robust"}
      /\ p.shape # <<>> => dir[p.first + Len(p.kinds)].aux = p.shape

=============================================================================
