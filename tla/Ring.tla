-------------------------------- MODULE Ring --------------------------------
(***************************************************************************)
(* The fixed-size ring kept in a shared-memory bytes slot, and the stores  *)
(* posixipc_queue_put, posixipc_queue_get and posixipc_queue_recover make  *)
(* to it (core/posixipc_queue.c).  posixipc.Queue and linux.FutexQueue run *)
(* these stores under a robust mutex; the modules that EXTEND this one add *)
(* the mutex, the waiting and the processes.                               *)
(*                                                                         *)
(* A process can be killed between any two stores, so every store to       *)
(* shared memory that recovery can observe is a step of its own.  The copy *)
(* of the payload is two steps: once it has begun the slot holds Junk, and *)
(* only when it has ended does it hold the item.  The stores of a killed   *)
(* process that were issued take effect in program order.                  *)
(***************************************************************************)
EXTENDS Integers, FiniteSets

CONSTANTS
    Depth,      \* ctrl->depth: the number of slots
    Items,      \* the payloads callers put
    Junk        \* bytes that are no whole item: fresh memory, a torn copy

ASSUME DepthAssumption == Depth \in Nat \ {0}
ASSUME JunkAssumption == Junk \notin Items

VARIABLES
    head,       \* ctrl->head: next slot to get
    tail,       \* ctrl->tail: next slot to put
    count,      \* ctrl->count
    state,      \* v->state: one header per slot
    payload     \* v->payload: one item per slot

ring == <<head, tail, count, state, payload>>

Slots == 0 .. Depth - 1

SlotStates == {"EMPTY", "RESERVED_PUT", "RESERVED_GET", "READY"}

RingTypeOK ==
    /\ head \in Slots
    /\ tail \in Slots
    /\ count \in 0 .. Depth
    /\ state \in [Slots -> SlotStates]
    /\ payload \in [Slots -> Items \cup {Junk}]

(* posixipc_queue_init_ctrl, run by the creator before READY is published. *)
RingInit ==
    /\ head = 0
    /\ tail = 0
    /\ count = 0
    /\ state = [i \in Slots |-> "EMPTY"]
    /\ payload = [i \in Slots |-> Junk]

(* Mutant: the modulo is forgotten. *)
NextSlotNoWrap(i) == i + 1

(* The successor of a slot, (idx + 1u) % depth. *)
NextSlot(i) == (i + 1) % Depth

SetState(i, s) == state' = [state EXCEPT ![i] = s]

-----------------------------------------------------------------------------
(* posixipc_queue_put, store by store.                                     *)

PutReserve ==
    /\ count < Depth
    /\ SetState(tail, "RESERVED_PUT")
    /\ UNCHANGED <<head, tail, count, payload>>

PutCopyBegin ==
    /\ payload' = [payload EXCEPT ![tail] = Junk]
    /\ UNCHANGED <<head, tail, count, state>>

PutCopyEnd(x) ==
    /\ payload' = [payload EXCEPT ![tail] = x]
    /\ UNCHANGED <<head, tail, count, state>>

PutPublish ==
    /\ SetState(tail, "READY")
    /\ UNCHANGED <<head, tail, count, payload>>

PutAdvance ==
    /\ tail' = NextSlot(tail)
    /\ UNCHANGED <<head, count, state, payload>>

PutCount ==
    /\ count' = count + 1
    /\ UNCHANGED <<head, tail, state, payload>>

-----------------------------------------------------------------------------
(* posixipc_queue_get, store by store.  GetBad is its EINVAL return.       *)

(* Mutant: the slot at tail is looked at. *)
GetBadAtTail == count > 0 /\ state[tail] # "READY"

GetBad == count > 0 /\ state[head] # "READY"

GetReserve ==
    /\ count > 0
    /\ state[head] = "READY"
    /\ SetState(head, "RESERVED_GET")
    /\ UNCHANGED <<head, tail, count, payload>>

GetRelease ==
    /\ SetState(head, "EMPTY")
    /\ UNCHANGED <<head, tail, count, payload>>

GetAdvance ==
    /\ head' = NextSlot(head)
    /\ UNCHANGED <<tail, count, state, payload>>

(* Mutant: count is left alone. *)
GetCountForgotten == UNCHANGED ring

GetCount ==
    /\ count' = count - 1
    /\ UNCHANGED <<head, tail, state, payload>>

-----------------------------------------------------------------------------
(* posixipc_queue_recover: a pass over the slot headers, one store each,   *)
(* then the control word.  The three control stores are one step because   *)
(* they are functions of the headers alone: whoever recovers after a crash *)
(* between them computes them afresh.                                      *)

(* Mutant: a put that died is taken for complete. *)
RecoveredStateTrustsPut(s) == IF s # "EMPTY" THEN "READY" ELSE "EMPTY"

(* Mutant: a get that died is taken for complete. *)
RecoveredStateDropsGet(s) == IF s = "READY" THEN "READY" ELSE "EMPTY"

RecoveredState(s) == IF s \in {"RESERVED_GET", "READY"} THEN "READY" ELSE "EMPTY"

RecoverSlot(i) ==
    /\ SetState(i, RecoveredState(state[i]))
    /\ UNCHANGED <<head, tail, count, payload>>

ReadySlots == {i \in Slots : state[i] = "READY"}

(* Mutant: tail is not recomputed. *)
RecoverCtrlKeepsTail ==
    /\ count' = Cardinality(ReadySlots)
    /\ head' = IF ReadySlots = {} THEN 0
               ELSE CHOOSE i \in ReadySlots : \A j \in ReadySlots : i <= j
    /\ UNCHANGED <<tail, state, payload>>

RecoverCtrl ==
    /\ count' = Cardinality(ReadySlots)
    /\ IF ReadySlots = {}
          THEN head' = 0 /\ tail' = 0
          ELSE /\ head' = CHOOSE i \in ReadySlots : \A j \in ReadySlots : i <= j
               /\ tail' = (head' + count') % Depth
    /\ UNCHANGED <<state, payload>>

-----------------------------------------------------------------------------
(* Shapes of the ring that the properties of the users speak of.           *)

(* Slot i is one of the n slots that follow slot h in ring order.          *)
InRun(i, h, n) == (h <= i /\ i < h + n) \/ i < h + n - Depth

(* The slot n places after slot h. *)
Plus(h, n) == IF h + n < Depth THEN h + n ELSE h + n - Depth

(* Exactly the n slots from h on hold items. *)
RunReady(h, n) ==
    \A i \in Slots : state[i] = IF InRun(i, h, n) THEN "READY" ELSE "EMPTY"

(* The ring at rest: the items are the count slots from head on.           *)
Settled == tail = Plus(head, count) /\ RunReady(head, count)

(* Slots whose item survives a recovery.                                   *)
Occupied(i) == state[i] \in {"READY", "RESERVED_GET"}

(* The contents run past the last slot and continue at slot 0, so that     *)
(* their order of insertion is not the order of their slot numbers.        *)
Wrapped == \E i, j \in Slots : i < head /\ head <= j /\ Occupied(i) /\ Occupied(j)
=============================================================================
