-------------------------------- MODULE Fifo --------------------------------
(***************************************************************************)
(* What a bounded queue promises its callers, whatever it is built from:   *)
(* a put adds one whole item at the end or has no effect, a get removes    *)
(* the oldest item and hands exactly that item to one caller.  A caller    *)
(* that is killed takes what it holds with it.                             *)
(*                                                                         *)
(* intact is FALSE once the implementation has given up the promise; from  *)
(* then on nothing is said about it.                                       *)
(***************************************************************************)
EXTENDS Integers, Sequences

CONSTANTS Capacity, Callers, Values, None

VARIABLES
    items,      \* the queue
    hand,       \* what each caller has taken and not yet returned with
    intact

fifoVars == <<items, hand, intact>>

FifoInit ==
    /\ items = << >>
    /\ hand = [c \in Callers |-> None]
    /\ intact = TRUE

Enqueue(x) ==
    /\ Len(items) < Capacity
    /\ items' = Append(items, x)
    /\ UNCHANGED <<hand, intact>>

Dequeue(c) ==
    /\ items # << >>
    /\ hand[c] = None
    /\ hand' = [hand EXCEPT ![c] = Head(items)]
    /\ items' = Tail(items)
    /\ UNCHANGED intact

Leave(c) ==
    /\ hand[c] # None
    /\ hand' = [hand EXCEPT ![c] = None]
    /\ UNCHANGED <<items, intact>>

GivenUp == ~intact'

FifoNext ==
    \/ intact /\ \/ \E x \in Values : Enqueue(x)
                 \/ \E c \in Callers : Dequeue(c) \/ Leave(c)
    \/ GivenUp

FifoSpec == FifoInit /\ [][FifoNext]_fifoVars
=============================================================================
