---------------------------- MODULE BlockingFifo ----------------------------
(***************************************************************************)
(* What prodcons/Queue.hpp promises to its callers, without its mutex and  *)
(* its semaphore: one FIFO sequence of items, a push that appends to it    *)
(* and returns, and a pop that blocks while the sequence is empty, removes *)
(* the first item in one step and hands it to exactly one consumer.        *)
(***************************************************************************)
EXTENDS Naturals, Sequences

CONSTANTS Items,      \* the values callers push
          Consumers,  \* the threads that call pop
          None        \* "no item": what a consumer outside pop holds

VARIABLES items,      \* the content of the queue, oldest first
          holding     \* [Consumers -> Items or None], the item pop took

vars == <<items, holding>>

Init == /\ items = << >>
        /\ holding = [c \in Consumers |-> None]

(* push(data) takes effect *)
Push(v) == /\ items' = Append(items, v)
           /\ UNCHANGED holding

(* pop() takes effect: it never returns without an item *)
Take(c) == /\ holding[c] = None
           /\ items # << >>
           /\ holding' = [holding EXCEPT ![c] = Head(items)]
           /\ items' = Tail(items)

(* pop() returns the item to its caller *)
Return(c) == /\ holding[c] # None
             /\ holding' = [holding EXCEPT ![c] = None]
             /\ UNCHANGED items

Next == \/ \E v \in Items : Push(v)
        \/ \E c \in Consumers : Take(c) \/ Return(c)

Spec == Init /\ [][Next]_vars
=============================================================================
