--------------------------- MODULE BoundedBuffer ---------------------------
(***************************************************************************)
(* What the shared queue of pthreads_pc promises its users, with no word   *)
(* of mutexes, condition variables or array indices: producers append the  *)
(* numbers 0, 1, 2, ... up to WORK_MAX to a first-in first-out buffer of   *)
(* Size places, and every number is handed to exactly one consumer.        *)
(***************************************************************************)
EXTENDS Integers, Sequences

CONSTANTS Consumers,  \* the consumer threads
          Size,       \* capacity of the buffer
          WORK_MAX    \* how many items are ever produced

VARIABLES items,      \* the buffer's content, oldest item first
          made,       \* number of items produced so far
          got         \* the item each consumer took last, -1 before the first

vars == <<items, made, got>>

Init == /\ items = << >>
        /\ made = 0
        /\ got = [c \in Consumers |-> -1]

\* Append the next number.
Put == /\ made < WORK_MAX
       /\ Len(items) < Size
       /\ items' = Append(items, made)
       /\ made' = made + 1
       /\ UNCHANGED got

\* Hand the oldest item to consumer c.
Get(c) == /\ items # << >>
          /\ got' = [got EXCEPT ![c] = Head(items)]
          /\ items' = Tail(items)
          /\ UNCHANGED made

Next == Put \/ \E c \in Consumers : Get(c)

Spec == Init /\ [][Next]_vars
=============================================================================
