------------------------------- MODULE Deque --------------------------------
(***************************************************************************)
(* The growing ring of quash/src/deque.h, as execute.c uses it for its     *)
(* jobs, memory_pool.c for its pools and the parser for its lists (there   *)
(* with arrays from the memory pool: IMPLEMENT_DEQUE_MEMORY_POOL has the   *)
(* same operations).  One cell stays free: front = back means empty, and a *)
(* push that would make them meet doubles the array first.  A cell that    *)
(* holds no element is Garbage (the code leaves old contents there).       *)
(***************************************************************************)
EXTENDS Integers, Sequences

CONSTANT Garbage    \* what a cell without an element holds

Cells(n) == [c \in 0 .. n - 1 |-> Garbage]

new(init_cap) == [data |-> Cells(IF init_cap > 0 THEN init_cap ELSE 1),
                  cap |-> IF init_cap > 0 THEN init_cap ELSE 1, front |-> 0, back |-> 0]

is_empty(deq) == deq.front = deq.back
is_full(deq) == deq.front = (deq.back + 1) % deq.cap
length(deq) == (deq.back - deq.front + deq.cap) % deq.cap

\* Fault: the old contents stay where they are.
on_pushInPlace(deq) ==
  IF ~is_full(deq) THEN deq
  ELSE [data |-> [c \in 0 .. 2 * deq.cap - 1 |->
                    IF c < deq.cap - 1 THEN deq.data[c] ELSE Garbage],
        cap |-> 2 * deq.cap, front |-> 0, back |-> deq.cap - 1]

\* __on_push: the old contents move to the start of an array twice as large.
on_push(deq) ==
  IF ~is_full(deq) THEN deq
  ELSE [data |-> [c \in 0 .. 2 * deq.cap - 1 |->
                    IF c < deq.cap - 1 THEN deq.data[(deq.front + c) % deq.cap] ELSE Garbage],
        cap |-> 2 * deq.cap, front |-> 0, back |-> deq.cap - 1]

push_back(deq, element) ==
  LET d == on_push(deq)
  IN  [d EXCEPT !.data[d.back] = element, !.back = (d.back + 1) % d.cap]

push_front(deq, element) ==
  LET d == on_push(deq)
      f == (d.front + d.cap - 1) % d.cap
  IN  [d EXCEPT !.data[f] = element, !.front = f]

\* The popped element is peek_front(deq) beforehand.
pop_front(deq) ==
  [deq EXCEPT !.data[deq.front] = Garbage, !.front = (deq.front + 1) % deq.cap]

last_cell(deq) == (deq.back + deq.cap - 1) % deq.cap

pop_back(deq) == [deq EXCEPT !.data[last_cell(deq)] = Garbage, !.back = last_cell(deq)]

update_back(deq, element) == [deq EXCEPT !.data[last_cell(deq)] = element]

peek_front(deq) == deq.data[deq.front]
peek_back(deq) == deq.data[last_cell(deq)]

\* __reallign, which as_array needs: the contents start at cell 0, in a new array
\* unless they did.
reallign(deq) ==
  [deq EXCEPT !.data = [c \in 0 .. deq.cap - 1 |->
                          IF c < length(deq) THEN deq.data[(deq.front + c) % deq.cap]
                                             ELSE Garbage],
              !.front = 0, !.back = length(deq)]

\* The elements from front to back.
Elements(deq) == [n \in 1 .. length(deq) |-> deq.data[(deq.front + n - 1) % deq.cap]]
=============================================================================
