------------------------------ MODULE PriQueue ------------------------------
(***************************************************************************)
(* scheduler/src/libpriqueue/libpriqueue.c: the priority queue kept in a   *)
(* ring array that grows.  An operation is one step: the library has no    *)
(* locks and its callers one thread.                                       *)
(***************************************************************************)
EXTENDS Integers, Sequences

CONSTANTS Elements,      \* the pointers users offer
          compare(_, _), \* the comparison function given to priqueue_init()
          INITIAL_SIZE,
          NULL,
          Garbage,       \* what fresh memory holds
          MaxCount,      \* bound: elements in the queue
          MaxStart       \* bound: polls between two resizes, see poll(q)

ASSUME InitialSizeAssumption == INITIAL_SIZE \in Nat \ {0}
ASSUME ElementsAssumption == {NULL, Garbage} \cap Elements = {}
ASSUME CompareAssumption == \A x, y \in Elements : compare(x, y) \in Int

VARIABLES q,             \* the priqueue_t: data, size, count, start
          ret            \* what the last call returned

vars == <<q, ret>>

Memory(n) == [i \in 0 .. n - 1 |-> Garbage]

priqueue_init == [data |-> Memory(INITIAL_SIZE), size |-> INITIAL_SIZE,
                  count |-> 0, start |-> 0]

true_index(r, index) == (index + r.start) % r.size

resize(r) ==
  LET n == r.size * 2 + 1
  IN [data |-> [i \in 0 .. n - 1 |->
                  IF i < r.count THEN r.data[true_index(r, i)] ELSE Garbage],
      size |-> n, count |-> r.count, start |-> 0]

swap(r, i, j) == LET a == true_index(r, i)
                     b == true_index(r, j)
                 IN [r EXCEPT !.data[a] = r.data[b], !.data[b] = r.data[a]]

\* The index at which priqueue_offer()'s loop stops.
OfferIndex(r, ptr) ==
  LET stop[index \in 0 .. r.count] ==
        IF index < r.count /\ compare(ptr, r.data[true_index(r, index)]) >= 0
        THEN stop[index + 1] ELSE index
  IN stop[0]

\* The new element behind the last one, and swapped down to its index.
OfferInto(r, ptr, index) ==
  LET down[i \in index .. r.count] ==
        IF i = r.count THEN [r EXCEPT !.data[true_index(r, r.count)] = ptr]
                       ELSE swap(down[i + 1], i + 1, i)
  IN [down[index] EXCEPT !.count = @ + 1]

\* The element at index swapped up behind the others, which move down.
RemoveAtIndex(r, index) ==
  LET up[i \in index .. r.count - 1] == IF i = index THEN r ELSE swap(up[i - 1], i - 1, i)
  IN [up[r.count - 1] EXCEPT !.count = @ - 1]

\* Fault: the search goes on behind an element that moved down.
RoundSkipping(s, ptr) ==
  IF s.i >= s.ring.count THEN s
  ELSE IF s.ring.data[true_index(s.ring, s.i)] = ptr
       THEN [ring |-> RemoveAtIndex(s.ring, s.i), i |-> s.i + 1]
       ELSE [s EXCEPT !.i = @ + 1]

\* A round of priqueue_remove()'s loop: the queue s.ring and the index s.i.
Round(s, ptr) ==
  IF s.i >= s.ring.count THEN s
  ELSE IF s.ring.data[true_index(s.ring, s.i)] = ptr
       THEN [s EXCEPT !.ring = RemoveAtIndex(s.ring, s.i)]
       ELSE [s EXCEPT !.i = @ + 1]

\* The whole loop: every round looks at another element.
RemoveAll(r, ptr) ==
  LET after[n \in 0 .. r.count] ==
        IF n = 0 THEN [ring |-> r, i |-> 0] ELSE Round(after[n - 1], ptr)
  IN after[r.count].ring

(***************************************************************************)
(* The operations.                                                         *)
(***************************************************************************)
Init == q = priqueue_init /\ ret = 0

offer(ptr) == /\ q.count < MaxCount
              /\ LET r == IF q.count = q.size THEN resize(q) ELSE q
                     index == OfferIndex(r, ptr)
                 IN q' = OfferInto(r, ptr, index) /\ ret' = index

\* start is never wrapped: only a resize takes it back to 0.  The bound keeps
\* it far from the end of the int range, behind which true_index() would not
\* be an index any more.
poll == /\ q.start < MaxStart
        /\ IF q.count = 0
           THEN ret' = NULL /\ UNCHANGED q
           ELSE /\ ret' = q.data[true_index(q, 0)]
                /\ q' = [q EXCEPT !.start = @ + 1, !.count = @ - 1]

remove(ptr) == /\ q' = RemoveAll(q, ptr)
               /\ ret' = q.count - q'.count

\* What is removed is read from the slot behind the last element.
remove_at(index) ==
  IF index < 0 \/ index >= q.count
  THEN ret' = NULL /\ UNCHANGED q
  ELSE /\ q' = RemoveAtIndex(q, index)
       /\ ret' = q'.data[true_index(q', q'.count)]

Next == \/ poll
        \/ \E ptr \in Elements : offer(ptr) \/ remove(ptr)
        \/ \E index \in -1 .. q.count : remove_at(index)

Spec == Init /\ [][Next]_vars

(***************************************************************************)
(* Properties.                                                             *)
(***************************************************************************)
\* The elements in order, as priqueue_at() returns them.
at(index) == IF index >= q.count THEN NULL ELSE q.data[true_index(q, index)]

Content == [k \in 1 .. q.count |-> at(k - 1)]

Abstract == INSTANCE SortedQueue WITH queue <- Content

\* libpriqueue.h, whatever the ring has been through (wrapped around the end of
\* the array, grown while wrapped, elements swapped out of its middle): every
\* call returns and leaves what a sorted sequence would.
ImplementsSortedQueue == Abstract!SQSpec
=============================================================================
