--------------------------- MODULE PriorityOrder ---------------------------
(***************************************************************************)
(* The order a priority queue of scheduler/src/libpriqueue keeps, as a     *)
(* sequence with its head first: what priqueue_offer() promises for any    *)
(* comparison function.  PriQueue shows that the ring array keeps this     *)
(* order; Scheduler uses it for its queue of waiting jobs.                 *)
(***************************************************************************)
EXTENDS Integers, Sequences

\* q->comparer: < 0 if the first argument belongs before the second.
CONSTANT compare(_, _)

\* The loop of priqueue_offer() ends at the first place n of s whose element
\* the new one belongs before, or behind the last one.
IsPosition(s, x, n) == /\ n \in 1 .. Len(s) + 1
                       /\ \A k \in 1 .. n - 1 : compare(x, s[k]) >= 0
                       /\ n <= Len(s) => compare(x, s[n]) < 0

\* Fault: the new element is always the last one.
PositionLast(s, x) == Len(s) + 1

Position(s, x) == CHOOSE n \in 1 .. Len(s) + 1 : IsPosition(s, x, n)

Put(s, x, n) == [k \in 1 .. Len(s) + 1 |-> IF k < n THEN s[k]
                                           ELSE IF k = n THEN x ELSE s[k - 1]]

Insert(s, x) == Put(s, x, Position(s, x))

\* No element belongs before one that stands in front of it.
Sorted(s) == \A k, l \in 1 .. Len(s) : k < l => compare(s[l], s[k]) >= 0
=============================================================================
