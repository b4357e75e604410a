---------------------------- MODULE SortedQueue ----------------------------
(***************************************************************************)
(* What libpriqueue.h promises: a queue ordered by a comparison function,  *)
(* equal elements in the order they were offered, and each operation's     *)
(* return value.  The array it is kept in does not show.                   *)
(***************************************************************************)
EXTENDS PriorityOrder, SequencesExt

CONSTANTS Elements,   \* the pointers users offer
          NULL

VARIABLES queue,      \* the elements, the head first
          ret         \* what the last call returned

SQInit == queue = <<>> /\ ret = 0

SQOffer(x) == /\ queue' = Insert(queue, x)
              /\ ret' = Position(queue, x) - 1

SQPoll == IF queue = <<>>
          THEN ret' = NULL /\ UNCHANGED queue
          ELSE ret' = Head(queue) /\ queue' = Tail(queue)

SQRemoveAt(index) ==
  IF index \in 0 .. Len(queue) - 1
  THEN ret' = queue[index + 1] /\ queue' = RemoveAt(queue, index + 1)
  ELSE ret' = NULL /\ UNCHANGED queue

\* t is s without x, the others in their order; place says where in s they are.
Without(s, x, t) ==
  \E place \in [1 .. Len(t) -> 1 .. Len(s)] :
    /\ \A k, l \in 1 .. Len(t) : k < l => place[k] < place[l]
    /\ \A n \in 1 .. Len(s) : s[n] # x <=> \E k \in 1 .. Len(t) : place[k] = n
    /\ \A k \in 1 .. Len(t) : t[k] = s[place[k]]

\* All instances of x; ret is their number.
SQRemove(x) == /\ queue' \in Seq(Elements)
               /\ Without(queue, x, queue')
               /\ ret' = Len(queue) - Len(queue')

SQNext == \/ SQPoll
          \/ \E x \in Elements : SQOffer(x) \/ SQRemove(x)
          \/ \E index \in -1 .. Len(queue) : SQRemoveAt(index)

SQSpec == SQInit /\ [][SQNext]_<<queue, ret>>
=============================================================================
