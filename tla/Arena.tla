------------------------------- MODULE Arena --------------------------------
(***************************************************************************)
(* What memory_pool.h promises of the memory pool: what is allocated lies  *)
(* in memory the program has, apart from everything allocated before, and  *)
(* all of it is given back at once.                                        *)
(***************************************************************************)
EXTENDS Integers

VARIABLES owned,   \* size of each block of memory the program has
          given    \* the parts of it that were allocated

vars == <<owned, given>>

NoBlocks == [b \in {} |-> 0]

Overlap(r, s) == r.block = s.block /\ r.from < s.from + s.size /\ s.from < r.from + r.size

Init == owned = NoBlocks /\ given = {}

Obtain(b, size) == /\ b \notin DOMAIN owned
                   /\ owned' = [c \in DOMAIN owned \cup {b} |->
                                  IF c = b THEN size ELSE owned[c]]
                   /\ given' = given

Give(r) == /\ r.block \in DOMAIN owned
           /\ r.size > 0 /\ r.from >= 0 /\ r.from + r.size <= owned[r.block]
           /\ \A s \in given : ~Overlap(r, s)
           /\ given' = given \cup {r}
           /\ owned' = owned

GiveBack == owned' = NoBlocks /\ given' = {}

Next == \/ \E b \in DOMAIN owned' \ DOMAIN owned : Obtain(b, owned'[b])
        \/ \E r \in given' \ given : Give(r)
        \/ GiveBack

Spec == Init /\ [][Next]_vars
=============================================================================
