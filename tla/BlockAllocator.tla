--------------------------- MODULE BlockAllocator ---------------------------
(***************************************************************************)
(* What buddy.h promises its users: a request for a number of bytes gets   *)
(* the smallest size of block that holds them, aligned to its size and     *)
(* disjoint from every block handed out before, unless memory really has   *)
(* no block left that is large enough.                                     *)
(***************************************************************************)
EXTENDS Integers

CONSTANTS Pages,       \* how many pages there are, a power of two
          Levels,      \* sizes of blocks: 2^k pages for k in Levels
          PageOrder,   \* a page has 2^PageOrder bytes
          Sizes,       \* sizes in bytes asked for
          None         \* no request, and what a failed one returns

VARIABLES allocated,   \* blocks handed out and not freed: [start, level]
          asked,       \* the size asked for, if the last call was a request
          waiting,     \* has the request still to be answered?
          answer       \* what it returned

store == <<allocated, asked, waiting, answer>>

Span(start, level) == start .. start + 2^level - 1

UsedPages == UNION {Span(b.start, b.level) : b \in allocated}

\* The places for a block of 2^level pages.
Places(level) == {start \in 0 .. Pages - 2^level :
                    /\ start % 2^level = 0
                    /\ Span(start, level) \cap UsedPages = {}}

\* Blocks of this level hold the bytes asked for.
Fits(level, size) == size <= 2^(PageOrder + level)

LeastFit(level, size) == /\ Fits(level, size)
                         /\ \A smaller \in Levels : smaller < level => ~Fits(smaller, size)

BAInit == allocated = {} /\ asked = None /\ waiting = FALSE /\ answer = None

Request(size) == /\ ~waiting
                 /\ asked' = size /\ waiting' = TRUE
                 /\ UNCHANGED <<allocated, answer>>

\* The request is answered with a block.
Allocate(level) == /\ waiting
                   /\ LeastFit(level, asked)
                   /\ \E start \in Places(level) :
                        /\ allocated' = allocated \cup {[start |-> start, level |-> level]}
                        /\ answer' = start
                   /\ waiting' = FALSE
                   /\ UNCHANGED asked

\* A request is made and refused at once.
Refuse(size) == /\ ~waiting
                /\ \A level \in Levels : Fits(level, size) => Places(level) = {}
                /\ asked' = size /\ answer' = None
                /\ UNCHANGED <<allocated, waiting>>

Release(b) == /\ ~waiting
              /\ allocated' = allocated \ {b}
              /\ asked' = None /\ answer' = None
              /\ UNCHANGED waiting

BANext == \/ \E size \in Sizes : Request(size) \/ Refuse(size)
          \/ \E level \in Levels : Allocate(level)
          \/ \E b \in allocated : Release(b)

BASpec == BAInit /\ [][BANext]_store
=============================================================================
