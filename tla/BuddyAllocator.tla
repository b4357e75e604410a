--------------------------- MODULE BuddyAllocator ---------------------------
(***************************************************************************)
(* buddy/buddy.c: the page table and the free lists.  A split and a level  *)
(* of the recursion in buddy_combine() are steps of their own; nothing     *)
(* runs between them, and the caller is back at op = "idle".               *)
(*                                                                         *)
(* A block is known by the index of its first page: PAGE_TO_ADDR and       *)
(* ADDR_TO_PAGE are inverses on the starts of pages.  A list_head is the   *)
(* sequence of the page indices that hang on it.                           *)
(***************************************************************************)
EXTENDS Integers, Sequences, FiniteSets, SequencesExt

CONSTANTS MIN_ORDER, MAX_ORDER,
          Sizes,       \* sizes in bytes asked for
          NULL

\* With sizes above 2^30 the loop of buddy_alloc() shifts into the sign bit.
ASSUME OrderAssumption == /\ MIN_ORDER \in Nat /\ MAX_ORDER \in Nat
                          /\ MIN_ORDER < MAX_ORDER /\ MAX_ORDER < 30
ASSUME SizesAssumption == \A size \in Sizes : size \in Int /\ size <= 2^30

n_pages == 2^(MAX_ORDER - MIN_ORDER)
PageIds == 0 .. n_pages - 1
Orders == MIN_ORDER .. MAX_ORDER

VARIABLES free_area,   \* the free list of each order
          is_free,     \* of each page; only that of a block's first page counts
          block_size,  \* the same
          op,          \* the call being made: "idle", "split" or "combine"
          o,           \* order reached by buddy_alloc()
          needed,      \* needed_block of buddy_alloc()
          the_page,    \* the_page of buddy_combine()
          ret,         \* what buddy_alloc() returned, if it was the last call
          asked        \* its parameter size, if it was the last call

buddy == <<free_area, is_free, block_size, op, o, needed, the_page, ret, asked>>

buddy_init == /\ free_area = [ord \in Orders |-> IF ord = MAX_ORDER THEN <<0>> ELSE <<>>]
              /\ is_free = [p \in PageIds |-> 1]
              /\ block_size = [p \in PageIds |-> IF p = 0 THEN MAX_ORDER ELSE 0]
              /\ op = "idle"
              /\ o = MIN_ORDER /\ needed = MIN_ORDER
              /\ the_page = 0
              /\ ret = NULL /\ asked = NULL

PagesOf(ord) == 2^(ord - MIN_ORDER)

\* Fault: the buddy is always the block behind.
BuddyBehind(page, ord) == page + PagesOf(ord)

\* BUDDY_ADDR: one bit of the address is flipped.
BuddyOf(page, ord) == IF (page \div PagesOf(ord)) % 2 = 0
                      THEN page + PagesOf(ord) ELSE page - PagesOf(ord)

(***************************************************************************)
(* buddy_alloc()                                                           *)
(***************************************************************************)
\* Fault: the last order the request fills.
IsFilled(ord, size) == /\ ord >= MIN_ORDER
                       /\ size - 2^ord < 2^ord
                       /\ ord > MIN_ORDER => 2^ord <= size

\* The first order that satisfies the request.
IsNeeded(ord, size) == /\ ord >= MIN_ORDER
                       /\ size <= 2^ord
                       /\ ord > MIN_ORDER => 2^(ord - 1) < size

\* Fault: the search goes on behind the first free block.
IsLastOpen(found, ord) == /\ found \in ord .. MAX_ORDER
                          /\ free_area[found] # <<>>
                          /\ \A k \in found + 1 .. MAX_ORDER : free_area[k] = <<>>

\* The first order from ord on with a free block.
IsFirstOpen(found, ord) == /\ found \in ord .. MAX_ORDER
                           /\ free_area[found] # <<>>
                           /\ \A k \in ord .. found - 1 : free_area[k] = <<>>

AllocFails(size) ==
  /\ op = "idle"
  /\ \E ord \in MIN_ORDER .. 30 :
       /\ IsNeeded(ord, size)
       /\ ord > MAX_ORDER \/ \A k \in ord .. MAX_ORDER : free_area[k] = <<>>
  /\ ret' = NULL
  /\ asked' = size
  /\ UNCHANGED <<free_area, is_free, block_size, op, o, needed, the_page>>

AllocStarts(size) ==
  /\ op = "idle"
  /\ \E ord \in Orders, found \in Orders :
       /\ IsNeeded(ord, size) /\ IsFirstOpen(found, ord)
       /\ needed' = ord /\ o' = found
  /\ op' = "split"
  /\ asked' = size
  /\ UNCHANGED <<free_area, is_free, block_size, the_page, ret>>

\* buddy_split(o); o--
Split ==
  /\ op = "split" /\ o > needed
  /\ LET page == Head(free_area[o])
         right == BuddyOf(page, o - 1)
     IN /\ free_area' = [free_area EXCEPT ![o] = Tail(@), ![o - 1] = <<page, right>> \o @]
        /\ block_size' = [block_size EXCEPT ![page] = o - 1, ![right] = o - 1]
  /\ o' = o - 1
  /\ UNCHANGED <<is_free, op, needed, the_page, ret, asked>>

\* The first free block is taken off its list and returned.
Take ==
  /\ op = "split" /\ o = needed
  /\ free_area' = [free_area EXCEPT ![o] = Tail(@)]
  /\ is_free' = [is_free EXCEPT ![Head(free_area[o])] = 0]
  /\ ret' = Head(free_area[o])
  /\ op' = "idle"
  /\ o' = MIN_ORDER /\ needed' = MIN_ORDER
  /\ UNCHANGED <<block_size, the_page, asked>>

(***************************************************************************)
(* buddy_free()                                                            *)
(***************************************************************************)
FreeStarts(page) ==
  /\ op = "idle"
  /\ is_free' = [is_free EXCEPT ![page] = 1]
  /\ the_page' = page
  /\ ret' = NULL /\ asked' = NULL
  /\ op' = "combine"
  /\ UNCHANGED <<free_area, block_size, o, needed>>

buddy_page == BuddyOf(the_page, block_size[the_page])

\* A block of the whole memory has no buddy: the page behind g_pages is read.
\* g_pages is the last variable of the program the Makefile links, and the rest
\* of its page of static memory is zero: what is read says that it is not free.
BuddyIsFree == buddy_page \in PageIds /\ is_free[buddy_page] = 1

\* Fault: the buddy's size is not looked at.
CanCombineAnySize == BuddyIsFree

CanCombine == BuddyIsFree /\ block_size[buddy_page] = block_size[the_page]

\* The page is taken off the list it hangs on.
list_del(page) == [ord \in Orders |->
                     IF page \in ToSet(free_area[ord])
                     THEN RemoveAt(free_area[ord], CHOOSE k \in 1 .. Len(free_area[ord]) :
                                                     free_area[ord][k] = page)
                     ELSE free_area[ord]]

\* Combining stops at MAX_ORDER without a look at a buddy.
Combine ==
  /\ op = "combine"
  /\ CanCombine
  /\ LET ord == block_size[the_page]
         first == IF buddy_page < the_page THEN buddy_page ELSE the_page
     IN /\ free_area' = list_del(buddy_page)
        /\ block_size' = [block_size EXCEPT ![first] = ord + 1]
        /\ the_page' = first
        /\ op' = IF ord + 1 = MAX_ORDER THEN "insert" ELSE "combine"
  /\ UNCHANGED <<is_free, o, needed, ret, asked>>

\* Fault: the block is put at the front of its list.
SortedInFirst(list, page) == <<page>> \o list

\* The list with page before the first greater one, or at the end.
SortedIn(list, page) ==
  InsertAt(list, CHOOSE k \in 1 .. Len(list) + 1 :
                   /\ \A l \in 1 .. k - 1 : list[l] <= page
                   /\ k <= Len(list) => page < list[k], page)

\* buddy_combine() has returned; the block goes into its list.
Insert ==
  /\ \/ op = "insert"
     \/ op = "combine" /\ ~CanCombine
  /\ free_area' = [free_area EXCEPT ![block_size[the_page]] = SortedIn(@, the_page)]
  /\ op' = "idle"
  /\ the_page' = 0
  /\ UNCHANGED <<is_free, block_size, o, needed, ret, asked>>

(***************************************************************************)
(* Properties.                                                             *)
(***************************************************************************)
\* Types and ranges.
BuddyTypeOK == /\ free_area \in [Orders -> Seq(PageIds)]
               /\ is_free \in [PageIds -> {0, 1}]
               /\ block_size \in [PageIds -> Orders \cup {0}]
               /\ op \in {"idle", "split", "combine", "insert"}
               /\ o \in Orders /\ needed \in Orders
               /\ the_page \in PageIds
               /\ ret \in PageIds \cup {NULL}
               /\ asked \in Sizes \cup {NULL}

Allocated == {p \in PageIds : is_free[p] = 0}

Free(ord) == {free_area[ord][k] : k \in 1 .. Len(free_area[ord])}

Block(page, ord) == page .. page + PagesOf(ord) - 1

\* Free lists and page table together account for every page once: no block is
\* lost, handed out twice, or both free and in use, whatever was split and
\* combined before.  A block's first page knows its order.
Tiling == op = "idle" =>
  \A page \in PageIds :
    Cardinality({p \in Allocated : page \in Block(p, block_size[p])})
      + Cardinality({b \in PageIds \X Orders : /\ b[1] \in Free(b[2])
                                              /\ block_size[b[1]] = b[2]
                                              /\ page \in Block(b[1], b[2])}) = 1

\* Combining reaches every pair: two buddies are never both free.  So when all
\* is freed, one block of the whole memory is there again.
Coalesced == op = "idle" =>
  \A ord \in MIN_ORDER .. MAX_ORDER - 1, p \in PageIds :
    p \in Free(ord) => BuddyOf(p, ord) \notin Free(ord)

\* Free lists are sorted and free of duplicates, though splits add at the front
\* and frees in the middle: a request gets the free block of its order with the
\* lowest address.
ListsSorted == \A ord \in Orders : \A k, l \in 1 .. Len(free_area[ord]) :
                 k < l => free_area[ord][k] < free_area[ord][l]

\* Line 79 of buddy.c: "there are no free blocks of size order-1 (otherwise why would we
\* need to split?)", for every split of a request.
SplitAssumption == op = "split" /\ o > needed => free_area[o - 1] = <<>>

\* Line 111: "buddy_page points to the correct buddy of the_page", which is a
\* page of g_pages, where buddy_combine() reads it.
CorrectBuddy == op = "combine" => buddy_page \in PageIds

Abstract == INSTANCE BlockAllocator
              WITH Pages <- n_pages, Levels <- 0 .. MAX_ORDER - MIN_ORDER,
                   PageOrder <- MIN_ORDER, Sizes <- Sizes, None <- NULL,
                   allocated <- {[start |-> p, level |-> block_size[p] - MIN_ORDER]
                                   : p \in Allocated},
                   asked <- asked, waiting <- op = "split", answer <- ret

\* Blocks handed out are aligned, disjoint and of the smallest order that holds
\* the size asked for, and a request is refused only if memory has no place for
\* any block that large: lists, splitting and combining keep no free memory from
\* a request that fits into it.
ImplementsBlockAllocator == Abstract!BASpec
=============================================================================
