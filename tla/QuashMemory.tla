---------------------------- MODULE QuashMemory -----------------------------
(***************************************************************************)
(* The memory pool of quash (quash/src/parsing/memory_pool.c) under its    *)
(* main loop: a pool for every script, from which the parser takes strings *)
(* and the arrays of its lists, and which is freed as a whole.  It is a    *)
(* deque of ever larger pools; only the last one gives memory.             *)
(*                                                                         *)
(* malloc() (external) may fail at any time: the size is halved until it   *)
(* succeeds, or quash exits.  In which order the generated parser calls    *)
(* the pool and builds its list is left open.                              *)
(***************************************************************************)
EXTENDS Deque, FiniteSets

CONSTANTS INIT_SIZE,   \* bytes of the first pool, 1024 in quash.c
          POOLS,       \* the capacity the deque of pools starts with
          ELEM_SIZE,   \* sizeof an element of the parser's list
          Sizes,       \* lengths of the strings
          Elems,       \* what is put on the list
          MaxRequests, MaxLen   \* bounds: allocations per script, list elements

ASSUME MemoryAssumption == /\ INIT_SIZE \in Nat \ {0} /\ POOLS \in Nat \ {0}
                           /\ ELEM_SIZE \in Nat \ {0} /\ Sizes \subseteq Nat \ {0}

VARIABLES main,      \* where main() is
          pool_deq,  \* the pools, next as an offset
          owned,     \* size of each block that malloc() gave and free() did not get
          given,     \* what memory_pool_alloc() returned for this script
          call,      \* what memory_pool_alloc() is at work for
          list,      \* the list the parser builds
          array,     \* the memory its elements lie in
          returned,  \* the array that as_array() made of it
          expected   \* history: the elements it should have

parser == <<list, array, returned, expected>>
vars == <<main, pool_deq, owned, given, call, parser>>

Destroyed == [data |-> <<>>, cap |-> 0, front |-> 0, back |-> 0]
NoArray == [block |-> 0, from |-> 0, size |-> 0]
NoCall == [kind |-> "none", size |-> 0, elem |-> Garbage, low |-> 0]
Call(kind, size, elem) == [kind |-> kind, size |-> size, elem |-> elem, low |-> 0]

NoBlocks == [b \in {} |-> 0]

Init == /\ main = "prompt"
        /\ pool_deq = Destroyed
        /\ owned = NoBlocks
        /\ given = {}
        /\ call = NoCall
        /\ list = Destroyed /\ array = NoArray /\ returned = <<>> /\ expected = <<>>

(***************************************************************************)
(* Pools                                                                   *)
(***************************************************************************)
\* Some block that is not in use.
Fresh == CHOOSE b \in 1 .. Cardinality(DOMAIN owned) + 1 : b \notin DOMAIN owned

Pool(block, size) == [pool |-> block, size |-> size, next |-> 0]
EmptyPool == Pool(0, 0)

\* __initialize_memory_pool() with its malloc(), pushed on deq.
PushPool(deq, size) ==
  /\ pool_deq' = push_back(deq, Pool(Fresh, size))
  /\ owned' = [b \in DOMAIN owned \cup {Fresh} |-> IF b = Fresh THEN size ELSE owned[b]]

initialize_memory_pool ==
  /\ main = "prompt"
  /\ main' = "script"
  /\ \/ PushPool(new(POOLS), INIT_SIZE) /\ call' = NoCall
     \/ /\ pool_deq' = new(POOLS) /\ owned' = owned
        /\ call' = [Call("initialize", 1, Garbage) EXCEPT !.low = INIT_SIZE]
  /\ UNCHANGED <<given, parser>>

\* destroy_memory_pool(): every pool on the deque goes to free().
FreePools ==
  /\ owned' = LET freed == {pool_deq.data[(pool_deq.front + n) % pool_deq.cap].pool :
                              n \in 0 .. length(pool_deq) - 1}
              IN [b \in DOMAIN owned \ freed |-> owned[b]]
  /\ pool_deq' = Destroyed
  /\ given' = {}
  /\ call' = NoCall
  /\ list' = Destroyed /\ array' = NoArray /\ returned' = <<>> /\ expected' = <<>>

\* The end of a round of main(), also after a script that does not parse.
ScriptEnds == /\ main = "script" /\ call = NoCall
              /\ FreePools
              /\ main' \in {"prompt", "end"}

\* atexit() calls destroy_memory_pool() again, on a deque that has no data.
AtExit == /\ main = "end"
          /\ main' = "exited"
          /\ UNCHANGED <<pool_deq, owned, given, call, parser>>

(***************************************************************************)
(* memory_pool_alloc().  call.low is the size malloc() refused, or 0.      *)
(***************************************************************************)
last_pool == peek_back(pool_deq)

\* Fault: only the start has to be inside.
FitsStart(size) == last_pool.next < last_pool.size

Fits(size) == last_pool.next + size <= last_pool.size

new_pool_size == peek_front(pool_deq).size * 2^length(pool_deq)

InLoop == call.kind \notin {"none", "initialize"} /\ call.low = 0

\* Fault: no pool is pushed when it would be too small.
GrowNoPlaceholder ==
  /\ InLoop /\ ~Fits(call.size)
  /\ IF new_pool_size < call.size
     THEN UNCHANGED <<pool_deq, owned, call>>
     ELSE \/ PushPool(pool_deq, new_pool_size) /\ call' = call
          \/ call' = [call EXCEPT !.low = new_pool_size] /\ UNCHANGED <<pool_deq, owned>>
  /\ UNCHANGED <<main, given, parser>>

\* The size of the next pool depends on the number of pools: one that would be
\* too small is put on the deque without memory.
Grow ==
  /\ InLoop /\ ~Fits(call.size)
  /\ IF new_pool_size < call.size
     THEN pool_deq' = push_back(pool_deq, EmptyPool) /\ UNCHANGED <<owned, call>>
     ELSE \/ PushPool(pool_deq, new_pool_size) /\ call' = call
          \/ call' = [call EXCEPT !.low = new_pool_size] /\ UNCHANGED <<pool_deq, owned>>
  /\ UNCHANGED <<main, given, parser>>

\* One round of __low_memory_initialize_memory_pool(), after malloc() refused
\* call.low bytes; exit() runs destroy_memory_pool().
LowMemoryExit == /\ call.low > 0 /\ call.low <= call.size
                 /\ FreePools
                 /\ main' = "exited"

LowMemory ==
  /\ call.low > call.size
  /\ LET half == call.low \div 2
         size == IF half < call.size THEN call.size ELSE half
     IN \/ /\ PushPool(pool_deq, size)
           /\ call' = IF call.kind = "initialize" THEN NoCall ELSE [call EXCEPT !.low = 0]
        \/ call' = [call EXCEPT !.low = size] /\ UNCHANGED <<pool_deq, owned>>
  /\ UNCHANGED <<main, given, parser>>

Give(r) == /\ given' = given \cup {r}
           /\ pool_deq' = update_back(pool_deq, [last_pool EXCEPT !.next = @ + call.size])

(***************************************************************************)
(* The parser.  An operation that needs memory waits in call for it.       *)
(***************************************************************************)
push(side, deq, e) == IF side = "push_front" THEN push_front(deq, e) ELSE push_back(deq, e)
pushed(side, s, e) == IF side = "push_front" THEN <<e>> \o s ELSE Append(s, e)

\* The caller goes on with the memory r.
Use(r) ==
  CASE call.kind = "string" -> UNCHANGED parser
    [] call.kind = "new" -> /\ list' = new(1) /\ array' = r
                            /\ UNCHANGED <<returned, expected>>
    [] call.kind \in {"push_front", "push_back"} ->
         /\ list' = push(call.kind, list, call.elem) /\ array' = r
         /\ expected' = pushed(call.kind, expected, call.elem)
         /\ UNCHANGED returned
    [] call.kind = "as_array" -> /\ returned' = reallign(list).data /\ array' = r
                                 /\ list' = Destroyed /\ UNCHANGED expected

AllocReturns ==
  /\ InLoop /\ Fits(call.size)
  /\ LET r == [block |-> last_pool.pool, from |-> last_pool.next, size |-> call.size]
     IN Give(r) /\ Use(r)
  /\ call' = NoCall
  /\ UNCHANGED <<main, owned>>

Busy == main = "script" /\ call = NoCall
MayAsk == Busy /\ Cardinality(given) < MaxRequests
Ask(request) == call' = request /\ UNCHANGED <<main, pool_deq, owned, given, parser>>

strdup == MayAsk /\ \E size \in Sizes : Ask(Call("string", size, Garbage))

\* One list per script; several at a time would only add to what is given.
new_list == MayAsk /\ array = NoArray /\ Ask(Call("new", ELEM_SIZE, Garbage))

\* __on_push asks for an array of twice the capacity if the list is full.
push_on(side) ==
  /\ list # Destroyed /\ Len(expected) < MaxLen
  /\ \E e \in Elems :
       IF is_full(list)
       THEN MayAsk /\ Ask(Call(side, 2 * list.cap * ELEM_SIZE, e))
       ELSE /\ Busy
            /\ list' = push(side, list, e)
            /\ expected' = pushed(side, expected, e)
            /\ UNCHANGED <<main, pool_deq, owned, given, call, array, returned>>

Edit(newlist, newexpected) ==
  /\ Busy /\ list # Destroyed /\ ~is_empty(list)
  /\ list' = newlist /\ expected' = newexpected
  /\ UNCHANGED <<main, pool_deq, owned, given, call, array, returned>>

pop_list == \/ Edit(pop_front(list), Tail(expected))
            \/ Edit(pop_back(list), SubSeq(expected, 1, Len(expected) - 1))

update_list == \E e \in Elems :
                 Edit(update_back(list, e), [expected EXCEPT ![Len(expected)] = e])

\* A list that does not start at cell 0 of its array is copied.
as_array ==
  /\ list # Destroyed
  /\ IF list.front # 0
     THEN MayAsk /\ Ask(Call("as_array", list.cap * ELEM_SIZE, Garbage))
     ELSE /\ Busy
          /\ returned' = list.data /\ list' = Destroyed
          /\ UNCHANGED <<main, pool_deq, owned, given, call, array, expected>>

Parser == strdup \/ new_list \/ push_on("push_front") \/ push_on("push_back")
          \/ pop_list \/ update_list \/ as_array

Allocator == Grow \/ LowMemory \/ LowMemoryExit \/ AllocReturns

Terminated == main = "exited" /\ UNCHANGED vars

Next == initialize_memory_pool \/ Parser \/ Allocator \/ ScriptEnds \/ AtExit \/ Terminated

Spec == Init /\ [][Next]_vars

\* memory_pool_alloc() goes on while it can.
FairSpec == Spec /\ WF_vars(Allocator)

(***************************************************************************)
(* Properties.                                                             *)
(***************************************************************************)
\* memory_pool.h: allocations never overlap, lie in memory quash has, and all
\* memory is free again after the script or when quash exits for lack of it.
Contract == INSTANCE Arena WITH owned <- owned, given <- given
ImplementsArena == Contract!Spec

\* The list has the elements that were put on it, in order, through every
\* growth and wrap, and so has the array that run_script() walks; the array lies
\* in a piece of memory of the size its capacity needs, which nothing else got.
ListIntact ==
  /\ list # Destroyed => /\ Elements(list) = expected
                         /\ array.size = list.cap * ELEM_SIZE
                         /\ DOMAIN list.data = 0 .. list.cap - 1
  /\ returned # <<>> => /\ \A n \in 1 .. Len(expected) : returned[n - 1] = expected[n]
                        /\ array.size = Cardinality(DOMAIN returned) * ELEM_SIZE
  /\ array # NoArray => array \in given

\* memory_pool_alloc() comes back (or quash exits), however large the request
\* and whatever malloc() refuses.
AllocEnds == call # NoCall ~> call = NoCall
=============================================================================
