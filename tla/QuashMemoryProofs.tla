------------------------- MODULE QuashMemoryProofs --------------------------
(***************************************************************************)
(* The memory pool keeps the contract of Arena, and the lists that lie in  *)
(* it keep their elements, whatever the sizes, the number of requests and  *)
(* the refusals of malloc().                                               *)
(*                                                                         *)
(* The argument: only the last pool of the deque gives memory, and it has  *)
(* given nothing beyond its next; every pool before it is a block of its   *)
(* own.  Every block quash owns is a pool of the deque, so that freeing    *)
(* the pools one by one frees everything.                                  *)
(***************************************************************************)
EXTENDS QuashMemory, DequeProofs, FiniteSetTheorems

Kinds == {"none", "initialize", "string", "new", "push_front", "push_back", "as_array"}
PoolRecord == [pool : Nat, size : Nat, next : Nat]
Piece == [block : Nat \ {0}, from : Nat, size : Nat \ {0}]
Request == [kind : Kinds, size : Nat, elem : Elems \cup {Garbage}, low : Nat]

pools == Elements(pool_deq)

\* Between scripts there is nothing.
Nothing == /\ pool_deq = Destroyed /\ owned = NoBlocks /\ given = {} /\ call = NoCall
           /\ list = Destroyed /\ array = NoArray /\ returned = <<>> /\ expected = <<>>

Asked == /\ call \in Request
         /\ call.kind = "none" => call = NoCall
         /\ call.kind # "none" => call.size > 0
         /\ call.kind = "initialize" => call.low > 0
         /\ call.kind = "initialize" <=> Len(pools) = 0

\* The pools are the blocks that quash owns; one without memory is empty.
Blocks == /\ Holds(pool_deq, pools, PoolRecord)
          /\ IsFiniteSet(DOMAIN owned) /\ DOMAIN owned \subseteq Nat \ {0}
          /\ owned \in [DOMAIN owned -> Nat]
          /\ DOMAIN owned \subseteq {pools[n].pool : n \in 1 .. Len(pools)}

\* The last pool has given nothing beyond its next.
LastGives(last) == /\ last.size > 0 => last.pool \in DOMAIN owned /\ owned[last.pool] = last.size
                   /\ \A r \in given : r.block = last.pool => r.from + r.size <= last.next

Gives == /\ given \subseteq Piece
         /\ \A r \in given : r.block \in DOMAIN owned
         /\ Len(pools) > 0 => LastGives(pools[Len(pools)])

\* The list and its array, and what a call is at work for.
ListHeld == /\ Holds(list, expected, Elems)
            /\ array.size = list.cap * ELEM_SIZE
            /\ returned = <<>>

ListInv ==
  /\ list # Destroyed => ListHeld
  /\ returned # <<>> => /\ \A n \in 1 .. Len(expected) : returned[n - 1] = expected[n]
                        /\ array.size = Cardinality(DOMAIN returned) * ELEM_SIZE
  /\ array = NoArray => list = Destroyed /\ expected = <<>> /\ returned = <<>>
  /\ array # NoArray => array \in given
  /\ call.kind = "new" => array = NoArray /\ call.size = ELEM_SIZE
  /\ call.kind \in {"push_front", "push_back"} =>
       /\ list # Destroyed /\ is_full(list) /\ call.elem \in Elems
       /\ call.size = 2 * list.cap * ELEM_SIZE
  /\ call.kind = "as_array" => list # Destroyed /\ call.size = list.cap * ELEM_SIZE

MemIInv == /\ main \in {"prompt", "script", "end", "exited"}
           /\ main # "script" => Nothing
           /\ main = "script" => Asked /\ Blocks /\ Gives /\ ListInv

\* Every step of quash is one the contract allows, or none for it.
ArenaStep == [Contract!Next]_<<owned, given>>

-----------------------------------------------------------------------------
(***************************************************************************)
(* Blocks.                                                                 *)
(***************************************************************************)
\* malloc() finds a block that is not in use.
LEMMA FreshBlock ==
  ASSUME IsFiniteSet(DOMAIN owned)
  PROVE  Fresh \in Nat \ {0} /\ Fresh \notin DOMAIN owned
<1> DEFINE n == Cardinality(DOMAIN owned)
<1>1. n \in Nat
  BY FS_CardinalityType
<1>2. \E b \in 1 .. n + 1 : b \notin DOMAIN owned
  <2> SUFFICES ASSUME 1 .. n + 1 \subseteq DOMAIN owned
               PROVE  FALSE
    OBVIOUS
  <2>1. Cardinality(1 .. n + 1) = n + 1
    <3> HIDE DEF n
    <3> QED BY <1>1, FS_Interval
  <2>2. Cardinality(1 .. n + 1) <= n
    BY FS_Subset
  <2> QED BY <1>1, <2>1, <2>2
<1> QED BY <1>1, <1>2 DEF Fresh

\* 2^n counts the sets of n elements.
LEMMA PowerOfTwo ==
  ASSUME NEW n \in Nat
  PROVE  2^n \in Nat
<1>1. IsFiniteSet(1 .. n) /\ Cardinality(1 .. n) = n
  BY FS_Interval
<1>2. IsFiniteSet(SUBSET (1 .. n)) /\ Cardinality(SUBSET (1 .. n)) = 2^n
  BY <1>1, FS_SUBSET
<1> QED BY <1>2, FS_CardinalityType

LEMMA SizeOfNextPool ==
  ASSUME Blocks, Len(pools) > 0
  PROVE  new_pool_size \in Nat
<1>1. Holds(pool_deq, pools, PoolRecord) /\ pools # <<>> /\ pools \in Seq(PoolRecord)
  BY Fields DEF Blocks
<1>2. peek_front(pool_deq) = pools[1] /\ pools[1] \in PoolRecord
  BY <1>1, Peek
<1>3. peek_front(pool_deq).size \in Nat
  BY <1>2 DEF PoolRecord
<1>4. length(pool_deq) \in Nat
  BY <1>1, Fields
<1>5. 2^length(pool_deq) \in Nat
  BY <1>4, PowerOfTwo
<1> QED BY <1>3, <1>5 DEF new_pool_size

\* A pool with memory comes to the end of the deque.
LEMMA PushPoolStep ==
  ASSUME NEW deq, NEW s, Holds(deq, s, PoolRecord),
         IsFiniteSet(DOMAIN owned), DOMAIN owned \subseteq Nat \ {0},
         owned \in [DOMAIN owned -> Nat],
         DOMAIN owned \subseteq {s[n].pool : n \in 1 .. Len(s)},
         given \subseteq Piece, \A r \in given : r.block \in DOMAIN owned,
         NEW size \in Nat, PushPool(deq, size), UNCHANGED given
  PROVE  Blocks' /\ Gives' /\ Len(pools') > 0 /\ ArenaStep
<1> DEFINE b == Fresh
           pool == Pool(b, size)
           t == Append(s, pool)
<1>1. b \in Nat \ {0} /\ b \notin DOMAIN owned
  BY FreshBlock
<1>2. /\ pool_deq' = push_back(deq, pool)
      /\ owned' = [c \in DOMAIN owned \cup {b} |-> IF c = b THEN size ELSE owned[c]]
  BY DEF PushPool
<1> HIDE DEF b
<1>3. pool \in PoolRecord /\ pool.pool = b /\ pool.size = size /\ pool.next = 0
  BY <1>1 DEF Pool, PoolRecord
<1> HIDE DEF pool
<1>4. Holds(pool_deq', t, PoolRecord)
  BY <1>2, <1>3, PushBack
<1>5. pools' = t
  BY <1>4, ElementsHeld DEF pools
<1>6. /\ s \in Seq(PoolRecord) /\ Len(s) \in Nat /\ Len(t) = Len(s) + 1 /\ t[Len(t)] = pool
      /\ \A n \in 1 .. Len(s) : t[n] = s[n]
  BY <1>3, Fields
<1> HIDE DEF t
<1>7. /\ DOMAIN owned' = DOMAIN owned \cup {b}
      /\ owned'[b] = size
      /\ owned' \in [DOMAIN owned' -> Nat]
  BY <1>2
<1>8. Blocks'
  <2>1. IsFiniteSet(DOMAIN owned')
    BY <1>7, FS_AddElement
  <2>2. DOMAIN owned' \subseteq Nat \ {0}
    BY <1>1, <1>7
  <2>3. ASSUME NEW c \in DOMAIN owned'
        PROVE  \E n \in 1 .. Len(t) : t[n].pool = c
    <3>1. CASE c = b
      <4>1. Len(t) \in 1 .. Len(t)
        BY <1>6
      <4> QED BY <1>3, <1>6, <3>1, <4>1
    <3>2. CASE c \in DOMAIN owned
      <4>1. PICK n \in 1 .. Len(s) : s[n].pool = c
        BY <3>2
      <4>2. n \in 1 .. Len(t) /\ t[n] = s[n]
        BY <1>6
      <4> QED BY <4>1, <4>2
    <3> QED BY <1>7, <3>1, <3>2
  <2>4. DOMAIN owned' \subseteq {pools'[n].pool : n \in 1 .. Len(pools')}
    BY <1>5, <2>3
  <2> QED BY <1>4, <1>5, <1>7, <2>1, <2>2, <2>4 DEF Blocks
<1>9. Gives'
  <2>1. \A r \in given : r.block \in DOMAIN owned' /\ r.block # b
    BY <1>1, <1>7
  <2>2. pools'[Len(pools')] = pool
    BY <1>5, <1>6
  <2>3. LastGives(pools[Len(pools)])'
    BY <1>3, <1>7, <2>1, <2>2 DEF LastGives
  <2> QED BY <2>1, <2>3 DEF Gives
<1>10. Len(pools') > 0
  BY <1>5, <1>6
<1>11. ArenaStep
  <2>1. b \in DOMAIN owned' \ DOMAIN owned
    BY <1>1, <1>7
  <2>2. Contract!Obtain(b, owned'[b])
    BY <1>1, <1>2, <1>7 DEF Contract!Obtain
  <2> QED BY <2>1, <2>2 DEF ArenaStep, Contract!Next
<1> QED BY <1>8, <1>9, <1>10, <1>11

\* destroy_memory_pool() frees every block.
LEMMA FreePoolsStep ==
  ASSUME Blocks, FreePools
  PROVE  Nothing' /\ ArenaStep
<1>1. /\ Holds(pool_deq, pools, PoolRecord)
      /\ DOMAIN owned \subseteq {pools[n].pool : n \in 1 .. Len(pools)}
  BY DEF Blocks
<1>2. Len(pools) = length(pool_deq) /\ Len(pools) \in Nat
  BY <1>1, Fields
<1> DEFINE freed == {pool_deq.data[(pool_deq.front + n) % pool_deq.cap].pool :
                       n \in 0 .. length(pool_deq) - 1}
<1>3. DOMAIN owned \subseteq freed
  <2> SUFFICES ASSUME NEW b \in DOMAIN owned
               PROVE  \E n \in 0 .. length(pool_deq) - 1 :
                        pool_deq.data[(pool_deq.front + n) % pool_deq.cap].pool = b
    OBVIOUS
  <2>1. PICK n \in 1 .. Len(pools) : pools[n].pool = b
    BY <1>1
  <2>2. pool_deq.data[Place(pool_deq, n - 1)] = pools[n]
    BY <1>1 DEF Holds
  <2>3. n - 1 \in 0 .. length(pool_deq) - 1
    BY <1>2
  <2> QED BY <2>1, <2>2, <2>3 DEF Place
<1>4. owned' = [b \in DOMAIN owned \ freed |-> owned[b]]
  BY DEF FreePools
<1>5. DOMAIN owned \ freed = {}
  BY <1>3
<1>6. owned' = NoBlocks
  <2> HIDE DEF freed
  <2> QED BY <1>4, <1>5 DEF NoBlocks
<1>7. Nothing'
  BY <1>6 DEF Nothing, FreePools
<1>8. Contract!GiveBack
  BY <1>6 DEF Contract!GiveBack, Contract!NoBlocks, NoBlocks, FreePools
<1> QED BY <1>7, <1>8 DEF ArenaStep, Contract!Next

LEMMA PoolsKept ==
  ASSUME Blocks, Gives, UNCHANGED <<pool_deq, owned, given>>
  PROVE  Blocks' /\ Gives' /\ pools' = pools /\ ArenaStep
<1>1. pools' = pools
  BY DEF pools, Elements, length
<1>2. Blocks' /\ Gives'
  BY <1>1 DEF Blocks, Gives, LastGives, Holds, IsRing, length, Place
<1> QED BY <1>1, <1>2 DEF ArenaStep, Contract!vars

-----------------------------------------------------------------------------
(***************************************************************************)
(* The steps of main() and the pool.                                       *)
(***************************************************************************)
LEMMA InitializeStep ==
  ASSUME MemIInv, initialize_memory_pool
  PROVE  MemIInv' /\ ArenaStep
<1>1. Nothing /\ main' = "script" /\ UNCHANGED <<given, list, array, returned, expected>>
  BY DEF MemIInv, initialize_memory_pool, parser
<1>2. INIT_SIZE \in Nat \ {0} /\ POOLS \in Nat
  BY MemoryAssumption
<1>3. Holds(new(POOLS), <<>>, PoolRecord)
  BY <1>2, NewRing
<1>4. DOMAIN owned = {} /\ given = {} /\ owned \in [{} -> Nat] /\ IsFiniteSet({})
  BY <1>1, FS_EmptySet DEF Nothing, NoBlocks
<1>5. /\ list' = Destroyed /\ expected' = <<>> /\ returned' = <<>>
      /\ array' = NoArray
  BY <1>1 DEF Nothing
<1>6. CASE PushPool(new(POOLS), INIT_SIZE) /\ call' = NoCall
  <2>1. Blocks' /\ Gives' /\ Len(pools') > 0 /\ ArenaStep
    BY <1>1, <1>2, <1>3, <1>4, <1>6, PushPoolStep
  <2>2. Asked'
    BY <1>6, <2>1 DEF Asked, NoCall, Request, Kinds
  <2>3. ListInv'
    BY <1>5, <1>6 DEF ListInv, NoCall
  <2> QED BY <1>1, <2>1, <2>2, <2>3 DEF MemIInv
<1>7. CASE /\ pool_deq' = new(POOLS) /\ owned' = owned
           /\ call' = [Call("initialize", 1, Garbage) EXCEPT !.low = INIT_SIZE]
  <2>1. pools' = <<>>
    BY <1>3, <1>7, ElementsHeld DEF pools
  <2>2. Blocks'
    BY <1>3, <1>4, <1>7, <2>1 DEF Blocks
  <2>3. Gives' /\ ArenaStep
    BY <1>1, <1>4, <1>7, <2>1 DEF Gives, ArenaStep, Contract!vars
  <2>4. /\ call' \in Request /\ call'.kind = "initialize" /\ call'.low > 0 /\ call'.size > 0
    BY <1>2, <1>7 DEF Call, Request, Kinds
  <2>5. Asked' /\ ListInv'
    BY <1>5, <2>1, <2>4 DEF Asked, ListInv
  <2> QED BY <1>1, <2>2, <2>3, <2>5 DEF MemIInv
<1> QED BY <1>6, <1>7 DEF initialize_memory_pool

LEMMA EndSteps ==
  ASSUME MemIInv, ScriptEnds \/ AtExit \/ LowMemoryExit \/ UNCHANGED vars
  PROVE  MemIInv' /\ ArenaStep
<1>1. CASE ScriptEnds \/ LowMemoryExit
  <2>1. main = "script" /\ FreePools /\ main' \in {"prompt", "end", "exited"}
    <3>1. CASE ScriptEnds
      BY <3>1 DEF ScriptEnds
    <3>2. CASE LowMemoryExit
      <4>1. call # NoCall
        BY <3>2 DEF LowMemoryExit, NoCall
      <4> QED BY <3>2, <4>1 DEF LowMemoryExit, MemIInv, Nothing
    <3> QED BY <1>1, <3>1, <3>2
  <2>2. Nothing' /\ ArenaStep
    BY <2>1, FreePoolsStep DEF MemIInv
  <2> QED BY <2>1, <2>2 DEF MemIInv
<1>2. CASE AtExit
  BY <1>2 DEF AtExit, MemIInv, Nothing, parser, ArenaStep, Contract!vars
<1>3. CASE UNCHANGED vars
  <2>1. UNCHANGED <<main, pool_deq, owned, given, call, list, array, returned, expected>>
    BY <1>3 DEF vars, parser
  <2>2. CASE main # "script"
    BY <2>1, <2>2 DEF MemIInv, Nothing, ArenaStep, Contract!vars
  <2>3. CASE main = "script"
    <3>1. Blocks' /\ Gives' /\ pools' = pools /\ ArenaStep
      BY <2>1, <2>3, PoolsKept DEF MemIInv
    <3>2. Asked' /\ ListInv'
      BY <2>1, <2>3, <3>1 DEF MemIInv, Asked, ListInv, ListHeld, Holds, IsRing, length, Place,
                              is_full
    <3> QED BY <2>1, <2>3, <3>1, <3>2 DEF MemIInv
  <2> QED BY <2>2, <2>3
<1> QED BY <1>1, <1>2, <1>3

\* A call that needs more than the last pool has: a pool is pushed, one without memory
\* if it would be too small, or malloc() refuses.
LEMMA GrowStep ==
  ASSUME MemIInv, Grow
  PROVE  MemIInv' /\ ArenaStep
<1>1. /\ call.kind \notin {"none", "initialize"} /\ call.low = 0
      /\ UNCHANGED <<main, given, list, array, returned, expected>>
  BY DEF Grow, InLoop, parser
<1>2. main = "script" /\ Asked /\ Blocks /\ Gives /\ ListInv
  <2>1. call # NoCall
    BY <1>1 DEF NoCall
  <2> QED BY <2>1 DEF MemIInv, Nothing
<1>3. Len(pools) > 0 /\ Len(pools) \in Nat /\ pools \in Seq(PoolRecord)
  BY <1>1, <1>2, Fields DEF Asked, Blocks
<1>4. new_pool_size \in Nat
  BY <1>2, <1>3, SizeOfNextPool
<1>5. /\ Holds(pool_deq, pools, PoolRecord)
      /\ IsFiniteSet(DOMAIN owned) /\ DOMAIN owned \subseteq Nat \ {0}
      /\ owned \in [DOMAIN owned -> Nat]
      /\ DOMAIN owned \subseteq {pools[n].pool : n \in 1 .. Len(pools)}
      /\ given \subseteq Piece /\ \A r \in given : r.block \in DOMAIN owned
  BY <1>2 DEF Blocks, Gives
<1>6. ASSUME call' = call
      PROVE  ListInv'
  BY <1>1, <1>2, <1>6 DEF ListInv, ListHeld, Holds, IsRing, length, Place, is_full
<1>7. CASE new_pool_size < call.size /\ pool_deq' = push_back(pool_deq, EmptyPool)
           /\ UNCHANGED <<owned, call>>
  <2> DEFINE t == Append(pools, EmptyPool)
  <2>1. EmptyPool \in PoolRecord /\ EmptyPool.size = 0 /\ EmptyPool.pool = 0
    BY DEF EmptyPool, Pool, PoolRecord
  <2>2. Holds(pool_deq', t, PoolRecord)
    BY <1>5, <1>7, <2>1, PushBack
  <2>3. pools' = t
    BY <2>2, ElementsHeld DEF pools
  <2>4. /\ Len(t) = Len(pools) + 1 /\ t[Len(t)] = EmptyPool
        /\ \A n \in 1 .. Len(pools) : n \in 1 .. Len(t) /\ t[n] = pools[n]
    BY <1>3, <2>1
  <2> HIDE DEF t
  <2>5. DOMAIN owned \subseteq {t[n].pool : n \in 1 .. Len(t)}
    <3> SUFFICES ASSUME NEW b \in DOMAIN owned PROVE \E n \in 1 .. Len(t) : t[n].pool = b
      OBVIOUS
    <3>1. PICK n \in 1 .. Len(pools) : pools[n].pool = b
      BY <1>5
    <3> QED BY <2>4, <3>1
  <2>6. Blocks'
    BY <1>5, <1>7, <2>2, <2>3, <2>5 DEF Blocks
  <2>7. Gives'
    <3>1. \A r \in given : r.block # 0
      BY <1>5 DEF Piece
    <3>2. LastGives(pools[Len(pools)])'
      BY <1>1, <1>7, <2>1, <2>3, <2>4, <3>1 DEF LastGives
    <3> QED BY <1>1, <1>5, <1>7, <3>2 DEF Gives
  <2>8. Asked'
    BY <1>1, <1>2, <1>3, <1>7, <2>3, <2>4 DEF Asked
  <2>9. ArenaStep
    BY <1>1, <1>7 DEF ArenaStep, Contract!vars
  <2> QED BY <1>1, <1>2, <1>6, <1>7, <2>6, <2>7, <2>8, <2>9 DEF MemIInv
<1>8. CASE PushPool(pool_deq, new_pool_size) /\ call' = call
  <2>1. Blocks' /\ Gives' /\ Len(pools') > 0 /\ ArenaStep
    BY <1>1, <1>4, <1>5, <1>8, PushPoolStep
  <2>2. Asked'
    BY <1>1, <1>2, <1>8, <2>1 DEF Asked
  <2> QED BY <1>1, <1>2, <1>6, <1>8, <2>1, <2>2 DEF MemIInv
<1>9. CASE /\ call' = [call EXCEPT !.low = new_pool_size] /\ UNCHANGED <<pool_deq, owned>>
  <2>1. Blocks' /\ Gives' /\ pools' = pools /\ ArenaStep
    BY <1>1, <1>2, <1>9, PoolsKept
  <2>2. /\ call' \in Request /\ call'.kind = call.kind /\ call'.size = call.size
        /\ call'.elem = call.elem
    BY <1>2, <1>4, <1>9 DEF Asked, Request
  <2>3. Asked'
    BY <1>1, <1>2, <1>3, <2>1, <2>2 DEF Asked
  <2>4. ListInv'
    BY <1>1, <1>2, <2>2 DEF ListInv, ListHeld, Holds, IsRing, length, Place, is_full
  <2> QED BY <1>1, <1>2, <2>1, <2>3, <2>4 DEF MemIInv
<1> QED BY <1>7, <1>8, <1>9 DEF Grow

\* malloc() refused: half the size, but no less than what is needed.
LEMMA LowMemoryStep ==
  ASSUME MemIInv, LowMemory
  PROVE  MemIInv' /\ ArenaStep
<1> DEFINE half == call.low \div 2
           size == IF half < call.size THEN call.size ELSE half
<1>1. main = "script" /\ Asked /\ Blocks /\ Gives /\ ListInv /\ call # NoCall
  <2>1. main # "script" => call = NoCall
    BY DEF MemIInv, Nothing
  <2>2. call = NoCall => call.low = 0 /\ call.size = 0
    BY DEF NoCall
  <2>3. call # NoCall
    BY <2>2 DEF LowMemory
  <2> QED BY <2>1, <2>3 DEF MemIInv
<1>2. UNCHANGED <<main, given, list, array, returned, expected>>
  BY DEF LowMemory, parser
<1>3. call \in Request /\ call.kind # "none" /\ call.size \in Nat \ {0} /\ call.low \in Nat
  BY <1>1 DEF Asked, Request
<1>4. size \in Nat \ {0}
  BY <1>3
<1>5. \/ /\ PushPool(pool_deq, size)
         /\ call' = IF call.kind = "initialize" THEN NoCall ELSE [call EXCEPT !.low = 0]
      \/ call' = [call EXCEPT !.low = size] /\ UNCHANGED <<pool_deq, owned>>
  BY DEF LowMemory
<1> HIDE DEF size
<1>6. /\ Holds(pool_deq, pools, PoolRecord)
      /\ IsFiniteSet(DOMAIN owned) /\ DOMAIN owned \subseteq Nat \ {0}
      /\ owned \in [DOMAIN owned -> Nat]
      /\ DOMAIN owned \subseteq {pools[n].pool : n \in 1 .. Len(pools)}
      /\ given \subseteq Piece /\ \A r \in given : r.block \in DOMAIN owned
  BY <1>1 DEF Blocks, Gives
<1>7. ASSUME call'.kind = call.kind \/ call'.kind = "none", call'.size = call.size \/ call' = NoCall,
             call'.elem = call.elem \/ call' = NoCall
      PROVE  ListInv'
  BY <1>1, <1>2, <1>7 DEF ListInv, ListHeld, Holds, IsRing, length, Place, is_full, NoCall
<1>8. CASE /\ PushPool(pool_deq, size)
           /\ call' = IF call.kind = "initialize" THEN NoCall ELSE [call EXCEPT !.low = 0]
  <2>1. Blocks' /\ Gives' /\ Len(pools') > 0 /\ ArenaStep
    BY <1>2, <1>4, <1>6, <1>8, PushPoolStep
  <2>2. CASE call.kind = "initialize"
    <3>1. call' = NoCall /\ NoCall.kind = "none" /\ NoCall \in Request
      BY <1>8, <2>2 DEF NoCall, Request, Kinds
    <3>2. Asked'
      BY <2>1, <3>1 DEF Asked
    <3> QED BY <1>1, <1>2, <1>7, <2>1, <3>1, <3>2 DEF MemIInv
  <2>3. CASE call.kind # "initialize"
    <3>1. /\ call' \in Request /\ call'.kind = call.kind /\ call'.size = call.size
          /\ call'.elem = call.elem
      BY <1>3, <1>8, <2>3 DEF Request
    <3>2. Asked'
      BY <1>3, <2>1, <2>3, <3>1 DEF Asked
    <3> QED BY <1>1, <1>2, <1>7, <2>1, <3>1, <3>2 DEF MemIInv
  <2> QED BY <2>2, <2>3
<1>9. CASE call' = [call EXCEPT !.low = size] /\ UNCHANGED <<pool_deq, owned>>
  <2>1. Blocks' /\ Gives' /\ pools' = pools /\ ArenaStep
    BY <1>1, <1>2, <1>9, PoolsKept
  <2>2. /\ call' \in Request /\ call'.kind = call.kind /\ call'.size = call.size
        /\ call'.elem = call.elem /\ call'.low = size
    BY <1>3, <1>4, <1>9 DEF Request
  <2>3. Asked'
    BY <1>1, <1>3, <1>4, <2>1, <2>2 DEF Asked
  <2> QED BY <1>1, <1>2, <1>7, <2>1, <2>2, <2>3 DEF MemIInv
<1> QED BY <1>5, <1>8, <1>9

-----------------------------------------------------------------------------
(***************************************************************************)
(* The steps of the parser.                                                *)
(***************************************************************************)
\* The parser needs memory: nothing happens before the pool gives it.
LEMMA AskStep ==
  ASSUME MemIInv, NEW request, Busy, Ask(request), request \in Request, request.size > 0,
         request.kind \in {"string", "new", "push_front", "push_back", "as_array"},
         request.kind = "new" => array = NoArray /\ request.size = ELEM_SIZE,
         request.kind \in {"push_front", "push_back"} =>
           /\ list # Destroyed /\ is_full(list) /\ request.elem \in Elems
           /\ request.size = 2 * list.cap * ELEM_SIZE,
         request.kind = "as_array" => list # Destroyed /\ request.size = list.cap * ELEM_SIZE
  PROVE  MemIInv' /\ ArenaStep
<1>1. /\ main = "script" /\ call = NoCall /\ call' = request
      /\ UNCHANGED <<main, pool_deq, owned, given, list, array, returned, expected>>
  BY DEF Busy, Ask, parser
<1>2. Asked /\ Blocks /\ Gives /\ ListInv
  BY <1>1 DEF MemIInv
<1>3. Blocks' /\ Gives' /\ pools' = pools /\ ArenaStep
  BY <1>1, <1>2, PoolsKept
<1>4. Asked'
  <2>1. Len(pools) # 0
    BY <1>1, <1>2 DEF Asked, NoCall
  <2> QED BY <1>1, <1>3, <2>1 DEF Asked
<1>5. ListInv'
  BY <1>1, <1>2 DEF ListInv, ListHeld, Holds, IsRing, length, Place, is_full
<1> QED BY <1>1, <1>3, <1>4, <1>5 DEF MemIInv

\* What the parser does to its list without the pool.
LEMMA EditStep ==
  ASSUME MemIInv, Busy, list # Destroyed, UNCHANGED <<main, pool_deq, owned, given, call, array>>,
         ListInv'
  PROVE  MemIInv' /\ ArenaStep
<1>1. main = "script" /\ call = NoCall
  BY DEF Busy
<1>2. Blocks' /\ Gives' /\ pools' = pools /\ ArenaStep
  BY <1>1, PoolsKept DEF MemIInv
<1>3. Asked'
  BY <1>1, <1>2 DEF MemIInv, Asked
<1> QED BY <1>1, <1>2, <1>3 DEF MemIInv

\* The size of an array is that of its cells.
LEMMA ArraySize ==
  ASSUME ListInv, list # Destroyed
  PROVE  /\ list.cap \in Nat \ {0} /\ Holds(list, expected, Elems)
         /\ array.size = list.cap * ELEM_SIZE /\ array # NoArray /\ returned = <<>>
         /\ list.cap * ELEM_SIZE \in Nat \ {0} /\ 2 * list.cap * ELEM_SIZE \in Nat \ {0}
<1>1. /\ Holds(list, expected, Elems) /\ array.size = list.cap * ELEM_SIZE
      /\ returned = <<>> /\ array # NoArray
  BY DEF ListInv, ListHeld
<1>2. list.cap \in Nat \ {0}
  BY <1>1, Fields
<1>3. \A c \in Nat \ {0} : c * ELEM_SIZE \in Nat \ {0}
  BY MemoryAssumption
<1>4. 2 * list.cap \in Nat \ {0}
  BY <1>2
<1> QED BY <1>1, <1>2, <1>3, <1>4

\* The array of a list that starts at its first cell holds the elements in order.
LEMMA AtStart ==
  ASSUME NEW S, NEW d, NEW s, Holds(d, s, S), d.front = 0
  PROVE  /\ \A n \in 1 .. Len(s) : d.data[n - 1] = s[n]
         /\ DOMAIN d.data = 0 .. d.cap - 1
         /\ Cardinality(DOMAIN d.data) = d.cap
<1>1. /\ IsRing(d, S) /\ d.cap \in Nat \ {0} /\ DOMAIN d.data = 0 .. d.cap - 1
      /\ Len(s) \in 0 .. d.cap - 1
  BY Fields
<1>2. ASSUME NEW n \in 1 .. Len(s)
      PROVE  d.data[n - 1] = s[n]
  <2> DEFINE m == n - 1
  <2>1. m \in 0 .. d.cap - 1 /\ m \in Nat /\ m < d.cap
    BY <1>1
  <2>2. d.data[Place(d, m)] = s[n]
    BY DEF Holds
  <2> HIDE DEF m
  <2>3. Place(d, m) = IF d.front + m < d.cap THEN d.front + m ELSE d.front + m - d.cap
    BY <1>1, <2>1, Places
  <2>4. Place(d, m) = m
    BY <2>1, <2>3
  <2> QED BY <2>2, <2>4 DEF m
<1>3. Cardinality(0 .. d.cap - 1) = d.cap
  BY <1>1, FS_Interval
<1> QED BY <1>1, <1>2, <1>3

LEMMA ParserStep ==
  ASSUME MemIInv, Parser
  PROVE  MemIInv' /\ ArenaStep
<1> USE DEF MayAsk
<1>1. main = "script" /\ call = NoCall /\ Busy /\ Asked /\ ListInv
  BY DEF Parser, strdup, new_list, push_on, pop_list, Edit, update_list, as_array, Busy, MemIInv
<1>2. ELEM_SIZE \in Nat \ {0} /\ Sizes \subseteq Nat \ {0}
  BY MemoryAssumption
<1>3. CASE strdup
  <2>1. PICK size \in Sizes : Ask(Call("string", size, Garbage))
    BY <1>3 DEF strdup
  <2> DEFINE request == Call("string", size, Garbage)
  <2>2. request \in Request /\ request.kind = "string" /\ request.size > 0
    BY <1>2 DEF Call, Request, Kinds
  <2> HIDE DEF request
  <2>3. Ask(request)
    BY <2>1 DEF request
  <2> QED BY <1>1, <2>2, <2>3, AskStep
<1>4. CASE new_list
  <2> DEFINE request == Call("new", ELEM_SIZE, Garbage)
  <2>1. request \in Request /\ request.kind = "new" /\ request.size = ELEM_SIZE
    BY <1>2 DEF Call, Request, Kinds
  <2>2. Ask(request) /\ array = NoArray
    BY <1>4 DEF new_list
  <2> HIDE DEF request
  <2> QED BY <1>1, <1>2, <2>1, <2>2, AskStep
<1>5. ASSUME NEW side \in {"push_front", "push_back"}, push_on(side)
      PROVE  MemIInv' /\ ArenaStep
  <2>1. PICK e \in Elems :
          IF is_full(list)
          THEN MayAsk /\ Ask(Call(side, 2 * list.cap * ELEM_SIZE, e))
          ELSE /\ Busy
               /\ list' = push(side, list, e)
               /\ expected' = pushed(side, expected, e)
               /\ UNCHANGED <<main, pool_deq, owned, given, call, array, returned>>
    BY <1>5 DEF push_on
  <2>2. list # Destroyed
    BY <1>5 DEF push_on
  <2>3. /\ list.cap \in Nat \ {0} /\ Holds(list, expected, Elems)
        /\ array.size = list.cap * ELEM_SIZE /\ array # NoArray /\ returned = <<>>
        /\ 2 * list.cap * ELEM_SIZE \in Nat \ {0}
    BY <1>1, <2>2, ArraySize
  <2>4. CASE is_full(list)
    <3> DEFINE n == 2 * list.cap * ELEM_SIZE
               request == Call(side, n, e)
    <3>1. n \in Nat \ {0} /\ n = 2 * list.cap * ELEM_SIZE
      BY <2>3
    <3>2. Ask(request)
      BY <2>1, <2>4
    <3> HIDE DEF n
    <3>3. request \in Request /\ request.kind = side /\ request.size = n /\ request.elem = e
      BY <3>1 DEF Call, Request, Kinds
    <3> HIDE DEF request
    <3> QED BY <1>1, <2>2, <2>4, <3>1, <3>2, <3>3, AskStep
  <2>5. CASE ~is_full(list)
    <3>1. /\ list' = push(side, list, e) /\ expected' = pushed(side, expected, e)
          /\ UNCHANGED <<main, pool_deq, owned, given, call, array, returned>>
      BY <2>1, <2>5
    <3>2. Holds(list', expected', Elems) /\ list'.cap = list.cap
      <4>1. on_push(list).cap = list.cap
        BY <2>5 DEF on_push
      <4>2. CASE side = "push_front"
        BY <2>3, <3>1, <4>1, <4>2, PushFront DEF push, pushed
      <4>3. CASE side = "push_back"
        BY <2>3, <3>1, <4>1, <4>3, PushBack DEF push, pushed
      <4> QED BY <4>2, <4>3
    <3>3. ListInv'
      BY <1>1, <2>3, <3>1, <3>2 DEF ListInv, ListHeld, NoCall
    <3> QED BY <1>1, <2>2, <3>1, <3>3, EditStep
  <2> QED BY <2>4, <2>5
<1>6. ASSUME NEW newlist, NEW newexpected, Edit(newlist, newexpected),
             Holds(newlist, newexpected, Elems), newlist.cap = list.cap
      PROVE  MemIInv' /\ ArenaStep
  <2>1. /\ list # Destroyed /\ list' = newlist /\ expected' = newexpected
        /\ UNCHANGED <<main, pool_deq, owned, given, call, array, returned>>
    BY <1>6 DEF Edit
  <2>2. array.size = list.cap * ELEM_SIZE /\ array # NoArray /\ returned = <<>>
    BY <1>1, <2>1, ArraySize
  <2>3. ListInv'
    BY <1>1, <1>6, <2>1, <2>2 DEF ListInv, ListHeld, NoCall
  <2> QED BY <1>1, <2>1, <2>3, EditStep
<1>7. ASSUME list # Destroyed, ~is_empty(list)
      PROVE  Holds(list, expected, Elems) /\ expected # <<>>
  BY <1>1, <1>7, ArraySize, Fields
<1>8. CASE pop_list
  <2>1. list # Destroyed /\ ~is_empty(list)
    BY <1>8 DEF pop_list, Edit
  <2>2. CASE Edit(pop_front(list), Tail(expected))
    <3>1. Holds(pop_front(list), Tail(expected), Elems)
      BY <1>7, <2>1, PopFront
    <3>2. pop_front(list).cap = list.cap
      BY DEF pop_front
    <3> QED BY <1>6, <2>2, <3>1, <3>2
  <2>3. CASE Edit(pop_back(list), SubSeq(expected, 1, Len(expected) - 1))
    <3>1. Holds(pop_back(list), SubSeq(expected, 1, Len(expected) - 1), Elems)
      BY <1>7, <2>1, PopBack
    <3>2. pop_back(list).cap = list.cap
      BY DEF pop_back
    <3> QED BY <1>6, <2>3, <3>1, <3>2
  <2> QED BY <1>8, <2>2, <2>3 DEF pop_list
<1>9. CASE update_list
  <2>1. PICK e \in Elems : Edit(update_back(list, e), [expected EXCEPT ![Len(expected)] = e])
    BY <1>9 DEF update_list
  <2>2. list # Destroyed /\ ~is_empty(list)
    BY <2>1 DEF Edit
  <2>3. /\ Holds(update_back(list, e), [expected EXCEPT ![Len(expected)] = e], Elems)
        /\ update_back(list, e).cap = list.cap
    BY <1>7, <2>2, UpdateBack
  <2> QED BY <1>6, <2>1, <2>3
<1>10. CASE as_array
  <2>1. list # Destroyed
    BY <1>10 DEF as_array
  <2>2. /\ list.cap \in Nat \ {0} /\ Holds(list, expected, Elems)
        /\ array.size = list.cap * ELEM_SIZE /\ array # NoArray
        /\ list.cap * ELEM_SIZE \in Nat \ {0}
    BY <1>1, <2>1, ArraySize
  <2>3. CASE list.front # 0
    <3> DEFINE n == list.cap * ELEM_SIZE
               request == Call("as_array", n, Garbage)
    <3>1. n \in Nat \ {0} /\ n = list.cap * ELEM_SIZE
      BY <2>2
    <3>2. Ask(request)
      BY <1>10, <2>3 DEF as_array
    <3> HIDE DEF n
    <3>3. request \in Request /\ request.kind = "as_array" /\ request.size = n
      BY <3>1 DEF Call, Request, Kinds
    <3> HIDE DEF request
    <3> QED BY <1>1, <2>1, <3>1, <3>2, <3>3, AskStep
  <2>4. CASE list.front = 0
    <3>1. /\ returned' = list.data /\ list' = Destroyed
          /\ UNCHANGED <<main, pool_deq, owned, given, call, array, expected>>
      BY <1>10, <2>4 DEF as_array
    <3>2. /\ \A n \in 1 .. Len(expected) : list.data[n - 1] = expected[n]
          /\ Cardinality(DOMAIN list.data) = list.cap
      BY <2>2, <2>4, AtStart
    <3>3. ListInv'
      BY <1>1, <2>2, <3>1, <3>2 DEF ListInv, NoCall
    <3> QED BY <1>1, <2>1, <3>1, <3>3, EditStep
  <2> QED BY <2>3, <2>4
<1> QED BY <1>3, <1>4, <1>5, <1>8, <1>9, <1>10 DEF Parser

-----------------------------------------------------------------------------
(***************************************************************************)
(* The pool gives memory, and the caller goes on with it.                  *)
(***************************************************************************)
LEMMA AllocReturnsStep ==
  ASSUME MemIInv, AllocReturns
  PROVE  MemIInv' /\ ArenaStep
<1> DEFINE last == pools[Len(pools)]
           r == [block |-> last_pool.pool, from |-> last_pool.next, size |-> call.size]
           after == [last EXCEPT !.next = @ + call.size]
           t == [pools EXCEPT ![Len(pools)] = after]
<1>1. /\ call.kind \notin {"none", "initialize"} /\ call.low = 0 /\ Fits(call.size)
      /\ Give(r) /\ Use(r) /\ call' = NoCall /\ UNCHANGED <<main, owned>>
  BY DEF AllocReturns, InLoop
<1>2. main = "script" /\ Asked /\ Blocks /\ Gives /\ ListInv
  <2>1. call # NoCall
    BY <1>1 DEF NoCall
  <2> QED BY <2>1 DEF MemIInv, Nothing
<1>3. call \in Request /\ call.size \in Nat \ {0}
  BY <1>1, <1>2 DEF Asked, Request
<1>4. /\ Holds(pool_deq, pools, PoolRecord) /\ pools \in Seq(PoolRecord)
      /\ Len(pools) \in Nat /\ Len(pools) > 0 /\ pools # <<>>
  BY <1>1, <1>2, Fields DEF Asked, Blocks
<1>5. last_pool = last /\ last \in PoolRecord
  BY <1>4, Peek DEF last_pool
<1>6. /\ last.pool \in Nat /\ last.next \in Nat /\ last.size \in Nat
      /\ last.next + call.size <= last.size
  BY <1>1, <1>5 DEF PoolRecord, Fits
<1>7. LastGives(last)
  BY <1>2, <1>4 DEF Gives
<1>8. last.pool \in DOMAIN owned /\ owned[last.pool] = last.size
  BY <1>3, <1>6, <1>7 DEF LastGives
<1>9. last.pool \in Nat \ {0}
  BY <1>2, <1>8 DEF Blocks
<1>10. /\ r \in Piece /\ r.block = last.pool /\ r.from = last.next /\ r.size = call.size
       /\ r # NoArray
  BY <1>3, <1>5, <1>6, <1>9 DEF Piece, NoArray
<1>11. /\ after \in PoolRecord /\ after.pool = last.pool /\ after.size = last.size
       /\ after.next = last.next + call.size
  BY <1>3, <1>5, <1>6 DEF PoolRecord
<1>12. given' = given \cup {r} /\ pool_deq' = update_back(pool_deq, after)
  BY <1>1, <1>5 DEF Give
<1> HIDE DEF r, after, last
<1>13. Holds(pool_deq', t, PoolRecord)
  BY <1>4, <1>11, <1>12, UpdateBack
<1>14. pools' = t
  BY <1>13, ElementsHeld DEF pools
<1>15. /\ Len(t) = Len(pools) /\ t[Len(t)] = after
       /\ \A n \in 1 .. Len(pools) : t[n].pool = pools[n].pool
  BY <1>4, <1>11 DEF last
<1> HIDE DEF t
<1>16. Blocks'
  <2>1. DOMAIN owned \subseteq {t[n].pool : n \in 1 .. Len(t)}
    BY <1>2, <1>15 DEF Blocks
  <2> QED BY <1>1, <1>2, <1>13, <1>14, <2>1 DEF Blocks
<1>17. ASSUME NEW s \in given
       PROVE  s \in Piece /\ s.block \in DOMAIN owned /\ ~Contract!Overlap(r, s)
  <2>1. s \in Piece /\ s.block \in DOMAIN owned
    BY <1>2 DEF Gives
  <2>2. s.block = last.pool => s.from + s.size <= last.next
    BY <1>7 DEF LastGives
  <2>3. s.from \in Nat /\ s.size \in Nat
    BY <2>1 DEF Piece
  <2> QED BY <1>6, <1>10, <2>1, <2>2, <2>3 DEF Contract!Overlap
<1>18. Gives'
  <2>1. ASSUME NEW s \in given'
        PROVE  /\ s \in Piece /\ s.block \in DOMAIN owned
               /\ s.block = after.pool => s.from + s.size <= after.next
    <3>1. CASE s = r
      BY <1>3, <1>6, <1>8, <1>10, <1>11, <3>1
    <3>2. CASE s \in given
      <4>1. s \in Piece /\ s.block \in DOMAIN owned
        BY <1>17, <3>2
      <4>2. s.block = last.pool => s.from + s.size <= last.next
        BY <1>7, <3>2 DEF LastGives
      <4>3. s.from \in Nat /\ s.size \in Nat
        BY <4>1 DEF Piece
      <4> QED BY <1>3, <1>6, <1>11, <4>1, <4>2, <4>3
    <3> QED BY <1>12, <3>1, <3>2
  <2>2. LastGives(pools[Len(pools)])'
    BY <1>1, <1>8, <1>11, <1>14, <1>15, <2>1 DEF LastGives
  <2> QED BY <1>1, <2>1, <2>2 DEF Gives
<1>19. Asked'
  BY <1>1, <1>4, <1>14, <1>15 DEF Asked, NoCall, Request, Kinds
<1>20. ArenaStep
  <2>1. ~Contract!Overlap(r, r) => FALSE
    BY <1>3, <1>6, <1>10 DEF Contract!Overlap
  <2>2. r \in given' \ given
    BY <1>12, <1>17, <2>1
  <2>3. Contract!Give(r)
    BY <1>1, <1>3, <1>6, <1>8, <1>10, <1>12, <1>17 DEF Contract!Give
  <2> QED BY <2>2, <2>3 DEF ArenaStep, Contract!Next
<1>21. ListInv'
  <2>1. /\ call'.kind = "none" /\ r \in given' /\ given \subseteq given'
        /\ array \in given => array \in given'
    BY <1>1, <1>12 DEF NoCall
  <2>2. CASE call.kind = "string"
    <3>1. UNCHANGED <<list, array, returned, expected>>
      BY <1>1, <2>2 DEF Use, parser
    <3>2. /\ list # Destroyed => ListHeld'
          /\ returned' # <<>> =>
               /\ \A n \in 1 .. Len(expected') : returned'[n - 1] = expected'[n]
               /\ array'.size = Cardinality(DOMAIN returned') * ELEM_SIZE
      BY <1>2, <3>1 DEF ListInv, ListHeld, Holds, IsRing, length, Place
    <3> QED BY <1>2, <2>1, <3>1, <3>2 DEF ListInv
  <2>3. CASE call.kind = "new"
    <3>1. list' = new(1) /\ array' = r /\ UNCHANGED <<returned, expected>>
      BY <1>1, <2>3 DEF Use
    <3>2. expected = <<>> /\ returned = <<>> /\ call.size = ELEM_SIZE
      BY <1>2, <2>3 DEF ListInv
    <3>3. Holds(list', expected', Elems)
      BY <3>1, <3>2, NewRing
    <3>4. list'.cap = 1 /\ 1 * ELEM_SIZE = ELEM_SIZE
      BY <3>1, MemoryAssumption DEF new
    <3>5. ListHeld'
      BY <1>10, <3>1, <3>2, <3>3, <3>4 DEF ListHeld
    <3> QED BY <1>10, <2>1, <3>1, <3>2, <3>5 DEF ListInv
  <2>4. CASE call.kind \in {"push_front", "push_back"}
    <3>1. /\ list' = push(call.kind, list, call.elem) /\ array' = r
          /\ expected' = pushed(call.kind, expected, call.elem) /\ UNCHANGED returned
      BY <1>1, <2>4 DEF Use
    <3>2. /\ Holds(list, expected, Elems) /\ is_full(list) /\ call.elem \in Elems
          /\ call.size = 2 * list.cap * ELEM_SIZE /\ returned = <<>>
      BY <1>2, <2>4 DEF ListInv, ListHeld
    <3>3. Holds(list', expected', Elems) /\ list'.cap = 2 * list.cap
      <4>1. on_push(list).cap = 2 * list.cap
        BY <3>2 DEF on_push
      <4>2. CASE call.kind = "push_front"
        BY <3>1, <3>2, <4>1, <4>2, PushFront DEF push, pushed
      <4>3. CASE call.kind = "push_back"
        BY <3>1, <3>2, <4>1, <4>3, PushBack DEF push, pushed
      <4> QED BY <2>4, <4>2, <4>3
    <3>4. ListHeld'
      BY <1>10, <3>1, <3>2, <3>3 DEF ListHeld
    <3> QED BY <1>10, <2>1, <3>1, <3>2, <3>4 DEF ListInv
  <2>5. CASE call.kind = "as_array"
    <3>1. /\ returned' = reallign(list).data /\ array' = r /\ list' = Destroyed
          /\ UNCHANGED expected
      BY <1>1, <2>5 DEF Use
    <3>2. Holds(list, expected, Elems) /\ call.size = list.cap * ELEM_SIZE
      BY <1>2, <2>5 DEF ListInv, ListHeld
    <3>3. /\ Holds(reallign(list), expected, Elems)
          /\ reallign(list).cap = list.cap /\ reallign(list).front = 0
      BY <3>2, Reallign
    <3>4. /\ \A n \in 1 .. Len(expected) : reallign(list).data[n - 1] = expected[n]
          /\ Cardinality(DOMAIN reallign(list).data) = list.cap
      BY <3>3, AtStart
    <3> QED BY <1>10, <2>1, <3>1, <3>2, <3>4 DEF ListInv
  <2>6. call.kind \in Kinds
    BY <1>3 DEF Request
  <2> QED BY <1>1, <2>2, <2>3, <2>4, <2>5, <2>6 DEF Kinds
<1> QED BY <1>1, <1>2, <1>16, <1>18, <1>19, <1>20, <1>21 DEF MemIInv

-----------------------------------------------------------------------------
(***************************************************************************)
(* Theorems.                                                               *)
(***************************************************************************)
LEMMA MemStart ==
  ASSUME Init
  PROVE  MemIInv /\ Contract!Init
BY DEF Init, MemIInv, Nothing, Contract!Init, Contract!NoBlocks, NoBlocks

LEMMA MemStep ==
  ASSUME MemIInv, [Next]_vars
  PROVE  MemIInv' /\ ArenaStep
BY InitializeStep, EndSteps, GrowStep, LowMemoryStep, ParserStep, AllocReturnsStep
   DEF Next, Allocator, Terminated

LEMMA MemInductive == Spec => []MemIInv
BY MemStart, MemStep, PTL DEF Spec

\* memory_pool.h's promise: whatever is allocated lies in memory quash has, apart from
\* all that was allocated before, and everything is free again after the script.
THEOREM PoolImplementsArena == Spec => ImplementsArena
<1>1. Init => Contract!Init
  BY MemStart
<1>2. MemIInv /\ [Next]_vars => [Contract!Next]_<<owned, given>>
  BY MemStep DEF ArenaStep
<1> QED BY <1>1, <1>2, MemInductive, PTL DEF Spec, ImplementsArena, Contract!Spec, Contract!vars

\* A list built in the pool keeps its elements through every growth and wrap, in an
\* array that nothing else was given, and so does the array that run_script() walks.
THEOREM ListsIntact == Spec => []ListIntact
<1>1. MemIInv => ListIntact
  <2> SUFFICES ASSUME MemIInv PROVE ListIntact
    OBVIOUS
  <2>1. CASE main # "script"
    BY <2>1 DEF MemIInv, Nothing, ListIntact
  <2>2. CASE main = "script"
    <3>1. ListInv
      BY <2>2 DEF MemIInv
    <3>2. ASSUME list # Destroyed
          PROVE  /\ Elements(list) = expected /\ array.size = list.cap * ELEM_SIZE
                 /\ DOMAIN list.data = 0 .. list.cap - 1
      <4>1. Holds(list, expected, Elems) /\ array.size = list.cap * ELEM_SIZE
        BY <3>1, <3>2 DEF ListInv, ListHeld
      <4>2. list.data \in [0 .. list.cap - 1 -> Elems \cup {Garbage}]
        BY <4>1, Fields
      <4> QED BY <4>1, <4>2, ElementsHeld
    <3> QED BY <3>1, <3>2 DEF ListInv, ListIntact
  <2> QED BY <2>1, <2>2
<1> QED BY <1>1, MemInductive, PTL
=============================================================================
