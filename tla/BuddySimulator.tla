--------------------------- MODULE BuddySimulator ---------------------------
(***************************************************************************)
(* buddy/simulator.c: a program of allocations and frees by variable,      *)
(* which stops at the first command that fails.                            *)
(***************************************************************************)
EXTENDS BuddyAllocator

CONSTANT Vars          \* variable names

VARIABLES var_map,     \* mem and in_use of each variable
          target,      \* the variable of the command being executed
          status       \* of the last command, or "EOF" behind the last one

vars == <<buddy, var_map, target, status>>

Init == /\ buddy_init
        /\ var_map = [v \in Vars |-> [mem |-> NULL, in_use |-> 0]]
        /\ target = NULL
        /\ status = "SUCCESS"

Ready == op = "idle" /\ status = "SUCCESS"

(***************************************************************************)
(* parse_alloc(): the variable may be in use; its block is then forgotten. *)
(***************************************************************************)
ParseAlloc(v, size) == /\ Ready
                       /\ AllocStarts(size)
                       /\ target' = v
                       /\ UNCHANGED <<var_map, status>>

\* in_use keeps its value.
OutOfMemory(v, size) == /\ Ready
                        /\ AllocFails(size)
                        /\ var_map' = [var_map EXCEPT ![v].mem = NULL]
                        /\ status' = "OUTOFMEMORY"
                        /\ UNCHANGED target

AllocReturns == /\ Take
                /\ var_map' = [var_map EXCEPT ![target] = [mem |-> ret', in_use |-> 1]]
                /\ target' = NULL
                /\ UNCHANGED status

(***************************************************************************)
(* parse_free()                                                            *)
(***************************************************************************)
ParseFree(v) == /\ Ready
                /\ var_map[v].in_use = 1
                /\ FreeStarts(var_map[v].mem)
                /\ target' = v
                /\ UNCHANGED <<var_map, status>>

DoubleFree(v) == /\ Ready
                 /\ var_map[v].in_use = 0
                 /\ status' = "DOUBLEFREE"
                 /\ UNCHANGED <<buddy, var_map, target>>

\* Fault: the variable stays in use.
FreeReturnsInUse == /\ Insert
                    /\ var_map' = [var_map EXCEPT ![target].mem = NULL]
                    /\ target' = NULL
                    /\ UNCHANGED status

FreeReturns == /\ Insert
               /\ var_map' = [var_map EXCEPT ![target] = [mem |-> NULL, in_use |-> 0]]
               /\ target' = NULL
               /\ UNCHANGED status

EndOfFile == /\ Ready
             /\ status' = "EOF"
             /\ UNCHANGED <<buddy, var_map, target>>

Terminated == status # "SUCCESS" /\ UNCHANGED vars

Command == \/ \E v \in Vars, size \in Sizes : ParseAlloc(v, size) \/ OutOfMemory(v, size)
           \/ \E v \in Vars : ParseFree(v) \/ DoubleFree(v)
           \/ EndOfFile

Call == /\ Split \/ Combine
        /\ UNCHANGED <<var_map, target, status>>

Return == AllocReturns \/ FreeReturns

Next == Command \/ Call \/ Return \/ Terminated

Spec == Init /\ [][Next]_vars

(***************************************************************************)
(* Properties.                                                             *)
(***************************************************************************)
\* Types and ranges.
TypeOK == /\ BuddyTypeOK
          /\ var_map \in [Vars -> [mem : PageIds \cup {NULL}, in_use : {0, 1}]]
          /\ target \in Vars \cup {NULL}
          /\ status \in {"SUCCESS", "OUTOFMEMORY", "DOUBLEFREE", "EOF"}

\* While commands succeed, variables in use name blocks in use, and no two the
\* same: the check of in_use is enough to keep buddy_free() from a block that is
\* free, even where a variable was assigned over.
VarsOwnBlocks == Ready =>
  \A v \in Vars : var_map[v].in_use = 1 =>
    /\ var_map[v].mem \in Allocated
    /\ \A w \in Vars \ {v} : var_map[w].in_use = 1 => var_map[w].mem # var_map[v].mem
=============================================================================
