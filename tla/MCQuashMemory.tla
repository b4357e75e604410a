--------------------------- MODULE MCQuashMemory ----------------------------
(***************************************************************************)
(* QuashMemory for TLC: a first pool of 2 bytes, so that the pools have 2, *)
(* 4, 8, 16 bytes, a string that is too long for the first ones, and lists *)
(* that grow twice.                                                        *)
(***************************************************************************)
EXTENDS QuashMemory
=============================================================================
