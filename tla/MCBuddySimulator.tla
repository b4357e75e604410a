-------------------------- MODULE MCBuddySimulator --------------------------
(***************************************************************************)
(* Instance of BuddySimulator for TLC: eight pages of four bytes, requests *)
(* for every order and on both sides of its limit.                         *)
(***************************************************************************)
EXTENDS BuddySimulator

Symmetry == Permutations(Vars)

MCSizes == {0, 4, 5, 9, 32, 33}
=============================================================================
