------------------------------ MODULE MCDining ------------------------------
(***************************************************************************)
(* Instances of DiningPhilosophers for TLC: the table size, the number of  *)
(* accounting periods and the program are set in the .cfg files.           *)
(***************************************************************************)
EXTENDS DiningPhilosophers
=============================================================================
