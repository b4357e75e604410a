--------------------------- MODULE MCDiningWaiter ---------------------------
(***************************************************************************)
(* Instance of DiningWaiter for TLC; the numbers are in the .cfg file.     *)
(***************************************************************************)
EXTENDS DiningWaiter
=============================================================================
