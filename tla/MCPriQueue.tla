----------------------------- MODULE MCPriQueue -----------------------------
(***************************************************************************)
(* Instance of PriQueue for TLC: three elements, two of which compare as   *)
(* equal, offered any number of times, in an array that starts with two    *)
(* slots and so grows while it is wrapped.                                 *)
(***************************************************************************)
EXTENDS PriQueue

CONSTANTS a1, b1, c2

MCElements == {a1, b1, c2}

Key(x) == IF x = c2 THEN 2 ELSE 1

MCcompare(x, y) == Key(x) - Key(y)
=============================================================================
