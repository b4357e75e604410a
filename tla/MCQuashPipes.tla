---------------------------- MODULE MCQuashPipes ----------------------------
(***************************************************************************)
(* The three programs for TLC: four commands, so that the two entries of pipes[]  *)
(* are used again, and pipes that fill up.                                 *)
(***************************************************************************)
EXTENDS IpcPipes

SomeRedirections == {<<>>, <<"<">>, <<">>">>, <<">", ">>">>}
SomeBackgrounds == {0, 2}
=============================================================================
