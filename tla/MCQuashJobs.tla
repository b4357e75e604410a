---------------------------- MODULE MCQuashJobs -----------------------------
(***************************************************************************)
(* Instances of QuashJobs for TLC: scripts of one process or two, of kill  *)
(* alone, and of exit.                                                     *)
(***************************************************************************)
EXTENDS QuashJobs

Command(kind, n) == [kind |-> kind, job |-> n]
Run == Command("run", 0)

MCPids == {1, 2, 3}

MCScripts == {<<Run>>, <<Run, Run>>, <<Command("exit", 0)>>,
              <<Command("kill", 1)>>, <<Command("kill", 2)>>}
=============================================================================
