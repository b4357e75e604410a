------------------------------ MODULE IpcPipes ------------------------------
(***************************************************************************)
(* The pipelines of the IPC lab beside that of quash.  ipc/fork.c is the   *)
(* prototype of quash's loop: its parent does what quash does with two     *)
(* pipes in turn, its children close what they do not need one end at a    *)
(* time and in another order.  ipc/finder.c makes all its pipes first and  *)
(* closes them after all forks, so every child inherits every end.         *)
(***************************************************************************)
EXTENDS QuashPipes

VARIABLE program

ipc_vars == <<program, vars>>

IpcInit == /\ program \in {"quash", "fork.c", "finder.c"}
           /\ Init
           /\ program # "quash" =>
                /\ cur_pipe = 0
                /\ holders = cmds([c \in Commands |-> cmd_top(<<>>, FALSE)])

(***************************************************************************)
(* The children of fork.c                                                  *)
(***************************************************************************)
CloseUnused(c) ==
  /\ pc[c] = "forked"
  /\ open' = [open EXCEPT ![c] = @ \ {End(own[c].cur, "read"), End(own[c].old, "write")}]
  /\ pc' = [pc EXCEPT ![c] = "closed"]
  /\ UNCHANGED <<holders, quash, own, failed, shell_open, stdin, stdout, data>>

ConnectIn(c) ==
  /\ pc[c] = "closed"
  /\ stdin' = [stdin EXCEPT ![c] = Dup2(c, c # 1, End(own[c].old, "read"), @)]
  /\ open' = [open EXCEPT ![c] = @ \ {End(own[c].old, "read")}]
  /\ pc' = [pc EXCEPT ![c] = "reading"]
  /\ UNCHANGED <<holders, quash, own, failed, shell_open, stdout, data>>

ConnectOut(c) ==
  /\ pc[c] = "reading"
  /\ stdout' = [stdout EXCEPT ![c] = Dup2(c, c # NumCommands, End(own[c].cur, "write"), @)]
  /\ open' = [open EXCEPT ![c] = @ \ {End(own[c].cur, "write")}]
  /\ pc' = [pc EXCEPT ![c] = "running"]
  /\ UNCHANGED <<holders, quash, own, failed, shell_open, stdin, data>>

ForkChild(c) == CloseUnused(c) \/ ConnectIn(c) \/ ConnectOut(c)

(***************************************************************************)
(* finder.c.  Pipe p of its p1, p2 and p3 lies between commands p and p+1. *)
(***************************************************************************)
FinderPipes == 1 .. NumCommands - 1
FinderEnds == UNION {Both(p) : p \in FinderPipes}

MakePipes == /\ at = "open"
             /\ shell_open' = FinderEnds
             /\ at' = "fork"
             /\ UNCHANGED <<holders, pipes, cur_pipe, old_pipe, i, own, failed, children, data>>

ForkNext == /\ at = "fork"
            /\ pc' = [pc EXCEPT ![i] = "forked"]
            /\ open' = [open EXCEPT ![i] = shell_open]
            /\ IF i < NumCommands THEN i' = i + 1 /\ at' = at
                                  ELSE i' = i /\ at' = "close"
            /\ UNCHANGED <<holders, pipes, cur_pipe, old_pipe, own, failed, shell_open,
                           stdin, stdout, data>>

CloseAll == /\ at = "close"
            /\ shell_open' = shell_open \ FinderEnds
            /\ at' = "wait"
            /\ UNCHANGED <<holders, pipes, cur_pipe, old_pipe, i, own, failed, children, data>>

FinderMain == MakePipes \/ ForkNext \/ CloseAll \/ FinishScript

\* The ends a child goes on to connect.
Needed(c) == {End(c - 1, "read"), End(c, "write")}

CloseOthers(c) == /\ pc[c] = "forked"
                  /\ open' = [open EXCEPT ![c] = @ \cap Needed(c)]
                  /\ pc' = [pc EXCEPT ![c] = "closed"]
                  /\ UNCHANGED <<holders, quash, own, failed, shell_open, stdin, stdout, data>>

ConnectBoth(c) ==
  /\ pc[c] = "closed"
  /\ stdin' = [stdin EXCEPT ![c] = Dup2(c, c # 1, End(c - 1, "read"), @)]
  /\ stdout' = [stdout EXCEPT ![c] = Dup2(c, c # NumCommands, End(c, "write"), @)]
  /\ open' = [open EXCEPT ![c] = @ \ Needed(c)]
  /\ pc' = [pc EXCEPT ![c] = "running"]
  /\ UNCHANGED <<holders, quash, own, failed, shell_open, data>>

FinderChild(c) == CloseOthers(c) \/ ConnectBoth(c)

(***************************************************************************)
(* All three                                                               *)
(***************************************************************************)
Parent == program' = program /\ IF program = "finder.c" THEN FinderMain ELSE Quash

Child(c) == /\ program' = program
            /\ \/ program = "quash" /\ SetUp(c)
               \/ program = "fork.c" /\ ForkChild(c)
               \/ program = "finder.c" /\ FinderChild(c)
               \/ Run(c)

IpcNext == \/ Parent
           \/ \E c \in Commands : Child(c) \/ (Stop(c) /\ program' = program)
           \/ AllOver /\ UNCHANGED ipc_vars

IpcSpec == IpcInit /\ [][IpcNext]_ipc_vars

\* Every process is scheduled; nobody has to end before its input does.
IpcFairSpec == /\ IpcSpec
               /\ WF_ipc_vars(Parent)
               /\ \A c \in Commands : WF_ipc_vars(Child(c))
=============================================================================
