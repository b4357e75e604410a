----------------------------- MODULE QuashPipes -----------------------------
(***************************************************************************)
(* The pipeline of a quash script: the flags the grammar gives every       *)
(* command (quash/src/parsing/parse.y), and run_script and create_process  *)
(* of quash/src/execute.c, which make pipe after pipe, keeping two at a    *)
(* time in pipes[old_pipe] and pipes[cur_pipe], and fork the commands; a   *)
(* child inherits every descriptor quash has open, connects stdin and      *)
(* stdout, closes the pipes, opens the files it is redirected to and runs. *)
(***************************************************************************)
EXTENDS Pipeline, SequencesExt

CONSTANTS Redirections,  \* sequences of redirections a command may be given
          Backgrounds    \* commands an ampersand may follow; 0 for none

Marks == {"<", ">", ">>"}
ASSUME RedirectionsAssumption == \A marks \in Redirections : marks \in Seq(Marks)
ASSUME BackgroundsAssumption == Backgrounds \subseteq Commands \cup {0}

VARIABLES holders,   \* the flags of each CommandHolder of the script
          pipes,     \* the pipes of pipes[0] and pipes[1]
          cur_pipe,  \* the index for the next pipe
          old_pipe,  \* the index of the one before
          at,        \* where quash is
          i,         \* the command it creates
          own,       \* the child's copy of pipes[cur_pipe], pipes[old_pipe]
          failed     \* could a file not be opened?

quash == <<pipes, cur_pipe, old_pipe, at, i>>
vars == <<holders, quash, own, failed, shell_open, children, data>>

(***************************************************************************)
(* The flags                                                               *)
(***************************************************************************)
\* The rule recurses to the right, so the first of several redirections wins.
redir_inner(mark, r) ==
  CASE mark = "<" -> [r EXCEPT !.r_in = TRUE]
    [] mark = ">" -> [r EXCEPT !.r_out = TRUE, !.r_app = FALSE]
    [] mark = ">>" -> [r EXCEPT !.r_out = TRUE, !.r_app = TRUE]

mk_redirect == [r_in |-> FALSE, r_out |-> FALSE, r_app |-> FALSE]

cmd_top(marks, bg) ==
  LET r == FoldRight(redir_inner, marks, mk_redirect)
  IN [p_in |-> FALSE, p_out |-> FALSE, background |-> bg,
      r_in |-> r.r_in, r_out |-> r.r_out, r_app |-> r.r_app]

\* Fault: the redirections of piped commands stay.
PipeKeepsRedirects(cmd, prev) ==
  <<[cmd EXCEPT !.p_out = TRUE, !.background = @ \/ prev.background],
    [prev EXCEPT !.p_in = TRUE]>>

Pipe(cmd, prev) ==
  <<[cmd EXCEPT !.p_out = TRUE, !.r_out = FALSE, !.r_app = FALSE,
                !.background = @ \/ prev.background],
    [prev EXCEPT !.p_in = TRUE, !.r_in = FALSE]>>

cmds(tops) ==
  FoldRight(LAMBDA top, rest : IF rest = <<>> THEN <<top>> ELSE Pipe(top, rest[1]) \o Tail(rest),
            tops, <<>>)

ParsedScripts ==
  {cmds([c \in Commands |-> cmd_top(marks[c], c = bg)]) :
     marks \in [Commands -> Redirections], bg \in Backgrounds}

(***************************************************************************)
(* quash.  cur_pipe and old_pipe keep their values from script to script.  *)
(***************************************************************************)
Init == /\ holders \in ParsedScripts
        /\ PipelineInit(holders[1].r_in)
        /\ cur_pipe \in {0, 1}
        /\ old_pipe = 1 - cur_pipe
        /\ pipes = [n \in {0, 1} |-> 0]
        /\ at = "open"
        /\ i = 1
        /\ own = [c \in Commands |-> [cur |-> 0, old |-> 0]]
        /\ failed = FALSE

OpenOld == /\ at = "open"
           /\ pipes' = [pipes EXCEPT ![old_pipe] = 0]
           /\ shell_open' = shell_open \cup Both(0)
           /\ at' = "pipe"
           /\ UNCHANGED <<holders, cur_pipe, old_pipe, i, own, failed, children, data>>

OpenNext == /\ at = "pipe"
            /\ pipes' = [pipes EXCEPT ![cur_pipe] = i]
            /\ shell_open' = shell_open \cup Both(i)
            /\ at' = "fork"
            /\ UNCHANGED <<holders, cur_pipe, old_pipe, i, own, failed, children, data>>

Fork == /\ at = "fork"
        /\ pc' = [pc EXCEPT ![i] = "forked"]
        /\ own' = [own EXCEPT ![i] = [cur |-> pipes[cur_pipe], old |-> pipes[old_pipe]]]
        /\ open' = [open EXCEPT ![i] = shell_open]
        /\ at' = "close"
        /\ UNCHANGED <<holders, pipes, cur_pipe, old_pipe, i, failed, shell_open,
                       stdin, stdout, data>>

NextCommand == IF i < NumCommands THEN i' = i + 1 /\ at' = "pipe"
                                  ELSE i' = i /\ at' = "close_last"

\* Fault: quash closes only the reading end of the old pipe.
CloseOldHalf == /\ at = "close"
                /\ shell_open' = shell_open \ {End(pipes[old_pipe], "read")}
                /\ old_pipe' = cur_pipe
                /\ cur_pipe' = (cur_pipe + 1) % 2
                /\ NextCommand
                /\ UNCHANGED <<holders, pipes, own, failed, children, data>>

\* The old pipe is done with; the current one becomes the old one.
CloseOld == /\ at = "close"
            /\ shell_open' = shell_open \ Both(pipes[old_pipe])
            /\ old_pipe' = cur_pipe
            /\ cur_pipe' = (cur_pipe + 1) % 2
            /\ NextCommand
            /\ UNCHANGED <<holders, pipes, own, failed, children, data>>

CloseLast == /\ at = "close_last"
             /\ shell_open' = shell_open \ Both(pipes[old_pipe])
             /\ at' = "wait"
             /\ UNCHANGED <<holders, pipes, cur_pipe, old_pipe, i, own, failed, children, data>>

\* The foreground loop of waitpid(), or the job is filed; what both do in
\* detail is in QuashJobs.
FinishScript == /\ at = "wait"
                /\ holders[1].background \/ \A c \in Commands : pc[c] = "done"
                /\ at' = "done"
                /\ UNCHANGED <<holders, pipes, cur_pipe, old_pipe, i, own, failed,
                               shell_open, children, data>>

(***************************************************************************)
(* A child before it runs its command                                      *)
(***************************************************************************)
\* Fault: stdin is not redirected.
ConnectStdoutOnly(c) ==
  /\ pc[c] = "forked"
  /\ stdout' = [stdout EXCEPT ![c] = Dup2(c, holders[c].p_out, End(own[c].cur, "write"), @)]
  /\ pc' = [pc EXCEPT ![c] = "connected"]
  /\ UNCHANGED <<holders, quash, own, failed, shell_open, open, stdin, data>>

Connect(c) ==
  /\ pc[c] = "forked"
  /\ stdin' = [stdin EXCEPT ![c] = Dup2(c, holders[c].p_in, End(own[c].old, "read"), @)]
  /\ stdout' = [stdout EXCEPT ![c] = Dup2(c, holders[c].p_out, End(own[c].cur, "write"), @)]
  /\ pc' = [pc EXCEPT ![c] = "connected"]
  /\ UNCHANGED <<holders, quash, own, failed, shell_open, open, data>>

ClosePipes(c) == /\ pc[c] = "connected"
                 /\ open' = [open EXCEPT ![c] = @ \ (Both(own[c].cur) \cup Both(own[c].old))]
                 /\ pc' = [pc EXCEPT ![c] = "closed"]
                 /\ UNCHANGED <<holders, quash, own, failed, shell_open, stdin, stdout, data>>

\* open() may fail; dup2(-1) then leaves stdin or stdout alone.
RedirectIn(c) ==
  /\ pc[c] = "closed"
  /\ IF holders[c].r_in
     THEN \/ stdin' = [stdin EXCEPT ![c] = InFile] /\ failed' = failed
          \/ stdin' = stdin /\ failed' = TRUE
     ELSE UNCHANGED <<stdin, failed>>
  /\ pc' = [pc EXCEPT ![c] = "reading"]
  /\ UNCHANGED <<holders, quash, own, shell_open, open, stdout, data>>

RedirectOut(c) ==
  /\ pc[c] = "reading"
  /\ IF holders[c].r_out
     THEN \/ /\ stdout' = [stdout EXCEPT ![c] = OutFile]
             /\ written' = IF holders[c].r_app THEN written ELSE 0
             /\ failed' = failed
          \/ UNCHANGED <<stdout, written>> /\ failed' = TRUE
     ELSE UNCHANGED <<stdout, written, failed>>
  /\ pc' = [pc EXCEPT ![c] = "running"]
  /\ UNCHANGED <<holders, quash, own, shell_open, open, stdin, content, left, shown,
                 unread, early>>

Quash == OpenOld \/ OpenNext \/ Fork \/ CloseOld \/ CloseLast \/ FinishScript

SetUp(c) == Connect(c) \/ ClosePipes(c) \/ RedirectIn(c) \/ RedirectOut(c)

Run(c) == Filter(c) /\ UNCHANGED <<holders, quash, own, failed>>

Stop(c) == EndsEarly(c) /\ UNCHANGED <<holders, quash, own, failed>>

AllOver == at = "done" /\ \A c \in Commands : pc[c] = "done"

Terminated == AllOver /\ UNCHANGED vars

Next == \/ Quash
        \/ \E c \in Commands : SetUp(c) \/ Run(c) \/ Stop(c)
        \/ Terminated

Spec == Init /\ [][Next]_vars

\* Every process is scheduled; nobody has to end before its input does.
FairSpec == /\ Spec
            /\ WF_vars(Quash)
            /\ \A c \in Commands : WF_vars(SetUp(c) \/ Run(c))

(***************************************************************************)
(* Properties.                                                             *)
(***************************************************************************)
\* A running command reads what its left neighbour writes and writes what its
\* right neighbour reads, whatever files it was redirected to; only the first
\* one reads a file and only the last one writes one, if they can be opened.
\* No command has another end of a pipe open; nor has the program that created
\* them when it waits.
Wired ==
  /\ \A c \in Commands : pc[c] = "running" =>
       /\ open[c] = {}
       /\ IF c > 1 THEN stdin[c] = End(c - 1, "read")
                   ELSE stdin[c] \in {Terminal, InFile}
       /\ IF c < NumCommands THEN stdout[c] = End(c, "write")
                             ELSE stdout[c] \in {Terminal, OutFile}
       /\ ~failed => /\ holders[c].r_in = (stdin[c] = InFile)
                     /\ holders[c].r_out = (stdout[c] = OutFile)
  /\ at \in {"wait", "done"} => shell_open = {}

\* If no command ends early and all files can be opened, every item comes
\* through: to the terminal, or to the file, behind its content if appended.
AllDelivered ==
  AllOver /\ ~early /\ ~failed =>
    LET last == holders[NumCommands]
    IN IF last.r_out
       THEN shown = 0 /\ written = Items + (IF last.r_app THEN OldItems ELSE 0)
       ELSE shown = Items /\ written = OldItems

\* A pipeline ends, be it in the background: each command sees the end of its
\* input, and quash comes back to its prompt.
Termination == <>AllOver
=============================================================================
