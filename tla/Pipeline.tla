------------------------------ MODULE Pipeline ------------------------------
(***************************************************************************)
(* Commands connected by pipes, as the kernel sees them.  The programs     *)
(* that set them up (quash, ipc/fork.c and ipc/finder.c) are in            *)
(* QuashPipes and IpcPipes, which extend this module.                      *)
(*                                                                         *)
(* A reader sees the end of its input only once no process at all has the  *)
(* writing end open, so one descriptor left open anywhere stalls everyone: *)
(* the model keeps for every process which ends it has open.  All of this  *)
(* is external: the commands are filters that copy stdin to stdout, the    *)
(* first one a source of Items items unless it reads a file of as many;    *)
(* any of them may end early.                                              *)
(***************************************************************************)
EXTENDS Integers

CONSTANTS NumCommands,  \* commands in the pipeline
          Items,        \* items the first command writes or reads
          OldItems,     \* items in the output file beforehand
          PIPE_SIZE     \* items a pipe can hold

ASSUME NumCommandsAssumption == NumCommands \in Nat \ {0}
ASSUME ItemsAssumption == Items \in Nat /\ OldItems \in Nat /\ PIPE_SIZE \in Nat \ {0}

Commands == 1 .. NumCommands
\* A pipe is named by the number of the pipe() call that made it.
PipeIds == 0 .. NumCommands
End(pipe, side) == [pipe |-> pipe, side |-> side]
Both(pipe) == {End(pipe, "read"), End(pipe, "write")}
Terminal == End(-1, "terminal")
InFile == End(-1, "infile")
OutFile == End(-1, "outfile")

IsPipe(end) == end.pipe # -1

VARIABLES shell_open,\* pipe ends open in the program that creates the commands
          pc,        \* where each command's process is
          open,      \* pipe ends open in a child, apart from stdin and stdout
          stdin, stdout,
          content,   \* items in each pipe
          left,      \* items a command has to write: its own, or the one it read
          shown,     \* items that reached the terminal
          unread,    \* items of the input file that were not read
          written,   \* items in the output file
          early      \* has a command ended before it was done?

children == <<pc, open, stdin, stdout>>
data == <<content, left, shown, unread, written, early>>

PipelineInit(from_file) ==
  /\ shell_open = {}
  /\ pc = [c \in Commands |-> "none"]
  /\ open = [c \in Commands |-> {}]
  /\ stdin = [c \in Commands |-> Terminal]
  /\ stdout = [c \in Commands |-> Terminal]
  /\ content = [p \in PipeIds |-> 0]
  /\ left = [c \in Commands |-> IF c = 1 /\ ~from_file THEN Items ELSE 0]
  /\ shown = 0
  /\ unread = Items
  /\ written = OldItems
  /\ early = FALSE

\* dup2() of a pipe's end, which fails if the descriptor is not open.
Dup2(c, wanted, end, now) == IF wanted /\ end \in open[c] THEN end ELSE now

\* Is some process keeping this end open?
IsOpen(end) == \/ end \in shell_open
               \/ \E c \in Commands : /\ pc[c] \notin {"none", "done"}
                                      /\ end \in open[c] \cup {stdin[c], stdout[c]}

\* A filter has at most the one item in hand that it read last.
Read(c) == /\ pc[c] = "running" /\ stdin[c] # Terminal /\ left[c] = 0
           /\ IF IsPipe(stdin[c])
              THEN /\ content[stdin[c].pipe] > 0
                   /\ content' = [content EXCEPT ![stdin[c].pipe] = @ - 1]
                   /\ unread' = unread
              ELSE unread > 0 /\ unread' = unread - 1 /\ content' = content
           /\ left' = [left EXCEPT ![c] = 1]
           /\ UNCHANGED <<shell_open, children, shown, written, early>>

WritePipe(end) == /\ IsOpen(End(end.pipe, "read"))
                  /\ content[end.pipe] < PIPE_SIZE
                  /\ content' = [content EXCEPT ![end.pipe] = @ + 1]

Write(c) == /\ pc[c] = "running" /\ left[c] > 0
            /\ IF IsPipe(stdout[c])
               THEN WritePipe(stdout[c]) /\ UNCHANGED <<shown, written>>
               ELSE /\ content' = content
                    /\ IF stdout[c] = OutFile THEN written' = written + 1 /\ shown' = shown
                                              ELSE shown' = shown + 1 /\ written' = written
            /\ left' = [left EXCEPT ![c] = @ - 1]
            /\ UNCHANGED <<shell_open, children, unread, early>>

Ends(c) == /\ pc' = [pc EXCEPT ![c] = "done"]
           /\ UNCHANGED <<shell_open, open, stdin, stdout, content, left, shown, unread, written>>

\* The end of the input, which on the terminal may come at once.
EndsAtEof(c) == /\ pc[c] = "running" /\ left[c] = 0
                /\ IsPipe(stdin[c]) => /\ content[stdin[c].pipe] = 0
                                       /\ ~IsOpen(End(stdin[c].pipe, "write"))
                /\ stdin[c] = InFile => unread = 0
                /\ Ends(c)
                /\ UNCHANGED early

\* SIGPIPE: nobody can read any more what it writes.
EndsAtSigpipe(c) == /\ pc[c] = "running" /\ left[c] > 0
                    /\ IsPipe(stdout[c])
                    /\ ~IsOpen(End(stdout[c].pipe, "read"))
                    /\ Ends(c)
                    /\ UNCHANGED early

\* A command that does not want all of its input, or is killed.
EndsEarly(c) == /\ pc[c] = "running"
                /\ Ends(c)
                /\ early' = TRUE

Filter(c) == Read(c) \/ Write(c) \/ EndsAtEof(c) \/ EndsAtSigpipe(c)
=============================================================================
