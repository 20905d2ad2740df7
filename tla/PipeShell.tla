----------------------------- MODULE PipeShell -----------------------------
(***************************************************************************)
(* The shell with pipelines, 12_channels/p3.c.  For each command of a line *)
(* main makes a pipe to the next one, forks, and closes its own ends; then *)
(* it waits as often as there are commands.  A child inherits every end    *)
(* main holds at the fork, and closes only the descriptors it has copied   *)
(* to its standard input and output: it keeps the reading end of the pipe  *)
(* it writes to.  Pipe p lies between the commands p and p + 1.            *)
(*                                                                         *)
(* The commands are programs of the user: they write some output, and read *)
(* their input to its end ("all") or only as much as they like ("some",    *)
(* which also stands for a command that execvp does not find).  A line     *)
(* read after the end of the input is the first word of the last one       *)
(* again, and one of the lines the user might have typed.                  *)
(***************************************************************************)
EXTENDS Integers, FiniteSetsExt

CONSTANTS
    MaxCommands,  \* MAX_COMMANDS
    PipeCap,      \* writes that fit into a pipe
    MaxOutput,    \* bound: writes of a command
    MaxLines,     \* bound: lines the user types
    Shell         \* the shell, as the holder of a descriptor

ASSUME ShellAssumption ==
    /\ MaxCommands \in Nat \ {0}
    /\ PipeCap \in Nat \ {0}
    /\ MaxOutput \in Nat
    /\ MaxLines \in Nat
    /\ Shell \notin Int

Commands == 1..MaxCommands
Pipes == 1..MaxCommands - 1

VARIABLES
    pc,            \* where main is
    num_commands,  \* commands of this line
    i,             \* the command main is starting, or how often it has waited
    lines,         \* history: lines typed so far
    rd, wr,        \* who holds the reading and the writing end of each pipe
    buf,           \* writes in each pipe that nobody has read
    proc,          \* the process of each command
    kind,          \* how it treats its input
    todo           \* what it has still to write

main == <<pc, num_commands, i, lines>>
ends == <<rd, wr>>
children == <<proc, kind, todo>>
vars == <<main, ends, buf, children>>

Init ==
    /\ pc = "prompt"
    /\ num_commands = 0
    /\ i = 1
    /\ lines = 0
    /\ rd = [p \in Pipes |-> {}]
    /\ wr = [p \in Pipes |-> {}]
    /\ buf = [p \in Pipes |-> 0]
    /\ proc = [c \in Commands |-> "none"]
    /\ kind = [c \in Commands |-> "all"]
    /\ todo = [c \in Commands |-> 0]

\* Process x closes every end it holds, or opens those of the given pipes.
Without(x, holders) == [p \in Pipes |-> holders[p] \ {x}]
With(x, holders, pipes) == [p \in Pipes |-> IF p \in pipes THEN holders[p] \cup {x} ELSE holders[p]]

-----------------------------------------------------------------------------
(* main *)

\* A line of k commands; what is behind the last place is not looked at, and
\* an empty line is skipped.
ReadLine ==
    /\ pc = "prompt"
    /\ lines < MaxLines
    /\ lines' = lines + 1
    /\ \E k \in 0..MaxCommands + 1 :
          /\ num_commands' = Min({k, MaxCommands})
          /\ pc' = IF k = 0 THEN "prompt" ELSE "pipe"
    /\ i' = 1
    /\ buf' = [p \in Pipes |-> 0]
    /\ proc' = [c \in Commands |-> "none"]
    /\ UNCHANGED <<ends, kind, todo>>

Exit ==
    /\ pc = "prompt"
    /\ pc' = "exited"
    /\ UNCHANGED <<num_commands, i, lines, ends, buf, children>>

MakePipe ==
    /\ pc = "pipe"
    /\ IF i < num_commands
       THEN rd' = With(Shell, rd, {i}) /\ wr' = With(Shell, wr, {i})
       ELSE UNCHANGED ends
    /\ pc' = "fork"
    /\ UNCHANGED <<num_commands, i, lines, buf, children>>

\* The shell exits and leaves the commands it has started to themselves.
PipeFails ==
    /\ pc = "pipe"
    /\ i < num_commands
    /\ pc' = "exited"
    /\ rd' = Without(Shell, rd)
    /\ wr' = Without(Shell, wr)
    /\ UNCHANGED <<num_commands, i, lines, buf, children>>

Held(holders) == {p \in Pipes : Shell \in holders[p]}

\* The dup2 and close of the child move descriptors and give none up.
Fork ==
    /\ pc = "fork"
    /\ rd' = With(i, rd, Held(rd))
    /\ wr' = With(i, wr, Held(wr))
    /\ proc' = [proc EXCEPT ![i] = "run"]
    /\ \E k \in {"all", "some"}, n \in 0..MaxOutput :
          kind' = [kind EXCEPT ![i] = k] /\ todo' = [todo EXCEPT ![i] = n]
    /\ pc' = "close"
    /\ UNCHANGED <<num_commands, i, lines, buf>>

ForkFails ==
    /\ pc = "fork"
    /\ pc' = "close"
    /\ UNCHANGED <<num_commands, i, lines, ends, buf, children>>

Advance ==
    IF i < num_commands THEN pc' = "pipe" /\ i' = i + 1
                        ELSE pc' = "wait" /\ i' = 1

\* Mutant: the shell keeps the writing end of the pipe it has just made.
CloseEndsKeepsWriter ==
    /\ pc = "close"
    /\ rd' = [p \in Pipes |-> IF p = i - 1 THEN rd[p] \ {Shell} ELSE rd[p]]
    /\ Advance
    /\ UNCHANGED <<num_commands, lines, wr, buf, children>>

\* Mutant: the shell does not close the reading end of the previous pipe.
CloseEndsKeepsReader ==
    /\ pc = "close"
    /\ wr' = [p \in Pipes |-> IF p = i THEN wr[p] \ {Shell} ELSE wr[p]]
    /\ Advance
    /\ UNCHANGED <<num_commands, lines, rd, buf, children>>

\* The shell closes the reading end of the previous pipe and the writing end
\* of the new one; prev_pipe[1] is -1 by then.
CloseEnds ==
    /\ pc = "close"
    /\ rd' = [p \in Pipes |-> IF p = i - 1 THEN rd[p] \ {Shell} ELSE rd[p]]
    /\ wr' = [p \in Pipes |-> IF p = i THEN wr[p] \ {Shell} ELSE wr[p]]
    /\ Advance
    /\ UNCHANGED <<num_commands, lines, buf, children>>

Waited ==
    /\ i' = i + 1
    /\ pc' = IF i = num_commands THEN "prompt" ELSE "wait"
    /\ UNCHANGED <<num_commands, lines, ends, buf, kind, todo>>

\* wait returns for any child that has ended ...
Wait ==
    /\ pc = "wait"
    /\ \E c \in Commands : proc[c] = "ended" /\ proc' = [proc EXCEPT ![c] = "reaped"]
    /\ Waited

\* ... and at once when there is none at all, because a fork has failed.
WaitFails ==
    /\ pc = "wait"
    /\ \A c \in Commands : proc[c] \notin {"run", "ended"}
    /\ UNCHANGED proc
    /\ Waited

MainStep ==
    \/ MakePipe \/ PipeFails
    \/ Fork \/ ForkFails
    \/ CloseEnds
    \/ Wait \/ WaitFails

-----------------------------------------------------------------------------
(* The commands *)

\* A full pipe blocks the writer.  There is always a reader, the writer itself
\* if no other, so SIGPIPE is not among the outcomes.
Write(c) ==
    /\ proc[c] = "run"
    /\ todo[c] > 0
    /\ IF c < num_commands
       THEN buf[c] < PipeCap /\ buf' = [buf EXCEPT ![c] = @ + 1]
       ELSE UNCHANGED buf
    /\ todo' = [todo EXCEPT ![c] = @ - 1]
    /\ UNCHANGED <<main, ends, proc, kind>>

Read(c) ==
    /\ proc[c] = "run"
    /\ c > 1
    /\ buf[c - 1] > 0
    /\ buf' = [buf EXCEPT ![c - 1] = @ - 1]
    /\ UNCHANGED <<main, ends, children>>

\* read returns 0 when the pipe is empty and nobody holds its writing end.
EndOfInput(c) == c > 1 => buf[c - 1] = 0 /\ wr[c - 1] = {}

Ends(c) ==
    /\ proc[c] = "run"
    /\ todo[c] = 0
    /\ kind[c] = "some" \/ EndOfInput(c)
    /\ proc' = [proc EXCEPT ![c] = "ended"]
    /\ rd' = Without(c, rd)
    /\ wr' = Without(c, wr)
    /\ UNCHANGED <<main, buf, kind, todo>>

CommandStep(c) == Write(c) \/ Read(c) \/ Ends(c)

-----------------------------------------------------------------------------
Next ==
    \/ ReadLine
    \/ Exit
    \/ MainStep
    \/ \E c \in Commands : CommandStep(c)

\* The shell is scheduled and every command goes on with its work; the user
\* need not type anything.
Fairness ==
    /\ WF_vars(MainStep)
    /\ \A c \in Commands : WF_vars(CommandStep(c))

Spec == Init /\ [][Next]_vars /\ Fairness

-----------------------------------------------------------------------------
(* Properties *)

Over(c) == proc[c] \in {"none", "ended", "reaped"}
Started(c) == pc \in {"wait", "prompt", "exited"} \/ c < i

\* Every variable has the type the code gives it: main never waits more often
\* than there are commands, a pipe never holds more than it can, and a command
\* keeps a reading end of its output, which is why no write fails.
TypeOK ==
    /\ pc \in {"prompt", "pipe", "fork", "close", "wait", "exited"}
    /\ num_commands \in 0..MaxCommands
    /\ i \in 1..num_commands + 1
    /\ lines \in 0..MaxLines
    /\ rd \in [Pipes -> SUBSET (Commands \cup {Shell})]
    /\ wr \in [Pipes -> SUBSET (Commands \cup {Shell})]
    /\ buf \in [Pipes -> 0..PipeCap]
    /\ proc \in [Commands -> {"none", "run", "ended", "reaped"}]
    /\ kind \in [Commands -> {"all", "some"}]
    /\ todo \in [Commands -> 0..MaxOutput]
    /\ \A p \in Pipes : p < num_commands /\ proc[p] = "run" => p \in rd[p]

\* Once main has gone on to the next command, nobody but command p can write
\* into pipe p, whichever ends later children inherit and whichever forks
\* fail: when the writer has ended its reader sees the end of its input.
EndOfInputArrives ==
    \A p \in Pipes : Started(p) => wr[p] \subseteq {p} /\ (Over(p) => wr[p] = {})

\* Between two lines the shell holds no pipe and no command of an earlier line
\* is running or waiting to be reaped, whatever failed in between.
PromptIsClean ==
    pc = "prompt" =>
        /\ \A p \in Pipes : rd[p] = {} /\ wr[p] = {}
        /\ \A c \in Commands : proc[c] \in {"none", "reaped"}

\* No command, nor a failed fork, leaves its input to a writer that still runs.
InputsAreRead ==
    \A c \in 2..num_commands : Started(c) /\ Over(c) => Over(c - 1)

\* Then the shell comes back to the prompt.  Without that condition a writer
\* may block for ever in a pipe that only it can read.
LineEnds ==
    []InputsAreRead => (pc = "wait" ~> pc = "prompt")
=============================================================================
