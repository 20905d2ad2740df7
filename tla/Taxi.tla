-------------------------------- MODULE Taxi --------------------------------
(***************************************************************************)
(* The taxi dispatcher, 22_fork_poll/main.c: a manager that reads commands *)
(* from a terminal and one forked driver process per create_driver, each   *)
(* connected to the manager by a pair of pipes.                            *)
(*                                                                         *)
(* A pipe is the sequence of messages not yet read.  read() returns all of *)
(* it: both sides then look only at the beginning of their buffer, so what *)
(* the driver reads behind the first command is lost.                      *)
(*                                                                         *)
(* Time is relative: left[d] seconds until task_end_time, wait[d] seconds  *)
(* until poll gives up.  Every process may be arbitrarily slow, so the     *)
(* manager's one-second poll may time out on a driver that is alive.       *)
(***************************************************************************)
EXTENDS Integers, Sequences, FiniteSets

CONSTANTS
    MaxDrivers,   \* MAX_DRIVERS
    Timers,       \* the task timers the user types, all positive
    MsPerSec,     \* 1000: poll counts in milliseconds
    IntMod,       \* 2^32: the number of values of an int
    MaxCmds,      \* bound: commands the manager sends
    MaxTimeouts,  \* bound: how often the manager's poll times out
    MaxCrashes    \* bound: how many drivers are killed from outside

ASSUME TaxiAssumption ==
    /\ MaxDrivers \in Nat \ {0}
    /\ Timers \subseteq Nat \ {0}
    /\ MsPerSec \in Nat \ {0}
    /\ IntMod \in Nat \ {0}
    /\ MaxCmds \in Nat
    /\ MaxTimeouts \in Nat
    /\ MaxCrashes \in Nat

Drivers == 1..MaxDrivers
Forever == -1

VARIABLES
    mpc,          \* where the manager is
    cur,          \* the driver the manager deals with
    sweep,        \* is it inside get_drivers?
    driver_count, \* drivers[1..driver_count] exist
    mgrEnds,      \* the drivers whose pipe ends the manager holds
    to,           \* to_driver pipe of each driver
    from,         \* from_driver pipe of each driver
    dpc,          \* where each driver is
    status,       \* driver_process: status
    task_timer,   \* driver_process: task_timer
    left,         \* seconds until task_end_time, 0 when it has passed
    wait,         \* seconds until the driver's poll times out, or Forever
    out,          \* the response the driver is about to write
    cmds,         \* history: commands sent, the last one's number
    gaveUp,       \* history: timeouts of the manager on each driver
    stale,        \* history: answers BUSY since the current task ran out
    crashes       \* history: drivers killed from outside

managerVars == <<mpc, cur, sweep, driver_count, mgrEnds>>
driverVars == <<dpc, status, task_timer, left, wait, out, stale>>
pipes == <<to, from>>
history == <<cmds, gaveUp, crashes>>
vars == <<managerVars, driverVars, pipes, history>>

ManagerPc == {"prompt", "poll", "sweep", "exit_write", "close", "waitpid", "exited", "killed"}
DriverPc == {"none", "top", "poll", "reply", "dead"}
Command == [id : Nat, verb : {"SEND_TASK", "GET_STATUS", "EXIT"}, timer : Nat]
Response == [id : Nat, word : {"OK", "BUSY", "AVAILABLE"}, timer : Nat]
NoResponse == [id |-> 0, word |-> "AVAILABLE", timer |-> 0]

Init ==
    /\ mpc = "prompt"
    /\ cur = 1
    /\ sweep = FALSE
    /\ driver_count = 0
    /\ mgrEnds = {}
    /\ to = [d \in Drivers |-> <<>>]
    /\ from = [d \in Drivers |-> <<>>]
    /\ dpc = [d \in Drivers |-> "none"]
    /\ status = [d \in Drivers |-> "AVAILABLE"]
    /\ task_timer = [d \in Drivers |-> 0]
    /\ left = [d \in Drivers |-> 0]
    /\ wait = [d \in Drivers |-> Forever]
    /\ out = [d \in Drivers |-> NoResponse]
    /\ cmds = 0
    /\ gaveUp = [d \in Drivers |-> 0]
    /\ stale = [d \in Drivers |-> 0]
    /\ crashes = 0

Alive(d) == dpc[d] \in {"top", "poll", "reply"}

\* fork copies the pipe ends the manager holds, and a driver closes only its
\* own: each driver keeps the manager's ends of all earlier drivers open.
OtherEndOpen(d) == d \in mgrEnds \/ \E e \in Drivers : e > d /\ Alive(e)

-----------------------------------------------------------------------------
(* The manager *)

\* A failing pipe or fork closes what it opened and leaves no trace.
create_driver ==
    /\ mpc = "prompt"
    /\ driver_count < MaxDrivers
    /\ driver_count' = driver_count + 1
    /\ mgrEnds' = mgrEnds \cup {driver_count + 1}
    /\ dpc' = [dpc EXCEPT ![driver_count + 1] = "top"]
    /\ UNCHANGED <<mpc, cur, sweep, status, task_timer, left, wait, out, stale, pipes, history>>

\* The write at the start of send_command_to_driver.  Only the driver itself
\* holds the reading end: when it is gone the manager dies of SIGPIPE.
WriteCommand(d, verb, timer) ==
    /\ cmds < MaxCmds
    /\ cmds' = cmds + 1
    /\ cur' = d
    /\ IF Alive(d)
       THEN /\ to' = [to EXCEPT ![d] = Append(@, [id |-> cmds + 1, verb |-> verb, timer |-> timer])]
            /\ mpc' = "poll"
            /\ UNCHANGED mgrEnds
       ELSE /\ mpc' = "killed"
            /\ mgrEnds' = {}
            /\ UNCHANGED to
    /\ UNCHANGED <<driver_count, driverVars, from, gaveUp, crashes>>

\* The drivers created so far; others only get an error message.
find_driver_by_pid(d) == d \in 1..driver_count

send_task(d, timer) ==
    /\ mpc = "prompt"
    /\ find_driver_by_pid(d)
    /\ WriteCommand(d, "SEND_TASK", timer)
    /\ UNCHANGED sweep

get_status(d) ==
    /\ mpc = "prompt"
    /\ find_driver_by_pid(d)
    /\ WriteCommand(d, "GET_STATUS", 0)
    /\ UNCHANGED sweep

get_drivers ==
    /\ mpc = "prompt"
    /\ driver_count > 0
    /\ cmds + driver_count <= MaxCmds
    /\ WriteCommand(1, "GET_STATUS", 0)
    /\ sweep' = TRUE

\* The loop of get_drivers goes on whether or not the last driver answered.
get_drivers_next ==
    /\ mpc = "sweep"
    /\ WriteCommand(cur + 1, "GET_STATUS", 0)
    /\ UNCHANGED sweep

CommandDone ==
    /\ mpc' = IF sweep /\ cur < driver_count THEN "sweep" ELSE "prompt"
    /\ sweep' = (sweep /\ cur < driver_count)
    /\ UNCHANGED <<cur, driver_count, mgrEnds>>

\* Mutant: the manager does not wait for the response before it goes on.
ReadWithoutPoll ==
    /\ mpc = "poll"
    /\ from' = [from EXCEPT ![cur] = <<>>]
    /\ CommandDone
    /\ UNCHANGED <<driverVars, to, history>>

\* poll reports data, or that the writing end is gone and read returns 0.
ReadResponse ==
    /\ mpc = "poll"
    /\ from[cur] # <<>> \/ ~Alive(cur)
    /\ from' = [from EXCEPT ![cur] = <<>>]
    /\ CommandDone
    /\ UNCHANGED <<driverVars, to, history>>

PollTimeout ==
    /\ mpc = "poll"
    /\ from[cur] = <<>>
    /\ Alive(cur)
    /\ gaveUp[cur] < MaxTimeouts
    /\ gaveUp' = [gaveUp EXCEPT ![cur] = @ + 1]
    /\ CommandDone
    /\ UNCHANGED <<driverVars, pipes, cmds, crashes>>

\* "exit" or the end of the input.
ExitCommand ==
    /\ mpc = "prompt"
    /\ mpc' = IF driver_count = 0 THEN "exited" ELSE "exit_write"
    /\ cur' = 1
    /\ UNCHANGED <<sweep, driver_count, mgrEnds, driverVars, pipes, history>>

\* cleanup_driver, one step per call that a driver can notice.
CleanupWrite ==
    /\ mpc = "exit_write"
    /\ IF Alive(cur)
       THEN /\ to' = [to EXCEPT ![cur] = Append(@, [id |-> cmds + 1, verb |-> "EXIT", timer |-> 0])]
            /\ mpc' = "close"
            /\ UNCHANGED mgrEnds
       ELSE /\ mpc' = "killed"
            /\ mgrEnds' = {}
            /\ UNCHANGED to
    /\ UNCHANGED <<cur, sweep, driver_count, driverVars, from, history>>

CleanupClose ==
    /\ mpc = "close"
    /\ mgrEnds' = mgrEnds \ {cur}
    /\ mpc' = "waitpid"
    /\ UNCHANGED <<cur, sweep, driver_count, driverVars, pipes, history>>

\* Mutant: cleanup waits for all drivers although it has told only one to exit.
CleanupWaitAll ==
    /\ mpc = "waitpid"
    /\ \A d \in 1..driver_count : ~Alive(d)
    /\ mpc' = "exited"
    /\ UNCHANGED <<cur, sweep, driver_count, mgrEnds, driverVars, pipes, history>>

CleanupWait ==
    /\ mpc = "waitpid"
    /\ ~Alive(cur)
    /\ mpc' = IF cur < driver_count THEN "exit_write" ELSE "exited"
    /\ cur' = IF cur < driver_count THEN cur + 1 ELSE cur
    /\ UNCHANGED <<sweep, driver_count, mgrEnds, driverVars, pipes, history>>

\* What the user types, and what the manager then does by itself.
UserStep ==
    \/ create_driver
    \/ \E d \in Drivers, timer \in Timers : send_task(d, timer)
    \/ \E d \in Drivers : get_status(d)
    \/ get_drivers
    \/ ExitCommand

ManagerStep ==
    \/ get_drivers_next
    \/ ReadResponse
    \/ CleanupWrite
    \/ CleanupClose
    \/ CleanupWait

-----------------------------------------------------------------------------
(* driver_process *)

\* timeout = (task_end_time - current_time) * 1000, converted to int: seconds
\* until poll gives up.  poll takes any negative timeout for "no timeout".
PollSeconds(seconds) ==
    LET wrapped == (seconds * MsPerSec) % IntMod IN
    IF 2 * wrapped >= IntMod THEN Forever
    ELSE (wrapped + MsPerSec - 1) \div MsPerSec

\* Mutant: the driver forgets to compute the timeout.
DriverTopForever(d) ==
    /\ dpc[d] = "top"
    /\ IF left[d] = 0
       THEN /\ status' = [status EXCEPT ![d] = "AVAILABLE"]
            /\ task_timer' = [task_timer EXCEPT ![d] = 0]
       ELSE UNCHANGED <<status, task_timer>>
    /\ wait' = [wait EXCEPT ![d] = Forever]
    /\ dpc' = [dpc EXCEPT ![d] = "poll"]
    /\ UNCHANGED <<left, out, stale, managerVars, pipes, history>>

\* Mutant: nothing makes the driver available again.
DriverTopKeepsBusy(d) ==
    /\ dpc[d] = "top"
    /\ wait' = [wait EXCEPT ![d] = IF status[d] = "BUSY" THEN PollSeconds(left[d]) ELSE Forever]
    /\ dpc' = [dpc EXCEPT ![d] = "poll"]
    /\ UNCHANGED <<status, task_timer, left, out, stale, managerVars, pipes, history>>

\* The check at the end of the loop and the one at its start, with nothing but
\* time in between.
DriverTop(d) ==
    /\ dpc[d] = "top"
    /\ IF status[d] = "BUSY" /\ left[d] > 0
       THEN /\ wait' = [wait EXCEPT ![d] = PollSeconds(left[d])]
            /\ UNCHANGED <<status, task_timer>>
       ELSE /\ wait' = [wait EXCEPT ![d] = Forever]
            /\ status' = [status EXCEPT ![d] = "AVAILABLE"]
            /\ task_timer' = [task_timer EXCEPT ![d] = 0]
    /\ dpc' = [dpc EXCEPT ![d] = "poll"]
    /\ UNCHANGED <<left, out, stale, managerVars, pipes, history>>

\* timeout is declared in the body of the loop: it ends with the round.
PollDone(d) == wait' = [wait EXCEPT ![d] = Forever]

\* What remains in the pipe once the driver has read: nothing.
Drain(d) == to' = [to EXCEPT ![d] = <<>>]

Respond(d, word, timer) ==
    /\ out' = [out EXCEPT ![d] = [id |-> Head(to[d]).id, word |-> word, timer |-> timer]]
    /\ dpc' = [dpc EXCEPT ![d] = "reply"]

\* Mutant: SEND_TASK is accepted whatever the driver is doing.
StartTaskAnyway(d) ==
    LET timer == Head(to[d]).timer IN
    /\ status' = [status EXCEPT ![d] = "BUSY"]
    /\ task_timer' = [task_timer EXCEPT ![d] = timer]
    /\ left' = [left EXCEPT ![d] = timer]
    /\ stale' = [stale EXCEPT ![d] = 0]
    /\ Respond(d, "OK", 0)

StartTask(d) ==
    LET timer == Head(to[d]).timer IN
    /\ status[d] = "AVAILABLE"
    /\ status' = [status EXCEPT ![d] = "BUSY"]
    /\ task_timer' = [task_timer EXCEPT ![d] = timer]
    /\ left' = [left EXCEPT ![d] = timer]
    /\ stale' = [stale EXCEPT ![d] = 0]
    /\ Respond(d, "OK", 0)

ReportBusy(d) ==
    /\ status[d] = "BUSY"
    /\ stale' = [stale EXCEPT ![d] = IF left[d] = 0 THEN @ + 1 ELSE @]
    /\ Respond(d, "BUSY", task_timer[d])
    /\ UNCHANGED <<status, task_timer, left>>

ReportAvailable(d) ==
    /\ status[d] = "AVAILABLE"
    /\ Respond(d, "AVAILABLE", 0)
    /\ UNCHANGED <<status, task_timer, left, stale>>

\* EXIT leaves the loop: the driver closes its ends and exits.
DriverExit(d) ==
    /\ dpc' = [dpc EXCEPT ![d] = "dead"]
    /\ UNCHANGED <<status, task_timer, left, out, stale>>

\* Mutant: the driver looks at the command without taking it off the pipe.
DriverReadPeeks(d) ==
    /\ dpc[d] = "poll"
    /\ to[d] # <<>>
    /\ UNCHANGED to
    /\ \/ Head(to[d]).verb = "SEND_TASK" /\ (StartTask(d) \/ ReportBusy(d))
       \/ Head(to[d]).verb = "GET_STATUS" /\ (ReportAvailable(d) \/ ReportBusy(d))
       \/ Head(to[d]).verb = "EXIT" /\ DriverExit(d)
    /\ PollDone(d)
    /\ UNCHANGED <<managerVars, from, history>>

\* One read takes everything in the pipe; the comparisons with strncmp see
\* only the first command.
DriverRead(d) ==
    /\ dpc[d] = "poll"
    /\ to[d] # <<>>
    /\ Drain(d)
    /\ \/ Head(to[d]).verb = "SEND_TASK" /\ (StartTask(d) \/ ReportBusy(d))
       \/ Head(to[d]).verb = "GET_STATUS" /\ (ReportAvailable(d) \/ ReportBusy(d))
       \/ Head(to[d]).verb = "EXIT" /\ DriverExit(d)
    /\ PollDone(d)
    /\ UNCHANGED <<managerVars, from, history>>

\* The write of the response kills the driver when nobody can read it.
DriverReply(d) ==
    /\ dpc[d] = "reply"
    /\ out' = [out EXCEPT ![d] = NoResponse]
    /\ IF OtherEndOpen(d)
       THEN /\ from' = [from EXCEPT ![d] = Append(@, out[d])]
            /\ dpc' = [dpc EXCEPT ![d] = "top"]
       ELSE /\ dpc' = [dpc EXCEPT ![d] = "dead"]
            /\ UNCHANGED from
    /\ UNCHANGED <<status, task_timer, left, wait, stale, managerVars, to, history>>

\* poll returns without input: on its timeout, or at once and for ever (no
\* POLLIN, only POLLHUP) when all writing ends of an empty pipe are closed.
DriverWake(d) ==
    /\ dpc[d] = "poll"
    /\ to[d] = <<>>
    /\ wait[d] = 0 \/ ~OtherEndOpen(d)
    /\ PollDone(d)
    /\ dpc' = [dpc EXCEPT ![d] = "top"]
    /\ UNCHANGED <<status, task_timer, left, out, stale, managerVars, pipes, history>>

DriverStep(d) ==
    \/ DriverTop(d)
    \/ DriverRead(d)
    \/ DriverReply(d)
    \/ DriverWake(d)

-----------------------------------------------------------------------------
(* The environment *)

Down(n) == IF n > 0 THEN n - 1 ELSE n

Tick ==
    /\ \E d \in Drivers : left[d] > 0 \/ wait[d] > 0
    /\ left' = [d \in Drivers |-> Down(left[d])]
    /\ wait' = [d \in Drivers |-> Down(wait[d])]
    /\ UNCHANGED <<dpc, status, task_timer, out, stale, managerVars, pipes, history>>

Crash(d) ==
    /\ Alive(d)
    /\ crashes < MaxCrashes
    /\ crashes' = crashes + 1
    /\ dpc' = [dpc EXCEPT ![d] = "dead"]
    /\ UNCHANGED <<status, task_timer, left, wait, out, stale, managerVars, pipes, cmds, gaveUp>>

Next ==
    \/ UserStep
    \/ ManagerStep
    \/ PollTimeout
    \/ \E d \in Drivers : DriverStep(d) \/ Crash(d)
    \/ Tick

\* Time passes and every process is eventually scheduled.  The user need not
\* type anything, nothing has to time out and nobody has to be killed.
Fairness ==
    /\ WF_vars(ManagerStep)
    /\ \A d \in Drivers : WF_vars(DriverStep(d))
    /\ WF_vars(Tick)

SafeSpec == Init /\ [][Next]_vars
Spec == SafeSpec /\ Fairness

-----------------------------------------------------------------------------
(* Properties *)

\* Every variable has the type the code gives it.
TypeOK ==
    /\ mpc \in ManagerPc
    /\ cur \in Drivers
    /\ sweep \in BOOLEAN
    /\ driver_count \in 0..MaxDrivers
    /\ mgrEnds \subseteq 1..driver_count
    /\ to \in [Drivers -> Seq(Command)]
    /\ from \in [Drivers -> Seq(Response)]
    /\ dpc \in [Drivers -> DriverPc]
    /\ \A d \in Drivers : dpc[d] = "none" <=> d > driver_count
    /\ status \in [Drivers -> {"AVAILABLE", "BUSY"}]
    /\ task_timer \in [Drivers -> Nat]
    /\ left \in [Drivers -> Nat]
    /\ wait \in [Drivers -> Nat \cup {Forever}]
    /\ out \in [Drivers -> Response]
    /\ cmds \in 0..MaxCmds
    /\ gaveUp \in [Drivers -> 0..MaxTimeouts]
    /\ stale \in [Drivers -> Nat]
    /\ crashes \in 0..MaxCrashes

Unwritten(d) == IF dpc[d] = "reply" THEN <<out[d]>> ELSE <<>>

\* While the manager has never given up on a driver, a response in that
\* driver's pipe answers the command the manager is waiting for: no answer is
\* taken for the answer to another command.
NoStaleResponse ==
    \A d \in mgrEnds :
        gaveUp[d] = 0 => \A i \in 1..Len(from[d] \o Unwritten(d)) :
            mpc = "poll" /\ cur = d /\ (from[d] \o Unwritten(d))[i].id = cmds

\* Responses come in the order of their commands, each at most once, and no
\* later than the commands the driver has still to read.
InOrder ==
    \A d \in Drivers :
        LET ids == from[d] \o Unwritten(d) \o (IF Alive(d) THEN to[d] ELSE <<>>) IN
        \A i, j \in 1..Len(ids) : i < j => ids[i].id < ids[j].id

\* A driver whose task has run out may still answer BUSY, because it looks at
\* the clock only after handling a command, but it does so at most once.
StaleBusyOnce == \A d \in Drivers : stale[d] <= 1

TaskKept ==
    \A d \in Drivers :
        (Alive(d) /\ status[d] = "BUSY" /\ left[d] > 0)
            => status'[d] = "BUSY" /\ (left'[d] = left[d] \/ Tick)

\* A driver is BUSY at least as long as its task takes, and only time, not a
\* second SEND_TASK, brings the end of a running task nearer.
TaskRunsItsTime == [][TaskKept]_vars

Representable == {t \in Timers : 2 * t * MsPerSec < IntMod}
Punctual == crashes = 0 /\ \A d \in Drivers : gaveUp[d] = 0

\* The driver's poll wakes it up when its task is over, however many commands
\* come in between, if the task's milliseconds fit into an int.
BusyEnds ==
    \A d \in Drivers :
        (status[d] = "BUSY" /\ task_timer[d] \in Representable) ~> (status[d] = "AVAILABLE" \/ ~Alive(d))

Exiting == mpc \in {"exit_write", "close", "waitpid"}

\* "exit" ends the manager, and all its drivers before it, if no driver was
\* ever late or killed.  After a timeout EXIT may be read together with the
\* command given up on; it is lost then, and waitpid never returns.
ExitAfterPunctual ==
    (Exiting /\ Punctual) ~> ((mpc = "exited" /\ \A d \in Drivers : ~Alive(d)) \/ ~Punctual)
=============================================================================
