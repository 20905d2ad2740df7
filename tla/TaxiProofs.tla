----------------------------- MODULE TaxiProofs -----------------------------
(* Proofs about Taxi, for any number of drivers and any bounds.              *)
EXTENDS Taxi, SequenceTheorems, TLAPS

(***************************************************************************)
(* Type correctness.                                                       *)
(***************************************************************************)

\* get_drivers goes on only while there is a driver left to ask, and nothing
\* was ever sent to a driver that does not exist.
TypeInv ==
    /\ TypeOK
    /\ mpc = "sweep" => cur < driver_count
    /\ mpc = "poll" => cur <= driver_count
    /\ \A d \in Drivers : dpc[d] = "none" => to[d] = <<>> /\ from[d] = <<>>

LEMMA PollSecondsType ==
    ASSUME NEW seconds \in Nat
    PROVE  PollSeconds(seconds) \in Nat \cup {Forever}
<1>1. \A a \in Nat, b \in Nat \ {0} : a % b \in Nat /\ a \div b \in Nat
  OBVIOUS
<1>2. (seconds * MsPerSec) % IntMod \in Nat
  BY <1>1, TaxiAssumption
<1> DEFINE wrapped == (seconds * MsPerSec) % IntMod
<1>3. wrapped + MsPerSec - 1 \in Nat
  BY <1>2, TaxiAssumption
<1>4. (wrapped + MsPerSec - 1) \div MsPerSec \in Nat
  <2> HIDE DEF wrapped
  <2> QED BY <1>1, <1>3, TaxiAssumption
<1> QED BY <1>4 DEF PollSeconds

LEMMA HeadCommand ==
    ASSUME NEW s \in Seq(Command), s # <<>>
    PROVE  /\ Head(s) \in Command /\ Head(s) = s[1] /\ 1 \in 1..Len(s) /\ Len(s) \in Nat
           /\ Head(s).id \in Nat /\ Head(s).timer \in Nat
<1>1. Head(s) \in Command /\ Head(s) = s[1] /\ 1 \in 1..Len(s) /\ Len(s) \in Nat
  OBVIOUS
<1> QED BY <1>1 DEF Command

\* What WriteCommand does to the manager, whoever calls it.
LEMMA WriteTyped ==
    ASSUME TypeInv, NEW d \in 1..driver_count,
           NEW verb \in {"SEND_TASK", "GET_STATUS", "EXIT"}, NEW timer \in Nat,
           WriteCommand(d, verb, timer), sweep' \in BOOLEAN
    PROVE  TypeInv'
<1> USE TaxiAssumption DEF Drivers, driverVars, TypeInv
<1>1. [id |-> cmds + 1, verb |-> verb, timer |-> timer] \in Command /\ d \in Drivers
  BY DEF TypeOK, Command
<1>2. cmds' \in 0..MaxCmds /\ cur' \in Drivers /\ mpc' \in {"poll", "killed"}
  BY <1>1 DEF WriteCommand, TypeOK
<1>3. to' \in [Drivers -> Seq(Command)]
  <2>1. to \in [Drivers -> Seq(Command)] /\ to[d] \in Seq(Command)
    BY <1>1 DEF TypeOK
  <2>2. Append(to[d], [id |-> cmds + 1, verb |-> verb, timer |-> timer]) \in Seq(Command)
    BY <1>1, <2>1, AppendProperties
  <2> QED BY <2>1, <2>2 DEF WriteCommand
<1>4. mgrEnds' \subseteq 1..driver_count'
  BY DEF WriteCommand, TypeOK
<1>5. TypeOK'
  BY <1>2, <1>3, <1>4 DEF WriteCommand, TypeOK, ManagerPc
<1>6. \A e \in Drivers : dpc'[e] = "none" => to'[e] = <<>> /\ from'[e] = <<>>
  BY <1>1 DEF WriteCommand, TypeOK, Alive
<1> QED BY <1>2, <1>5, <1>6 DEF WriteCommand

LEMMA TypeInit == Init => TypeInv
<1> SUFFICES ASSUME Init PROVE TypeInv
  OBVIOUS
<1>1. NoResponse \in Response
  BY DEF NoResponse, Response
<1>2. /\ out \in [Drivers -> Response] /\ to \in [Drivers -> Seq(Command)]
      /\ from \in [Drivers -> Seq(Response)] /\ wait \in [Drivers -> Nat \cup {Forever}]
  BY <1>1 DEF Init
<1>3. /\ 1 \in Drivers /\ 0 \in 0..MaxDrivers /\ 0 \in 0..MaxCmds /\ 0 \in 0..MaxTimeouts
      /\ 0 \in 0..MaxCrashes
  BY TaxiAssumption DEF Drivers
<1>4. /\ dpc \in [Drivers -> DriverPc] /\ \A d \in Drivers : dpc[d] = "none" <=> d > driver_count
      /\ status \in [Drivers -> {"AVAILABLE", "BUSY"}] /\ task_timer \in [Drivers -> Nat]
      /\ left \in [Drivers -> Nat] /\ stale \in [Drivers -> Nat]
      /\ gaveUp \in [Drivers -> 0..MaxTimeouts]
  BY <1>3 DEF Init, Drivers, DriverPc
<1>5. TypeOK
  BY <1>2, <1>3, <1>4 DEF Init, TypeOK, ManagerPc
<1> QED BY <1>5 DEF Init, TypeInv

LEMMA TypeNext == TypeInv /\ [Next]_vars => TypeInv'
<1> SUFFICES ASSUME TypeInv, [Next]_vars
             PROVE  TypeInv'
  OBVIOUS
<1> USE TaxiAssumption DEF Drivers, driverVars, managerVars, pipes, history
<1>0. /\ driver_count \in 0..MaxDrivers /\ mgrEnds \subseteq 1..driver_count
      /\ dpc \in [Drivers -> DriverPc] /\ \A d \in Drivers : dpc[d] = "none" <=> d > driver_count
  BY DEF TypeInv, TypeOK
<1>00. /\ status \in [Drivers -> {"AVAILABLE", "BUSY"}] /\ task_timer \in [Drivers -> Nat]
       /\ left \in [Drivers -> Nat] /\ wait \in [Drivers -> Nat \cup {Forever}]
       /\ stale \in [Drivers -> Nat] /\ out \in [Drivers -> Response]
       /\ gaveUp \in [Drivers -> 0..MaxTimeouts]
  BY DEF TypeInv, TypeOK
<1>1. CASE create_driver
  <2>1. driver_count' \in 0..MaxDrivers /\ mgrEnds' \subseteq 1..driver_count'
    BY <1>0, <1>1 DEF create_driver
  <2>2. dpc' \in [Drivers -> DriverPc] /\ \A d \in Drivers : dpc'[d] = "none" <=> d > driver_count'
    BY <1>0, <1>1 DEF create_driver, DriverPc
  <2>3. TypeOK'
    BY <1>1, <2>1, <2>2 DEF create_driver, TypeInv, TypeOK
  <2> QED BY <1>1, <2>2, <2>3 DEF create_driver, TypeInv, TypeOK
<1>2. ASSUME NEW d \in Drivers, NEW timer \in Timers, send_task(d, timer) PROVE TypeInv'
  BY <1>2, WriteTyped DEF send_task, find_driver_by_pid, TypeInv, TypeOK
<1>3. ASSUME NEW d \in Drivers, get_status(d) PROVE TypeInv'
  BY <1>3, WriteTyped DEF get_status, find_driver_by_pid, TypeInv, TypeOK
<1>4. CASE get_drivers
  <2>1. 1 \in 1..driver_count
    BY <1>4 DEF get_drivers, TypeInv, TypeOK
  <2> QED BY <1>4, <2>1, WriteTyped DEF get_drivers
<1>5. CASE get_drivers_next
  <2>1. cur + 1 \in 1..driver_count
    BY <1>5 DEF get_drivers_next, TypeInv, TypeOK
  <2> QED BY <1>5, <2>1, WriteTyped DEF get_drivers_next, TypeInv, TypeOK
<1>6. CASE ReadResponse
  <2>1. from' \in [Drivers -> Seq(Response)] /\ \A d \in Drivers : from[d] = <<>> => from'[d] = <<>>
    BY <1>6 DEF ReadResponse, TypeInv, TypeOK
  <2>2. mpc' \in {"sweep", "prompt"} /\ sweep' \in BOOLEAN /\ (mpc' = "sweep" => cur < driver_count)
    BY <1>6 DEF ReadResponse, CommandDone, TypeInv, TypeOK
  <2>3. TypeOK'
    BY <1>6, <2>1, <2>2 DEF ReadResponse, CommandDone, TypeInv, TypeOK, ManagerPc
  <2> QED BY <1>6, <2>1, <2>2, <2>3 DEF ReadResponse, CommandDone, TypeInv
<1>7. CASE PollTimeout
  <2>1. gaveUp' \in [Drivers -> 0..MaxTimeouts]
    <3>1. cur \in Drivers
      BY DEF TypeInv, TypeOK
    <3>2. gaveUp[cur] \in 0..MaxTimeouts
      BY <1>00, <3>1
    <3>3. gaveUp[cur] < MaxTimeouts
      BY <1>7 DEF PollTimeout
    <3>4. gaveUp[cur] + 1 \in 0..MaxTimeouts
      BY <3>2, <3>3
    <3> QED BY <1>7, <1>00, <3>4 DEF PollTimeout
  <2>2. mpc' \in {"sweep", "prompt"} /\ sweep' \in BOOLEAN /\ (mpc' = "sweep" => cur < driver_count)
    BY <1>7 DEF PollTimeout, CommandDone, TypeInv, TypeOK
  <2>3. TypeOK'
    BY <1>7, <2>1, <2>2 DEF PollTimeout, CommandDone, TypeInv, TypeOK, ManagerPc
  <2> QED BY <1>7, <2>2, <2>3 DEF PollTimeout, CommandDone, TypeInv
<1>8. CASE ExitCommand
  <2>1. cur' \in Drivers /\ mpc' \in {"exited", "exit_write"}
    BY <1>8 DEF ExitCommand
  <2> QED BY <1>8, <2>1 DEF ExitCommand, TypeInv, TypeOK, ManagerPc
<1>9. CASE CleanupWrite
  <2>1. to' \in [Drivers -> Seq(Command)] /\ mpc' \in {"close", "killed"}
    <3>1. [id |-> cmds + 1, verb |-> "EXIT", timer |-> 0] \in Command
      BY DEF TypeInv, TypeOK, Command
    <3>2. to \in [Drivers -> Seq(Command)] /\ to[cur] \in Seq(Command)
      BY DEF TypeInv, TypeOK
    <3>3. Append(to[cur], [id |-> cmds + 1, verb |-> "EXIT", timer |-> 0]) \in Seq(Command)
      BY <3>1, <3>2, AppendProperties
    <3> QED BY <1>9, <3>2, <3>3 DEF CleanupWrite
  <2>2. TypeOK'
    BY <1>9, <2>1 DEF CleanupWrite, TypeInv, TypeOK, ManagerPc
  <2>3. \A e \in Drivers : dpc'[e] = "none" => to'[e] = <<>> /\ from'[e] = <<>>
    BY <1>9 DEF CleanupWrite, TypeInv, TypeOK, Alive
  <2> QED BY <2>1, <2>2, <2>3 DEF TypeInv
<1>10. CASE CleanupClose
  BY <1>10 DEF CleanupClose, TypeInv, TypeOK, ManagerPc
<1>11. CASE CleanupWait
  <2>1. cur' \in Drivers /\ mpc' \in {"exited", "exit_write"}
    BY <1>11 DEF CleanupWait, TypeInv, TypeOK
  <2> QED BY <1>11, <2>1 DEF CleanupWait, TypeInv, TypeOK, ManagerPc
<1>12. ASSUME NEW d \in Drivers, DriverTop(d) PROVE TypeInv'
  <2>1. PollSeconds(left[d]) \in Nat \cup {Forever}
    BY PollSecondsType DEF TypeInv, TypeOK
  <2>2. /\ wait' \in [Drivers -> Nat \cup {Forever}] /\ task_timer' \in [Drivers -> Nat]
        /\ status' \in [Drivers -> {"AVAILABLE", "BUSY"}]
    <3>1. wait' = [wait EXCEPT ![d] = PollSeconds(left[d])] \/ wait' = [wait EXCEPT ![d] = Forever]
      BY <1>12 DEF DriverTop
    <3>2. UNCHANGED task_timer \/ task_timer' = [task_timer EXCEPT ![d] = 0]
      BY <1>12 DEF DriverTop
    <3>3. UNCHANGED status \/ status' = [status EXCEPT ![d] = "AVAILABLE"]
      BY <1>12 DEF DriverTop
    <3>4. wait' \in [Drivers -> Nat \cup {Forever}]
      <4>1. PICK n \in Nat \cup {Forever} : wait' = [wait EXCEPT ![d] = n]
        BY <2>1, <3>1
      <4> QED BY <1>00, <4>1
    <3>5. task_timer' \in [Drivers -> Nat]
      <4>1. PICK n \in Nat : UNCHANGED task_timer \/ task_timer' = [task_timer EXCEPT ![d] = n]
        BY <3>2
      <4> QED BY <1>00, <4>1
    <3>6. status' \in [Drivers -> {"AVAILABLE", "BUSY"}]
      BY <1>00, <3>3
    <3> QED BY <3>4, <3>5, <3>6
  <2>3. /\ dpc[d] = "top" /\ dpc' \in [Drivers -> DriverPc]
        /\ \A e \in Drivers : dpc'[e] = "none" <=> dpc[e] = "none"
    BY <1>12 DEF DriverTop, TypeInv, TypeOK, DriverPc
  <2>4. UNCHANGED <<left, out, stale, managerVars, pipes, history>>
    BY <1>12 DEF DriverTop
  <2> QED BY <2>2, <2>3, <2>4 DEF TypeInv, TypeOK
<1>13. ASSUME NEW d \in Drivers, DriverRead(d) PROVE TypeInv'
  <2>1. Head(to[d]).id \in Nat /\ Head(to[d]).timer \in Nat
    BY <1>13, HeadCommand DEF DriverRead, TypeInv, TypeOK
  <2>2. /\ dpc[d] = "poll" /\ dpc' \in [Drivers -> DriverPc]
        /\ \A e \in Drivers : dpc'[e] = "none" <=> dpc[e] = "none"
    <3>1. dpc' = [dpc EXCEPT ![d] = "reply"] \/ dpc' = [dpc EXCEPT ![d] = "dead"]
      BY <1>13 DEF DriverRead, StartTask, ReportBusy, ReportAvailable, DriverExit, Respond
    <3> QED BY <1>13, <3>1 DEF DriverRead, TypeInv, TypeOK, DriverPc
  <2>3. out' \in [Drivers -> Response]
    <3>1. PICK r \in Response : UNCHANGED out \/ out' = [out EXCEPT ![d] = r]
      <4>1. task_timer[d] \in Nat
        BY DEF TypeInv, TypeOK
      <4>2. \A w \in {"OK", "BUSY", "AVAILABLE"}, n \in Nat :
               [id |-> Head(to[d]).id, word |-> w, timer |-> n] \in Response
        BY <2>1 DEF Response
      <4> QED BY <1>13, <4>1, <4>2
              DEF DriverRead, StartTask, ReportBusy, ReportAvailable, DriverExit, Respond
    <3> QED BY <1>00, <3>1
  <2>4. /\ to' \in [Drivers -> Seq(Command)] /\ wait' \in [Drivers -> Nat \cup {Forever}]
        /\ \A e \in Drivers : to[e] = <<>> => to'[e] = <<>>
    <3>1. to' = [to EXCEPT ![d] = <<>>] /\ wait' = [wait EXCEPT ![d] = Forever]
      BY <1>13 DEF DriverRead, Drain, PollDone
    <3>2. to \in [Drivers -> Seq(Command)]
      BY DEF TypeInv, TypeOK
    <3>3. <<>> \in Seq(Command)
      OBVIOUS
    <3> QED BY <1>00, <3>1, <3>2, <3>3
  <2>6. /\ status' \in [Drivers -> {"AVAILABLE", "BUSY"}]
        /\ task_timer' \in [Drivers -> Nat] /\ left' \in [Drivers -> Nat]
        /\ stale' \in [Drivers -> Nat]
    <3>1. CASE StartTask(d)
      BY <1>00, <2>1, <3>1 DEF StartTask
    <3>2. CASE ReportBusy(d) \/ ReportAvailable(d) \/ DriverExit(d)
      <4>1. stale[d] \in Nat
        BY <1>00
      <4>2. UNCHANGED <<status, task_timer, left>>
            /\ (UNCHANGED stale \/ stale' = [stale EXCEPT ![d] = IF left[d] = 0 THEN @ + 1 ELSE @])
        BY <3>2 DEF ReportBusy, ReportAvailable, DriverExit
      <4>3. stale' \in [Drivers -> Nat]
        <5>1. PICK n \in Nat : UNCHANGED stale \/ stale' = [stale EXCEPT ![d] = n]
          BY <4>1, <4>2
        <5> QED BY <1>00, <5>1
      <4> QED BY <1>00, <4>2, <4>3
    <3> QED BY <1>13, <3>1, <3>2 DEF DriverRead
  <2>5. UNCHANGED <<managerVars, from, history>>
    BY <1>13 DEF DriverRead
  <2> QED BY <2>2, <2>3, <2>4, <2>5, <2>6 DEF TypeInv, TypeOK
<1>14. ASSUME NEW d \in Drivers, DriverReply(d) PROVE TypeInv'
  <2>1. from' \in [Drivers -> Seq(Response)] /\ dpc[d] = "reply"
        /\ \A e \in Drivers : dpc[e] = "none" => from'[e] = from[e]
    <3>1. /\ from \in [Drivers -> Seq(Response)] /\ from[d] \in Seq(Response) /\ out[d] \in Response
          /\ dpc[d] = "reply"
      BY <1>14 DEF DriverReply, TypeInv, TypeOK
    <3>2. Append(from[d], out[d]) \in Seq(Response)
      BY <3>1, AppendProperties
    <3> QED BY <1>14, <3>1, <3>2 DEF DriverReply
  <2>2. dpc' \in [Drivers -> DriverPc] /\ \A e \in Drivers : dpc'[e] = "none" <=> dpc[e] = "none"
    BY <1>14, <2>1 DEF DriverReply, TypeInv, TypeOK, DriverPc
  <2>3. out' \in [Drivers -> Response]
    BY <1>14 DEF DriverReply, TypeInv, TypeOK, Response, NoResponse
  <2> QED BY <1>14, <2>1, <2>2, <2>3 DEF DriverReply, TypeInv, TypeOK
<1>15. ASSUME NEW d \in Drivers, DriverWake(d) PROVE TypeInv'
  BY <1>15 DEF DriverWake, PollDone, TypeInv, TypeOK, DriverPc
<1>16. ASSUME NEW d \in Drivers, Crash(d) PROVE TypeInv'
  <2>1. /\ dpc' \in [Drivers -> DriverPc] /\ crashes' \in 0..MaxCrashes
        /\ \A e \in Drivers : dpc'[e] = "none" <=> dpc[e] = "none"
    <3>1. crashes \in 0..MaxCrashes
      BY DEF TypeInv, TypeOK
    <3> QED BY <1>0, <1>16, <3>1 DEF Crash, Alive, DriverPc
  <2> QED BY <1>16, <2>1 DEF Crash, TypeInv, TypeOK
<1>17. CASE Tick
  <2>1. left' \in [Drivers -> Nat] /\ wait' \in [Drivers -> Nat \cup {Forever}]
    <3>1. \A n \in Nat : Down(n) \in Nat
      BY DEF Down
    <3>2. \A n \in Nat \cup {Forever} : Down(n) \in Nat \cup {Forever}
      BY DEF Down, Forever
    <3>3. left' = [d \in Drivers |-> Down(left[d])] /\ wait' = [d \in Drivers |-> Down(wait[d])]
      BY <1>17 DEF Tick
    <3> QED BY <1>00, <3>1, <3>2, <3>3
  <2> QED BY <1>17, <2>1 DEF Tick, TypeInv, TypeOK
<1>18. CASE UNCHANGED vars
  BY <1>18 DEF vars, TypeInv, TypeOK
<1> QED
  BY <1>1, <1>2, <1>3, <1>4, <1>5, <1>6, <1>7, <1>8, <1>9, <1>10, <1>11, <1>12,
     <1>13, <1>14, <1>15, <1>16, <1>17, <1>18
     DEF Next, UserStep, ManagerStep, DriverStep

\* Every reachable state of the manager and its drivers is well typed; in
\* particular a driver exists exactly if its index is at most driver_count.
THEOREM TaxiTyped == SafeSpec => []TypeOK
<1>1. TypeInv => TypeOK
  BY DEF TypeInv
<1> QED BY <1>1, TypeInit, TypeNext, PTL DEF SafeSpec
(***************************************************************************)
(* Late answers BUSY, and the time a task takes.                           *)
(***************************************************************************)

\* A driver that polls as BUSY has looked at the clock since its last answer.
StaleInv ==
    \A d \in Drivers :
        /\ stale[d] <= 1
        /\ status[d] = "BUSY" /\ (dpc[d] = "poll" \/ left[d] > 0) => stale[d] = 0

\* What one driver's step leaves alone of the others.
LEMMA DriversApart ==
    ASSUME TypeOK, NEW d \in Drivers, DriverStep(d)
    PROVE  \A e \in Drivers \ {d} : /\ dpc'[e] = dpc[e] /\ status'[e] = status[e]
                                    /\ left'[e] = left[e] /\ stale'[e] = stale[e]
                                    /\ to'[e] = to[e] /\ from'[e] = from[e] /\ out'[e] = out[e]
<1> USE DEF driverVars, managerVars, pipes, history
<1>0. /\ dpc \in [Drivers -> DriverPc] /\ status \in [Drivers -> {"AVAILABLE", "BUSY"}]
      /\ left \in [Drivers -> Nat] /\ stale \in [Drivers -> Nat] /\ out \in [Drivers -> Response]
      /\ to \in [Drivers -> Seq(Command)] /\ from \in [Drivers -> Seq(Response)]
  BY DEF TypeOK
<1>1. CASE DriverTop(d)
  BY <1>0, <1>1 DEF DriverTop
<1>2. CASE DriverRead(d)
  BY <1>0, <1>2 DEF DriverRead, Drain, StartTask, ReportBusy, ReportAvailable, DriverExit, Respond
<1>3. CASE DriverReply(d)
  BY <1>0, <1>3 DEF DriverReply
<1>4. CASE DriverWake(d)
  BY <1>0, <1>4 DEF DriverWake
<1> QED BY <1>1, <1>2, <1>3, <1>4 DEF DriverStep

\* The manager's own steps touch no driver, except that create_driver starts one.
LEMMA ManagerQuiet ==
    ASSUME (UserStep /\ ~create_driver) \/ ManagerStep \/ PollTimeout
    PROVE  UNCHANGED driverVars
  BY DEF UserStep, ManagerStep, PollTimeout, send_task, get_status, get_drivers, get_drivers_next,
         WriteCommand, ExitCommand, ReadResponse, CleanupWrite, CleanupClose, CleanupWait

LEMMA StaleNext == TypeInv /\ StaleInv /\ [Next]_vars => StaleInv'
<1> SUFFICES ASSUME TypeInv, StaleInv, [Next]_vars
             PROVE  StaleInv'
  OBVIOUS
<1> USE DEF driverVars, managerVars, pipes, history
<1>0. /\ dpc \in [Drivers -> DriverPc] /\ status \in [Drivers -> {"AVAILABLE", "BUSY"}]
      /\ left \in [Drivers -> Nat] /\ stale \in [Drivers -> Nat] /\ driver_count \in Nat
  BY DEF TypeInv, TypeOK
<1>1. CASE UNCHANGED driverVars
  BY <1>1 DEF StaleInv
<1>2. CASE create_driver
  <2>1. UNCHANGED <<status, left, stale>> /\ \A d \in Drivers : dpc'[d] = "poll" => dpc[d] = "poll"
    BY <1>0, <1>2 DEF create_driver
  <2> QED BY <2>1 DEF StaleInv
<1>3. ASSUME NEW d \in Drivers, DriverStep(d) PROVE StaleInv'
  <2>1. \A e \in Drivers \ {d} : /\ dpc'[e] = dpc[e] /\ status'[e] = status[e]
                                 /\ left'[e] = left[e] /\ stale'[e] = stale[e]
    BY <1>3, DriversApart DEF TypeInv
  <2>2. /\ stale'[d] <= 1
        /\ status'[d] = "BUSY" /\ (dpc'[d] = "poll" \/ left'[d] > 0) => stale'[d] = 0
    <3>0. /\ stale[d] <= 1 /\ stale[d] \in Nat /\ left[d] \in Nat
          /\ status[d] = "BUSY" /\ (dpc[d] = "poll" \/ left[d] > 0) => stale[d] = 0
      BY <1>0 DEF StaleInv
    <3>1. CASE DriverTop(d)
      BY <1>0, <3>0, <3>1 DEF DriverTop
    <3>2. CASE DriverRead(d)
      <4>1. CASE StartTask(d)
        BY <1>0, <4>1 DEF StartTask
      <4>2. CASE ReportBusy(d)
        <5>1. stale[d] = 0 /\ status[d] = "BUSY"
          BY <3>0, <3>2, <4>2 DEF DriverRead, ReportBusy
        <5>2. /\ stale'[d] = IF left[d] = 0 THEN 1 ELSE 0
              /\ dpc'[d] = "reply" /\ UNCHANGED <<status, left>>
          BY <1>0, <4>2, <5>1 DEF ReportBusy, Respond
        <5> QED BY <3>0, <5>2
      <4>3. CASE ReportAvailable(d)
        BY <3>0, <4>3 DEF ReportAvailable
      <4>4. CASE DriverExit(d)
        BY <1>0, <3>0, <4>4 DEF DriverExit
      <4> QED BY <3>2, <4>1, <4>2, <4>3, <4>4 DEF DriverRead
    <3>3. CASE DriverReply(d)
      BY <1>0, <3>0, <3>3 DEF DriverReply
    <3>4. CASE DriverWake(d)
      BY <1>0, <3>0, <3>4 DEF DriverWake
    <3> QED BY <1>3, <3>1, <3>2, <3>3, <3>4 DEF DriverStep
  <2> QED BY <2>1, <2>2 DEF StaleInv
<1>4. ASSUME NEW d \in Drivers, Crash(d) PROVE StaleInv'
  <2>1. UNCHANGED <<status, left, stale>> /\ \A e \in Drivers : dpc'[e] = "poll" => dpc[e] = "poll"
    BY <1>0, <1>4 DEF Crash
  <2> QED BY <2>1 DEF StaleInv
<1>5. CASE Tick
  <2>1. UNCHANGED <<status, dpc, stale>> /\ \A e \in Drivers : left'[e] > 0 => left[e] > 0
    BY <1>0, <1>5 DEF Tick, Down
  <2> QED BY <2>1 DEF StaleInv
<1> QED BY <1>1, <1>2, <1>3, <1>4, <1>5, ManagerQuiet DEF Next, UserStep, vars

\* However commands, ticks and wake-ups interleave, a driver whose task has run
\* out answers BUSY to at most one more command.
THEOREM BusyOnce == SafeSpec => []StaleBusyOnce
<1>1. Init => StaleInv
  BY DEF Init, StaleInv
<1>2. StaleInv => StaleBusyOnce
  BY DEF StaleInv, StaleBusyOnce
<1> QED BY <1>1, <1>2, TypeInit, TypeNext, StaleNext, PTL DEF SafeSpec

\* Whatever commands arrive, nothing but time brings the end of a running task
\* nearer, and the driver stays BUSY until then.
THEOREM TaskTakesItsTime == SafeSpec => TaskRunsItsTime
<1>1. TypeInv /\ [Next]_vars => TaskKept
  <2> SUFFICES ASSUME TypeInv, [Next]_vars, NEW d \in Drivers, Alive(d), status[d] = "BUSY", left[d] > 0
               PROVE  status'[d] = "BUSY" /\ (left'[d] = left[d] \/ Tick)
    BY DEF TaskKept
  <2>0. status \in [Drivers -> {"AVAILABLE", "BUSY"}] /\ left \in [Drivers -> Nat]
    BY DEF TypeInv, TypeOK
  <2>1. CASE UNCHANGED <<status, left>>
    BY <2>1
  <2>2. ASSUME NEW e \in Drivers, DriverStep(e) PROVE left'[d] = left[d] /\ status'[d] = status[d]
    <3>1. CASE e # d
      BY <2>2, <3>1, DriversApart DEF TypeInv
    <3>2. CASE e = d
      BY <2>0, <2>2, <3>2 DEF DriverStep, DriverTop, DriverRead, StartTask, ReportBusy,
                              ReportAvailable, DriverExit, DriverReply, DriverWake
    <3> QED BY <3>1, <3>2
  <2>3. CASE Tick
    BY <2>0, <2>3 DEF Tick, Down
  <2>4. create_driver \/ (\E e \in Drivers : Crash(e)) \/ UNCHANGED driverVars => UNCHANGED <<status, left>>
    BY DEF create_driver, Crash, driverVars
  <2> QED BY <2>1, <2>2, <2>3, <2>4, ManagerQuiet DEF Next, UserStep, vars
<1> QED BY <1>1, TypeInit, TypeNext, PTL DEF SafeSpec, TaskRunsItsTime
(***************************************************************************)
(* No stale responses.                                                     *)
(***************************************************************************)
Awaited(d, message) == mpc = "poll" /\ cur = d /\ message.id = cmds

\* Of a driver the manager has never given up on, at most one command is
\* outstanding, and it is on its way there, in the driver, or on its way back.
FreshInv ==
    \A d \in mgrEnds :
        gaveUp[d] = 0 =>
            /\ \A i \in 1..Len(from[d]) : Awaited(d, from[d][i])
            /\ dpc[d] = "reply" => Awaited(d, out[d]) /\ to[d] = <<>>
            /\ Alive(d) => \A i \in 1..Len(to[d]) : to[d][i].verb # "EXIT" => Awaited(d, to[d][i])
            /\ Alive(d) /\ from[d] # <<>> => dpc[d] # "reply" /\ to[d] = <<>>

\* While the manager does not wait, nothing is outstanding.
LEMMA NothingOutstanding ==
    ASSUME TypeInv, FreshInv, NEW d \in mgrEnds, gaveUp[d] = 0, mpc # "poll" \/ cur # d
    PROVE  /\ from[d] = <<>> /\ dpc[d] # "reply"
           /\ Alive(d) => \A i \in 1..Len(to[d]) : to[d][i].verb = "EXIT"
<1>1. d \in Drivers /\ from[d] \in Seq(Response)
  BY TaxiAssumption DEF TypeInv, TypeOK, Drivers
<1>2. Len(from[d]) = 0
  <2>1. \A i \in 1..Len(from[d]) : FALSE
    BY DEF FreshInv, Awaited
  <2>2. Len(from[d]) \in Nat /\ (Len(from[d]) # 0 => 1 \in 1..Len(from[d]))
    BY <1>1
  <2> QED BY <2>1, <2>2
<1>3. from[d] = <<>>
  BY <1>1, <1>2
<1> QED BY <1>3 DEF FreshInv, Awaited

LEMMA WriteFresh ==
    ASSUME TypeInv, FreshInv, NEW d \in 1..driver_count,
           NEW verb \in {"SEND_TASK", "GET_STATUS"}, NEW timer \in Nat,
           WriteCommand(d, verb, timer), mpc # "poll"
    PROVE  FreshInv'
<1> USE DEF driverVars
<1>0. d \in Drivers /\ to \in [Drivers -> Seq(Command)] /\ mgrEnds \subseteq Drivers /\ cmds \in Nat
  BY TaxiAssumption DEF TypeInv, TypeOK, Drivers
<1>1. CASE ~Alive(d)
  BY <1>1 DEF WriteCommand, FreshInv
<1>2. CASE Alive(d)
  <2> DEFINE new == [id |-> cmds + 1, verb |-> verb, timer |-> timer]
  <2>1. /\ mpc' = "poll" /\ cur' = d /\ cmds' = cmds + 1 /\ UNCHANGED <<mgrEnds, dpc, from, out, gaveUp>>
        /\ to'[d] = Append(to[d], new) /\ \A e \in Drivers \ {d} : to'[e] = to[e]
    BY <1>0, <1>2 DEF WriteCommand
  <2>2. /\ Len(to'[d]) = Len(to[d]) + 1 /\ to'[d][Len(to[d]) + 1] = new /\ Len(to[d]) \in Nat
        /\ \A i \in 1..Len(to[d]) : to'[d][i] = to[d][i]
    <3>1. new \in Command /\ to[d] \in Seq(Command)
      BY <1>0 DEF Command
    <3> QED BY <2>1, <3>1, AppendProperties
  <2>3. SUFFICES ASSUME NEW e \in mgrEnds, gaveUp[e] = 0
                 PROVE  /\ from[e] = <<>> /\ dpc[e] # "reply"
                        /\ Alive(e) => \A i \in 1..Len(to'[e]) :
                              to'[e][i].verb # "EXIT" => e = d /\ to'[e][i].id = cmds + 1
    BY <2>1 DEF FreshInv, Awaited, Alive
  <2>4. /\ from[e] = <<>> /\ dpc[e] # "reply"
        /\ Alive(e) => \A i \in 1..Len(to[e]) : to[e][i].verb = "EXIT"
    BY <2>3, NothingOutstanding
  <2>5. CASE e # d
    BY <1>0, <2>1, <2>3, <2>4, <2>5
  <2>6. CASE e = d
    <3>1. \A i \in 1..Len(to'[d]) : i \in 1..Len(to[d]) \/ i = Len(to[d]) + 1
      BY <2>2
    <3> QED BY <2>2, <2>4, <2>6, <3>1
  <2> QED BY <2>4, <2>5, <2>6
<1> QED BY <1>1, <1>2

LEMMA FreshNext == TypeInv /\ FreshInv /\ [Next]_vars => FreshInv'
<1> SUFFICES ASSUME TypeInv, FreshInv, [Next]_vars
             PROVE  FreshInv'
  OBVIOUS
<1> USE DEF driverVars, managerVars, pipes, history
<1>0. /\ mgrEnds \subseteq Drivers /\ driver_count \in Nat /\ cur \in Drivers
      /\ dpc \in [Drivers -> DriverPc] /\ out \in [Drivers -> Response]
      /\ to \in [Drivers -> Seq(Command)] /\ from \in [Drivers -> Seq(Response)]
      /\ gaveUp \in [Drivers -> 0..MaxTimeouts]
  BY TaxiAssumption DEF TypeInv, TypeOK, Drivers
<1>1. CASE create_driver
  <2>1. /\ driver_count + 1 \in Drivers /\ dpc[driver_count + 1] = "none"
        /\ \A d \in mgrEnds : d # driver_count + 1
    <3>1. /\ driver_count \in 0..MaxDrivers /\ mgrEnds \subseteq 1..driver_count /\ MaxDrivers \in Nat
          /\ \A d \in 1..MaxDrivers : dpc[d] = "none" <=> d > driver_count
      BY TaxiAssumption DEF TypeInv, TypeOK, Drivers
    <3>2. driver_count + 1 \in 1..MaxDrivers /\ driver_count + 1 > driver_count
          /\ \A d \in 1..driver_count : d # driver_count + 1
      BY <1>1, <3>1 DEF create_driver
    <3> QED BY <3>1, <3>2 DEF Drivers
  <2>2. to[driver_count + 1] = <<>> /\ from[driver_count + 1] = <<>>
    BY <2>1 DEF TypeInv
  <2>3. /\ UNCHANGED <<mpc, cur, to, from, out, cmds, gaveUp>>
        /\ mgrEnds' = mgrEnds \cup {driver_count + 1}
        /\ dpc'[driver_count + 1] = "top" /\ \A d \in mgrEnds : dpc'[d] = dpc[d]
    BY <1>0, <1>1, <2>1 DEF create_driver
  <2> QED BY <2>2, <2>3 DEF FreshInv, Awaited, Alive
<1>2. ASSUME NEW d \in Drivers, NEW timer \in Timers, send_task(d, timer) PROVE FreshInv'
  BY <1>2, WriteFresh, TaxiAssumption DEF send_task, find_driver_by_pid
<1>3. ASSUME NEW d \in Drivers, get_status(d) PROVE FreshInv'
  BY <1>3, WriteFresh DEF get_status, find_driver_by_pid
<1>4. CASE get_drivers
  <2>1. 1 \in 1..driver_count
    BY <1>0, <1>4 DEF get_drivers
  <2> QED BY <1>4, <2>1, WriteFresh DEF get_drivers
<1>5. CASE get_drivers_next
  <2>1. cur + 1 \in 1..driver_count
    BY <1>5, TaxiAssumption DEF get_drivers_next, TypeInv, TypeOK, Drivers
  <2> QED BY <1>5, <2>1, WriteFresh DEF get_drivers_next
<1>6. CASE ReadResponse
  <2>1. /\ mpc = "poll" /\ mpc' # "poll" /\ (from[cur] # <<>> \/ ~Alive(cur))
        /\ from'[cur] = <<>> /\ \A d \in Drivers \ {cur} : from'[d] = from[d]
        /\ UNCHANGED <<cur, mgrEnds, dpc, to, out, gaveUp>>
    BY <1>0, <1>6 DEF ReadResponse, CommandDone
  <2>2. SUFFICES ASSUME NEW d \in mgrEnds, gaveUp[d] = 0
                 PROVE  /\ from'[d] = <<>> /\ dpc[d] # "reply"
                        /\ Alive(d) => \A i \in 1..Len(to[d]) : to[d][i].verb = "EXIT"
    BY <2>1 DEF FreshInv, Awaited, Alive
  <2>3. CASE d # cur
    BY <1>0, <2>1, <2>2, <2>3, NothingOutstanding
  <2>4. CASE d = cur
    <3>1. Len(<<>>) = 0 /\ (dpc[d] = "reply" => Alive(d))
      BY DEF Alive
    <3> QED BY <2>1, <2>2, <2>4, <3>1 DEF FreshInv
  <2> QED BY <2>3, <2>4
<1>7. CASE PollTimeout
  <2>1. /\ mpc = "poll" /\ gaveUp'[cur] # 0 /\ \A d \in Drivers \ {cur} : gaveUp'[d] = gaveUp[d]
        /\ UNCHANGED <<cur, mgrEnds, dpc, to, from, out>>
    BY <1>0, <1>7 DEF PollTimeout, CommandDone
  <2> QED BY <1>0, <2>1, NothingOutstanding DEF FreshInv, Awaited, Alive
<1>8. CASE ExitCommand \/ CleanupClose \/ CleanupWait
  <2>1. /\ mpc # "poll" /\ mgrEnds' \subseteq mgrEnds /\ UNCHANGED <<dpc, to, from, out, gaveUp>>
    BY <1>8 DEF ExitCommand, CleanupClose, CleanupWait
  <2> QED BY <2>1, NothingOutstanding DEF FreshInv, Awaited, Alive
<1>9. CASE CleanupWrite
  <2>1. CASE ~Alive(cur)
    BY <1>9, <2>1 DEF CleanupWrite, FreshInv
  <2>2. CASE Alive(cur)
    <3> DEFINE new == [id |-> cmds + 1, verb |-> "EXIT", timer |-> 0]
    <3>1. /\ mpc = "exit_write" /\ mpc' = "close" /\ UNCHANGED <<cur, mgrEnds, dpc, from, out, gaveUp>>
          /\ to'[cur] = Append(to[cur], new) /\ \A d \in Drivers \ {cur} : to'[d] = to[d]
      BY <1>0, <1>9, <2>2 DEF CleanupWrite
    <3>2. /\ Len(to'[cur]) = Len(to[cur]) + 1 /\ to'[cur][Len(to[cur]) + 1] = new /\ Len(to[cur]) \in Nat
          /\ \A i \in 1..Len(to[cur]) : to'[cur][i] = to[cur][i]
      <4>1. new \in Command /\ to[cur] \in Seq(Command)
        BY <1>0 DEF Command, TypeInv, TypeOK
      <4> QED BY <3>1, <4>1, AppendProperties
    <3>3. \A i \in 1..Len(to'[cur]) : i \in 1..Len(to[cur]) \/ i = Len(to[cur]) + 1
      BY <3>2
    <3>4. ASSUME NEW d \in mgrEnds, gaveUp[d] = 0
          PROVE  /\ from[d] = <<>> /\ dpc[d] # "reply"
                 /\ Alive(d) => \A i \in 1..Len(to'[d]) : to'[d][i].verb = "EXIT"
      <4>1. /\ from[d] = <<>> /\ dpc[d] # "reply"
            /\ Alive(d) => \A i \in 1..Len(to[d]) : to[d][i].verb = "EXIT"
        BY <3>1, <3>4, NothingOutstanding
      <4>2. d # cur => to'[d] = to[d]
        BY <1>0, <3>1
      <4>3. \A i \in 1..Len(to'[cur]) : \/ i \in 1..Len(to[cur]) /\ to'[cur][i] = to[cur][i]
                                       \/ to'[cur][i].verb = "EXIT"
        BY <3>2, <3>3
      <4> QED BY <4>1, <4>2, <4>3
    <3> QED BY <3>1, <3>4 DEF FreshInv, Alive
  <2> QED BY <2>1, <2>2
<1>10. ASSUME NEW d \in Drivers, DriverStep(d) PROVE FreshInv'
  <2>1. /\ \A e \in Drivers \ {d} : /\ dpc'[e] = dpc[e] /\ to'[e] = to[e]
                                    /\ from'[e] = from[e] /\ out'[e] = out[e]
        /\ UNCHANGED <<managerVars, history>>
    BY <1>10, DriversApart DEF TypeInv, DriverStep, DriverTop, DriverRead, DriverReply, DriverWake
  <2>2. SUFFICES ASSUME d \in mgrEnds, gaveUp[d] = 0
                 PROVE  /\ \A i \in 1..Len(from'[d]) : Awaited(d, from'[d][i])
                        /\ dpc'[d] = "reply" => Awaited(d, out'[d]) /\ to'[d] = <<>>
                        /\ Alive(d)' => \A i \in 1..Len(to'[d]) :
                              to'[d][i].verb # "EXIT" => Awaited(d, to'[d][i])
                        /\ Alive(d)' /\ from'[d] # <<>> => dpc'[d] # "reply" /\ to'[d] = <<>>
    <3>1. ASSUME NEW e \in mgrEnds, gaveUp[e] = 0, e # d
          PROVE  /\ \A i \in 1..Len(from'[e]) : Awaited(e, from'[e][i])
                 /\ dpc'[e] = "reply" => Awaited(e, out'[e]) /\ to'[e] = <<>>
                 /\ Alive(e)' => \A i \in 1..Len(to'[e]) :
                       to'[e][i].verb # "EXIT" => Awaited(e, to'[e][i])
                 /\ Alive(e)' /\ from'[e] # <<>> => dpc'[e] # "reply" /\ to'[e] = <<>>
      <4>1. /\ \A i \in 1..Len(from[e]) : Awaited(e, from[e][i])
            /\ dpc[e] = "reply" => Awaited(e, out[e]) /\ to[e] = <<>>
            /\ Alive(e) => \A i \in 1..Len(to[e]) :
                  to[e][i].verb # "EXIT" => Awaited(e, to[e][i])
            /\ Alive(e) /\ from[e] # <<>> => dpc[e] # "reply" /\ to[e] = <<>>
        BY <3>1 DEF FreshInv
      <4>2. dpc'[e] = dpc[e] /\ to'[e] = to[e] /\ from'[e] = from[e] /\ out'[e] = out[e]
        BY <1>0, <2>1, <3>1
      <4>3. Alive(e)' <=> Alive(e)
        BY <4>2 DEF Alive
      <4> QED BY <4>1, <4>2, <4>3
    <3>2. UNCHANGED <<mpc, cur, cmds, mgrEnds, gaveUp>>
      BY <2>1
    <3> QED BY <2>2, <3>1, <3>2 DEF FreshInv, Awaited
  <2>3. /\ \A i \in 1..Len(from[d]) : Awaited(d, from[d][i])
        /\ dpc[d] = "reply" => Awaited(d, out[d]) /\ to[d] = <<>>
        /\ Alive(d) => \A i \in 1..Len(to[d]) : to[d][i].verb # "EXIT" => Awaited(d, to[d][i])
        /\ Alive(d) /\ from[d] # <<>> => dpc[d] # "reply" /\ to[d] = <<>>
    BY <2>2 DEF FreshInv
  <2>4. CASE DriverTop(d) \/ DriverWake(d)
    <3>1. UNCHANGED <<to, from, out>> /\ dpc'[d] # "reply" /\ Alive(d)
      BY <1>0, <2>4 DEF DriverTop, DriverWake, Alive
    <3> QED BY <2>3, <3>1
  <2>5. CASE DriverRead(d)
    <3>1. /\ dpc[d] = "poll" /\ Alive(d) /\ to[d] # <<>> /\ to'[d] = <<>> /\ UNCHANGED from
          /\ to[d] \in Seq(Command)
      BY <1>0, <2>5 DEF DriverRead, Drain, Alive
    <3>2. from[d] = <<>> /\ Len(from[d]) = 0 /\ Len(to'[d]) = 0
      BY <2>3, <3>1
    <3>3. Head(to[d]) = to[d][1] /\ 1 \in 1..Len(to[d])
      BY <3>1, HeadCommand
    <3>4. dpc'[d] = "reply" => Head(to[d]).verb # "EXIT" /\ out'[d].id = Head(to[d]).id
      BY <1>0, <2>5 DEF DriverRead, StartTask, ReportBusy, ReportAvailable, DriverExit, Respond
    <3>5. dpc'[d] = "reply" => Awaited(d, out'[d])
      BY <2>3, <3>1, <3>3, <3>4 DEF Awaited
    <3> QED BY <3>1, <3>2, <3>5
  <2>6. CASE DriverReply(d)
    <3>1. /\ dpc[d] = "reply" /\ dpc'[d] \in {"top", "dead"} /\ UNCHANGED to
          /\ from'[d] = from[d] \/ from'[d] = Append(from[d], out[d])
          /\ from[d] \in Seq(Response) /\ out[d] \in Response
      BY <1>0, <2>6 DEF DriverReply
    <3>2. to[d] = <<>> /\ Len(to[d]) = 0 /\ Awaited(d, out[d])
      BY <2>3, <3>1
    <3>3. \A i \in 1..Len(from'[d]) : Awaited(d, from'[d][i])
      <4>1. CASE from'[d] = from[d]
        BY <2>3, <4>1
      <4>2. CASE from'[d] = Append(from[d], out[d])
        <5>1. /\ Len(from'[d]) = Len(from[d]) + 1 /\ from'[d][Len(from[d]) + 1] = out[d]
              /\ Len(from[d]) \in Nat
              /\ \A i \in 1..Len(from[d]) : from'[d][i] = from[d][i]
          BY <3>1, <4>2, AppendProperties
        <5>2. \A i \in 1..Len(from'[d]) : i \in 1..Len(from[d]) \/ i = Len(from[d]) + 1
          BY <5>1
        <5> QED BY <2>3, <3>2, <5>1, <5>2
      <4> QED BY <3>1, <4>1, <4>2
    <3> QED BY <3>1, <3>2, <3>3
  <2> QED BY <1>10, <2>4, <2>5, <2>6 DEF DriverStep
<1>11. ASSUME NEW d \in Drivers, Crash(d) PROVE FreshInv'
  <2>1. /\ UNCHANGED <<mpc, cur, mgrEnds, to, from, out, cmds, gaveUp>>
        /\ \A e \in Drivers : dpc'[e] = dpc[e] \/ dpc'[e] = "dead"
    BY <1>0, <1>11 DEF Crash
  <2> QED BY <1>0, <2>1 DEF FreshInv, Awaited, Alive
<1>12. CASE Tick \/ UNCHANGED vars
  BY <1>12 DEF Tick, vars, FreshInv, Awaited, Alive
<1> QED
  BY <1>1, <1>2, <1>3, <1>4, <1>5, <1>6, <1>7, <1>8, <1>9, <1>10, <1>11, <1>12
     DEF Next, UserStep, ManagerStep

\* As long as the manager has never given up on a driver, what that driver
\* sends answers the command the manager is waiting for at that moment.
THEOREM ResponsesAreFresh == SafeSpec => []NoStaleResponse
<1>1. Init => FreshInv
  BY DEF Init, FreshInv
<1>2. TypeInv /\ FreshInv => NoStaleResponse
  <2> SUFFICES ASSUME TypeInv, FreshInv, NEW d \in mgrEnds, gaveUp[d] = 0,
                      NEW i \in 1..Len(from[d] \o Unwritten(d))
               PROVE  Awaited(d, (from[d] \o Unwritten(d))[i])
    BY DEF NoStaleResponse, Awaited
  <2>1. from[d] \in Seq(Response) /\ out[d] \in Response /\ Unwritten(d) \in Seq(Response)
    BY TaxiAssumption DEF TypeInv, TypeOK, Drivers, Unwritten
  <2>2. CASE dpc[d] = "reply"
    <3>1. from[d] \o Unwritten(d) = Append(from[d], out[d])
      BY <2>1, <2>2 DEF Unwritten
    <3>2. /\ Len(Append(from[d], out[d])) = Len(from[d]) + 1 /\ Len(from[d]) \in Nat
          /\ Append(from[d], out[d])[Len(from[d]) + 1] = out[d]
          /\ \A j \in 1..Len(from[d]) : Append(from[d], out[d])[j] = from[d][j]
      BY <2>1, AppendProperties
    <3>3. i \in 1..Len(from[d]) \/ i = Len(from[d]) + 1
      BY <3>1, <3>2
    <3> QED BY <2>2, <3>1, <3>2, <3>3 DEF FreshInv
  <2>3. CASE dpc[d] # "reply"
    <3>1. from[d] \o Unwritten(d) = from[d]
      BY <2>1, <2>3 DEF Unwritten
    <3> QED BY <3>1 DEF FreshInv
  <2> QED BY <2>2, <2>3
<1> QED BY <1>1, <1>2, TypeInit, TypeNext, FreshNext, PTL DEF SafeSpec
(***************************************************************************)
(* Responses and commands are in order.                                    *)
(***************************************************************************)
Message == Command \cup Response
Increasing(s) == \A i, j \in 1..Len(s) : i < j => s[i].id < s[j].id
Below(s, t) == \A i \in 1..Len(s), j \in 1..Len(t) : s[i].id < t[j].id
UpTo(s, n) == \A i \in 1..Len(s) : s[i].id <= n

LEMMA IncreasingConcat ==
    ASSUME NEW s \in Seq(Message), NEW t \in Seq(Message), Increasing(s), Increasing(t), Below(s, t)
    PROVE  s \o t \in Seq(Message) /\ Increasing(s \o t)
<1>1. /\ s \o t \in Seq(Message) /\ Len(s \o t) = Len(s) + Len(t) /\ Len(s) \in Nat /\ Len(t) \in Nat
      /\ \A i \in 1..Len(s) : (s \o t)[i] = s[i]
      /\ \A i \in 1..Len(t) : (s \o t)[Len(s) + i] = t[i]
  BY ConcatProperties
<1>2. \A i \in 1..Len(s \o t) :
         i \in 1..Len(s) \/ (i - Len(s) \in 1..Len(t) /\ i > Len(s) /\ (s \o t)[i] = t[i - Len(s)])
  <2>1. \A i \in 1..Len(s \o t) :
           i \in 1..Len(s) \/ (i - Len(s) \in 1..Len(t) /\ i > Len(s) /\ Len(s) + (i - Len(s)) = i)
    BY <1>1
  <2> QED BY <1>1, <2>1
<1>3. ASSUME NEW i \in 1..Len(s \o t), NEW j \in 1..Len(s \o t), i < j
      PROVE  (s \o t)[i].id < (s \o t)[j].id
  <2>1. i \in Nat /\ j \in Nat
    BY <1>1
  <2>2. CASE j \in 1..Len(s)
    <3>1. i \in 1..Len(s)
      BY <1>1, <1>3, <2>1, <2>2
    <3> QED BY <1>1, <1>3, <2>2, <3>1 DEF Increasing
  <2>3. CASE i \in 1..Len(s) /\ j \notin 1..Len(s)
    BY <1>1, <1>2, <2>3 DEF Below
  <2>4. CASE i \notin 1..Len(s) /\ j \notin 1..Len(s)
    <3>1. i - Len(s) < j - Len(s)
      BY <1>1, <1>3, <2>1
    <3> QED BY <1>2, <2>4, <3>1 DEF Increasing
  <2> QED BY <2>2, <2>3, <2>4
<1> QED BY <1>1, <1>3 DEF Increasing

LEMMA IncreasingAppend ==
    ASSUME NEW s \in Seq(Message), NEW m \in Message, Increasing(s),
           \A i \in 1..Len(s) : s[i].id < m.id
    PROVE  /\ Append(s, m) \in Seq(Message) /\ Increasing(Append(s, m))
           /\ Len(Append(s, m)) = Len(s) + 1
           /\ \A i \in 1..Len(Append(s, m)) : Append(s, m)[i] = m \/ \E j \in 1..Len(s) : Append(s, m)[i] = s[j]
<1>1. /\ Append(s, m) \in Seq(Message) /\ Len(Append(s, m)) = Len(s) + 1 /\ Len(s) \in Nat
      /\ \A i \in 1..Len(s) : Append(s, m)[i] = s[i]
      /\ Append(s, m)[Len(s) + 1] = m
  BY AppendProperties
<1>2. \A i \in 1..Len(s) + 1 : i \in 1..Len(s) \/ i = Len(s) + 1
  BY <1>1
<1>3. \A i, j \in 1..Len(s) + 1 : i < j => i \in 1..Len(s)
  BY <1>1
<1>4. Increasing(Append(s, m))
  BY <1>1, <1>2, <1>3 DEF Increasing
<1> QED BY <1>1, <1>2, <1>4

\* EXIT carries the number after the last command; it has been written to the
\* drivers cleanup has come to.
Told(d) ==
    \/ mpc = "exit_write" /\ d < cur
    \/ mpc \in {"close", "waitpid"} /\ d <= cur
    \/ mpc \in {"exited", "killed"}

LastId(d) == IF Told(d) THEN cmds + 1 ELSE cmds

\* On each driver's way from the manager to it and back the numbers rise, and
\* the manager has used none above its own count.
OrderInv ==
    \A d \in Drivers :
        /\ Increasing(from[d]) /\ Increasing(to[d]) /\ Below(from[d], to[d])
        /\ UpTo(from[d], LastId(d)) /\ UpTo(to[d], LastId(d))
        /\ dpc[d] = "reply" => /\ Below(from[d], <<out[d]>>) /\ Below(<<out[d]>>, to[d])
                               /\ out[d].id <= LastId(d)

LEMMA Ids ==
    ASSUME TypeInv, NEW d \in Drivers
    PROVE  /\ to[d] \in Seq(Message) /\ from[d] \in Seq(Message) /\ out[d] \in Message
           /\ \A i \in 1..Len(to[d]) : to[d][i].id \in Nat
           /\ \A i \in 1..Len(from[d]) : from[d][i].id \in Nat
           /\ out[d].id \in Nat /\ cmds \in Nat /\ LastId(d) \in Nat
<1>1. to[d] \in Seq(Command) /\ from[d] \in Seq(Response) /\ out[d] \in Response /\ cmds \in Nat
  BY TaxiAssumption DEF TypeInv, TypeOK
<1>2. to[d] \in Seq(Message) /\ from[d] \in Seq(Message)
  BY <1>1, SeqMonotonic DEF Message
<1>3. \A i \in 1..Len(to[d]) : to[d][i] \in Command
  BY <1>1, ElementOfSeq
<1>4. \A i \in 1..Len(from[d]) : from[d][i] \in Response
  BY <1>1, ElementOfSeq
<1> QED BY <1>1, <1>2, <1>3, <1>4 DEF Message, Command, Response, LastId

LEMMA Raise ==
    ASSUME NEW s, \A i \in 1..Len(s) : s[i].id \in Nat, NEW m \in Nat, NEW n \in Nat, m <= n, UpTo(s, m)
    PROVE  UpTo(s, n)
  BY DEF UpTo

\* Steps that move no message.
LEMMA OrderKept ==
    ASSUME TypeInv, OrderInv, UNCHANGED <<to, from, out>>,
           \A d \in Drivers : dpc'[d] = "reply" => dpc[d] = "reply",
           \A d \in Drivers : LastId(d)' \in Nat /\ LastId(d) <= LastId(d)'
    PROVE  OrderInv'
<1> SUFFICES ASSUME NEW d \in Drivers
             PROVE  /\ UpTo(from[d], LastId(d)') /\ UpTo(to[d], LastId(d)')
                    /\ dpc[d] = "reply" => out[d].id <= LastId(d)'
  BY DEF OrderInv
<1>1. UpTo(from[d], LastId(d)') /\ UpTo(to[d], LastId(d)')
  BY Ids, Raise DEF OrderInv
<1>2. dpc[d] = "reply" => out[d].id <= LastId(d)'
  <2>1. out[d].id \in Nat /\ LastId(d) \in Nat /\ LastId(d)' \in Nat /\ LastId(d) <= LastId(d)'
    BY Ids
  <2>2. dpc[d] = "reply" => out[d].id <= LastId(d)
    BY DEF OrderInv
  <2> QED BY <2>1, <2>2
<1> QED BY <1>1, <1>2

\* The manager writes a message with the next number.
LEMMA WriteOrder ==
    ASSUME TypeInv, OrderInv, NEW d \in Drivers, NEW m \in Command, m.id = cmds + 1, ~Told(d),
           to' = [to EXCEPT ![d] = Append(@, m)], UNCHANGED <<from, dpc, out>>,
           \A e \in Drivers : LastId(e)' \in Nat /\ LastId(e) <= LastId(e)', LastId(d)' = cmds + 1
    PROVE  OrderInv'
<1>0. /\ to[d] \in Seq(Message) /\ m \in Message /\ cmds \in Nat
      /\ \A i \in 1..Len(to[d]) : to[d][i].id \in Nat
      /\ \A i \in 1..Len(from[d]) : from[d][i].id \in Nat
      /\ out[d].id \in Nat
  BY Ids DEF Message
<1>1. /\ Increasing(from[d]) /\ Increasing(to[d]) /\ Below(from[d], to[d])
      /\ UpTo(from[d], cmds) /\ UpTo(to[d], cmds)
      /\ dpc[d] = "reply" => /\ Below(from[d], <<out[d]>>) /\ Below(<<out[d]>>, to[d]) /\ out[d].id <= cmds
  BY DEF OrderInv, LastId
<1>2. /\ \A i \in 1..Len(to[d]) : to[d][i].id < m.id
      /\ \A i \in 1..Len(from[d]) : from[d][i].id < m.id
      /\ dpc[d] = "reply" => out[d].id < m.id
  BY <1>0, <1>1 DEF UpTo
<1>3. /\ to'[d] = Append(to[d], m) /\ \A e \in Drivers \ {d} : to'[e] = to[e]
  BY DEF TypeInv, TypeOK
<1>4. /\ Increasing(to'[d])
      /\ \A i \in 1..Len(to'[d]) : to'[d][i] = m \/ \E j \in 1..Len(to[d]) : to'[d][i] = to[d][j]
  <2>1. /\ Increasing(Append(to[d], m))
        /\ \A i \in 1..Len(Append(to[d], m)) :
              Append(to[d], m)[i] = m \/ \E j \in 1..Len(to[d]) : Append(to[d], m)[i] = to[d][j]
    BY <1>0, <1>1, <1>2, IncreasingAppend
  <2> QED BY <1>3, <2>1
<1>5. Below(from[d], to'[d]) /\ UpTo(to'[d], cmds + 1) /\ UpTo(from[d], cmds + 1)
  BY <1>0, <1>1, <1>2, <1>4 DEF Below, UpTo
<1>6. dpc[d] = "reply" => Below(<<out[d]>>, to'[d]) /\ out[d].id <= cmds + 1
  BY <1>0, <1>1, <1>2, <1>4 DEF Below
<1>7. ASSUME NEW e \in Drivers \ {d}
      PROVE  /\ UpTo(from[e], LastId(e)') /\ UpTo(to[e], LastId(e)')
             /\ dpc[e] = "reply" => out[e].id <= LastId(e)'
  <2>1. /\ LastId(e) \in Nat /\ LastId(e)' \in Nat /\ LastId(e) <= LastId(e)' /\ out[e].id \in Nat
        /\ \A i \in 1..Len(to[e]) : to[e][i].id \in Nat
        /\ \A i \in 1..Len(from[e]) : from[e][i].id \in Nat
    BY Ids
  <2>2. /\ UpTo(from[e], LastId(e)) /\ UpTo(to[e], LastId(e))
        /\ dpc[e] = "reply" => out[e].id <= LastId(e)
    BY DEF OrderInv
  <2>3. UpTo(from[e], LastId(e)') /\ UpTo(to[e], LastId(e)')
    BY <2>1, <2>2, Raise
  <2> QED BY <2>1, <2>2, <2>3
<1> QED BY <1>1, <1>3, <1>4, <1>5, <1>6, <1>7 DEF OrderInv
LEMMA OrderNext == TypeInv /\ OrderInv /\ [Next]_vars => OrderInv'
<1> SUFFICES ASSUME TypeInv, OrderInv, [Next]_vars
             PROVE  OrderInv'
  OBVIOUS
<1> USE DEF driverVars, managerVars, pipes, history
<1>0. /\ cmds \in Nat /\ cur \in Drivers /\ driver_count \in Nat /\ cur \in Nat
      /\ Drivers \subseteq Nat \ {0}
      /\ dpc \in [Drivers -> DriverPc] /\ out \in [Drivers -> Response]
      /\ to \in [Drivers -> Seq(Command)] /\ from \in [Drivers -> Seq(Response)]
  BY TaxiAssumption DEF TypeInv, TypeOK, Drivers
<1>1. CASE create_driver
  <2>1. \A d \in Drivers : dpc'[d] = "reply" => dpc[d] = "reply"
    BY <1>0, <1>1 DEF create_driver
  <2>2. \A d \in Drivers : LastId(d)' = LastId(d) /\ LastId(d) \in Nat
    BY <1>0, <1>1 DEF create_driver, LastId, Told
  <2> QED BY <1>1, <2>1, <2>2, OrderKept DEF create_driver
<1>2. ASSUME NEW d \in Drivers, NEW verb \in {"SEND_TASK", "GET_STATUS"}, NEW timer \in Nat,
             mpc \in {"prompt", "sweep"}, WriteCommand(d, verb, timer)
      PROVE  OrderInv'
  <2>1. cmds' = cmds + 1 /\ UNCHANGED <<from, dpc, out>> /\ \A e \in Drivers : ~Told(e)
    BY <1>2 DEF WriteCommand, Told
  <2>2. CASE Alive(d)
    <3> DEFINE m == [id |-> cmds + 1, verb |-> verb, timer |-> timer]
    <3>1. mpc' = "poll" /\ to' = [to EXCEPT ![d] = Append(@, m)]
      BY <1>2, <2>2 DEF WriteCommand
    <3>2. m \in Command /\ m.id = cmds + 1
      BY <1>0 DEF Command
    <3>3. \A e \in Drivers : LastId(e)' = cmds + 1 /\ LastId(e) = cmds
      BY <2>1, <3>1 DEF LastId, Told
    <3>4. /\ \A e \in Drivers : LastId(e)' \in Nat /\ LastId(e) <= LastId(e)'
          /\ LastId(d)' = cmds + 1
      BY <1>0, <3>3
    <3> HIDE DEF m
    <3> QED BY <2>1, <3>1, <3>2, <3>4, WriteOrder
  <2>3. CASE ~Alive(d)
    <3>1. mpc' = "killed" /\ UNCHANGED to
      BY <1>2, <2>3 DEF WriteCommand
    <3>2. \A e \in Drivers : LastId(e)' = cmds + 2 /\ LastId(e) = cmds
      BY <1>0, <2>1, <3>1 DEF LastId, Told
    <3> QED BY <1>0, <2>1, <3>1, <3>2, OrderKept
  <2> QED BY <2>2, <2>3
<1>3. CASE (\E d \in Drivers, timer \in Timers : send_task(d, timer)) \/ (\E d \in Drivers : get_status(d))
  BY <1>2, <1>3, TaxiAssumption DEF send_task, get_status
<1>4. CASE get_drivers
  BY <1>2, <1>4, TaxiAssumption DEF get_drivers, Drivers
<1>5. CASE get_drivers_next
  <2>1. cur + 1 \in Drivers
    BY <1>5, TaxiAssumption DEF get_drivers_next, TypeInv, TypeOK, Drivers
  <2> QED BY <1>2, <1>5, <2>1 DEF get_drivers_next
<1>6. CASE ReadResponse
  <2>1. /\ from'[cur] = <<>> /\ \A d \in Drivers \ {cur} : from'[d] = from[d]
        /\ UNCHANGED <<to, dpc, out>> /\ Len(<<>>) = 0
    BY <1>0, <1>6 DEF ReadResponse
  <2>2. \A d \in Drivers : LastId(d)' = LastId(d)
    BY <1>6 DEF ReadResponse, CommandDone, LastId, Told
  <2>3. Increasing(<<>>) /\ \A n \in Nat, t \in {to[cur], <<out[cur]>>} : UpTo(<<>>, n) /\ Below(<<>>, t)
    BY DEF Increasing, UpTo, Below
  <2>4. \A d \in Drivers : LastId(d) \in Nat
    BY Ids
  <2> QED BY <1>0, <2>1, <2>2, <2>3, <2>4 DEF OrderInv
<1>7. CASE PollTimeout
  <2>1. \A d \in Drivers : LastId(d)' = LastId(d) /\ LastId(d) \in Nat
    BY <1>0, <1>7 DEF PollTimeout, CommandDone, LastId, Told
  <2> QED BY <1>7, <2>1, OrderKept DEF PollTimeout
<1>8. CASE ExitCommand \/ CleanupClose \/ CleanupWait
  <2>1. \A d \in Drivers : Told(d) => Told(d)'
    BY <1>0, <1>8 DEF ExitCommand, CleanupClose, CleanupWait, Told
  <2>2. cmds' = cmds /\ UNCHANGED <<to, from, out, dpc>>
    BY <1>8 DEF ExitCommand, CleanupClose, CleanupWait
  <2>3. \A d \in Drivers : LastId(d)' \in Nat /\ LastId(d) <= LastId(d)'
    BY <1>0, <2>1, <2>2 DEF LastId
  <2> QED BY <2>2, <2>3, OrderKept
<1>9. CASE CleanupWrite
  <2>1. cmds' = cmds /\ mpc = "exit_write" /\ UNCHANGED <<from, dpc, out, cur>>
    BY <1>9 DEF CleanupWrite
  <2>2. /\ \A d \in Drivers : Told(d) => Told(d)'
        /\ Told(cur)' /\ ~Told(cur)
    BY <1>0, <1>9 DEF CleanupWrite, Told
  <2>3. /\ \A d \in Drivers : LastId(d)' \in Nat /\ LastId(d) <= LastId(d)'
        /\ LastId(cur)' = cmds + 1
    BY <1>0, <2>1, <2>2 DEF LastId
  <2>4. CASE Alive(cur)
    <3> DEFINE m == [id |-> cmds + 1, verb |-> "EXIT", timer |-> 0]
    <3>1. to' = [to EXCEPT ![cur] = Append(@, m)]
      BY <1>9, <2>4 DEF CleanupWrite
    <3>2. m \in Command /\ m.id = cmds + 1
      BY <1>0 DEF Command
    <3> HIDE DEF m
    <3> QED BY <1>0, <2>1, <2>2, <2>3, <3>1, <3>2, WriteOrder
  <2>5. CASE ~Alive(cur)
    <3>1. UNCHANGED to
      BY <1>9, <2>5 DEF CleanupWrite
    <3> QED BY <2>1, <2>3, <3>1, OrderKept
  <2> QED BY <2>4, <2>5
<1>10. ASSUME NEW d \in Drivers, DriverStep(d) PROVE OrderInv'
  <2>1. /\ \A e \in Drivers \ {d} : /\ dpc'[e] = dpc[e] /\ to'[e] = to[e]
                                    /\ from'[e] = from[e] /\ out'[e] = out[e]
        /\ \A e \in Drivers : LastId(e)' = LastId(e)
    BY <1>10, DriversApart DEF TypeInv, DriverStep, DriverTop, DriverRead, DriverReply, DriverWake,
                               LastId, Told
  <2>2. /\ Increasing(from[d]) /\ Increasing(to[d]) /\ Below(from[d], to[d])
        /\ UpTo(from[d], LastId(d)) /\ UpTo(to[d], LastId(d))
        /\ dpc[d] = "reply" => /\ Below(from[d], <<out[d]>>) /\ Below(<<out[d]>>, to[d])
                               /\ out[d].id <= LastId(d)
    BY DEF OrderInv
  <2>3. SUFFICES
          /\ Increasing(from'[d]) /\ Increasing(to'[d]) /\ Below(from'[d], to'[d])
          /\ UpTo(from'[d], LastId(d)) /\ UpTo(to'[d], LastId(d))
          /\ dpc'[d] = "reply" => /\ Below(from'[d], <<out'[d]>>) /\ Below(<<out'[d]>>, to'[d])
                                 /\ out'[d].id <= LastId(d)
    BY <2>1 DEF OrderInv
  <2>4. CASE DriverTop(d) \/ DriverWake(d)
    <3>1. UNCHANGED <<to, from, out>> /\ dpc'[d] # "reply"
      BY <1>0, <2>4 DEF DriverTop, DriverWake
    <3> QED BY <2>2, <3>1
  <2>5. CASE DriverRead(d)
    <3>1. /\ to[d] # <<>> /\ to[d] \in Seq(Command) /\ to'[d] = <<>> /\ UNCHANGED from
          /\ dpc'[d] = "reply" => out'[d].id = Head(to[d]).id
      BY <1>0, <2>5 DEF DriverRead, Drain, StartTask, ReportBusy, ReportAvailable, DriverExit, Respond
    <3>2. Head(to[d]) = to[d][1] /\ 1 \in 1..Len(to[d])
      BY <3>1, HeadCommand
    <3>3. \A i \in 1..Len(from[d]) : from[d][i].id < to[d][1].id
      BY <2>2, <3>2 DEF Below
    <3>4. to[d][1].id <= LastId(d)
      BY <2>2, <3>2 DEF UpTo
    <3>5. /\ Increasing(<<>>) /\ Below(from[d], <<>>) /\ UpTo(<<>>, LastId(d)) /\ Below(<<out'[d]>>, <<>>)
      BY DEF Increasing, Below, UpTo
    <3>6. dpc'[d] = "reply" => Below(from[d], <<out'[d]>>)
      BY <3>1, <3>2, <3>3 DEF Below
    <3> QED BY <2>2, <3>1, <3>2, <3>4, <3>5, <3>6
  <2>6. CASE DriverReply(d)
    <3>1. /\ dpc[d] = "reply" /\ dpc'[d] # "reply" /\ UNCHANGED to
          /\ from'[d] = from[d] \/ from'[d] = Append(from[d], out[d])
      BY <1>0, <2>6 DEF DriverReply
    <3>2. CASE from'[d] = Append(from[d], out[d])
      <4>1. \A i \in 1..Len(from[d]) : from[d][i].id < out[d].id
        BY <2>2, <3>1 DEF Below
      <4>2. \A i \in 1..Len(to[d]) : out[d].id < to[d][i].id
        BY <2>2, <3>1 DEF Below
      <4>3. from[d] \in Seq(Message) /\ out[d] \in Message
        BY Ids
      <4>4. /\ Increasing(Append(from[d], out[d]))
            /\ \A i \in 1..Len(Append(from[d], out[d])) :
                  \/ Append(from[d], out[d])[i] = out[d]
                  \/ \E j \in 1..Len(from[d]) : Append(from[d], out[d])[i] = from[d][j]
        BY <2>2, <4>1, <4>3, IncreasingAppend
      <4>5. Below(from'[d], to[d]) /\ UpTo(from'[d], LastId(d))
        BY <2>2, <3>1, <3>2, <4>2, <4>4 DEF Below, UpTo
      <4> QED BY <2>2, <3>1, <3>2, <4>4, <4>5
    <3> QED BY <2>2, <3>1, <3>2
  <2> QED BY <1>10, <2>4, <2>5, <2>6 DEF DriverStep
<1>11. ASSUME NEW d \in Drivers, Crash(d) PROVE OrderInv'
  <2>1. \A e \in Drivers : dpc'[e] = "reply" => dpc[e] = "reply"
    BY <1>0, <1>11 DEF Crash
  <2>2. \A e \in Drivers : LastId(e)' = LastId(e) /\ LastId(e) \in Nat
    BY <1>0, <1>11 DEF Crash, LastId, Told
  <2> QED BY <1>11, <2>1, <2>2, OrderKept DEF Crash
<1>12. CASE Tick \/ UNCHANGED vars
  <2>1. \A e \in Drivers : LastId(e)' = LastId(e) /\ LastId(e) \in Nat
    BY <1>0, <1>12 DEF Tick, vars, LastId, Told
  <2> QED BY <1>12, <2>1, OrderKept DEF Tick, vars
<1> QED
  BY <1>1, <1>3, <1>4, <1>5, <1>6, <1>7, <1>8, <1>9, <1>10, <1>11, <1>12
     DEF Next, UserStep, ManagerStep

\* However late the driver is and whoever is killed, responses come back in the
\* order of their commands, each at most once.
THEOREM ResponsesInOrder == SafeSpec => []InOrder
<1>1. Init => OrderInv
  <2> SUFFICES ASSUME Init PROVE OrderInv
    OBVIOUS
  <2>1. \A d \in Drivers : from[d] = <<>> /\ to[d] = <<>> /\ dpc[d] # "reply"
    BY DEF Init
  <2>2. \A n : Increasing(<<>>) /\ Below(<<>>, <<>>) /\ UpTo(<<>>, n)
    BY DEF Increasing, Below, UpTo
  <2> QED BY <2>1, <2>2 DEF OrderInv
<1>2. TypeInv /\ OrderInv => InOrder
  <2> SUFFICES ASSUME TypeInv, OrderInv, NEW d \in Drivers
               PROVE  Increasing(from[d] \o Unwritten(d) \o (IF Alive(d) THEN to[d] ELSE <<>>))
    BY DEF InOrder, Increasing
  <2> DEFINE rest == IF Alive(d) THEN to[d] ELSE <<>>
  <2>1. /\ Increasing(from[d]) /\ Increasing(to[d]) /\ Below(from[d], to[d])
        /\ dpc[d] = "reply" => Below(from[d], <<out[d]>>) /\ Below(<<out[d]>>, to[d])
    BY DEF OrderInv
  <2>2. from[d] \in Seq(Message) /\ to[d] \in Seq(Message) /\ out[d] \in Message
    BY Ids
  <2>3. rest \in Seq(Message) /\ Increasing(rest) /\ Below(from[d], rest)
        /\ (dpc[d] = "reply" => Below(<<out[d]>>, rest))
    <3>1. CASE Alive(d)
      BY <2>1, <2>2, <3>1
    <3>2. CASE ~ Alive(d)
      <4>1. <<>> \in Seq(Message) /\ Len(<<>>) = 0
        BY EmptySeq
      <4>2. Increasing(<<>>) /\ \A t : Below(t, <<>>)
        BY <4>1 DEF Increasing, Below
      <4> QED BY <3>2, <4>1, <4>2
    <3> QED BY <3>1, <3>2
  <2> HIDE DEF rest
  <2>4. CASE dpc[d] = "reply"
    <3>1. Unwritten(d) = <<out[d]>> /\ <<out[d]>> \in Seq(Message) /\ Increasing(<<out[d]>>)
      BY <2>2, <2>4 DEF Unwritten, Increasing
    <3>2. from[d] \o <<out[d]>> \in Seq(Message) /\ Increasing(from[d] \o <<out[d]>>)
      BY <2>1, <2>2, <2>4, <3>1, IncreasingConcat
    <3>3. Below(from[d] \o <<out[d]>>, rest)
      <4>1. \A i \in 1..Len(from[d] \o <<out[d]>>) :
               (from[d] \o <<out[d]>>)[i] = out[d]
               \/ \E j \in 1..Len(from[d]) : (from[d] \o <<out[d]>>)[i] = from[d][j]
        BY <2>2
      <4>2. \A j \in 1..Len(rest) : out[d].id < rest[j].id
        BY <2>3, <2>4 DEF Below
      <4> QED BY <2>3, <4>1, <4>2 DEF Below
    <3> QED BY <2>3, <3>1, <3>2, <3>3, IncreasingConcat DEF rest
  <2>5. CASE dpc[d] # "reply"
    <3>1. Unwritten(d) = <<>> /\ from[d] \o <<>> = from[d]
      BY <2>2, <2>5, ConcatEmptySeq DEF Unwritten
    <3> QED BY <2>1, <2>2, <2>3, <3>1, IncreasingConcat DEF rest
  <2> QED BY <2>4, <2>5
<1> QED BY <1>1, <1>2, TypeInit, TypeNext, OrderNext, PTL DEF SafeSpec
=============================================================================
