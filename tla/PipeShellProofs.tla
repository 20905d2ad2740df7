-------------------------- MODULE PipeShellProofs --------------------------
(* Proofs about PipeShell, for lines of any length and pipes of any          *)
(* capacity.                                                                 *)
EXTENDS PipeShell, FiniteSetTheorems, TLAPS

LEMMA SmallerOfTwo ==
    ASSUME NEW a \in Nat, NEW b \in Nat
    PROVE  Min({a, b}) \in {a, b} /\ Min({a, b}) <= a /\ Min({a, b}) <= b
<1>1. \E x \in {a, b} : \A y \in {a, b} : x <= y
  <2>1. CASE a <= b
    BY <2>1
  <2>2. CASE b <= a
    BY <2>2
  <2> QED BY <2>1, <2>2
<1> QED BY <1>1 DEF Min

-----------------------------------------------------------------------------
(* The inductive invariant *)

Typed ==
    /\ pc \in {"prompt", "pipe", "fork", "close", "wait", "exited"}
    /\ num_commands \in 0..MaxCommands
    /\ i \in 1..num_commands + 1
    /\ lines \in 0..MaxLines
    /\ rd \in [Pipes -> SUBSET (Commands \cup {Shell})]
    /\ wr \in [Pipes -> SUBSET (Commands \cup {Shell})]
    /\ buf \in [Pipes -> 0..PipeCap]
    /\ proc \in [Commands -> {"none", "run", "ended", "reaped"}]
    /\ kind \in [Commands -> {"all", "some"}]
    /\ todo \in [Commands -> 0..MaxOutput]
    /\ pc \in {"pipe", "fork", "close", "wait"} => i <= num_commands

\* Only a running command holds an end of a pipe.
HoldersRun == \A p \in Pipes, c \in Commands : c \in rd[p] \cup wr[p] => proc[c] = "run"

\* The shell holds no more than the pipe it has just made and the reading end
\* of the one before.
Writers ==
    \A p \in Pipes :
       /\ Started(p) => wr[p] \subseteq {p}
       /\ ~Started(p) =>
             wr[p] \subseteq (IF p = i /\ pc = "fork" THEN {Shell}
                              ELSE IF p = i /\ pc = "close" THEN {Shell, p} ELSE {})

ShellReads ==
    \A p \in Pipes : Shell \in rd[p] =>
       /\ p < num_commands
       /\ \/ p = i /\ pc \in {"fork", "close"}
          \/ p = i - 1 /\ pc \in {"pipe", "fork", "close"}

\* A running command can read what it writes.
OwnReader ==
    /\ \A p \in Pipes : p < num_commands /\ proc[p] = "run" => p \in rd[p]
    /\ pc = "fork" /\ i < num_commands => Shell \in rd[i]

\* The commands of the line are started in their order.
Unstarted ==
    \A c \in Commands : proc[c] # "none" =>
       /\ c <= num_commands
       /\ pc \in {"pipe", "fork"} => c < i
       /\ pc = "close" => c <= i

Alive == {c \in Commands : proc[c] \in {"run", "ended"}}

\* There are at least as many waits to come as children to wait for.
WaitsSuffice ==
    /\ pc = "wait" => Cardinality(Alive) <= num_commands - i + 1
    /\ pc = "prompt" => Alive = {}

ShellInv ==
    Typed /\ HoldersRun /\ Writers /\ ShellReads /\ OwnReader /\ Unstarted /\ WaitsSuffice

LEMMA CleanPrompt == ShellInv => PromptIsClean
<1> SUFFICES ASSUME ShellInv, pc = "prompt"
             PROVE  /\ \A p \in Pipes : rd[p] = {} /\ wr[p] = {}
                    /\ \A c \in Commands : proc[c] \in {"none", "reaped"}
  BY DEF PromptIsClean
<1>1. \A c \in Commands : proc[c] \in {"none", "reaped"}
  BY DEF ShellInv, Typed, WaitsSuffice, Alive
<1>2. \A p \in Pipes : Shell \notin rd[p] /\ rd[p] \in SUBSET (Commands \cup {Shell})
  BY DEF ShellInv, Typed, ShellReads
<1>3. \A p \in Pipes : wr[p] \subseteq {p} /\ p \in Commands
  BY ShellAssumption DEF ShellInv, Writers, Started, Pipes, Commands
<1> QED BY <1>1, <1>2, <1>3 DEF ShellInv, HoldersRun

LEMMA AliveFinite == IsFiniteSet(Alive) /\ Cardinality(Alive) \in Nat
<1>1. IsFiniteSet(Commands)
  BY ShellAssumption, FS_Interval DEF Commands
<1> QED BY <1>1, FS_Subset, FS_CardinalityType DEF Alive

LEMMA ShellInit == Init => ShellInv
  BY ShellAssumption DEF Init, ShellInv, Typed, HoldersRun, Writers, Started, ShellReads,
     OwnReader, Unstarted, WaitsSuffice, Alive, Pipes, Commands

LEMMA ShellNext == ShellInv /\ [Next]_vars => ShellInv'
<1> SUFFICES ASSUME ShellInv, [Next]_vars PROVE ShellInv'
  OBVIOUS
<1> USE ShellAssumption DEF ShellInv, main, ends, children
<1>1. CASE ReadLine
  <2>1. /\ \A p \in Pipes : rd[p] = {} /\ wr[p] = {}
        /\ pc = "prompt"
    BY <1>1, CleanPrompt DEF PromptIsClean, ReadLine
  <2>2. PICK k \in 0..MaxCommands + 1 :
           /\ num_commands' = Min({k, MaxCommands})
           /\ pc' = IF k = 0 THEN "prompt" ELSE "pipe"
    BY <1>1 DEF ReadLine
  <2>3. num_commands' \in 0..MaxCommands /\ (pc' = "pipe" => num_commands' >= 1)
    BY <2>2, SmallerOfTwo
  <2>4. /\ i' = 1 /\ lines' \in 0..MaxLines /\ UNCHANGED <<rd, wr, kind, todo>>
        /\ pc' \in {"prompt", "pipe"}
        /\ buf' = [p \in Pipes |-> 0] /\ proc' = [c \in Commands |-> "none"]
    BY <1>1, <2>2 DEF ReadLine, Typed
  <2>5. Typed'
    <3>1. buf' \in [Pipes -> 0..PipeCap] /\ proc' \in [Commands -> {"none", "run", "ended", "reaped"}]
      BY <2>4
    <3>2. i' \in 1..num_commands' + 1 /\ (pc' = "pipe" => i' <= num_commands')
      <4>1. i' = 1 /\ num_commands' \in Nat /\ (pc' = "pipe" => num_commands' >= 1)
        BY <2>3, <2>4
      <4>2. \A n \in Nat : 1 \in 1..n + 1
        OBVIOUS
      <4>3. pc' = "pipe" => 1 <= num_commands'
        BY <4>1
      <4> QED BY <4>1, <4>2, <4>3
    <3> QED BY <2>3, <2>4, <3>1, <3>2 DEF Typed
  <2> QED BY <2>1, <2>4, <2>5 DEF HoldersRun, Writers, ShellReads, OwnReader,
             Unstarted, WaitsSuffice, Alive, Pipes, Commands
<1>2. CASE Exit
  BY <1>2, CleanPrompt DEF PromptIsClean, Exit, Typed, HoldersRun, Writers, Started,
     ShellReads, OwnReader, Unstarted, WaitsSuffice
<1>3. CASE MakePipe
  <2>1. /\ pc = "pipe" /\ pc' = "fork" /\ i <= num_commands
        /\ UNCHANGED <<num_commands, i, lines, buf, proc, kind, todo>>
    BY <1>3 DEF MakePipe, Typed
  <2>2. CASE i < num_commands
    <3>1. i \in Pipes
      BY <2>2 DEF Typed, Pipes
    <3>2. /\ rd' = [rd EXCEPT ![i] = @ \cup {Shell}]
          /\ wr' = [wr EXCEPT ![i] = @ \cup {Shell}]
      BY <1>3, <2>2, <3>1 DEF MakePipe, With, Typed
    <3>3. Typed' /\ HoldersRun'
      BY <2>1, <3>1, <3>2 DEF Typed, HoldersRun, Commands
    <3>4. Writers'
      BY <2>1, <3>1, <3>2 DEF Typed, Writers, Started, Pipes
    <3>5. ShellReads' /\ OwnReader' /\ Unstarted' /\ WaitsSuffice'
      BY <2>1, <2>2, <3>1, <3>2 DEF Typed, ShellReads, OwnReader, Unstarted, WaitsSuffice
    <3> QED BY <3>3, <3>4, <3>5
  <2>3. CASE ~(i < num_commands)
    <3>1. UNCHANGED <<rd, wr>>
      BY <1>3, <2>3 DEF MakePipe
    <3> QED BY <2>1, <2>3, <3>1 DEF Typed, HoldersRun, Writers, Started, ShellReads,
               OwnReader, Unstarted, WaitsSuffice
  <2> QED BY <2>2, <2>3
<1>4. CASE PipeFails
  <2>1. /\ pc = "pipe" /\ pc' = "exited"
        /\ rd' = Without(Shell, rd) /\ wr' = Without(Shell, wr)
        /\ UNCHANGED <<num_commands, i, lines, buf, proc, kind, todo>>
    BY <1>4 DEF PipeFails
  <2>2. \A p \in Pipes : rd'[p] = rd[p] \ {Shell} /\ wr'[p] = wr[p] \ {Shell}
    BY <2>1 DEF Without
  <2>3. Typed'
    BY <2>1 DEF Typed, Without
  <2>4. Shell \notin Commands
    BY DEF Commands
  <2>5. HoldersRun' /\ Unstarted' /\ WaitsSuffice'
    BY <2>1, <2>2 DEF HoldersRun, Unstarted, WaitsSuffice
  <2>6. ShellReads' /\ OwnReader'
    <3>1. \A p \in Pipes : p # Shell
      BY DEF Pipes
    <3> QED BY <2>1, <2>2, <3>1 DEF ShellReads, OwnReader
  <2>7. Writers'
    <3>1. \A p \in Pipes : ~Started(p) \/ p < i
      BY <2>1 DEF Started
    <3> QED BY <2>1, <2>2, <3>1 DEF Writers, Started
  <2> QED BY <2>3, <2>5, <2>6, <2>7
<1>5. CASE Fork
  <2>1. /\ pc = "fork" /\ pc' = "close" /\ i <= num_commands /\ i \in Commands
        /\ rd' = With(i, rd, Held(rd)) /\ wr' = With(i, wr, Held(wr))
        /\ proc' = [proc EXCEPT ![i] = "run"]
        /\ UNCHANGED <<num_commands, i, lines, buf>>
    BY <1>5 DEF Fork, Typed, Commands
  <2>2. /\ kind' \in [Commands -> {"all", "some"}]
        /\ todo' \in [Commands -> 0..MaxOutput]
    BY <1>5 DEF Fork, Typed
  <2>3. \A p \in Pipes :
           /\ rd'[p] = IF Shell \in rd[p] THEN rd[p] \cup {i} ELSE rd[p]
           /\ wr'[p] = IF Shell \in wr[p] THEN wr[p] \cup {i} ELSE wr[p]
    BY <2>1 DEF With, Held
  <2>4. Typed'
    BY <2>1, <2>2 DEF Typed, With
  <2>9. \A c \in Commands : proc'[c] = IF c = i THEN "run" ELSE proc[c]
    BY <2>1 DEF Typed
  <2>10. i # Shell /\ i \in Int /\ \A p \in Pipes : p \in Commands /\ p \in Int /\ p # Shell
    BY <2>1 DEF Commands, Pipes
  <2>5. HoldersRun'
    BY <2>3, <2>9 DEF HoldersRun
  <2>6. Writers'
    <3>1. \A p \in Pipes : /\ Started(p)' <=> Started(p)
                           /\ p < i => Started(p)
      BY <2>1 DEF Started
    <3>2. \A p \in Pipes : Shell \in wr[p] => p = i
      BY <2>1, <2>10 DEF Writers
    <3>3. \A p \in Pipes : Started(p) => wr'[p] \subseteq {p}
      BY <2>3, <2>10 DEF Writers
    <3>4. \A p \in Pipes : ~Started(p) =>
             wr'[p] \subseteq (IF p = i THEN {Shell, p} ELSE {})
      <4> TAKE p \in Pipes
      <4> HAVE ~Started(p)
      <4>1. wr[p] \subseteq (IF p = i THEN {Shell} ELSE {})
        BY <2>1 DEF Writers
      <4>2. wr'[p] \subseteq wr[p] \cup {i} /\ (Shell \notin wr[p] => wr'[p] = wr[p])
        BY <2>3
      <4> QED BY <4>1, <4>2
    <3> QED BY <2>1, <3>1, <3>3, <3>4 DEF Writers
  <2>7. ShellReads' /\ Unstarted' /\ WaitsSuffice'
    <3>1. ShellReads'
      BY <2>1, <2>3, <2>10 DEF ShellReads
    <3>2. Unstarted'
      BY <2>1, <2>9 DEF Unstarted, Typed, Commands
    <3> QED BY <2>1, <3>1, <3>2 DEF WaitsSuffice
  <2>8. OwnReader'
    BY <2>1, <2>3, <2>9, <2>10 DEF OwnReader
  <2> QED BY <2>4, <2>5, <2>6, <2>7, <2>8
<1>6. CASE ForkFails
  BY <1>6 DEF ForkFails, Typed, HoldersRun, Writers, Started, ShellReads, OwnReader,
     Unstarted, WaitsSuffice, Pipes, Commands
<1>7. CASE CloseEnds
  <2>1. /\ pc = "close" /\ i <= num_commands
        /\ \/ i < num_commands /\ pc' = "pipe" /\ i' = i + 1
           \/ i = num_commands /\ pc' = "wait" /\ i' = 1
        /\ UNCHANGED <<num_commands, lines, buf, proc, kind, todo>>
    BY <1>7 DEF CloseEnds, Advance, Typed
  <2>2. /\ rd' = [p \in Pipes |-> IF p = i - 1 THEN rd[p] \ {Shell} ELSE rd[p]]
        /\ wr' = [p \in Pipes |-> IF p = i THEN wr[p] \ {Shell} ELSE wr[p]]
    BY <1>7 DEF CloseEnds
  <2>3. Typed'
    BY <2>1, <2>2 DEF Typed
  <2>4. HoldersRun' /\ ShellReads' /\ Unstarted'
    BY <2>1, <2>2 DEF Typed, HoldersRun, ShellReads, Unstarted, Pipes, Commands
  <2>5. OwnReader'
    <3>1. Shell \notin Pipes
      BY DEF Pipes
    <3> QED BY <2>1, <2>2, <3>1 DEF Typed, OwnReader
  <2>6. Writers'
    BY <2>1, <2>2 DEF Typed, Writers, Started, Pipes
  <2>7. WaitsSuffice'
    <3> SUFFICES ASSUME pc' = "wait"
                 PROVE  Cardinality(Alive') <= num_commands' - i' + 1
      BY <2>1 DEF WaitsSuffice
    <3>1. Alive' = Alive /\ Alive \in SUBSET (1..num_commands)
      BY <2>1 DEF Alive, Unstarted, Typed, Commands
    <3>2. IsFiniteSet(1..num_commands) /\ Cardinality(1..num_commands) = num_commands
      BY FS_Interval DEF Typed
    <3>3. Cardinality(Alive) <= num_commands /\ Cardinality(Alive) \in Nat
      BY <3>1, <3>2, FS_Subset, AliveFinite
    <3> QED BY <2>1, <3>1, <3>3 DEF Typed
  <2> QED BY <2>3, <2>4, <2>5, <2>6, <2>7
<1>8. ASSUME Wait \/ WaitFails
      PROVE  /\ pc = "wait" /\ i <= num_commands
             /\ \/ i < num_commands /\ pc' = "wait" /\ i' = i + 1
                \/ i = num_commands /\ pc' = "prompt" /\ i' = i + 1
             /\ UNCHANGED <<num_commands, lines, rd, wr, buf, kind, todo>>
  BY <1>8 DEF Wait, WaitFails, Waited, Typed
<1>9. CASE Wait
  <2>1. PICK c \in Commands : proc[c] = "ended" /\ proc' = [proc EXCEPT ![c] = "reaped"]
    BY <1>9 DEF Wait
  <2>2. Alive' = Alive \ {c} /\ c \in Alive
    BY <2>1 DEF Alive, Typed
  <2>3. Cardinality(Alive') = Cardinality(Alive) - 1 /\ IsFiniteSet(Alive')
    BY <2>2, AliveFinite, FS_RemoveElement
  <2>4. WaitsSuffice'
    <3>1. Cardinality(Alive) \in Nat /\ Cardinality(Alive) <= num_commands - i + 1
      BY <1>8, <1>9, AliveFinite DEF WaitsSuffice
    <3>2. CASE pc' = "wait"
      BY <1>8, <1>9, <2>3, <3>1, <3>2 DEF WaitsSuffice, Typed
    <3>3. CASE pc' = "prompt"
      <4>1. Cardinality(Alive) <= 1
        BY <1>8, <1>9, <3>1, <3>3 DEF Typed
      <4>2. Cardinality(Alive') = 0
        BY <2>2, <2>3, <3>1, <4>1, AliveFinite, FS_EmptySet, FS_CardinalityType
      <4>3. Alive' = {}
        BY <2>3, <4>2, FS_EmptySet
      <4> QED BY <3>3, <4>3 DEF WaitsSuffice
    <3> QED BY <1>8, <1>9, <3>2, <3>3
  <2>5. Typed' /\ HoldersRun'
    BY <1>8, <1>9, <2>1 DEF Typed, HoldersRun
  <2>6. Writers' /\ ShellReads'
    BY <1>8, <1>9, <2>1 DEF Typed, Writers, Started, ShellReads, Pipes, Commands
  <2>7. OwnReader'
    BY <1>8, <1>9, <2>1 DEF Typed, OwnReader, Pipes, Commands
  <2>8. Unstarted'
    BY <1>8, <1>9, <2>1 DEF Typed, Unstarted, Commands
  <2> QED BY <2>4, <2>5, <2>6, <2>7, <2>8
<1>10. CASE WaitFails
  <2>1. UNCHANGED proc /\ Alive = {}
    BY <1>10 DEF WaitFails, Alive
  <2>2. Alive' = {} /\ Cardinality(Alive') = 0
    BY <2>1, FS_EmptySet DEF Alive
  <2>3. WaitsSuffice'
    BY <1>8, <1>10, <2>2 DEF WaitsSuffice, Typed
  <2> QED BY <1>8, <1>10, <2>1, <2>3 DEF Typed, HoldersRun, Writers, Started, ShellReads,
             OwnReader, Unstarted
<1>11. ASSUME NEW c \in Commands, Write(c) \/ Read(c) PROVE ShellInv'
  <2>1. UNCHANGED <<pc, num_commands, i, lines, rd, wr, proc, kind>>
    BY <1>11 DEF Write, Read
  <2>2. buf' \in [Pipes -> 0..PipeCap] /\ todo' \in [Commands -> 0..MaxOutput]
    <3>1. CASE Write(c)
      <4>1. c < num_commands => c \in Pipes
        BY DEF Typed, Pipes, Commands
      <4>2. buf' \in [Pipes -> 0..PipeCap]
        <5>1. CASE UNCHANGED buf
          BY <5>1 DEF Typed
        <5>2. CASE c \in Pipes /\ buf[c] < PipeCap /\ buf' = [buf EXCEPT ![c] = @ + 1]
          <6>1. buf[c] + 1 \in 0..PipeCap
            BY <5>2 DEF Typed
          <6> QED BY <5>2, <6>1 DEF Typed
        <5> QED BY <3>1, <4>1, <5>1, <5>2 DEF Write
      <4>3. todo' \in [Commands -> 0..MaxOutput]
        <5>1. todo[c] - 1 \in 0..MaxOutput
          BY <3>1 DEF Write, Typed
        <5> QED BY <3>1, <5>1 DEF Write, Typed
      <4> QED BY <4>2, <4>3
    <3>2. CASE Read(c)
      <4>1. c - 1 \in Pipes
        BY <3>2 DEF Read, Pipes, Commands
      <4>2. buf[c - 1] - 1 \in 0..PipeCap
        BY <3>2, <4>1 DEF Read, Typed
      <4> QED BY <3>2, <4>2 DEF Read, Typed
    <3> QED BY <1>11, <3>1, <3>2
  <2> QED BY <2>1, <2>2 DEF Typed, HoldersRun, Writers, Started, ShellReads, OwnReader,
             Unstarted, WaitsSuffice, Alive
<1>12. ASSUME NEW c \in Commands, Ends(c) PROVE ShellInv'
  <2>1. /\ UNCHANGED <<pc, num_commands, i, lines, buf, kind, todo>>
        /\ proc[c] = "run" /\ proc' = [proc EXCEPT ![c] = "ended"]
        /\ rd' = Without(c, rd) /\ wr' = Without(c, wr)
    BY <1>12 DEF Ends
  <2>2. \A p \in Pipes : rd'[p] = rd[p] \ {c} /\ wr'[p] = wr[p] \ {c}
    BY <2>1 DEF Without
  <2>3. Typed'
    BY <2>1 DEF Typed, Without
  <2>4. Alive' = Alive
    BY <2>1 DEF Alive, Typed
  <2>5. HoldersRun' /\ Unstarted' /\ WaitsSuffice' /\ ShellReads'
    BY <2>1, <2>2, <2>4 DEF HoldersRun, Unstarted, WaitsSuffice, ShellReads, Typed
  <2>6. Writers'
    BY <2>1, <2>2 DEF Writers, Started
  <2>7. OwnReader'
    BY <2>1, <2>2 DEF OwnReader, Typed, Pipes, Commands
  <2> QED BY <2>3, <2>5, <2>6, <2>7
<1>13. CASE UNCHANGED vars
  BY <1>13 DEF vars, Typed, HoldersRun, Writers, Started, ShellReads, OwnReader,
     Unstarted, WaitsSuffice, Alive
<1> QED BY <1>1, <1>2, <1>3, <1>4, <1>5, <1>6, <1>7, <1>9, <1>10, <1>11, <1>12, <1>13
        DEF Next, MainStep, CommandStep

LEMMA ShellInvariant == Spec => []ShellInv
  BY ShellInit, ShellNext, PTL DEF Spec

-----------------------------------------------------------------------------
\* Every variable keeps its type; in particular a command that runs can always
\* read its own output, so that none of its writes fails.
THEOREM ShellTyped == Spec => []TypeOK
<1>1. ShellInv => TypeOK
  BY DEF ShellInv, Typed, OwnReader, TypeOK
<1> QED BY <1>1, ShellInvariant, PTL

\* Whatever forks fail and however the commands of a line overlap with the
\* loop that starts them: a pipe main is done with has its writer only, and
\* none once that has ended.
THEOREM InputEnds == Spec => []EndOfInputArrives
<1>1. ShellInv => EndOfInputArrives
  BY ShellAssumption DEF ShellInv, Typed, HoldersRun, Writers, EndOfInputArrives, Over,
     Pipes, Commands
<1> QED BY <1>1, ShellInvariant, PTL

\* The shell waits often enough: it comes back to the prompt without open
\* pipes and without children, although it counts commands and not forks.
THEOREM PromptClean == Spec => []PromptIsClean
  BY CleanPrompt, ShellInvariant, PTL
=============================================================================
