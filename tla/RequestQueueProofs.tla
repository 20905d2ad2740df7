------------------------- MODULE RequestQueueProofs -------------------------
(* Proofs about RequestQueue, for any number of workers, clients and         *)
(* descriptors and any queue capacity.                                       *)
EXTENDS RequestQueue, FiniteSetTheorems, SequenceTheorems, TLAPS

(***************************************************************************)
(* Type correctness.                                                       *)
(***************************************************************************)
LEMMA ConnEnded ==
    ASSUME NEW s \in ConnState
    PROVE  Ended(s) \in ConnState
  BY DEF Ended, ConnState

LEMMA WorkersCardinality == Cardinality(Workers) \in Nat \ {0}
  BY QueueAssumption, FS_CardinalityType, FS_EmptySet

\* TypeOK is not inductive by itself: enqueue appends main's descriptor, so that
\* must be a client descriptor by then, and the handler stops counting in time.
\* The mutex is destroyed only when the handler has nothing left to do but exit.
TypeInv ==
    /\ TypeOK
    /\ \A t \in Threads : Holding(t) => fd[t] \in Fds
    /\ hpc \in {"none", "stop", "post"} => posts < Cardinality(Workers)
    /\ mutex \in {Destroyed, Torn} => hpc \in {"exit", "dead"}

LEMMA TypeInit == Init => TypeInv
  BY QueueAssumption, WorkersCardinality
     DEF Init, TypeInv, TypeOK, Holding, Threads, MainPc, WorkerPc, HandlerPc, ConnState

LEMMA TypeNext == TypeInv /\ [Next]_vars => TypeInv'
<1> SUFFICES ASSUME TypeInv, [Next]_vars
             PROVE  TypeInv'
  OBVIOUS
<1> USE QueueAssumption, WorkersCardinality DEF Threads, MainPc, WorkerPc, queueVars, handlerVars, kernelVars
<1>1. ASSUME NEW c \in Clients, Connect(c) PROVE TypeInv'
  BY <1>1 DEF Connect, TypeInv, TypeOK, Holding, ConnState
<1>2. CASE Accept
  BY <1>2 DEF Accept, At, Goto, FreeFds, TypeInv, TypeOK, Holding, ConnState
<1>3. CASE EnqueueLock
  BY <1>3 DEF EnqueueLock, At, Goto, Lock, TypeInv, TypeOK, Holding
<1>4. CASE EnqueueNode
  BY <1>4 DEF EnqueueNode, At, Goto, Unlock, TypeInv, TypeOK, Holding
<1>5. CASE EnqueueFails \/ EnqueueTorn
  <2>1. fd[Main] \in Fds
    BY <1>5 DEF EnqueueFails, EnqueueTorn, At, TypeInv, Holding
  <2>2. queue' \in {Append(queue, fd[Main]), queue, <<fd[Main]>>}
    BY <1>5 DEF EnqueueFails, EnqueueTorn
  <2>3. queue' \in Seq(Fds)
    <3>1. queue \in Seq(Fds)
      BY DEF TypeInv, TypeOK
    <3>2. Append(queue, fd[Main]) \in Seq(Fds) /\ <<fd[Main]>> \in Seq(Fds)
      BY <2>1, <3>1
    <3> QED BY <2>2, <3>1, <3>2
  <2> QED BY <1>5, <2>3 DEF EnqueueFails, EnqueueTorn, At, Goto, Unlock, TypeInv, TypeOK, Holding
<1>6. CASE EnqueuePost
  BY <1>6 DEF EnqueuePost, At, Goto, Drop, TypeInv, TypeOK, Holding
<1>7. CASE RejectClient
  BY <1>7, ConnEnded DEF RejectClient, At, Goto, CloseFd, Drop, TypeInv, TypeOK, Holding
<1>8. ASSUME NEW w \in Workers, WorkerLoop(w) PROVE TypeInv'
  BY <1>8 DEF WorkerLoop, At, Goto, TypeInv, TypeOK, Holding
<1>9. ASSUME NEW w \in Workers, DequeueWait(w) PROVE TypeInv'
  BY <1>9 DEF DequeueWait, At, Goto, TypeInv, TypeOK, Holding
<1>10. ASSUME NEW w \in Workers, DequeueLock(w) PROVE TypeInv'
  BY <1>10 DEF DequeueLock, At, Goto, Lock, TypeInv, TypeOK, Holding
<1>11. ASSUME NEW w \in Workers, DequeueNode(w) PROVE TypeInv'
  <2>1. Head(queue) \in Fds /\ Tail(queue) \in Seq(Fds)
    BY <1>11 DEF DequeueNode, TypeInv, TypeOK
  <2>2. PICK f \in Fds : fd' = [fd EXCEPT ![w] = f]
    BY <1>11, <2>1 DEF DequeueNode
  <2>3. queue' \in Seq(Fds) /\ size' \in Int
    BY <1>11, <2>1 DEF DequeueNode, TypeInv, TypeOK
  <2>4. \A t \in Threads : Holding(t)' => fd'[t] \in Fds
    BY <1>11, <2>2 DEF DequeueNode, At, Goto, TypeInv, TypeOK, Holding
  <2> QED BY <1>11, <2>2, <2>3, <2>4 DEF DequeueNode, At, Goto, Unlock, TypeInv, TypeOK
<1>22. ASSUME NEW w \in Workers, DequeueTorn(w) PROVE TypeInv'
  <2>1. PICK f \in Fds : fd' = [fd EXCEPT ![w] = f]
    BY <1>22 DEF DequeueTorn
  <2>2. queue' \in Seq(Fds)
    BY <1>22 DEF DequeueTorn, TypeInv, TypeOK
  <2>3. \A t \in Threads : Holding(t)' => fd'[t] \in Fds
    BY <1>22, <2>1 DEF DequeueTorn, At, Goto, TypeInv, TypeOK, Holding
  <2> QED BY <1>22, <2>1, <2>2, <2>3 DEF DequeueTorn, At, Goto, Unlock, TypeInv, TypeOK
<1>12. ASSUME NEW w \in Workers, DequeueEmpty(w) PROVE TypeInv'
  BY <1>12 DEF DequeueEmpty, At, Goto, Unlock, TypeInv, TypeOK, Holding
<1>13. ASSUME NEW w \in Workers, HandleSend(w) PROVE TypeInv'
  BY <1>13 DEF HandleSend, At, Goto, TypeInv, TypeOK, Holding, ConnState
<1>14. ASSUME NEW w \in Workers, HandleClose(w) PROVE TypeInv'
  BY <1>14, ConnEnded DEF HandleClose, At, Goto, CloseFd, Drop, TypeInv, TypeOK, Holding
<1>15. ASSUME NEW t \in Threads, Signal(t) PROVE TypeInv'
  BY <1>15 DEF Signal, TypeInv, TypeOK, Holding, HandlerPc
<1>16. CASE SignalStop
  BY <1>16 DEF SignalStop, TypeInv, TypeOK, Holding, HandlerPc
<1>17. CASE SignalPost
  BY <1>17 DEF SignalPost, TypeInv, TypeOK, Holding, HandlerPc
<1>18. CASE CleanupLock
  BY <1>18 DEF CleanupLock, Lock, TypeInv, TypeOK, Holding, HandlerPc
<1>19. CASE CleanupDrain
  BY <1>19, ConnEnded DEF CleanupDrain, Unlock, TypeInv, TypeOK, Holding, HandlerPc
<1>23. CASE CleanupDestroy
  BY <1>23 DEF CleanupDestroy, TypeInv, TypeOK, Holding, HandlerPc
<1>20. CASE SignalExit \/ RaceCrash
  <2>1. ProcessEnds
    BY <1>20 DEF SignalExit, RaceCrash
  <2> QED BY <2>1, ConnEnded DEF ProcessEnds, TypeInv, TypeOK, Holding, HandlerPc
<1>21. CASE UNCHANGED vars
  BY <1>21 DEF vars, TypeInv, TypeOK, Holding
<1> QED
  BY <1>1, <1>2, <1>3, <1>4, <1>5, <1>6, <1>7, <1>8, <1>9, <1>10, <1>11, <1>12,
     <1>13, <1>14, <1>15, <1>16, <1>17, <1>18, <1>19, <1>20, <1>21, <1>22, <1>23
     DEF Next, MainStep, WorkerStep, HandlerStep

\* A race that has happened cannot be undone.
LEMMA TornStays ==
    ASSUME TypeInv, [Next]_vars, mutex = Torn
    PROVE  mutex' = Torn
<1> USE QueueAssumption DEF Threads, queueVars, handlerVars, kernelVars
<1>1. CASE \E c \in Clients : Connect(c)
  BY <1>1 DEF Connect
<1>2. CASE MainStep
  BY <1>2 DEF MainStep, Accept, EnqueueLock, EnqueueNode, EnqueueTorn, EnqueueFails, EnqueuePost,
              RejectClient, Lock, Unlock
<1>3. CASE \E w \in Workers : WorkerStep(w)
  BY <1>3 DEF WorkerStep, WorkerLoop, DequeueWait, DequeueLock, DequeueNode, DequeueTorn,
              DequeueEmpty, HandleSend, HandleClose, Lock, Unlock
<1>4. CASE HandlerStep
  BY <1>4 DEF HandlerStep, SignalStop, SignalPost, CleanupLock, CleanupDrain, CleanupDestroy,
              SignalExit, ProcessEnds, TypeInv
<1>5. CASE RaceCrash \/ (\E t \in Threads : Signal(t)) \/ UNCHANGED vars
  BY <1>5 DEF RaceCrash, ProcessEnds, Signal, vars
<1> QED BY <1>1, <1>2, <1>3, <1>4, <1>5 DEF Next

\* Every reachable state of the server is well typed, whatever the threads do.
THEOREM TypeCorrect == SafeSpec => []TypeOK
<1>1. TypeInv => TypeOK
  BY DEF TypeInv
<1> QED BY <1>1, TypeInit, TypeNext, PTL DEF SafeSpec

(***************************************************************************)
(* The three counts of the queue agree.                                    *)
(***************************************************************************)
LEMMA TakingFinite == IsFiniteSet(Taking) /\ Cardinality(Taking) \in Nat
  BY QueueAssumption, FS_Subset, FS_CardinalityType DEF Taking

LEMMA TakingGrows ==
    ASSUME NEW w \in Workers, w \notin Taking, Taking' = Taking \cup {w}
    PROVE  Cardinality(Taking') = Cardinality(Taking) + 1
  BY TakingFinite, FS_AddElement

LEMMA TakingShrinks ==
    ASSUME NEW w \in Workers, w \in Taking, Taking' = Taking \ {w}
    PROVE  Cardinality(Taking') = Cardinality(Taking) - 1
  BY TakingFinite, FS_RemoveElement

\* A worker past sem_wait has a node waiting for it.
LEMMA TakerFindsNode ==
    ASSUME TypeOK, CountsMatch
    PROVE  NoEmptyDequeue
<1> SUFFICES ASSUME NEW w \in Workers, pc[w] = "deq", hpc = "none"
             PROVE  queue # <<>>
  BY DEF NoEmptyDequeue
<1>1. w \in Taking
  BY DEF Taking
<1>2. Cardinality(Taking) # 0
  BY <1>1, TakingFinite, FS_EmptySet
<1>3. Len(queue) > 0
  BY <1>2, TakingFinite DEF CountsMatch, Posting, TypeOK
<1> QED BY <1>3 DEF TypeOK

LEMMA SemNext == TypeInv /\ SemAccounting /\ [Next]_vars => SemAccounting'
<1> SUFFICES ASSUME TypeInv, CountsMatch, mutex # Torn, mutex' # Torn, [Next]_vars
             PROVE  CountsMatch'
  BY TornStays DEF SemAccounting, Intact
<1> USE QueueAssumption, TakingFinite DEF Threads, queueVars, handlerVars, kernelVars, TypeInv, TypeOK
<1>1. ASSUME NEW c \in Clients, Connect(c) PROVE CountsMatch'
  BY <1>1 DEF Connect, CountsMatch, Taking, Posting
<1>2. CASE Accept \/ EnqueueLock \/ EnqueueFails \/ RejectClient
  <2>1. Taking' = Taking /\ Posting' = Posting
    BY <1>2 DEF Accept, EnqueueLock, EnqueueFails, RejectClient, At, Goto, Taking, Posting
  <2> QED BY <1>2, <2>1
          DEF Accept, EnqueueLock, EnqueueFails, RejectClient, CountsMatch
<1>3. CASE EnqueueNode
  <2>1. Taking' = Taking /\ Posting = 0 /\ Posting' = 1
    BY <1>3 DEF EnqueueNode, At, Goto, Taking, Posting
  <2>2. Len(queue') = Len(queue) + 1
    BY <1>3 DEF EnqueueNode
  <2> QED BY <1>3, <2>1, <2>2 DEF EnqueueNode, CountsMatch
<1>4. CASE EnqueuePost
  <2>1. Taking' = Taking /\ Posting = 1 /\ Posting' = 0
    BY <1>4 DEF EnqueuePost, At, Goto, Taking, Posting
  <2> QED BY <1>4, <2>1 DEF EnqueuePost, CountsMatch
<1>5. ASSUME NEW w \in Workers, WorkerLoop(w) \/ HandleSend(w) \/ HandleClose(w)
      PROVE  CountsMatch'
  <2>1. Taking' = Taking /\ Posting' = Posting
    BY <1>5 DEF WorkerLoop, HandleSend, HandleClose, At, Goto, Taking, Posting
  <2> QED BY <1>5, <2>1 DEF WorkerLoop, HandleSend, HandleClose, CountsMatch
<1>6. ASSUME NEW w \in Workers, DequeueWait(w) PROVE CountsMatch'
  <2>1. w \notin Taking /\ Taking' = Taking \cup {w} /\ Posting' = Posting
    BY <1>6 DEF DequeueWait, At, Goto, Taking, Posting
  <2>2. Cardinality(Taking') = Cardinality(Taking) + 1
    BY <2>1, TakingGrows
  <2>3. size' = size /\ queue' = queue /\ sem' = sem - 1 /\ hpc' = hpc
    BY <1>6 DEF DequeueWait
  <2>4. sem \in Nat /\ Posting \in Nat /\ Cardinality(Taking) \in Nat /\ Len(queue) \in Nat
    BY DEF Posting
  <2> HIDE DEF TypeInv, TypeOK
  <2> QED BY <2>1, <2>2, <2>3, <2>4 DEF CountsMatch
<1>7. ASSUME NEW w \in Workers, DequeueLock(w) PROVE CountsMatch'
  <2>1. Taking' = Taking /\ Posting' = Posting
    BY <1>7 DEF DequeueLock, At, Goto, Taking, Posting
  <2> QED BY <1>7, <2>1 DEF DequeueLock, CountsMatch
<1>8. ASSUME NEW w \in Workers, DequeueNode(w) PROVE CountsMatch'
  <2>1. w \in Taking /\ Taking' = Taking \ {w} /\ Posting' = Posting
    BY <1>8 DEF DequeueNode, At, Goto, Taking, Posting
  <2>2. Cardinality(Taking') = Cardinality(Taking) - 1
    BY <2>1, TakingShrinks
  <2>3. Len(queue') = Len(queue) - 1 /\ Len(queue) \in Nat
    BY <1>8 DEF DequeueNode
  <2>4. size' = size - 1 /\ sem' = sem /\ hpc' = hpc
    BY <1>8 DEF DequeueNode
  <2>5. sem \in Nat /\ Posting \in Nat /\ Cardinality(Taking) \in Nat /\ Capacity \in Nat
    BY DEF Posting
  <2> HIDE DEF TypeInv, TypeOK
  <2> QED BY <2>1, <2>2, <2>3, <2>4, <2>5 DEF CountsMatch
<1>9. ASSUME NEW w \in Workers, DequeueEmpty(w) PROVE CountsMatch'
  <2>1. hpc # "none"
    BY <1>9, TakerFindsNode DEF DequeueEmpty, At, NoEmptyDequeue
  <2>2. w \in Taking /\ Taking' = Taking \ {w} /\ Posting' = Posting /\ Posting \in Nat
    BY <1>9 DEF DequeueEmpty, At, Goto, Taking, Posting
  <2>3. Cardinality(Taking') = Cardinality(Taking) - 1 /\ Cardinality(Taking) # 0
    BY <2>2, TakingShrinks, FS_EmptySet
  <2> QED BY <1>9, <2>1, <2>2, <2>3 DEF DequeueEmpty, CountsMatch
<1>10. ASSUME NEW t \in Threads, Signal(t) PROVE CountsMatch'
  <2>1. Taking' = Taking /\ Posting' = Posting
    BY <1>10 DEF Signal, Taking, Posting
  <2> QED BY <1>10, <2>1 DEF Signal, CountsMatch
<1>11. CASE SignalStop \/ SignalPost \/ CleanupLock \/ CleanupDrain \/ CleanupDestroy
  <2>1. Taking' = Taking /\ Posting' = Posting /\ Posting \in Nat
    BY <1>11 DEF SignalStop, SignalPost, CleanupLock, CleanupDrain, CleanupDestroy, Taking, Posting
  <2> QED BY <1>11, <2>1 DEF SignalStop, SignalPost, CleanupLock, CleanupDrain, CleanupDestroy,
                             CountsMatch
<1>13. CASE SignalExit
  <2>1. Taking' = {} /\ Posting' = 0
    BY <1>13 DEF SignalExit, ProcessEnds, Taking, Posting
  <2>2. Cardinality(Taking') = 0
    BY <2>1, FS_EmptySet
  <2> QED BY <1>13, <2>1, <2>2 DEF SignalExit, ProcessEnds, CountsMatch
<1>14. CASE EnqueueTorn \/ RaceCrash \/ \E w \in Workers : DequeueTorn(w)
  BY <1>14 DEF EnqueueTorn, RaceCrash, ProcessEnds, DequeueTorn, Unlock
<1>12. CASE UNCHANGED vars
  BY <1>12 DEF vars, CountsMatch, Taking, Posting
<1> QED
  BY <1>1, <1>2, <1>3, <1>4, <1>5, <1>6, <1>7, <1>8, <1>9, <1>10, <1>11, <1>12, <1>13, <1>14
     DEF Next, MainStep, WorkerStep, HandlerStep

\* The list, size and the semaphore never drift apart, however main, the workers
\* and the handler interleave, until two critical sections overlap after the
\* mutex is destroyed: size is the length of the list, never above capacity; every
\* node has a post of its own; and before a signal there is no post without one.
THEOREM CountsAgree == SafeSpec => []SemAccounting
<1>1. Init => SemAccounting
  <2> SUFFICES ASSUME Init PROVE SemAccounting
    OBVIOUS
  <2>1. Taking = {} /\ Posting = 0
    BY QueueAssumption DEF Init, Taking, Posting, Threads
  <2>2. Cardinality(Taking) = 0
    BY <2>1, FS_EmptySet
  <2> QED BY <2>1, <2>2, QueueAssumption DEF Init, SemAccounting, CountsMatch
<1> QED BY <1>1, TypeInit, TypeNext, SemNext, PTL DEF SafeSpec

\* Until a signal arrives no worker comes back from sem_wait to an empty queue.
THEOREM WorkersFindClients == SafeSpec => []NoEmptyDequeue
<1>1. TypeInv /\ SemAccounting => NoEmptyDequeue
  BY TakerFindsNode DEF TypeInv, SemAccounting, Intact, NoEmptyDequeue
<1> QED BY <1>1, TypeInit, TypeNext, CountsAgree, PTL DEF SafeSpec

(***************************************************************************)
(* Every open descriptor has exactly one owner.                            *)
(***************************************************************************)
LEMMA QueuedAppend ==
    ASSUME NEW q \in Seq(Fds), NEW f \in Fds
    PROVE  /\ Append(q, f) \in Seq(Fds)
           /\ Len(Append(q, f)) = Len(q) + 1
           /\ \A i \in 1..Len(q) : Append(q, f)[i] = q[i]
           /\ Append(q, f)[Len(q) + 1] = f
  OBVIOUS

LEMMA QueuedTail ==
    ASSUME NEW q \in Seq(Fds), q # <<>>
    PROVE  /\ Head(q) = q[1]
           /\ Len(q) \in Nat \ {0}
           /\ Len(Tail(q)) = Len(q) - 1
           /\ \A i \in 1..Len(q) - 1 : Tail(q)[i] = q[i + 1]
  OBVIOUS

\* A step that moves no descriptor and changes no holder preserves Owned.
LEMMA OwnerSame ==
    ASSUME Owned, queue' = queue, fdTable' = fdTable,
           \A t \in Threads : (Holding(t)' <=> Holding(t)) /\ (Holding(t) => fd'[t] = fd[t])
    PROVE  Owned'
  BY DEF Owned, QueuedOnce, HeldOnce, HeldNotQueued, OpenIffOwned, Queued

\* A thread that closes the descriptor it holds gives it up.
LEMMA OwnerClose ==
    ASSUME TypeInv, Owned, NEW t \in Threads, Holding(t), ~Holding(t)',
           \A s \in Threads \ {t} : (Holding(s)' <=> Holding(s)) /\ fd'[s] = fd[s],
           queue' = queue, fdTable' = [fdTable EXCEPT ![fd[t]] = None]
    PROVE  Owned'
<1>1. Queued' = Queued /\ QueuedOnce'
  BY DEF Owned, QueuedOnce, Queued
<1>2. HeldOnce'
  BY DEF Owned, HeldOnce
<1>3. HeldNotQueued'
  BY <1>1 DEF Owned, HeldNotQueued
<1>4. fdTable'[fd[t]] = None /\ \A f \in Fds \ {fd[t]} : fdTable'[f] = fdTable[f]
  BY DEF TypeInv, TypeOK
<1>5. fd[t] \notin Queued
  BY DEF Owned, HeldNotQueued
<1>6. \A s \in Threads : Holding(s)' => fd'[s] # fd[t]
  BY DEF Owned, HeldOnce
<1>7. ASSUME NEW f \in Fds
      PROVE  fdTable'[f] # None
             <=> f \in Queued' \/ \E s \in Threads : Holding(s)' /\ fd'[s] = f
  <2>1. CASE f = fd[t]
    BY <2>1, <1>1, <1>4, <1>5, <1>6
  <2>2. CASE f # fd[t]
    BY <2>2, <1>1, <1>4 DEF Owned, OpenIffOwned
  <2> QED BY <2>1, <2>2
<1> QED BY <1>1, <1>2, <1>3, <1>7 DEF Owned, OpenIffOwned

LEMMA OwnerNext == TypeInv /\ OneOwner /\ [Next]_vars => OneOwner'
<1> SUFFICES ASSUME TypeInv, Owned, mutex # Torn, mutex' # Torn, [Next]_vars
             PROVE  Owned'
  BY TornStays DEF OneOwner, Intact
<1> USE QueueAssumption DEF Threads, queueVars, handlerVars, kernelVars
<1>1. ASSUME NEW c \in Clients, Connect(c) PROVE Owned'
  BY <1>1, OwnerSame DEF Connect, Holding
<1>2. CASE Accept
  <2>1. PICK f \in FreeFds : /\ fdTable' = [fdTable EXCEPT ![f] = Head(backlog)]
                            /\ fd' = [fd EXCEPT ![Main] = f]
    BY <1>2 DEF Accept
  <2>2. Head(backlog) \in Clients
    BY <1>2 DEF Accept, TypeInv, TypeOK
  <2>3. Holding(Main)' /\ ~Holding(Main)
        /\ \A w \in Workers : (Holding(w)' <=> Holding(w)) /\ fd'[w] = fd[w]
    BY <1>2, <2>1 DEF Accept, At, Goto, Holding, TypeInv, TypeOK
  <2>4. fd'[Main] = f /\ f \in Fds /\ fdTable[f] = None /\ queue' = queue
    BY <1>2, <2>1 DEF Accept, FreeFds, TypeInv, TypeOK
  <2>5. Queued' = Queued /\ QueuedOnce'
    BY <2>4 DEF Owned, QueuedOnce, Queued
  <2>6. f \notin Queued /\ \A t \in Threads : Holding(t) => fd[t] # f
    BY <2>4 DEF Owned, OpenIffOwned
  <2>7. HeldOnce'
    BY <2>3, <2>4, <2>6 DEF Owned, HeldOnce
  <2>8. HeldNotQueued'
    BY <2>3, <2>4, <2>5, <2>6 DEF Owned, HeldNotQueued
  <2>9. fdTable'[f] # None /\ \A g \in Fds \ {f} : fdTable'[g] = fdTable[g]
    BY <2>1, <2>2, <2>4 DEF TypeInv, TypeOK
  <2>10. ASSUME NEW g \in Fds
         PROVE  fdTable'[g] # None
                <=> g \in Queued' \/ \E t \in Threads : Holding(t)' /\ fd'[t] = g
    <3>1. CASE g = f
      BY <3>1, <2>3, <2>4, <2>9
    <3>2. CASE g # f
      <4>1. fdTable'[g] # None <=> g \in Queued \/ \E t \in Threads : Holding(t) /\ fd[t] = g
        BY <3>2, <2>9 DEF Owned, OpenIffOwned
      <4>2. (\E t \in Threads : Holding(t) /\ fd[t] = g)
            <=> \E t \in Threads : Holding(t)' /\ fd'[t] = g
        BY <3>2, <2>3, <2>4
      <4> QED BY <4>1, <4>2, <2>5
    <3> QED BY <3>1, <3>2
  <2> QED BY <2>5, <2>7, <2>8, <2>10 DEF Owned, OpenIffOwned
<1>3. CASE EnqueueLock \/ EnqueueFails \/ EnqueuePost
  <2>1. \A t \in Threads : (Holding(t)' <=> Holding(t)) /\ (Holding(t) => fd'[t] = fd[t])
    BY <1>3 DEF EnqueueLock, EnqueueFails, EnqueuePost, Drop, At, Goto, Holding, TypeInv, TypeOK
  <2> QED BY <1>3, <2>1, OwnerSame DEF EnqueueLock, EnqueueFails, EnqueuePost
<1>4. CASE EnqueueNode
  <2>1. Holding(Main) /\ ~Holding(Main)' /\ fd' = fd /\ fdTable' = fdTable
        /\ \A w \in Workers : Holding(w)' <=> Holding(w)
    BY <1>4 DEF EnqueueNode, At, Goto, Holding, TypeInv, TypeOK
  <2>2. fd[Main] \in Fds \ Queued
    BY <2>1 DEF Owned, HeldNotQueued
  <2>3. /\ queue \in Seq(Fds)
        /\ queue' = Append(queue, fd[Main])
    BY <1>4 DEF EnqueueNode, TypeInv, TypeOK
  <2>4. /\ Len(queue') = Len(queue) + 1
        /\ \A i \in 1..Len(queue) : queue'[i] = queue[i]
        /\ queue'[Len(queue) + 1] = fd[Main]
        /\ Len(queue) \in Nat
    BY <2>2, <2>3, QueuedAppend
  <2>5. Queued' = Queued \cup {fd[Main]}
    BY <2>4 DEF Queued
  <2>6. QueuedOnce'
    BY <2>2, <2>4 DEF Owned, QueuedOnce, Queued
  <2>7. HeldOnce'
    BY <2>1 DEF Owned, HeldOnce
  <2>8. HeldNotQueued'
    BY <2>1, <2>5 DEF Owned, HeldNotQueued, HeldOnce
  <2>9. OpenIffOwned'
    BY <2>1, <2>5 DEF Owned, OpenIffOwned
  <2> QED BY <2>6, <2>7, <2>8, <2>9 DEF Owned
<1>5. CASE RejectClient
  <2>1. /\ Holding(Main) /\ ~Holding(Main)'
        /\ \A w \in Workers : (Holding(w)' <=> Holding(w)) /\ fd'[w] = fd[w]
    BY <1>5 DEF RejectClient, Drop, At, Goto, Holding, TypeInv, TypeOK
  <2> QED BY <1>5, <2>1, OwnerClose DEF RejectClient, CloseFd
<1>6. ASSUME NEW w \in Workers,
             WorkerLoop(w) \/ DequeueWait(w) \/ DequeueLock(w) \/ DequeueEmpty(w) \/ HandleSend(w)
      PROVE  Owned'
  <2>1. \A t \in Threads : (Holding(t)' <=> Holding(t)) /\ fd'[t] = fd[t]
    BY <1>6 DEF WorkerLoop, DequeueWait, DequeueLock, DequeueEmpty, HandleSend,
                At, Goto, Holding, TypeInv, TypeOK
  <2> QED BY <1>6, <2>1, OwnerSame
          DEF WorkerLoop, DequeueWait, DequeueLock, DequeueEmpty, HandleSend
<1>7. ASSUME NEW w \in Workers, DequeueNode(w) PROVE Owned'
  <2>1. queue \in Seq(Fds) /\ queue # <<>> /\ queue' = Tail(queue)
    BY <1>7 DEF DequeueNode, TypeInv, TypeOK
  <2>2. PICK f \in Fds : f = queue[1] /\ f = Head(queue)
    <3>1. Head(queue) = queue[1] /\ 1 \in 1..Len(queue)
      BY <2>1, QueuedTail
    <3>2. queue[1] \in Fds
      BY <2>1, <3>1, ElementOfSeq
    <3> QED BY <3>1, <3>2
  <2>3. /\ Len(queue) \in Nat \ {0}
        /\ Len(queue') = Len(queue) - 1
        /\ \A i \in 1..Len(queue) - 1 : queue'[i] = queue[i + 1]
    BY <2>1, QueuedTail
  <2>4. Holding(w)' /\ ~Holding(w) /\ fd'[w] = f /\ fdTable' = fdTable
        /\ \A t \in Threads \ {w} : (Holding(t)' <=> Holding(t)) /\ fd'[t] = fd[t]
    BY <1>7, <2>2 DEF DequeueNode, At, Goto, Holding, TypeInv, TypeOK
  <2>5. QueuedOnce'
    BY <2>3 DEF Owned, QueuedOnce
  <2>6. f \in Queued
    BY <2>2, <2>3 DEF Queued
  <2>7. Queued' = Queued \ {f}
    <3>1. ASSUME NEW g \in Queued' PROVE g \in Queued \ {f}
      BY <2>2, <2>3, <3>1 DEF Queued, Owned, QueuedOnce
    <3>2. ASSUME NEW g \in Queued \ {f} PROVE g \in Queued'
      <4>1. PICK i \in 1..Len(queue) : queue[i] = g
        BY DEF Queued
      <4>2. i # 1 /\ i - 1 \in 1..Len(queue) - 1
        BY <4>1, <2>2, <2>3
      <4>3. queue'[i - 1] = g
        BY <4>1, <4>2, <2>3
      <4> QED BY <4>2, <4>3, <2>3 DEF Queued
    <3> QED BY <3>1, <3>2
  <2>8. \A t \in Threads : Holding(t) => fd[t] # f
    BY <2>6 DEF Owned, HeldNotQueued
  <2>9. HeldOnce'
    BY <2>4, <2>8 DEF Owned, HeldOnce
  <2>10. HeldNotQueued'
    BY <2>4, <2>7 DEF Owned, HeldNotQueued
  <2>11. ASSUME NEW g \in Fds
         PROVE  fdTable'[g] # None
                <=> g \in Queued' \/ \E t \in Threads : Holding(t)' /\ fd'[t] = g
    <3>1. CASE g = f
      BY <3>1, <2>4, <2>6 DEF Owned, OpenIffOwned
    <3>2. CASE g # f
      BY <3>2, <2>4, <2>7 DEF Owned, OpenIffOwned
    <3> QED BY <3>1, <3>2
  <2> QED BY <2>5, <2>9, <2>10, <2>11 DEF Owned, OpenIffOwned
<1>8. ASSUME NEW w \in Workers, HandleClose(w) PROVE Owned'
  <2>1. /\ Holding(w) /\ ~Holding(w)'
        /\ \A t \in Threads \ {w} : (Holding(t)' <=> Holding(t)) /\ fd'[t] = fd[t]
    BY <1>8 DEF HandleClose, Drop, At, Goto, Holding, TypeInv, TypeOK
  <2> QED BY <1>8, <2>1, OwnerClose DEF HandleClose, CloseFd
<1>9. ASSUME NEW t \in Threads, Signal(t) PROVE Owned'
  BY <1>9, OwnerSame DEF Signal, Holding
<1>10. CASE SignalStop \/ SignalPost \/ CleanupLock \/ CleanupDestroy
  BY <1>10, OwnerSame DEF SignalStop, SignalPost, CleanupLock, CleanupDestroy, Holding
<1>11. CASE CleanupDrain
  <2>1. fdTable' = [f \in Fds |-> IF f \in Queued THEN None ELSE fdTable[f]]
    BY <1>11 DEF CleanupDrain, Queued
  <2>2. queue' = <<>> /\ Queued' = {} /\ fd' = fd /\ Len(queue') = 0
    BY <1>11 DEF CleanupDrain, Queued
  <2>3. \A t \in Threads : Holding(t)' <=> Holding(t)
    BY <1>11 DEF CleanupDrain, Holding
  <2>4. QueuedOnce' /\ HeldOnce' /\ HeldNotQueued'
    BY <2>2, <2>3 DEF Owned, QueuedOnce, HeldOnce, HeldNotQueued
  <2>5. OpenIffOwned'
    BY <2>1, <2>2, <2>3 DEF Owned, OpenIffOwned, HeldNotQueued
  <2> QED BY <2>4, <2>5 DEF Owned
<1>12. CASE SignalExit
  <2>1. queue' = <<>> /\ Queued' = {} /\ Len(queue') = 0
    BY <1>12 DEF SignalExit, ProcessEnds, Queued
  <2>2. \A t \in Threads : ~Holding(t)'
    BY <1>12 DEF SignalExit, ProcessEnds, Holding
  <2>3. \A f \in Fds : fdTable'[f] = None
    BY <1>12 DEF SignalExit, ProcessEnds
  <2> QED BY <2>1, <2>2, <2>3
          DEF Owned, QueuedOnce, HeldOnce, HeldNotQueued, OpenIffOwned
<1>14. CASE EnqueueTorn \/ RaceCrash \/ \E w \in Workers : DequeueTorn(w)
  BY <1>14 DEF EnqueueTorn, RaceCrash, ProcessEnds, DequeueTorn, Unlock
<1>13. CASE UNCHANGED vars
  BY <1>13, OwnerSame DEF vars, Holding
<1> QED
  BY <1>1, <1>2, <1>3, <1>4, <1>5, <1>6, <1>7, <1>8, <1>9, <1>10, <1>11, <1>12, <1>13, <1>14
     DEF Next, MainStep, WorkerStep, HandlerStep

\* No descriptor is leaked, used after it is closed, closed twice or handled by
\* two threads, for any interleaving of accept, enqueue, dequeue, close and the
\* signal handler, although the kernel reuses descriptor numbers at once; up to
\* the moment two threads meet in the queue whose mutex is destroyed.
THEOREM DescriptorsOwned == SafeSpec => []OneOwner
<1>1. Init => OneOwner
  <2> SUFFICES ASSUME Init PROVE Owned
    BY DEF OneOwner
  <2>1. Len(queue) = 0 /\ Queued = {}
    BY DEF Init, Queued
  <2>2. \A t \in Threads : ~Holding(t)
    BY DEF Init, Holding
  <2> QED BY <2>1, <2>2
          DEF Init, Owned, QueuedOnce, HeldOnce, HeldNotQueued, OpenIffOwned
<1> QED BY <1>1, TypeInit, TypeNext, OwnerNext, PTL DEF SafeSpec

(***************************************************************************)
(* The server with its threads, descriptors, mutex and semaphore implements*)
(* the abstract time service: the mapping is Service, in RequestQueue.     *)
(***************************************************************************)

(* What the kernel knows of the clients *)

\* An open descriptor leads to a client of its own that is being handled; the
\* backlog holds the clients that have not been accepted, each once.
ConnInv ==
    /\ \A f, g \in Fds : fdTable[f] # None /\ fdTable[f] = fdTable[g] => f = g
    /\ \A f \in Fds : fdTable[f] # None => conn[fdTable[f]] \in {"accepted", "answered"}
    /\ \A i \in 1..Len(backlog) : conn[backlog[i]] = "pending"
    /\ \A i, j \in 1..Len(backlog) : backlog[i] = backlog[j] => i = j

\* A worker answers a client once, and closes without an answer only after a
\* failed send.
AnswerInv ==
    \A w \in Workers :
       /\ pc[w] = "send" => conn[fdTable[fd[w]]] = "accepted"
       /\ pc[w] = "close" => conn[fdTable[fd[w]]] = "answered" \/ SendFails

\* Clients in the queue have not been answered.
LineInv == \A f \in Queued : conn[fdTable[f]] = "accepted"

\* Neither has the one main is about to queue or to turn away.
MainInv == Holding(Main) => conn[fdTable[fd[Main]]] = "accepted"

\* What the mapping needs as long as there is a line.
ServiceInv == TypeInv /\ CountsMatch /\ Owned /\ ConnInv /\ AnswerInv /\ LineInv /\ MainInv

\* What of it outlives a race in the queue.
RefinementInv == TypeInv /\ ConnInv /\ (Intact => ServiceInv)

\* A descriptor in a thread's hands is open, leads to a client nobody else
\* leads to, and is neither in the queue nor in another thread's hands.
LEMMA InHands ==
    ASSUME ServiceInv, NEW t \in Threads, Holding(t)
    PROVE  /\ fd[t] \in Fds \ Queued
           /\ fdTable[fd[t]] \in Clients
           /\ conn[fdTable[fd[t]]] \in {"accepted", "answered"}
           /\ \A s \in Threads \ {t} : Holding(s) =>
                 fd[s] # fd[t] /\ fdTable[fd[s]] # fdTable[fd[t]]
           /\ \A f \in Fds \ {fd[t]} : fdTable[f] # fdTable[fd[t]]
<1>1. fd[t] \in Fds \ Queued
  BY DEF ServiceInv, Owned, HeldNotQueued
<1>2. fdTable[fd[t]] # None /\ fdTable[fd[t]] \in Clients \cup {None}
  BY <1>1 DEF ServiceInv, Owned, OpenIffOwned, TypeInv, TypeOK
<1>3. \A f \in Fds \ {fd[t]} : fdTable[f] # fdTable[fd[t]]
  BY <1>1, <1>2 DEF ServiceInv, ConnInv
<1>4. \A s \in Threads \ {t} : Holding(s) => fd[s] # fd[t] /\ fd[s] \in Fds
  BY DEF ServiceInv, Owned, HeldOnce, HeldNotQueued
<1> QED BY <1>1, <1>2, <1>3, <1>4 DEF ServiceInv, ConnInv

\* A descriptor in the queue is open too.
LEMMA InLineOpen ==
    ASSUME ServiceInv, NEW i \in 1..Len(queue)
    PROVE  /\ queue[i] \in Queued /\ queue[i] \in Fds
           /\ fdTable[queue[i]] \in Clients
           /\ conn[fdTable[queue[i]]] = "accepted"
           /\ \A t \in Threads : Holding(t) =>
                 queue[i] # fd[t] /\ fdTable[queue[i]] # fdTable[fd[t]]
<1>1. queue[i] \in Queued /\ queue[i] \in Fds
  <2>1. queue \in Seq(Fds)
    BY DEF ServiceInv, TypeInv, TypeOK
  <2> QED BY <2>1, ElementOfSeq DEF Queued
<1>2. fdTable[queue[i]] # None /\ fdTable[queue[i]] \in Clients \cup {None}
  BY <1>1 DEF ServiceInv, Owned, OpenIffOwned, TypeInv, TypeOK
<1>3. \A t \in Threads : Holding(t) => queue[i] # fd[t] /\ fdTable[queue[i]] # fdTable[fd[t]]
  BY <1>1, InHands
<1> QED BY <1>1, <1>2, <1>3 DEF ServiceInv, LineInv

-----------------------------------------------------------------------------
(* The invariant is preserved *)

LEMMA CloseConn ==
    ASSUME TypeInv, ConnInv, NEW f \in Fds, CloseFd(f)
    PROVE  ConnInv'
<1>1. /\ \A g \in Fds : fdTable'[g] = IF g = f THEN None ELSE fdTable[g]
      /\ \A c \in Clients : c # fdTable[f] => conn'[c] = conn[c]
      /\ \A g \in Fds : fdTable[g] \in Clients \cup {None}
      /\ UNCHANGED backlog
  BY DEF CloseFd, TypeInv, TypeOK
<1>2. \A i \in 1..Len(backlog) : backlog[i] \in Clients /\ backlog[i] # fdTable[f]
  <2>1. \A i \in 1..Len(backlog) : backlog[i] \in Clients
    BY ElementOfSeq DEF TypeInv, TypeOK
  <2> QED BY <2>1, QueueAssumption DEF ConnInv
<1>3. \A g \in Fds \ {f} : fdTable[g] # None => fdTable[g] \in Clients /\ fdTable[g] # fdTable[f]
  BY <1>1 DEF ConnInv
<1> QED BY <1>1, <1>2, <1>3 DEF ConnInv

\* ConnInv asks nothing of the queue: it holds also when threads have raced.
LEMMA ConnNext == TypeInv /\ ConnInv /\ [Next]_vars => ConnInv'
<1> SUFFICES ASSUME TypeInv, ConnInv, [Next]_vars
             PROVE  ConnInv'
  OBVIOUS
<1> USE QueueAssumption DEF Threads, queueVars, handlerVars, kernelVars
<1>0. /\ TypeOK /\ backlog \in Seq(Clients) /\ queue \in Seq(Fds)
      /\ \A f \in Fds : fdTable[f] \in Clients \cup {None}
      /\ \A i \in 1..Len(backlog) : backlog[i] \in Clients
      /\ None \notin Clients
  <2>1. backlog \in Seq(Clients)
    BY DEF TypeInv, TypeOK
  <2> QED BY <2>1, ElementOfSeq DEF TypeInv, TypeOK
<1>1. ASSUME NEW c \in Clients, Connect(c) PROVE ConnInv'
  <2>1. /\ conn[c] = "new" /\ conn'[c] = "pending" /\ \A d \in Clients \ {c} : conn'[d] = conn[d]
        /\ backlog' = Append(backlog, c) /\ UNCHANGED <<pc, fd, queue, fdTable>>
    BY <1>1, <1>0 DEF Connect, TypeOK
  <2>2. /\ Len(backlog') = Len(backlog) + 1 /\ backlog'[Len(backlog) + 1] = c
        /\ \A i \in 1..Len(backlog) : backlog'[i] = backlog[i]
        /\ Len(backlog) \in Nat
    BY <1>0, <2>1, AppendProperties
  <2>3. \A i \in 1..Len(backlog) : backlog[i] \in Clients \ {c}
    <3>1. \A i \in 1..Len(backlog) : backlog[i] \in Clients
      BY <1>0, ElementOfSeq
    <3> QED BY <2>1, <3>1 DEF ConnInv
  <2>4. \A f \in Fds : fdTable[f] # None => fdTable[f] \in Clients \ {c}
    BY <1>0, <2>1 DEF ConnInv
  <2> QED
    <3>1. \A i \in 1..Len(backlog') : i \in 1..Len(backlog) \/ i = Len(backlog) + 1
      BY <2>2
    <3> QED BY <2>1, <2>2, <2>3, <2>4, <3>1 DEF ConnInv
<1>2. CASE Accept
  <2>1. PICK f \in FreeFds : /\ fdTable' = [fdTable EXCEPT ![f] = Head(backlog)]
                            /\ fd' = [fd EXCEPT ![Main] = f]
    BY <1>2 DEF Accept
  <2>2. PICK c \in Clients : /\ c = Head(backlog) /\ c = backlog[1] /\ Len(backlog) \in Nat \ {0}
                             /\ Len(backlog') = Len(backlog) - 1
                             /\ \A i \in 1..Len(backlog) - 1 : backlog'[i] = backlog[i + 1]
    <3>1. backlog # <<>> /\ backlog' = Tail(backlog)
      BY <1>2 DEF Accept
    <3>2. /\ Head(backlog) \in Clients /\ Head(backlog) = backlog[1] /\ Len(backlog) \in Nat \ {0}
          /\ Len(backlog') = Len(backlog) - 1
          /\ \A i \in 1..Len(backlog) - 1 : backlog'[i] = backlog[i + 1]
      BY <1>0, <3>1
    <3> QED BY <3>2
  <2>3. /\ f \in Fds /\ fdTable[f] = None /\ fdTable'[f] = c
        /\ \A g \in Fds \ {f} : fdTable'[g] = fdTable[g]
        /\ conn[c] = "pending" /\ conn'[c] = "accepted" /\ \A d \in Clients \ {c} : conn'[d] = conn[d]
        /\ fd'[Main] = f /\ UNCHANGED queue
        /\ \A w \in Workers : fd'[w] = fd[w] /\ pc'[w] = pc[w]
    BY <1>2, <1>0, <2>1, <2>2 DEF Accept, At, Goto, FreeFds, TypeOK, ConnInv
  <2>4. \A g \in Fds : fdTable[g] # c
    BY <2>3 DEF ConnInv
  <2>5. \A i \in 1..Len(backlog') : /\ i + 1 \in 1..Len(backlog) /\ i \in 1..Len(backlog) - 1
                                    /\ backlog'[i] # c /\ backlog'[i] = backlog[i + 1]
                                    /\ backlog'[i] \in Clients
    <3>1. \A i \in 1..Len(backlog') : /\ i + 1 \in 1..Len(backlog) /\ i \in 1..Len(backlog) - 1
                                      /\ i + 1 # 1 /\ 1 \in 1..Len(backlog)
      BY <2>2
    <3>2. \A i \in 1..Len(backlog) : backlog[i] \in Clients
      BY <1>0, ElementOfSeq
    <3> QED BY <2>2, <3>1, <3>2 DEF ConnInv
  <2> QED
    <3>1. \A g, h \in Fds : fdTable'[g] # None /\ fdTable'[g] = fdTable'[h] => g = h
      BY <2>3, <2>4 DEF ConnInv
    <3>2. \A g \in Fds : fdTable'[g] # None => conn'[fdTable'[g]] \in {"accepted", "answered"}
      BY <2>3, <2>4, <1>0 DEF ConnInv
    <3>3. \A i \in 1..Len(backlog') : conn'[backlog'[i]] = "pending"
      BY <2>3, <2>5 DEF ConnInv
    <3>4. \A i, j \in 1..Len(backlog') : backlog'[i] = backlog'[j] => i = j
      <4>1. ASSUME NEW i \in 1..Len(backlog'), NEW j \in 1..Len(backlog'), backlog'[i] = backlog'[j]
            PROVE  i = j
        <5>1. i + 1 \in 1..Len(backlog) /\ j + 1 \in 1..Len(backlog)
              /\ backlog[i + 1] = backlog[j + 1]
          BY <4>1, <2>5
        <5>2. i + 1 = j + 1
          BY <5>1 DEF ConnInv
        <5>3. i \in Int /\ j \in Int
          BY <2>5, <2>2
        <5> QED BY <5>2, <5>3
      <4> QED BY <4>1
    <3> QED BY <3>1, <3>2, <3>3, <3>4 DEF ConnInv
<1>3. CASE RejectClient
  <2>1. fd[Main] \in Fds /\ CloseFd(fd[Main])
    BY <1>3 DEF RejectClient, At, Holding, TypeInv
  <2> QED BY <2>1, CloseConn
<1>4. ASSUME NEW w \in Workers, HandleClose(w) PROVE ConnInv'
  <2>1. fd[w] \in Fds /\ CloseFd(fd[w])
    BY <1>4 DEF HandleClose, At, Holding, TypeInv
  <2> QED BY <2>1, CloseConn
<1>5. ASSUME NEW w \in Workers, HandleSend(w) PROVE ConnInv'
  <2>1. fd[w] \in Fds /\ UNCHANGED <<fdTable, backlog>>
    BY <1>5 DEF HandleSend, At, Holding, TypeInv
  <2>2. CASE UNCHANGED conn
    BY <2>1, <2>2 DEF ConnInv
  <2>3. CASE fdTable[fd[w]] # None /\ conn' = [conn EXCEPT ![fdTable[fd[w]]] = "answered"]
    <3>1. PICK c \in Clients : c = fdTable[fd[w]] /\ conn[c] \in {"accepted", "answered"}
      BY <1>0, <2>1, <2>3 DEF ConnInv
    <3>2. conn'[c] = "answered" /\ \A d \in Clients \ {c} : conn'[d] = conn[d]
      BY <1>0, <2>3, <3>1 DEF TypeOK
    <3>3. \A i \in 1..Len(backlog) : backlog[i] \in Clients \ {c}
      BY <1>0, <3>1 DEF ConnInv
    <3> QED BY <1>0, <2>1, <3>2, <3>3 DEF ConnInv
  <2> QED BY <1>5, <2>2, <2>3 DEF HandleSend
<1>6. CASE CleanupDrain
  <2>1. /\ fdTable' = [f \in Fds |-> IF f \in Queued THEN None ELSE fdTable[f]]
        /\ UNCHANGED backlog
        /\ \A c \in Clients : ~(\E f \in Queued : fdTable[f] = c) => conn'[c] = conn[c]
    BY <1>6 DEF CleanupDrain, Queued
  <2>2. \A f \in Queued : f \in Fds
    BY <1>0, ElementOfSeq DEF Queued
  <2>3. \A f \in Fds : fdTable'[f] # None => /\ fdTable'[f] = fdTable[f]
                                               /\ conn'[fdTable[f]] = conn[fdTable[f]]
    BY <1>0, <2>1, <2>2 DEF ConnInv
  <2>4. \A i \in 1..Len(backlog) : conn'[backlog[i]] = conn[backlog[i]]
    <3>1. ASSUME NEW i \in 1..Len(backlog), NEW f \in Queued, fdTable[f] = backlog[i]
          PROVE  FALSE
      <4>1. f \in Fds /\ backlog[i] \in Clients
        BY <1>0, <2>2
      <4> QED BY <1>0, <3>1, <4>1 DEF ConnInv
    <3> QED BY <1>0, <2>1, <3>1
  <2> QED BY <2>1, <2>3, <2>4 DEF ConnInv
<1>7. CASE SignalExit \/ RaceCrash
  <2>1. Len(backlog') = 0 /\ \A f \in Fds : fdTable'[f] = None
    BY <1>7 DEF SignalExit, RaceCrash, ProcessEnds
  <2> QED BY <2>1 DEF ConnInv
<1>8. CASE UNCHANGED <<fdTable, backlog, conn>>
  BY <1>8 DEF ConnInv
<1>9. EnqueueLock \/ EnqueueNode \/ EnqueueTorn \/ EnqueueFails \/ EnqueuePost
      => UNCHANGED <<fdTable, backlog, conn>>
  BY DEF EnqueueLock, EnqueueNode, EnqueueTorn, EnqueueFails, EnqueuePost
<1>10. ASSUME NEW w \in Workers, WorkerLoop(w) \/ DequeueWait(w) \/ DequeueLock(w)
                                 \/ DequeueNode(w) \/ DequeueTorn(w) \/ DequeueEmpty(w)
       PROVE  UNCHANGED <<fdTable, backlog, conn>>
  BY <1>10 DEF WorkerLoop, DequeueWait, DequeueLock, DequeueNode, DequeueTorn, DequeueEmpty
<1>11. (\E t \in Threads : Signal(t)) \/ SignalStop \/ SignalPost \/ CleanupLock \/ CleanupDestroy
       \/ UNCHANGED vars
       => UNCHANGED <<fdTable, backlog, conn>>
  BY DEF Signal, SignalStop, SignalPost, CleanupLock, CleanupDestroy, vars
<1> QED
  BY <1>1, <1>2, <1>3, <1>4, <1>5, <1>6, <1>7, <1>8, <1>9, <1>10, <1>11
     DEF Next, MainStep, WorkerStep, HandlerStep

\* Steps that leave the kernel and the queue alone and change no holder.
LEMMA QuietHands ==
    ASSUME ServiceInv, UNCHANGED <<queue, fdTable, backlog, conn>>,
           \A t \in Threads : Holding(t)' => Holding(t) /\ fd'[t] = fd[t],
           \A w \in Workers : /\ pc'[w] = "send" => pc[w] = "send"
                              /\ pc'[w] = "close" => pc[w] = "close" \/ SendFails
    PROVE  AnswerInv' /\ LineInv' /\ MainInv'
<1>1. \A w \in Workers : pc'[w] \in {"send", "close"} => fd'[w] = fd[w]
  BY DEF Holding, Threads
<1>2. LineInv'
  BY DEF ServiceInv, LineInv, Queued
<1>3. AnswerInv'
  BY <1>1 DEF ServiceInv, AnswerInv
<1>4. MainInv'
  BY DEF ServiceInv, MainInv, Threads
<1> QED BY <1>2, <1>3, <1>4

\* A thread closes the descriptor in its hands.
LEMMA CloseHands ==
    ASSUME ServiceInv, NEW t \in Threads, Holding(t), ~Holding(t)', CloseFd(fd[t]),
           UNCHANGED queue,
           \A s \in Threads \ {t} : pc'[s] = pc[s] /\ fd'[s] = fd[s]
    PROVE  AnswerInv' /\ LineInv' /\ MainInv'
<1> DEFINE f == fd[t]
           c == fdTable[f]
<1>1. /\ f \in Fds \ Queued /\ c \in Clients /\ conn[c] \in {"accepted", "answered"}
      /\ \A s \in Threads \ {t} : Holding(s) => fd[s] # f /\ fdTable[fd[s]] # c /\ fd[s] \in Fds
      /\ \A g \in Fds \ {f} : fdTable[g] # c
  BY InHands
<1>2. /\ fdTable'[f] = None /\ \A g \in Fds \ {f} : fdTable'[g] = fdTable[g]
      /\ \A d \in Clients \ {c} : conn'[d] = conn[d]
      /\ UNCHANGED <<backlog, queue>>
  BY <1>1 DEF CloseFd, ServiceInv, TypeInv, TypeOK
<1> HIDE DEF f, c
<1>5. \A s \in Threads \ {t} : Holding(s) =>
         fdTable'[fd[s]] = fdTable[fd[s]] /\ conn'[fdTable[fd[s]]] = conn[fdTable[fd[s]]]
  <2>1. \A s \in Threads \ {t} : Holding(s) => fdTable[fd[s]] \in Clients
    BY InHands
  <2> QED BY <1>1, <1>2, <2>1
<1>6. AnswerInv'
  <2> SUFFICES ASSUME NEW w \in Workers
               PROVE  /\ pc'[w] = "send" => conn'[fdTable'[fd'[w]]] = "accepted"
                      /\ pc'[w] = "close" => conn'[fdTable'[fd'[w]]] = "answered" \/ SendFails
    BY DEF AnswerInv
  <2>1. CASE w = t
    BY <2>1 DEF Holding
  <2>2. CASE w # t
    <3>1. pc'[w] = pc[w] /\ fd'[w] = fd[w] /\ w \in Threads \ {t}
      BY <2>2 DEF Threads
    <3>2. pc[w] \in {"send", "close"} => Holding(w)
      BY DEF Holding
    <3> QED BY <1>5, <3>1, <3>2 DEF ServiceInv, AnswerInv
  <2> QED BY <2>1, <2>2
<1>7. LineInv'
  <2>1. Queued' = Queued
    BY <1>2 DEF Queued
  <2>2. \A g \in Queued : g \in Fds /\ g # f /\ fdTable[g] \in Clients
    BY <1>1, InLineOpen DEF Queued
  <2> QED BY <1>1, <1>2, <2>1, <2>2 DEF ServiceInv, LineInv
<1>8. MainInv'
  <2>1. CASE Main = t
    BY <2>1 DEF MainInv
  <2>2. CASE Main # t
    <3>1. pc'[Main] = pc[Main] /\ fd'[Main] = fd[Main] /\ Main \in Threads \ {t}
      BY <2>2 DEF Threads
    <3> QED BY <1>5, <3>1 DEF ServiceInv, MainInv, Holding
  <2> QED BY <2>1, <2>2
<1> QED BY <1>6, <1>7, <1>8

LEMMA ServiceInit == Init => RefinementInv
<1> SUFFICES ASSUME Init PROVE ServiceInv
  BY DEF RefinementInv, ServiceInv
<1>1. Len(queue) = 0 /\ Queued = {} /\ Len(backlog) = 0
  BY DEF Init, Queued
<1>2. \A t \in Threads : ~Holding(t)
  BY DEF Init, Holding
<1>3. CountsMatch
  <2>1. Taking = {} /\ Posting = 0
    BY QueueAssumption DEF Init, Taking, Posting, Threads
  <2>2. Cardinality(Taking) = 0
    BY <2>1, FS_EmptySet
  <2> QED BY <2>1, <2>2, QueueAssumption DEF Init, CountsMatch
<1>4. Owned
  BY <1>1, <1>2 DEF Init, Owned, QueuedOnce, HeldOnce, HeldNotQueued, OpenIffOwned
<1>5. ConnInv
  BY <1>1 DEF Init, ConnInv
<1>6. AnswerInv /\ LineInv /\ MainInv
  BY <1>1, <1>2 DEF AnswerInv, LineInv, MainInv, Holding, Threads
<1> QED BY <1>3, <1>4, <1>5, <1>6, TypeInit DEF ServiceInv

LEMMA ServiceInvNext == RefinementInv /\ [Next]_vars => RefinementInv'
<1> SUFFICES ASSUME ServiceInv, [Next]_vars, mutex # Torn, mutex' # Torn
             PROVE  AnswerInv' /\ LineInv' /\ MainInv'
  <2>1. ASSUME RefinementInv, [Next]_vars PROVE TypeInv' /\ ConnInv' /\ SemAccounting' /\ OneOwner'
    BY <2>1, TypeNext, ConnNext, SemNext, OwnerNext
       DEF RefinementInv, ServiceInv, SemAccounting, OneOwner
  <2>2. ASSUME RefinementInv, [Next]_vars, Intact' PROVE Intact
    BY <2>2, TornStays DEF RefinementInv, Intact
  <2> QED BY <2>1, <2>2 DEF RefinementInv, ServiceInv, Intact, SemAccounting, OneOwner
<1> USE QueueAssumption DEF Threads, queueVars, handlerVars, kernelVars
<1>0. /\ TypeOK /\ backlog \in Seq(Clients) /\ queue \in Seq(Fds)
      /\ \A f \in Fds : fdTable[f] \in Clients \cup {None}
      /\ None \notin Clients
  BY DEF ServiceInv, TypeInv, TypeOK
<1>1. ASSUME NEW c \in Clients, Connect(c)
      PROVE  AnswerInv' /\ LineInv' /\ MainInv'
  <2>1. /\ conn[c] = "new" /\ conn'[c] = "pending" /\ \A d \in Clients \ {c} : conn'[d] = conn[d]
        /\ backlog' = Append(backlog, c) /\ UNCHANGED <<pc, fd, queue, fdTable>>
    BY <1>1, <1>0 DEF Connect, TypeOK
  <2>6. \A t \in Threads : Holding(t) => fdTable[fd[t]] \in Clients \ {c}
    BY InHands, <2>1
  <2>7. AnswerInv' /\ MainInv'
    BY <2>1, <2>6 DEF ServiceInv, AnswerInv, MainInv, Holding
  <2>8. \A f \in Queued : fdTable[f] \in Clients \ {c}
    BY InLineOpen, <2>1 DEF Queued
  <2>9. LineInv'
    BY <2>1, <2>8 DEF ServiceInv, LineInv, Queued
  <2> QED BY <2>7, <2>9
<1>2. CASE Accept
  <2>1. PICK f \in FreeFds : /\ fdTable' = [fdTable EXCEPT ![f] = Head(backlog)]
                            /\ fd' = [fd EXCEPT ![Main] = f]
    BY <1>2 DEF Accept
  <2>2. PICK c \in Clients : /\ c = Head(backlog) /\ c = backlog[1] /\ Len(backlog) \in Nat \ {0}
                             /\ Len(backlog') = Len(backlog) - 1
                             /\ \A i \in 1..Len(backlog) - 1 : backlog'[i] = backlog[i + 1]
    <3>1. backlog # <<>> /\ backlog' = Tail(backlog)
      BY <1>2 DEF Accept
    <3>2. /\ Head(backlog) \in Clients /\ Head(backlog) = backlog[1] /\ Len(backlog) \in Nat \ {0}
          /\ Len(backlog') = Len(backlog) - 1
          /\ \A i \in 1..Len(backlog) - 1 : backlog'[i] = backlog[i + 1]
      BY <1>0, <3>1
    <3> QED BY <3>2
  <2>3. /\ f \in Fds /\ fdTable[f] = None /\ fdTable'[f] = c
        /\ \A g \in Fds \ {f} : fdTable'[g] = fdTable[g]
        /\ conn[c] = "pending" /\ conn'[c] = "accepted" /\ \A d \in Clients \ {c} : conn'[d] = conn[d]
        /\ fd'[Main] = f /\ UNCHANGED queue
        /\ \A w \in Workers : fd'[w] = fd[w] /\ pc'[w] = pc[w]
    BY <1>2, <1>0, <2>1, <2>2 DEF Accept, At, Goto, FreeFds, TypeOK, ServiceInv, ConnInv
  <2>4. \A g \in Fds : fdTable[g] # c
    BY <2>3 DEF ServiceInv, ConnInv
  <2>7. AnswerInv'
    <3>1. \A w \in Workers : Holding(w) => fd[w] \in Fds \ {f} /\ fdTable[fd[w]] \in Clients \ {c}
      BY InHands, <2>3, <2>4
    <3>2. \A w \in Workers : Holding(w) => /\ fdTable'[fd'[w]] = fdTable[fd[w]]
                                           /\ conn'[fdTable'[fd'[w]]] = conn[fdTable[fd[w]]]
      <4>1. \A w \in Workers : Holding(w) => /\ fd'[w] = fd[w] /\ fd[w] \in Fds \ {f}
                                             /\ fdTable[fd[w]] \in Clients \ {c}
        BY <2>3, <3>1
      <4>2. \A w \in Workers : Holding(w) => fdTable'[fd[w]] = fdTable[fd[w]]
        BY <2>3, <4>1
      <4>3. \A w \in Workers : Holding(w) => conn'[fdTable[fd[w]]] = conn[fdTable[fd[w]]]
        BY <2>3, <4>1
      <4> QED BY <4>1, <4>2, <4>3
    <3>3. \A w \in Workers : pc[w] \in {"send", "close"} => Holding(w)
      BY DEF Holding
    <3> QED BY <2>3, <3>2, <3>3 DEF ServiceInv, AnswerInv
  <2>8. LineInv'
    <3>1. \A g \in Queued : g \in Fds \ {f} /\ fdTable[g] \in Clients \ {c}
      BY InLineOpen, <2>3, <2>4 DEF Queued
    <3>2. Queued' = Queued
      BY <2>3 DEF Queued
    <3>3. \A g \in Queued : fdTable'[g] = fdTable[g] /\ conn'[fdTable[g]] = conn[fdTable[g]]
      BY <2>3, <3>1
    <3> QED BY <3>2, <3>3 DEF ServiceInv, LineInv
  <2>9. MainInv'
    BY <2>3 DEF MainInv
  <2> QED BY <2>7, <2>8, <2>9
<1>3. CASE EnqueueLock \/ EnqueueFails \/ EnqueuePost
  <2>1. UNCHANGED <<queue, fdTable, backlog, conn>>
    BY <1>3 DEF EnqueueLock, EnqueueFails, EnqueuePost
  <2>2. \A t \in Threads : Holding(t)' => Holding(t) /\ fd'[t] = fd[t]
    BY <1>3, <1>0 DEF EnqueueLock, EnqueueFails, EnqueuePost, Drop, At, Goto, Holding, TypeOK
  <2>3. \A w \in Workers : pc'[w] = pc[w]
    BY <1>3, <1>0 DEF EnqueueLock, EnqueueFails, EnqueuePost, Goto, TypeOK
  <2> QED BY <2>1, <2>2, <2>3, QuietHands
<1>4. CASE EnqueueNode
  <2>1. /\ Holding(Main) /\ ~Holding(Main)' /\ UNCHANGED <<fd, fdTable, backlog, conn>>
        /\ \A w \in Workers : pc'[w] = pc[w]
        /\ queue' = Append(queue, fd[Main])
    BY <1>4, <1>0 DEF EnqueueNode, At, Goto, Holding, TypeOK
  <2>2. Queued' = Queued \cup {fd[Main]}
    <3>1. fd[Main] \in Fds
      BY <2>1, InHands
    <3>2. /\ Len(queue') = Len(queue) + 1
          /\ \A i \in 1..Len(queue) : queue'[i] = queue[i]
          /\ queue'[Len(queue) + 1] = fd[Main]
          /\ Len(queue) \in Nat
      BY <1>0, <2>1, <3>1, QueuedAppend
    <3> QED BY <3>2 DEF Queued
  <2>3. AnswerInv' /\ MainInv'
    BY <2>1 DEF ServiceInv, AnswerInv, MainInv
  <2>4. LineInv'
    BY <2>1, <2>2 DEF ServiceInv, LineInv, MainInv
  <2> QED BY <2>3, <2>4
<1>5. CASE RejectClient
  <2>1. /\ Holding(Main) /\ ~Holding(Main)' /\ CloseFd(fd[Main]) /\ UNCHANGED queue
        /\ \A s \in Threads \ {Main} : pc'[s] = pc[s] /\ fd'[s] = fd[s]
    BY <1>5, <1>0 DEF RejectClient, Drop, At, Goto, Holding, TypeOK
  <2> QED BY <2>1, CloseHands
<1>6. ASSUME NEW w \in Workers,
             WorkerLoop(w) \/ DequeueWait(w) \/ DequeueLock(w) \/ DequeueEmpty(w)
      PROVE  AnswerInv' /\ LineInv' /\ MainInv'
  <2>1. UNCHANGED <<fd, queue, fdTable, backlog, conn>>
    BY <1>6 DEF WorkerLoop, DequeueWait, DequeueLock, DequeueEmpty
  <2>2. \A t \in Threads : /\ Holding(t)' => Holding(t)
                           /\ pc'[t] = "send" => pc[t] = "send"
                           /\ pc'[t] = "close" => pc[t] = "close"
    BY <1>6, <1>0 DEF WorkerLoop, DequeueWait, DequeueLock, DequeueEmpty, At, Goto, Holding, TypeOK
  <2> QED BY <2>1, <2>2, QuietHands
<1>7. ASSUME NEW w \in Workers, DequeueNode(w)
      PROVE  AnswerInv' /\ LineInv' /\ MainInv'
  <2>1. PICK f \in Fds : f = Head(queue) /\ f \in Queued /\ Queued' \subseteq Queued
    <3>1. queue # <<>> /\ queue' = Tail(queue)
      BY <1>7 DEF DequeueNode
    <3>2. /\ Head(queue) = queue[1] /\ Len(queue) \in Nat \ {0} /\ Head(queue) \in Fds
          /\ Len(queue') = Len(queue) - 1
          /\ \A i \in 1..Len(queue) - 1 : queue'[i] = queue[i + 1]
      BY <1>0, <3>1, QueuedTail
    <3>3. /\ 1 \in 1..Len(queue)
          /\ \A i \in 1..Len(queue') : i \in 1..Len(queue) - 1 /\ i + 1 \in 1..Len(queue)
      BY <3>2
    <3>4. Head(queue) \in Queued
      BY <3>2, <3>3 DEF Queued
    <3>5. \A i \in 1..Len(queue') : queue'[i] \in Queued
      BY <3>2, <3>3 DEF Queued
    <3> QED BY <3>2, <3>4, <3>5 DEF Queued
  <2>2. /\ fd'[w] = f /\ pc'[w] = "send" /\ UNCHANGED <<fdTable, backlog, conn>>
        /\ \A t \in Threads \ {w} : fd'[t] = fd[t] /\ pc'[t] = pc[t]
    BY <1>7, <1>0, <2>1 DEF DequeueNode, Goto, TypeOK
  <2>3. LineInv'
    BY <2>1, <2>2 DEF ServiceInv, LineInv
  <2>4. MainInv'
    BY <2>2 DEF ServiceInv, MainInv, Holding
  <2>5. AnswerInv'
    <3>1. conn'[fdTable'[fd'[w]]] = "accepted"
      BY <2>1, <2>2 DEF ServiceInv, LineInv
    <3>2. \A v \in Workers \ {w} : fd'[v] = fd[v] /\ pc'[v] = pc[v]
      BY <2>2
    <3> QED BY <2>2, <3>1, <3>2 DEF ServiceInv, AnswerInv
  <2> QED BY <2>3, <2>4, <2>5
<1>8. ASSUME NEW w \in Workers, HandleSend(w)
      PROVE  AnswerInv' /\ LineInv' /\ MainInv'
  <2>1. /\ Holding(w) /\ pc[w] = "send" /\ pc'[w] = "close" /\ UNCHANGED <<fd, queue, fdTable, backlog>>
        /\ \A t \in Threads \ {w} : pc'[t] = pc[t]
    BY <1>8, <1>0 DEF HandleSend, At, Goto, Holding, TypeOK
  <2>2. PICK c \in Clients : /\ c = fdTable[fd[w]] /\ conn[c] = "accepted"
                             /\ \A t \in Threads \ {w} : Holding(t) => fdTable[fd[t]] # c
                             /\ \A g \in Fds \ {fd[w]} : fdTable[g] # c
                             /\ fd[w] \in Fds \ Queued
    BY <2>1, InHands DEF ServiceInv, AnswerInv
  <2>3. /\ \A d \in Clients \ {c} : conn'[d] = conn[d]
        /\ conn'[c] = "answered" \/ (SendFails /\ conn'[c] = "accepted")
    BY <1>8, <1>0, <2>2 DEF HandleSend, TypeOK
  <2>5. LineInv'
    <3>1. \A g \in Queued : g \in Fds /\ fdTable[g] \in Clients
      BY InLineOpen DEF Queued
    <3>2. \A g \in Queued : fdTable[g] \in Clients \ {c}
      BY <2>2, <3>1
    <3>3. Queued' = Queued
      BY <2>1 DEF Queued
    <3> QED BY <2>1, <2>3, <3>2, <3>3 DEF ServiceInv, LineInv
  <2>6. \A t \in Threads \ {w} : Holding(t) => fdTable[fd[t]] \in Clients \ {c}
    BY InHands, <2>2
  <2>7. AnswerInv'
    BY <2>1, <2>2, <2>3, <2>6 DEF ServiceInv, AnswerInv, Holding
  <2>8. MainInv'
    BY <2>1, <2>3, <2>6 DEF ServiceInv, MainInv, Holding
  <2> QED BY <2>5, <2>7, <2>8
<1>9. ASSUME NEW w \in Workers, HandleClose(w)
      PROVE  AnswerInv' /\ LineInv' /\ MainInv'
  <2>1. /\ Holding(w) /\ ~Holding(w)' /\ CloseFd(fd[w]) /\ UNCHANGED queue
        /\ \A s \in Threads \ {w} : pc'[s] = pc[s] /\ fd'[s] = fd[s]
    BY <1>9, <1>0 DEF HandleClose, Drop, At, Goto, Holding, TypeOK
  <2> QED BY <2>1, CloseHands
<1>10. CASE (\E t \in Threads : Signal(t)) \/ SignalStop \/ SignalPost \/ CleanupLock
            \/ CleanupDestroy
  BY <1>10, QuietHands DEF Signal, SignalStop, SignalPost, CleanupLock, CleanupDestroy, Holding
<1>11. CASE CleanupDrain
  <2>1. /\ fdTable' = [f \in Fds |-> IF f \in Queued THEN None ELSE fdTable[f]]
        /\ UNCHANGED <<pc, fd, backlog>> /\ queue' = <<>>
        /\ \A c \in Clients : ~(\E f \in Queued : fdTable[f] = c) => conn'[c] = conn[c]
    BY <1>11 DEF CleanupDrain, Queued
  <2>2. Queued' = {}
    BY <2>1 DEF Queued
  <2>3. \A f \in Queued : f \in Fds /\ fdTable[f] \in Clients /\ conn[fdTable[f]] = "accepted"
    BY InLineOpen DEF Queued
  <2>4. \A t \in Threads : Holding(t) => /\ fd[t] \in Fds \ Queued /\ fdTable[fd[t]] \in Clients
                                         /\ \A f \in Queued : fdTable[f] # fdTable[fd[t]]
    <3>1. \A t \in Threads : Holding(t) => /\ fd[t] \in Fds \ Queued /\ fdTable[fd[t]] \in Clients
                                           /\ \A f \in Fds \ {fd[t]} : fdTable[f] # fdTable[fd[t]]
      BY InHands
    <3> QED BY <2>3, <3>1
  <2>5. \A t \in Threads : Holding(t) => /\ fdTable'[fd[t]] = fdTable[fd[t]]
                                         /\ conn'[fdTable[fd[t]]] = conn[fdTable[fd[t]]]
    BY <2>1, <2>4
  <2>6. AnswerInv' /\ MainInv'
    <3>1. \A w \in Workers : w \in Threads /\ (pc[w] \in {"send", "close"} => Holding(w))
      BY DEF Holding
    <3>2. AnswerInv'
      BY <2>1, <2>5, <3>1 DEF ServiceInv, AnswerInv
    <3>3. MainInv'
      BY <2>1, <2>5 DEF ServiceInv, MainInv, Holding
    <3> QED BY <3>2, <3>3
  <2>7. LineInv'
    BY <2>2 DEF LineInv
  <2> QED BY <2>6, <2>7
<1>12. CASE SignalExit
  <2>1. (\A w \in Threads : pc'[w] = "dead") /\ Queued' = {}
    BY <1>12 DEF SignalExit, ProcessEnds, Queued
  <2> QED BY <2>1 DEF AnswerInv, LineInv, MainInv, Holding
<1>14. CASE EnqueueTorn \/ RaceCrash \/ \E w \in Workers : DequeueTorn(w)
  BY <1>14 DEF EnqueueTorn, RaceCrash, ProcessEnds, DequeueTorn, Unlock
<1>13. CASE UNCHANGED vars
  BY <1>13, QuietHands DEF vars, Holding
<1> QED
  BY <1>1, <1>2, <1>3, <1>4, <1>5, <1>6, <1>7, <1>8, <1>9, <1>10, <1>11, <1>12, <1>13, <1>14
     DEF Next, MainStep, WorkerStep, HandlerStep
-----------------------------------------------------------------------------
(* The mapping *)

\* What Service substitutes for the variables of TimeService.
Busy == {v \in Workers : pc[v] \in {"send", "close"}}
Waiting == [i \in 1..Len(queue) |-> fdTable[queue[i]]]
Serving == {fdTable[fd[w]] : w \in Busy}
Answered == {c \in Clients : conn[c] \in {"answered", "served"}}
Gone == {c \in Clients : conn[c] \in {"served", "refused"}}
MappedVars == <<Waiting, Serving, Answered, Gone>>

\* The client of a descriptor that one thread holds is nowhere else.
LEMMA HeldAlone ==
    ASSUME ServiceInv, NEW t \in Threads, Holding(t)
    PROVE  /\ \A i \in 1..Len(queue) : fdTable[queue[i]] # fdTable[fd[t]]
           /\ t \notin Busy => fdTable[fd[t]] \notin Serving
           /\ fdTable[fd[t]] \in Clients \ Gone
<1>1. \A i \in 1..Len(queue) : fdTable[queue[i]] # fdTable[fd[t]]
  BY InLineOpen
<1>2. \A w \in Busy : w \in Threads /\ Holding(w)
  BY DEF Busy, Threads, Holding
<1>3. t \notin Busy => fdTable[fd[t]] \notin Serving
  BY <1>2, InHands DEF Serving
<1> QED BY <1>1, <1>3, InHands DEF Gone

LEMMA WaitingSeq ==
    ASSUME ServiceInv
    PROVE  Waiting \in Seq(Clients)
<1>1. \A i \in 1..Len(queue) : fdTable[queue[i]] \in Clients
  BY InLineOpen
<1>2. Len(queue) \in Nat
  BY DEF ServiceInv, TypeInv, TypeOK
<1> QED BY <1>1, <1>2 DEF Waiting

LEMMA SameWaiting ==
    ASSUME UNCHANGED queue, \A i \in 1..Len(queue) : fdTable'[queue[i]] = fdTable[queue[i]]
    PROVE  Waiting' = Waiting
  BY DEF Waiting

LEMMA SameServing ==
    ASSUME \A w \in Workers : pc'[w] \in {"send", "close"} <=> pc[w] \in {"send", "close"},
           \A w \in Busy : fdTable'[fd'[w]] = fdTable[fd[w]]
    PROVE  Serving' = Serving
<1>1. Busy' = Busy
  BY DEF Busy
<1> QED BY <1>1 DEF Serving

\* The steps that leave the queue, the descriptors and the connections alone
\* and move no worker in or out of handle_client.
LEMMA Quiet ==
    ASSUME UNCHANGED <<queue, fdTable, conn>>,
           \A w \in Workers : pc'[w] \in {"send", "close"} <=> pc[w] \in {"send", "close"},
           \A w \in Busy : fd'[w] = fd[w]
    PROVE  UNCHANGED MappedVars
<1>1. Waiting' = Waiting
  BY SameWaiting
<1>2. Serving' = Serving
  BY SameServing
<1> QED BY <1>1, <1>2 DEF MappedVars, Answered, Gone

\* Connecting and being accepted are not visible in the service: a client is in
\* it once it is queued.
LEMMA ArrivalStutters ==
    ASSUME ServiceInv, Accept \/ \E c \in Clients : Connect(c)
    PROVE  UNCHANGED MappedVars
<1> USE QueueAssumption DEF Threads, queueVars, handlerVars, kernelVars
<1>0. TypeOK
  BY DEF ServiceInv, TypeInv
<1>1. CASE \E c \in Clients : Connect(c)
  <2>1. PICK c \in Clients : Connect(c)
    BY <1>1
  <2>2. UNCHANGED <<pc, fd, queue, fdTable>>
    BY <2>1 DEF Connect
  <2>3. Waiting' = Waiting /\ Serving' = Serving
    BY <2>2 DEF Waiting, Serving, Busy
  <2>4. conn[c] = "new" /\ conn'[c] = "pending" /\ \A d \in Clients \ {c} : conn'[d] = conn[d]
    BY <1>0, <2>1 DEF Connect, TypeOK
  <2>5. Answered' = Answered /\ Gone' = Gone
    BY <2>4 DEF Answered, Gone
  <2> QED BY <2>3, <2>5 DEF MappedVars
<1>2. CASE Accept
  <2>1. PICK f \in FreeFds : /\ fdTable' = [fdTable EXCEPT ![f] = Head(backlog)]
                            /\ fd' = [fd EXCEPT ![Main] = f]
    BY <1>2 DEF Accept
  <2>2. PICK c \in Clients : c = Head(backlog) /\ conn[c] = "pending"
    <3>1. backlog # <<>> /\ backlog \in Seq(Clients)
      BY <1>0, <1>2 DEF Accept, TypeOK
    <3>2. Head(backlog) = backlog[1] /\ Head(backlog) \in Clients /\ 1 \in 1..Len(backlog)
      BY <3>1
    <3> QED BY <3>2 DEF ServiceInv, ConnInv
  <2>3. /\ f \in Fds /\ fdTable[f] = None /\ UNCHANGED queue
        /\ \A g \in Fds \ {f} : fdTable'[g] = fdTable[g]
        /\ conn'[c] = "accepted" /\ \A d \in Clients \ {c} : conn'[d] = conn[d]
        /\ \A w \in Workers : fd'[w] = fd[w] /\ pc'[w] = pc[w]
    BY <1>0, <1>2, <2>1, <2>2 DEF Accept, Goto, FreeFds, TypeOK
  <2>4. None \notin Clients
    OBVIOUS
  <2>5. \A i \in 1..Len(queue) : queue[i] \in Fds \ {f}
    BY InLineOpen, <2>3, <2>4
  <2>6. Waiting' = Waiting
    BY <2>3, <2>5, SameWaiting
  <2>7. \A w \in Busy : w \in Workers /\ Holding(w)
    BY DEF Busy, Holding
  <2>8. \A w \in Busy : fd'[w] = fd[w] /\ fd[w] \in Fds \ {f}
    BY <2>3, <2>4, <2>7, InHands
  <2>9. \A w \in Busy : fdTable'[fd'[w]] = fdTable[fd[w]]
    BY <2>3, <2>8
  <2>10. Serving' = Serving
    BY <2>3, <2>9, SameServing
  <2>11. Answered' = Answered /\ Gone' = Gone
    BY <2>2, <2>3 DEF Answered, Gone
  <2> QED BY <2>6, <2>10, <2>11 DEF MappedVars
<1> QED BY <1>1, <1>2
LEMMA EnqueueAdmits ==
    ASSUME ServiceInv, EnqueueNode, NEW c, c = fdTable[fd[Main]]
    PROVE  Service!Admit(c)
<1> USE QueueAssumption DEF Threads, queueVars, handlerVars, kernelVars
<1>0. TypeOK /\ queue \in Seq(Fds) /\ Holding(Main) /\ Main \in Threads /\ Main \notin Busy
  BY DEF ServiceInv, TypeInv, TypeOK, EnqueueNode, At, Holding, Busy
<1>1. /\ fd[Main] \in Fds /\ c \in Clients \ Gone /\ c \notin Serving
      /\ \A i \in 1..Len(queue) : fdTable[queue[i]] # c
  BY <1>0, HeldAlone, InHands
<1>2. UNCHANGED <<fd, fdTable, conn>> /\ queue' = Append(queue, fd[Main]) /\ Len(queue) < Capacity
      /\ Len(queue) \in Nat
  BY <1>0 DEF EnqueueNode, ServiceInv, CountsMatch
<1>3. /\ Len(queue') = Len(queue) + 1 /\ queue'[Len(queue) + 1] = fd[Main]
      /\ \A i \in 1..Len(queue) : queue'[i] = queue[i]
  BY <1>0, <1>1, <1>2, QueuedAppend
<1>4. Serving' = Serving /\ Answered' = Answered /\ Gone' = Gone
  <2>1. \A w \in Workers : pc'[w] = pc[w]
    BY <1>0 DEF EnqueueNode, Goto, TypeOK
  <2> QED BY <1>2, <2>1 DEF Serving, Busy, Answered, Gone
<1>5. Len(Waiting) = Len(queue) /\ \A i \in 1..Len(queue) : Waiting[i] = fdTable[queue[i]]
  BY <1>2 DEF Waiting
<1>6. Waiting' = Append(Waiting, c)
  <2>1. Waiting' = [i \in 1..Len(queue) + 1 |-> fdTable[queue'[i]]]
    BY <1>2, <1>3 DEF Waiting
  <2>2. Waiting \in Seq(Clients)
    BY WaitingSeq
  <2>3. \A i \in 1..Len(queue) + 1 : fdTable[queue'[i]] = IF i = Len(queue) + 1 THEN c ELSE Waiting[i]
    BY <1>2, <1>3, <1>5
  <2>4. \A i \in 1..Len(queue) : Waiting[i] \in Clients
    BY <1>5, <2>2, ElementOfSeq
  <2>5. Waiting' \in Seq(Clients) /\ Len(Waiting') = Len(queue) + 1
        /\ \A i \in 1..Len(queue) + 1 : Waiting'[i] = IF i = Len(queue) + 1 THEN c ELSE Waiting[i]
    <3>1. Waiting' \in [1..Len(queue) + 1 -> Clients]
      BY <1>1, <1>2, <2>1, <2>3, <2>4
    <3> QED BY <1>2, <2>1, <2>3, <3>1
  <2>6. Append(Waiting, c) \in Seq(Clients) /\ Len(Append(Waiting, c)) = Len(queue) + 1
        /\ \A i \in 1..Len(queue) + 1 : Append(Waiting, c)[i] = IF i = Len(queue) + 1 THEN c ELSE Waiting[i]
      <3> QED BY <1>1, <1>2, <1>5, <2>2, AppendProperties
  <2> QED BY <1>2, <2>5, <2>6, SeqEqual
<1>7. ~Service!InLine(c)
  BY <1>1, <1>5 DEF Service!InLine, Waiting
<1> QED BY <1>1, <1>2, <1>4, <1>5, <1>6, <1>7 DEF Service!Admit, Waiting, Serving, Busy, Answered, Gone

LEMMA RejectRefuses ==
    ASSUME ServiceInv, RejectClient, NEW c, c = fdTable[fd[Main]]
    PROVE  Service!Refuse(c)
<1> USE QueueAssumption DEF Threads, queueVars, handlerVars, kernelVars
<1>0. TypeOK /\ queue \in Seq(Fds) /\ Holding(Main) /\ Main \in Threads /\ Main \notin Busy
  BY DEF ServiceInv, TypeInv, TypeOK, RejectClient, At, Holding, Busy
<1>1. /\ fd[Main] \in Fds \ Queued /\ c \in Clients \ Gone /\ c \notin Serving
      /\ \A i \in 1..Len(queue) : fdTable[queue[i]] # c
      /\ conn[c] = "accepted"
  BY <1>0, HeldAlone, InHands DEF ServiceInv, MainInv
<1>2. /\ UNCHANGED queue
      /\ \A g \in Fds \ {fd[Main]} : fdTable'[g] = fdTable[g]
      /\ conn'[c] = "refused" /\ \A d \in Clients \ {c} : conn'[d] = conn[d]
      /\ \A w \in Workers : pc'[w] = pc[w] /\ fd'[w] = fd[w]
  BY <1>0, <1>1 DEF RejectClient, CloseFd, Ended, Goto, Drop, TypeOK
<1>3. Waiting' = Waiting
  <2>1. \A i \in 1..Len(queue) : queue[i] \in Fds \ {fd[Main]}
    BY <1>1, InLineOpen
  <2> QED BY <1>2, <2>1, SameWaiting
<1>4. Serving' = Serving
  <2>1. \A w \in Busy : w \in Workers /\ Holding(w) /\ w # Main
    BY DEF Busy, Holding
  <2>2. \A w \in Busy : fd[w] \in Fds \ {fd[Main]}
    BY <1>0, <2>1, InHands
  <2> QED BY <1>2, <2>1, <2>2, SameServing
<1>5. Answered' = Answered /\ Gone' = Gone \cup {c}
  BY <1>1, <1>2 DEF Answered, Gone
<1>6. ~Service!InLine(c)
  <2>1. Len(Waiting) = Len(queue) /\ \A i \in 1..Len(queue) : Waiting[i] = fdTable[queue[i]]
    BY <1>0 DEF Waiting
  <2> QED BY <1>1, <2>1 DEF Service!InLine, Waiting
<1> QED BY <1>1, <1>3, <1>4, <1>5, <1>6 DEF Service!Refuse, Waiting, Serving, Busy, Answered, Gone

\* Fewer clients are being served than there are workers when one is free.
LEMMA FreeWorker ==
    ASSUME NEW w \in Workers \ Busy
    PROVE  Cardinality(Serving) < Cardinality(Workers)
<1> DEFINE f == [v \in Busy |-> fdTable[fd[v]]]
<1>1. IsFiniteSet(Busy) /\ Cardinality(Busy) <= Cardinality(Workers \ {w})
      /\ Cardinality(Workers \ {w}) = Cardinality(Workers) - 1
  <2>1. IsFiniteSet(Workers \ {w}) /\ Cardinality(Workers \ {w}) = Cardinality(Workers) - 1
    BY QueueAssumption, FS_RemoveElement
  <2>2. Busy \in SUBSET (Workers \ {w})
    BY DEF Busy
  <2> QED BY <2>1, <2>2, FS_Subset
<1>2. f \in Surjection(Busy, Serving)
  BY DEF Surjection, Serving
<1>3. IsFiniteSet(Serving) /\ Cardinality(Serving) <= Cardinality(Busy)
  BY <1>1, <1>2, FS_Surjection
<1>4. /\ Cardinality(Serving) \in Nat /\ Cardinality(Busy) \in Nat
      /\ Cardinality(Workers) \in Nat
  BY <1>1, <1>3, QueueAssumption, FS_CardinalityType
<1> QED BY <1>1, <1>3, <1>4
LEMMA DequeueStarts ==
    ASSUME ServiceInv, NEW w \in Workers, DequeueNode(w)
    PROVE  Service!Start
<1> USE QueueAssumption DEF Threads, queueVars, handlerVars, kernelVars
<1>0. TypeOK /\ queue \in Seq(Fds) /\ queue # <<>> /\ queue' = Tail(queue) /\ w \notin Busy
  BY DEF ServiceInv, TypeInv, TypeOK, DequeueNode, At, Busy
<1>1. /\ Len(queue) \in Nat \ {0} /\ Head(queue) = queue[1] /\ Len(queue') = Len(queue) - 1
      /\ \A i \in 1..Len(queue) - 1 : queue'[i] = queue[i + 1]
  BY <1>0, QueuedTail
<1>2. 1 \in 1..Len(queue) /\ fdTable[queue[1]] \in Clients
  BY <1>1, InLineOpen
<1>3. /\ UNCHANGED <<fdTable, conn>> /\ fd'[w] = queue[1] /\ pc'[w] = "send"
      /\ \A v \in Workers \ {w} : fd'[v] = fd[v] /\ pc'[v] = pc[v]
  <2>1. fd' = [fd EXCEPT ![w] = queue[1]]
    BY <1>1 DEF DequeueNode
  <2> QED BY <1>0, <2>1 DEF DequeueNode, Goto, TypeOK
<1>4. /\ Waiting \in Seq(Clients) /\ Len(Waiting) = Len(queue)
      /\ \A i \in 1..Len(queue) : Waiting[i] = fdTable[queue[i]]
  BY <1>1, WaitingSeq DEF Waiting
<1>5. Waiting # <<>> /\ Head(Waiting) = fdTable[queue[1]]
  BY <1>1, <1>2, <1>4
<1>6. Waiting' = Tail(Waiting)
  <2>1. /\ Len(Tail(Waiting)) = Len(queue) - 1 /\ Tail(Waiting) \in Seq(Clients)
        /\ \A i \in 1..Len(queue) - 1 : Tail(Waiting)[i] = fdTable[queue[i + 1]]
    BY <1>1, <1>4, <1>5
  <2>2. Waiting' = [i \in 1..Len(queue) - 1 |-> fdTable[queue'[i]]]
    BY <1>1, <1>3 DEF Waiting
  <2>3. \A i \in 1..Len(queue) - 1 : fdTable[queue'[i]] = Tail(Waiting)[i]
    BY <1>1, <2>1
  <2>4. /\ Waiting' \in Seq(Clients) /\ Len(Waiting') = Len(queue) - 1
        /\ \A i \in 1..Len(queue) - 1 : Waiting'[i] = Tail(Waiting)[i]
    <3>1. Len(queue) - 1 \in Nat /\ \A i \in 1..Len(queue) - 1 : Tail(Waiting)[i] \in Clients
      BY <1>1, <2>1, ElementOfSeq
    <3>2. Waiting' \in [1..Len(queue) - 1 -> Clients]
      BY <2>2, <2>3, <3>1
    <3>3. Waiting' \in Seq(Clients) /\ Len(Waiting') = Len(queue) - 1
      BY <2>2, <3>1, <3>2
    <3> QED BY <2>2, <2>3, <3>3
  <2> QED BY <2>1, <2>4, SeqEqual
<1>7. Serving' = Serving \cup {fdTable[queue[1]]}
  <2>1. Busy' = Busy \cup {w}
    BY <1>3 DEF Busy
  <2>2. \A v \in Busy : fd'[v] = fd[v]
    BY <1>0, <1>3 DEF Busy
  <2> QED BY <1>3, <2>1, <2>2 DEF Serving
<1>8. Cardinality(Serving) < Cardinality(Workers)
  BY <1>0, FreeWorker
<1>9. Answered' = Answered /\ Gone' = Gone
  BY <1>3 DEF Answered, Gone
<1>10. Service!Cardinality(Serving) = Cardinality(Serving)
  BY DEF Service!Cardinality, Cardinality
<1> QED BY <1>5, <1>6, <1>7, <1>8, <1>9, <1>10 DEF Service!Start, Waiting, Serving, Busy, Answered, Gone

LEMMA SendAnswers ==
    ASSUME ServiceInv, NEW w \in Workers, HandleSend(w), NEW c, c = fdTable[fd[w]]
    PROVE  UNCHANGED MappedVars \/ Service!Answer(c)
<1> USE QueueAssumption DEF Threads, queueVars, handlerVars, kernelVars
<1>0. TypeOK /\ w \in Threads /\ Holding(w) /\ w \in Busy /\ pc[w] = "send"
  BY DEF ServiceInv, TypeInv, HandleSend, At, Holding, Busy
<1>1. c \in Clients /\ conn[c] = "accepted"
  BY <1>0, InHands DEF ServiceInv, AnswerInv
<1>2. /\ UNCHANGED <<fd, queue, fdTable>>
      /\ \A v \in Workers : pc'[v] \in {"send", "close"} <=> pc[v] \in {"send", "close"}
  BY <1>0 DEF HandleSend, Goto, TypeOK
<1>3. Waiting' = Waiting /\ Serving' = Serving
  BY <1>2, SameWaiting, SameServing
<1>4. CASE UNCHANGED conn
  BY <1>2, <1>4, Quiet
<1>5. CASE conn' = [conn EXCEPT ![c] = "answered"]
  <2>1. conn'[c] = "answered" /\ \A d \in Clients \ {c} : conn'[d] = conn[d]
    BY <1>0, <1>1, <1>5 DEF TypeOK
  <2>2. Answered' = Answered \cup {c} /\ Gone' = Gone /\ c \notin Answered
    BY <1>1, <2>1 DEF Answered, Gone
  <2>3. c \in Serving
    BY <1>0 DEF Serving
  <2> QED BY <1>3, <2>2, <2>3 DEF Service!Answer, Waiting, Serving, Busy, Answered, Gone
<1> QED BY <1>4, <1>5 DEF HandleSend

LEMMA CloseFinishes ==
    ASSUME ServiceInv, NEW w \in Workers, HandleClose(w), NEW c, c = fdTable[fd[w]]
    PROVE  Service!Finish(c)
<1> USE QueueAssumption DEF Threads, queueVars, handlerVars, kernelVars
<1>0. TypeOK /\ w \in Threads /\ Holding(w) /\ w \in Busy /\ pc[w] = "close"
  BY DEF ServiceInv, TypeInv, HandleClose, At, Holding, Busy
<1>1. /\ fd[w] \in Fds \ Queued /\ c \in Clients /\ conn[c] \in {"accepted", "answered"}
      /\ conn[c] = "answered" \/ SendFails
      /\ \A v \in Threads \ {w} : Holding(v) => fd[v] \in Fds \ {fd[w]} /\ fdTable[fd[v]] # c
  <2>1. \A v \in Threads : Holding(v) => fd[v] \in Fds
    BY InHands
  <2> QED BY <1>0, <2>1, InHands DEF ServiceInv, AnswerInv
<1>2. /\ UNCHANGED queue
      /\ \A g \in Fds \ {fd[w]} : fdTable'[g] = fdTable[g]
      /\ conn'[c] = Ended(conn[c]) /\ \A d \in Clients \ {c} : conn'[d] = conn[d]
      /\ pc'[w] = "loop" /\ \A v \in Workers \ {w} : pc'[v] = pc[v] /\ fd'[v] = fd[v]
  BY <1>0, <1>1 DEF HandleClose, CloseFd, Goto, Drop, TypeOK
<1>3. Waiting' = Waiting
  <2>1. \A i \in 1..Len(queue) : queue[i] \in Fds \ {fd[w]}
    BY <1>1, InLineOpen
  <2> QED BY <1>2, <2>1, SameWaiting
<1>4. Serving' = Serving \ {c}
  <2>1. Busy' = Busy \ {w}
    BY <1>2 DEF Busy
  <2>2. \A v \in Busy \ {w} : v \in Threads \ {w} /\ v \in Workers \ {w} /\ Holding(v)
    BY DEF Busy, Holding
  <2>3. \A v \in Busy \ {w} : fd'[v] = fd[v] /\ fd[v] \in Fds \ {fd[w]} /\ fdTable[fd[v]] # c
    BY <1>1, <1>2, <2>2
  <2>4. \A v \in Busy \ {w} : fdTable'[fd'[v]] = fdTable[fd[v]]
    BY <1>2, <2>3
  <2>5. Serving' = {fdTable[fd[v]] : v \in Busy \ {w}}
    BY <2>1, <2>4 DEF Serving
  <2>6. Serving = {fdTable[fd[v]] : v \in Busy \ {w}} \cup {c}
    BY <1>0 DEF Serving
  <2>7. c \notin {fdTable[fd[v]] : v \in Busy \ {w}}
    BY <2>3
  <2> QED BY <2>5, <2>6, <2>7
<1>5. Answered' = Answered /\ Gone' = Gone \cup {c}
  BY <1>1, <1>2 DEF Answered, Gone, Ended
<1>6. c \in Serving /\ (c \in Answered \/ SendFails)
  BY <1>0, <1>1 DEF Serving, Answered
<1> QED BY <1>3, <1>4, <1>5, <1>6 DEF Service!Finish, Waiting, Serving, Busy, Answered, Gone

LEMMA DrainAbandons ==
    ASSUME ServiceInv, CleanupDrain
    PROVE  Service!Abandon
<1> USE QueueAssumption DEF Threads, queueVars, handlerVars, kernelVars
<1>0. TypeOK /\ queue \in Seq(Fds) /\ Len(queue) \in Nat
  BY DEF ServiceInv, TypeInv, TypeOK
<1>1. /\ fdTable' = [f \in Fds |-> IF f \in Queued THEN None ELSE fdTable[f]]
      /\ conn' = [c \in Clients |->
                     IF \E f \in Queued : fdTable[f] = c THEN Ended(conn[c]) ELSE conn[c]]
      /\ queue' = <<>> /\ UNCHANGED <<pc, fd>>
  BY DEF CleanupDrain, Queued
<1>2. \A f \in Queued : f \in Fds /\ fdTable[f] \in Clients /\ conn[fdTable[f]] = "accepted"
  BY InLineOpen DEF Queued
<1>3. Waiting' = <<>>
  BY <1>1 DEF Waiting
<1>4. Serving' = Serving
  <2>1. \A w \in Busy : w \in Threads /\ Holding(w)
    BY DEF Busy, Holding
  <2>2. \A w \in Busy : fd[w] \in Fds \ Queued
    BY <2>1, InHands
  <2> QED BY <1>1, <2>2, SameServing
<1>5. {Waiting[i] : i \in 1..Len(Waiting)} = {fdTable[f] : f \in Queued}
  <2>1. Len(Waiting) = Len(queue) /\ \A i \in 1..Len(queue) : Waiting[i] = fdTable[queue[i]]
    BY <1>0 DEF Waiting
  <2> QED BY <2>1 DEF Queued
<1>6. Answered' = Answered /\ Gone' = Gone \cup {fdTable[f] : f \in Queued}
  <2>1. \A c \in Clients : conn'[c] = IF c \in {fdTable[f] : f \in Queued} THEN "refused" ELSE conn[c]
    BY <1>1, <1>2 DEF Ended
  <2>2. \A c \in {fdTable[f] : f \in Queued} : c \in Clients /\ conn[c] = "accepted"
    BY <1>2
  <2> HIDE DEF Queued
  <2> QED BY <2>1, <2>2 DEF Answered, Gone
<1>7. Gone' = Gone \cup {Waiting[i] : i \in 1..Len(Waiting)}
  BY <1>5, <1>6
<1> QED BY <1>3, <1>4, <1>6, <1>7 DEF Service!Abandon, Waiting, Serving, Busy, Answered, Gone

LEMMA ExitStopsService ==
    ASSUME ServiceInv, SignalExit
    PROVE  Service!Stop
<1> USE QueueAssumption DEF Threads
<1>0. TypeOK
  BY DEF ServiceInv, TypeInv
<1>1. Waiting' = <<>>
  BY DEF SignalExit, ProcessEnds, Waiting
<1>2. Serving' = {}
  BY DEF SignalExit, ProcessEnds, Serving, Busy
<1>3. \A c \in Clients : conn'[c] = Ended(conn[c])
  BY DEF SignalExit, ProcessEnds
<1>4. Answered' = Answered /\ Gone' = Clients
  BY <1>3 DEF Answered, Gone, Ended
<1> QED BY <1>1, <1>2, <1>4 DEF Service!Stop, Waiting, Serving, Busy, Answered, Gone

\* As long as threads do not race a step is one of the service's, or invisible.
LEMMA OrderlyStep ==
    ASSUME ServiceInv, [Next]_vars, Intact, Intact'
    PROVE  Service!Orderly \/ UNCHANGED MappedVars
<1> USE QueueAssumption DEF Threads, queueVars, handlerVars, kernelVars
<1>0. TypeOK
  BY DEF ServiceInv, TypeInv
<1>1. CASE Accept \/ \E c \in Clients : Connect(c)
  BY <1>1, ArrivalStutters
<1>2. CASE EnqueueLock \/ EnqueueFails \/ EnqueuePost
  <2>1. UNCHANGED <<queue, fdTable, conn>>
        /\ \A w \in Workers : pc'[w] = pc[w] /\ fd'[w] = fd[w]
    BY <1>0, <1>2 DEF EnqueueLock, EnqueueFails, EnqueuePost, Goto, Drop, TypeOK
  <2> QED BY <2>1, Quiet DEF Busy
<1>3. CASE EnqueueNode
  <2>1. PICK c \in Clients : c = fdTable[fd[Main]]
    BY <1>3, InHands DEF EnqueueNode, At, Holding
  <2> QED BY <1>3, <2>1, EnqueueAdmits DEF Service!Orderly
<1>4. CASE RejectClient
  <2>1. PICK c \in Clients : c = fdTable[fd[Main]]
    BY <1>4, InHands DEF RejectClient, At, Holding
  <2> QED BY <1>4, <2>1, RejectRefuses DEF Service!Orderly
<1>5. ASSUME NEW w \in Workers,
             WorkerLoop(w) \/ DequeueWait(w) \/ DequeueLock(w) \/ DequeueEmpty(w)
      PROVE  UNCHANGED MappedVars
  <2>1. UNCHANGED <<queue, fdTable, conn, fd>>
        /\ \A v \in Workers : pc'[v] \in {"send", "close"} <=> pc[v] \in {"send", "close"}
    BY <1>0, <1>5 DEF WorkerLoop, DequeueWait, DequeueLock, DequeueEmpty, At, Goto, TypeOK
  <2> QED BY <2>1, Quiet
<1>6. ASSUME NEW w \in Workers, DequeueNode(w) PROVE Service!Orderly
  BY <1>6, DequeueStarts DEF Service!Orderly
<1>7. ASSUME NEW w \in Workers, HandleSend(w) PROVE Service!Orderly \/ UNCHANGED MappedVars
  <2>1. PICK c \in Clients : c = fdTable[fd[w]]
    BY <1>7, InHands DEF HandleSend, At, Holding
  <2> QED BY <1>7, <2>1, SendAnswers DEF Service!Orderly
<1>8. ASSUME NEW w \in Workers, HandleClose(w) PROVE Service!Orderly
  <2>1. PICK c \in Clients : c = fdTable[fd[w]]
    BY <1>8, InHands DEF HandleClose, At, Holding
  <2> QED BY <1>8, <2>1, CloseFinishes DEF Service!Orderly
<1>9. CASE (\E t \in Threads : Signal(t)) \/ SignalStop \/ SignalPost \/ CleanupLock
           \/ CleanupDestroy
  BY <1>9, Quiet DEF Signal, SignalStop, SignalPost, CleanupLock, CleanupDestroy
<1>10. CASE CleanupDrain
  BY <1>10, DrainAbandons DEF Service!Orderly
<1>11. CASE SignalExit
  BY <1>11, ExitStopsService DEF Service!Orderly
<1>12. CASE UNCHANGED vars
  BY <1>12, Quiet DEF vars
<1>13. CASE EnqueueTorn \/ RaceCrash \/ \E w \in Workers : DequeueTorn(w)
  BY <1>13 DEF EnqueueTorn, RaceCrash, DequeueTorn, Intact
<1> QED
  BY <1>1, <1>2, <1>3, <1>4, <1>5, <1>6, <1>7, <1>8, <1>9, <1>10, <1>11, <1>12, <1>13
     DEF Next, MainStep, WorkerStep, HandlerStep

\* The step with which two threads meet in the queue is a lock call.
LEMMA CollapseStep ==
    ASSUME TypeInv, [Next]_vars, Intact, ~Intact'
    PROVE  UNCHANGED MappedVars
<1> USE QueueAssumption DEF Threads, queueVars, handlerVars, kernelVars
<1>0. TypeOK
  BY DEF TypeInv
<1>1. CASE EnqueueLock \/ CleanupLock
  <2>1. UNCHANGED <<queue, fdTable, conn, fd>> /\ \A w \in Workers : pc'[w] = pc[w]
    BY <1>0, <1>1 DEF EnqueueLock, CleanupLock, Goto, TypeOK
  <2> QED BY <2>1, Quiet
<1>2. ASSUME NEW w \in Workers, DequeueLock(w) PROVE UNCHANGED MappedVars
  <2>1. UNCHANGED <<queue, fdTable, conn, fd>>
        /\ \A v \in Workers : pc'[v] \in {"send", "close"} <=> pc[v] \in {"send", "close"}
    BY <1>0, <1>2 DEF DequeueLock, At, Goto, TypeOK
  <2> QED BY <2>1, Quiet
<1>3. EnqueueNode \/ EnqueueTorn \/ EnqueueFails \/ CleanupDrain \/ CleanupDestroy
      => mutex' = mutex \/ mutex' \in {None, Destroyed}
  BY DEF EnqueueNode, EnqueueTorn, EnqueueFails, CleanupDrain, CleanupDestroy, Unlock
<1>4. ASSUME NEW w \in Workers, DequeueNode(w) \/ DequeueTorn(w) \/ DequeueEmpty(w)
      PROVE  mutex' = mutex \/ mutex' = None
  BY <1>4 DEF DequeueNode, DequeueTorn, DequeueEmpty, Unlock
<1>5. Accept \/ EnqueuePost \/ RejectClient \/ SignalStop \/ SignalPost \/ SignalExit \/ RaceCrash
      => mutex' = mutex
  BY DEF Accept, EnqueuePost, RejectClient, SignalStop, SignalPost, SignalExit, RaceCrash, ProcessEnds
<1>6. ASSUME NEW w \in Workers, \/ WorkerLoop(w) \/ DequeueWait(w)
                                \/ HandleSend(w) \/ HandleClose(w)
      PROVE  mutex' = mutex
  BY <1>6 DEF WorkerLoop, DequeueWait, HandleSend, HandleClose
<1>7. (\E c \in Clients : Connect(c)) \/ (\E t \in Threads : Signal(t)) \/ UNCHANGED vars
      => mutex' = mutex
  BY DEF Connect, Signal, vars
<1>8. mutex' # mutex /\ mutex' \notin {None, Destroyed}
  BY DEF Intact
<1> QED
  BY <1>1, <1>2, <1>3, <1>4, <1>5, <1>6, <1>7, <1>8
     DEF Next, MainStep, WorkerStep, HandlerStep

\* Whatever a step does to the queue, a connection only moves forward.
LEMMA ConnForward ==
    ASSUME TypeInv, ConnInv, [Next]_vars, NEW c \in Clients
    PROVE  \/ conn'[c] = conn[c]
           \/ conn'[c] = Ended(conn[c])
           \/ conn[c] \notin {"served", "refused"} /\ conn'[c] = "answered"
           \/ /\ conn[c] \in {"new", "pending"}
              /\ conn'[c] \in {"pending", "accepted"}
<1> USE QueueAssumption DEF Threads, queueVars, handlerVars, kernelVars
<1>0. TypeOK /\ backlog \in Seq(Clients)
  BY DEF TypeInv, TypeOK
<1>1. ASSUME NEW d \in Clients, Connect(d)
      PROVE  conn'[c] = conn[c] \/ (conn[c] = "new" /\ conn'[c] = "pending")
  BY <1>0, <1>1 DEF Connect, TypeOK
<1>2. ASSUME Accept
      PROVE  conn'[c] = conn[c] \/ (conn[c] = "pending" /\ conn'[c] = "accepted")
  <2>1. PICK d \in Clients : d = Head(backlog) /\ conn[d] = "pending"
    <3>1. Head(backlog) = backlog[1] /\ Head(backlog) \in Clients /\ 1 \in 1..Len(backlog)
      BY <1>0, <1>2 DEF Accept
    <3> QED BY <3>1 DEF ConnInv
  <2> QED BY <1>0, <1>2, <2>1 DEF Accept, TypeOK
<1>3. ASSUME NEW f, CloseFd(f)
      PROVE  conn'[c] = conn[c] \/ conn'[c] = Ended(conn[c])
  BY <1>3 DEF CloseFd
<1>4. ASSUME NEW w \in Workers, HandleSend(w)
      PROVE  \/ conn'[c] = conn[c]
             \/ conn[c] \notin {"served", "refused"} /\ conn'[c] = "answered"
  <2>1. fd[w] \in Fds
    BY <1>4 DEF HandleSend, At, Holding, TypeInv
  <2> QED BY <1>0, <1>4, <2>1 DEF HandleSend, ConnInv, TypeOK
<1>5. CleanupDrain \/ SignalExit \/ RaceCrash
      => conn'[c] = conn[c] \/ conn'[c] = Ended(conn[c])
  BY DEF CleanupDrain, SignalExit, RaceCrash, ProcessEnds
<1>6. EnqueueLock \/ EnqueueNode \/ EnqueueTorn \/ EnqueueFails \/ EnqueuePost
      => UNCHANGED conn
  BY DEF EnqueueLock, EnqueueNode, EnqueueTorn, EnqueueFails, EnqueuePost
<1>7. ASSUME NEW w \in Workers, WorkerLoop(w) \/ DequeueWait(w) \/ DequeueLock(w)
                                \/ DequeueNode(w) \/ DequeueTorn(w) \/ DequeueEmpty(w)
      PROVE  UNCHANGED conn
  BY <1>7 DEF WorkerLoop, DequeueWait, DequeueLock, DequeueNode, DequeueTorn, DequeueEmpty
<1>8. (\E t \in Threads : Signal(t)) \/ SignalStop \/ SignalPost \/ CleanupLock \/ CleanupDestroy
      \/ UNCHANGED vars
      => UNCHANGED conn
  BY DEF Signal, SignalStop, SignalPost, CleanupLock, CleanupDestroy, vars
<1>9. RejectClient => CloseFd(fd[Main])
  BY DEF RejectClient
<1>10. \A w \in Workers : HandleClose(w) => CloseFd(fd[w])
  BY DEF HandleClose
<1> QED
  BY <1>1, <1>2, <1>3, <1>4, <1>5, <1>6, <1>7, <1>8, <1>9, <1>10
     DEF Next, MainStep, WorkerStep, HandlerStep

\* Once threads have raced, that is all the service promises.
LEMMA DisorderStep ==
    ASSUME TypeInv, ConnInv, [Next]_vars, ~Intact
    PROVE  /\ ~Intact'
           /\ Answered \subseteq Answered' /\ (Answered' \ Answered) \cap Gone = {}
           /\ Gone \subseteq Gone'
<1>1. ~Intact'
  BY TornStays DEF Intact
<1>2. \A c \in Clients : \/ conn'[c] = conn[c]
                         \/ conn'[c] = Ended(conn[c])
                         \/ conn[c] \notin {"served", "refused"} /\ conn'[c] = "answered"
                         \/ /\ conn[c] \in {"new", "pending"}
                            /\ conn'[c] \in {"pending", "accepted"}
  BY ConnForward
<1> QED BY <1>1, <1>2 DEF Answered, Gone, Ended

LEMMA ServiceStep == RefinementInv /\ [Next]_vars => [Service!Next]_(Service!tsVars)
<1> SUFFICES ASSUME RefinementInv, [Next]_vars
             PROVE  Service!Next \/ UNCHANGED Service!tsVars
  OBVIOUS
<1> USE DEF MappedVars, Waiting, Serving, Busy, Answered, Gone, Service!tsVars
<1>1. CASE Intact /\ Intact'
  <2>1. Service!Orderly \/ UNCHANGED MappedVars
    BY <1>1, OrderlyStep DEF RefinementInv
  <2>2. Intact = TRUE /\ Intact' = TRUE
    BY <1>1 DEF Intact
  <2> QED BY <2>1, <2>2 DEF Service!Next
<1>2. CASE Intact /\ ~Intact'
  <2>1. UNCHANGED MappedVars
    BY <1>2, CollapseStep DEF RefinementInv
  <2>2. Intact' = FALSE
    BY <1>2 DEF Intact
  <2> QED BY <1>2, <2>1, <2>2 DEF Service!Next, Service!Collapse
<1>3. CASE ~Intact
  <2>1. /\ ~Intact'
        /\ Answered \subseteq Answered' /\ (Answered' \ Answered) \cap Gone = {}
        /\ Gone \subseteq Gone'
    BY <1>3, DisorderStep DEF RefinementInv
  <2>2. Intact' = Intact
    BY <1>3, <2>1 DEF Intact
  <2> QED BY <1>3, <2>1, <2>2 DEF Service!Next, Service!Disorder
<1> QED BY <1>1, <1>2, <1>3

\* The server implements the abstract service, whatever its threads, its signal
\* and the number of workers, places and descriptors: clients are served first
\* come first served, each at most once, each answered before it is let go
\* unless send failed, and never more than there are workers at a time, until
\* two threads meet in the queue whose mutex cleanup_queue has destroyed.  From
\* then to the end of the process it holds that nobody is answered after the
\* end of its connection and that no ended connection comes back.
THEOREM ServerImplementsService == SafeSpec => ServesInOrder
<1>1. Init => Service!Init
  <2> SUFFICES ASSUME Init PROVE Service!Init
    OBVIOUS
  <2>1. Waiting = <<>>
    BY DEF Init, Waiting
  <2>2. Serving = {}
    BY QueueAssumption DEF Init, Serving, Busy, Threads
  <2>3. Answered = {} /\ Gone = {}
    BY DEF Init, Answered, Gone
  <2>4. Intact = TRUE
    BY QueueAssumption DEF Init, Intact
  <2> QED BY <2>1, <2>2, <2>3, <2>4 DEF Service!Init, Waiting, Serving, Busy, Answered, Gone
<1> QED BY <1>1, ServiceStep, ServiceInit, ServiceInvNext, PTL DEF SafeSpec, ServesInOrder, Service!Spec
=============================================================================
