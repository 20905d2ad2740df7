---------------------------- MODULE RequestQueue ----------------------------
(***************************************************************************)
(* The producer/consumer time server, 16_sockets/part2/consumer_producer:  *)
(* queue.c (bounded FIFO of client descriptors under a mutex, counted by a *)
(* semaphore) and server.c (the accept loop in main, MAX_THREADS workers,  *)
(* and signal_handler, which runs on top of whichever thread the kernel    *)
(* delivers SIGINT/SIGTERM to).                                            *)
(*                                                                         *)
(* A critical section is two steps: the lock, and the body with its        *)
(* unlock.  Nothing but the handler can observe the states in between, and *)
(* it only cares whether the mutex is held.                                *)
(*                                                                         *)
(* cleanup_queue destroys the mutex while main and the workers go on until *)
(* exit(0), and nobody looks at what pthread_mutex_lock returns.  From then*)
(* on every lock call lets its caller pass.  As long as no two threads are *)
(* between lock and unlock at once nothing changes; when they are, they    *)
(* race on the list, on size and on freed nodes, and mutex is Torn: what   *)
(* the queue's functions do after that is undefined, and the model chooses *)
(* among what these loads and stores can come to, a crash included.  size  *)
(* is not kept any more then: it may be anything.                          *)
(***************************************************************************)
EXTENDS Integers, Sequences, FiniteSets

CONSTANTS
    Workers,     \* the indexes of thread_pool; MAX_THREADS = Cardinality(Workers)
    Main,        \* the thread that runs main
    Clients,     \* the client processes that may connect
    Capacity,    \* QUEUE_SIZE
    Fds,         \* descriptor numbers left for client sockets (RLIMIT_NOFILE)
    MallocFails, \* may malloc return NULL in enqueue?
    SendFails,   \* may send return -1 in handle_client?
    None,        \* no thread, no connection
    Destroyed,   \* the mutex after pthread_mutex_destroy
    Torn         \* the same, after two critical sections have overlapped

Threads == Workers \cup {Main}

ASSUME QueueAssumption ==
    /\ IsFiniteSet(Workers)
    /\ Workers # {}
    /\ Main \notin Workers
    /\ Capacity \in Nat \ {0}
    /\ Fds \subseteq Nat
    /\ MallocFails \in BOOLEAN
    /\ SendFails \in BOOLEAN
    /\ None \notin Threads \cup Clients
    /\ Destroyed \notin Threads \cup {None}
    /\ Torn \notin Threads \cup {None, Destroyed}

VARIABLES
    pc,          \* where each thread is
    fd,          \* client_fd, the local of main and of worker_thread
    queue,       \* request_queue, front to rear
    size,        \* request_queue.size
    sem,         \* value of request_queue.semaphore
    mutex,       \* holder of request_queue.mutex, None, Destroyed or Torn
    is_running,  \* thread_pool[i].is_running
    hthread,     \* the thread signal_handler runs on, or None
    hpc,         \* where signal_handler is
    posts,       \* how many of its sem_post calls are done
    fdTable,     \* kernel: the connection each descriptor refers to
    backlog,     \* kernel: connections not yet accepted, oldest first
    conn         \* what each client has seen of its connection

queueVars == <<queue, size>>
handlerVars == <<is_running, hthread, hpc, posts>>
kernelVars == <<fdTable, backlog, conn>>
vars == <<pc, fd, queue, size, sem, mutex, is_running, hthread, hpc, posts,
          fdTable, backlog, conn>>

MainPc == {"accept", "enq_lock", "enq", "post", "reject", "dead"}
WorkerPc == {"loop", "wait", "deq_lock", "deq", "send", "close", "done", "dead"}
HandlerPc == {"none", "stop", "post", "lock", "drain", "destroy", "exit", "dead"}
ConnState == {"new", "pending", "accepted", "answered", "served", "refused"}

Init ==
    /\ pc = [t \in Threads |-> IF t = Main THEN "accept" ELSE "loop"]
    /\ fd = [t \in Threads |-> 0]
    /\ queue = <<>>
    /\ size = 0
    /\ sem = 0
    /\ mutex = None
    /\ is_running = [w \in Workers |-> TRUE]
    /\ hthread = None
    /\ hpc = "none"
    /\ posts = 0
    /\ fdTable = [f \in Fds |-> None]
    /\ backlog = <<>>
    /\ conn = [c \in Clients |-> "new"]

(***************************************************************************)
(* Helpers.  A thread that is interrupted by signal_handler does not run   *)
(* its own code until the handler returns, and this handler never does.    *)
(***************************************************************************)
At(t, label) == pc[t] = label /\ hthread # t
Goto(t, label) == pc' = [pc EXCEPT ![t] = label]

\* client_fd is declared in the body of main's and of the worker's loop: what
\* it held ends with the round.
Drop(t) == fd' = [fd EXCEPT ![t] = 0]

\* The threads between pthread_mutex_lock and pthread_mutex_unlock.
Inside == {t \in Threads : pc[t] \in {"enq", "deq"}}

\* On a destroyed mutex pthread_mutex_lock and pthread_mutex_unlock return
\* EINVAL at once, which the code does not look at.
Lock(t) ==
    \/ mutex = None /\ mutex' = t
    \/ mutex = Destroyed /\ mutex' = IF Inside = {} THEN Destroyed ELSE Torn
    \/ mutex = Torn /\ UNCHANGED mutex
Unlock == mutex' = IF mutex \in {Destroyed, Torn} THEN mutex ELSE None

\* What the client has seen once its connection ends: the time, or nothing.
Ended(s) == IF s \in {"answered", "served"} THEN "served" ELSE "refused"

\* close(client_fd): the descriptor becomes free and the peer, if there is one,
\* sees the end.
CloseFd(f) ==
    /\ fdTable' = [fdTable EXCEPT ![f] = None]
    /\ conn' = [c \in Clients |-> IF fdTable[f] = c THEN Ended(conn[c]) ELSE conn[c]]
    /\ UNCHANGED backlog

FreeFds == {f \in Fds : fdTable[f] = None}

-----------------------------------------------------------------------------
(* client.c *)

Connect(c) ==
    /\ conn[c] = "new"
    /\ pc[Main] # "dead"
    /\ conn' = [conn EXCEPT ![c] = "pending"]
    /\ backlog' = Append(backlog, c)
    /\ UNCHANGED <<pc, fd, queueVars, sem, mutex, handlerVars, fdTable>>

-----------------------------------------------------------------------------
(* main: accept, then enqueue, and close the client when the queue is full *)

\* accept returns the lowest free descriptor.  With none free it fails and
\* the loop goes round again, changing nothing.
Accept ==
    /\ At(Main, "accept")
    /\ backlog # <<>>
    /\ \E f \in FreeFds :
        /\ \A g \in FreeFds : f <= g
        /\ fdTable' = [fdTable EXCEPT ![f] = Head(backlog)]
        /\ fd' = [fd EXCEPT ![Main] = f]
    /\ conn' = [conn EXCEPT ![Head(backlog)] = "accepted"]
    /\ backlog' = Tail(backlog)
    /\ Goto(Main, "enq_lock")
    /\ UNCHANGED <<queueVars, sem, mutex, handlerVars>>

EnqueueLock ==
    /\ At(Main, "enq_lock")
    /\ Lock(Main)
    /\ Goto(Main, "enq")
    /\ UNCHANGED <<fd, queueVars, sem, handlerVars, kernelVars>>

\* Mutant: the new node becomes the front of the list.
EnqueueNodeAtFront ==
    /\ At(Main, "enq")
    /\ mutex # Torn
    /\ size < Capacity
    /\ queue' = <<fd[Main]>> \o queue
    /\ size' = size + 1
    /\ Unlock
    /\ Goto(Main, "post")
    /\ UNCHANGED <<fd, sem, handlerVars, kernelVars>>

EnqueueNode ==
    /\ At(Main, "enq")
    /\ mutex # Torn
    /\ size < Capacity
    /\ queue' = Append(queue, fd[Main])
    /\ size' = size + 1
    /\ Unlock
    /\ Goto(Main, "post")
    /\ UNCHANGED <<fd, sem, handlerVars, kernelVars>>

\* enqueue in a race with dequeue: the node is linked, it is linked behind one
\* that a worker has just removed, or it replaces the list because rear was
\* NULL.
EnqueueTorn ==
    /\ At(Main, "enq")
    /\ mutex = Torn
    /\ queue' \in {Append(queue, fd[Main]), queue, <<fd[Main]>>}
    /\ Unlock
    /\ Goto(Main, "post")
    /\ UNCHANGED <<fd, size, sem, handlerVars, kernelVars>>

\* Mutant: the failure path of enqueue runs into its sem_post.
EnqueueFailsPosting ==
    /\ At(Main, "enq")
    /\ size >= Capacity \/ MallocFails \/ mutex = Torn
    /\ Unlock
    /\ sem' = sem + 1
    /\ Goto(Main, "reject")
    /\ UNCHANGED <<fd, queueVars, handlerVars, kernelVars>>

EnqueueFails ==
    /\ At(Main, "enq")
    /\ size >= Capacity \/ MallocFails \/ mutex = Torn
    /\ Unlock
    /\ Goto(Main, "reject")
    /\ UNCHANGED <<fd, queueVars, sem, handlerVars, kernelVars>>

\* Mutant: enqueue forgets sem_post.
EnqueuePostMissing ==
    /\ At(Main, "post")
    /\ Drop(Main)
    /\ Goto(Main, "accept")
    /\ UNCHANGED <<queueVars, sem, mutex, handlerVars, kernelVars>>

EnqueuePost ==
    /\ At(Main, "post")
    /\ sem' = sem + 1
    /\ Drop(Main)
    /\ Goto(Main, "accept")
    /\ UNCHANGED <<queueVars, mutex, handlerVars, kernelVars>>

\* Mutant: main forgets to close a rejected client.
RejectClientLeaks ==
    /\ At(Main, "reject")
    /\ Drop(Main)
    /\ Goto(Main, "accept")
    /\ UNCHANGED <<queueVars, sem, mutex, handlerVars, kernelVars>>

RejectClient ==
    /\ At(Main, "reject")
    /\ CloseFd(fd[Main])
    /\ Drop(Main)
    /\ Goto(Main, "accept")
    /\ UNCHANGED <<queueVars, sem, mutex, handlerVars>>

MainStep ==
    \/ Accept
    \/ EnqueueLock
    \/ EnqueueNode
    \/ EnqueueTorn
    \/ EnqueueFails
    \/ EnqueuePost
    \/ RejectClient

-----------------------------------------------------------------------------
(* worker_thread: dequeue, then handle_client *)

WorkerLoop(w) ==
    /\ At(w, "loop")
    /\ Goto(w, IF is_running[w] THEN "wait" ELSE "done")
    /\ UNCHANGED <<fd, queueVars, sem, mutex, handlerVars, kernelVars>>

DequeueWait(w) ==
    /\ At(w, "wait")
    /\ sem > 0
    /\ sem' = sem - 1
    /\ Goto(w, "deq_lock")
    /\ UNCHANGED <<fd, queueVars, mutex, handlerVars, kernelVars>>

DequeueLock(w) ==
    /\ At(w, "deq_lock")
    /\ Lock(w)
    /\ Goto(w, "deq")
    /\ UNCHANGED <<fd, queueVars, sem, handlerVars, kernelVars>>

DequeueNode(w) ==
    /\ At(w, "deq")
    /\ mutex # Torn
    /\ queue # <<>>
    /\ fd' = [fd EXCEPT ![w] = Head(queue)]
    /\ queue' = Tail(queue)
    /\ size' = size - 1
    /\ Unlock
    /\ Goto(w, "send")
    /\ UNCHANGED <<sem, handlerVars, kernelVars>>

\* dequeue in a race: client_fd is read from a node that others have taken too,
\* or freed, so it may be any number (one that is no client's does what an unused
\* one of Fds does), and front moves on past what others have removed, or stays.
DequeueTorn(w) ==
    /\ At(w, "deq")
    /\ mutex = Torn
    /\ \E f \in Fds : fd' = [fd EXCEPT ![w] = f]
    /\ \E i \in 1..Len(queue) + 1 : queue' = SubSeq(queue, i, Len(queue))
    /\ Unlock
    /\ Goto(w, "send")
    /\ UNCHANGED <<size, sem, handlerVars, kernelVars>>

\* Mutant: the early return of dequeue keeps the mutex.
DequeueEmptyLocked(w) ==
    /\ At(w, "deq")
    /\ queue = <<>> \/ mutex = Torn
    /\ Goto(w, "loop")
    /\ UNCHANGED <<fd, queueVars, sem, mutex, handlerVars, kernelVars>>

DequeueEmpty(w) ==
    /\ At(w, "deq")
    /\ queue = <<>> \/ mutex = Torn
    /\ Unlock
    /\ Goto(w, "loop")
    /\ UNCHANGED <<fd, queueVars, sem, handlerVars, kernelVars>>

\* handle_client up to its sleep: the time goes out on the descriptor, and a
\* failed send is only reported.
HandleSend(w) ==
    /\ At(w, "send")
    /\ \/ /\ fdTable[fd[w]] # None
          /\ conn' = [conn EXCEPT ![fdTable[fd[w]]] = "answered"]
       \/ /\ SendFails \/ fdTable[fd[w]] = None
          /\ UNCHANGED conn
    /\ Goto(w, "close")
    /\ UNCHANGED <<fd, queueVars, sem, mutex, handlerVars, fdTable, backlog>>

\* handle_client after its sleep.
HandleClose(w) ==
    /\ At(w, "close")
    /\ CloseFd(fd[w])
    /\ Drop(w)
    /\ Goto(w, "loop")
    /\ UNCHANGED <<queueVars, sem, mutex, handlerVars>>

WorkerStep(w) ==
    \/ WorkerLoop(w)
    \/ DequeueWait(w)
    \/ DequeueLock(w)
    \/ DequeueNode(w)
    \/ DequeueTorn(w)
    \/ DequeueEmpty(w)
    \/ HandleSend(w)
    \/ HandleClose(w)

-----------------------------------------------------------------------------
(* signal_handler, on top of thread hthread *)

\* A signal sent to the process may be delivered to any of its threads.
Signal(t) ==
    /\ hpc = "none"
    /\ pc[t] # "done"
    /\ hthread' = t
    /\ hpc' = "stop"
    /\ UNCHANGED <<pc, fd, queueVars, sem, mutex, is_running, posts, kernelVars>>

SignalStop ==
    /\ hpc = "stop"
    /\ is_running' = [w \in Workers |-> FALSE]
    /\ hpc' = "post"
    /\ UNCHANGED <<pc, fd, queueVars, sem, mutex, hthread, posts, kernelVars>>

\* Mutant: the handler's loop runs once too often.
SignalPostOnceMore ==
    /\ hpc = "post"
    /\ sem' = sem + 1
    /\ posts' = posts + 1
    /\ hpc' = IF posts = Cardinality(Workers) THEN "lock" ELSE "post"
    /\ UNCHANGED <<pc, fd, queueVars, mutex, is_running, hthread, kernelVars>>

SignalPost ==
    /\ hpc = "post"
    /\ sem' = sem + 1
    /\ posts' = posts + 1
    /\ hpc' = IF posts + 1 = Cardinality(Workers) THEN "lock" ELSE "post"
    /\ UNCHANGED <<pc, fd, queueVars, mutex, is_running, hthread, kernelVars>>

CleanupLock ==
    /\ hpc = "lock"
    /\ Lock(hthread)
    /\ hpc' = "drain"
    /\ UNCHANGED <<pc, fd, queueVars, sem, is_running, hthread, posts, kernelVars>>

\* cleanup_queue's loop closes every queued client; then it unlocks.
CleanupDrain ==
    LET queued == {queue[i] : i \in 1..Len(queue)} IN
    /\ hpc = "drain"
    /\ fdTable' = [f \in Fds |-> IF f \in queued THEN None ELSE fdTable[f]]
    /\ conn' = [c \in Clients |->
                   IF \E f \in queued : fdTable[f] = c THEN Ended(conn[c]) ELSE conn[c]]
    /\ queue' = <<>>
    /\ size' = 0
    /\ Unlock
    /\ hpc' = "destroy"
    /\ UNCHANGED <<pc, fd, sem, is_running, hthread, posts, backlog>>

\* The rest of cleanup_queue.  glibc's sem_destroy does nothing.  Its
\* pthread_mutex_destroy marks the mutex invalid, also when a thread has just
\* got it, unless that thread has counted itself as its user: then it returns
\* EBUSY and the mutex goes on working.
CleanupDestroy ==
    /\ hpc = "destroy"
    /\ \/ mutex' = Destroyed
       \/ mutex # None /\ UNCHANGED mutex
    /\ hpc' = "exit"
    /\ UNCHANGED <<pc, fd, queueVars, sem, is_running, hthread, posts, kernelVars>>

\* The process ends: every thread stops where it is and the kernel closes every
\* socket.
ProcessEnds ==
    /\ hpc' = "dead"
    /\ pc' = [t \in Threads |-> "dead"]
    /\ queue' = <<>>
    /\ size' = 0
    /\ fdTable' = [f \in Fds |-> None]
    /\ conn' = [c \in Clients |-> Ended(conn[c])]
    /\ backlog' = <<>>
    /\ UNCHANGED <<fd, sem, mutex, is_running, hthread, posts>>

\* close(server_fd) and exit(0).
SignalExit ==
    /\ hpc = "exit"
    /\ ProcessEnds

\* A race has led a thread to a NULL or freed node, or to free one again: the
\* process gets SIGSEGV or SIGABRT.
RaceCrash ==
    /\ mutex = Torn
    /\ hpc # "dead"
    /\ ProcessEnds

HandlerStep ==
    \/ SignalStop
    \/ SignalPost
    \/ CleanupLock
    \/ CleanupDrain
    \/ CleanupDestroy
    \/ SignalExit

-----------------------------------------------------------------------------
Next ==
    \/ \E c \in Clients : Connect(c)
    \/ MainStep
    \/ \E w \in Workers : WorkerStep(w)
    \/ \E t \in Threads : Signal(t)
    \/ HandlerStep
    \/ RaceCrash

\* The kernel keeps scheduling every thread that can run.  Clients need not
\* connect and no signal need ever arrive.
Fairness ==
    /\ WF_vars(MainStep)
    /\ \A w \in Workers : WF_vars(WorkerStep(w))
    /\ WF_vars(HandlerStep)

SafeSpec == Init /\ [][Next]_vars
Spec == SafeSpec /\ Fairness

-----------------------------------------------------------------------------
(* Properties *)

Queued == {queue[i] : i \in 1..Len(queue)}
Holding(t) == pc[t] \in {"enq_lock", "enq", "reject", "send", "close"}

\* Every variable has the type the code gives it.
TypeOK ==
    /\ pc \in [Threads -> MainPc \cup WorkerPc]
    /\ pc[Main] \in MainPc
    /\ \A w \in Workers : pc[w] \in WorkerPc
    /\ fd \in [Threads -> Nat]
    /\ queue \in Seq(Fds)
    /\ size \in Int
    /\ sem \in Nat
    /\ mutex \in Threads \cup {None, Destroyed, Torn}
    /\ is_running \in [Workers -> BOOLEAN]
    /\ hthread \in Threads \cup {None}
    /\ hpc \in HandlerPc
    /\ posts \in 0..Cardinality(Workers)
    /\ fdTable \in [Fds -> Clients \cup {None}]
    /\ backlog \in Seq(Clients)
    /\ conn \in [Clients -> ConnState]

Taking == {w \in Workers : pc[w] \in {"deq_lock", "deq"}}
Posting == IF pc[Main] = "post" THEN 1 ELSE 0

\* No two critical sections have overlapped.  Only a destroyed mutex lets them.
Intact == mutex # Torn

\* The list, size (under the mutex) and the semaphore (posted after the unlock,
\* taken before the lock) count the same nodes, up to the threads in between.
\* Every node has a post that is not used up, and until signal_handler adds its
\* own posts no more than that.
CountsMatch ==
    /\ size = Len(queue)
    /\ size <= Capacity
    /\ Len(queue) <= sem + Cardinality(Taking) + Posting
    /\ hpc = "none" => Len(queue) = sem + Cardinality(Taking) + Posting

\* queue.c counts its nodes three ways, in three places.  The counts agree until
\* two critical sections overlap: always before cleanup_queue destroys the mutex,
\* and after it as long as the threads that are left do not meet.
SemAccounting == Intact => CountsMatch

\* A worker that got through sem_wait finds a client in the queue: the "empty
\* after all" branch of dequeue is taken only once signal_handler has posted.
NoEmptyDequeue ==
    \A w \in Workers : pc[w] = "deq" /\ hpc = "none" => queue # <<>>

QueuedOnce == \A i, j \in 1..Len(queue) : queue[i] = queue[j] => i = j
HeldOnce == \A s, t \in Threads : Holding(s) /\ Holding(t) /\ fd[s] = fd[t] => s = t
HeldNotQueued == \A t \in Threads : Holding(t) => fd[t] \in Fds \ Queued
OpenIffOwned ==
    \A f \in Fds : fdTable[f] # None
                   <=> f \in Queued \/ \E t \in Threads : Holding(t) /\ fd[t] = f

Owned == QueuedOnce /\ HeldOnce /\ HeldNotQueued /\ OpenIffOwned

\* Every open client descriptor has exactly one owner, a queue node or one
\* thread that is about to use it, and every descriptor somebody is about to
\* use is open: no client is served twice, no descriptor is closed twice or
\* after the kernel gave its number to another client, and none leaks.  It may
\* stop to hold only between the destruction of the mutex and the end of the
\* process, once two threads have been in the queue's functions together.
OneOwner == Intact => Owned

Service == INSTANCE TimeService WITH
    waiting    <- [i \in 1..Len(queue) |-> fdTable[queue[i]]],
    serving    <- {fdTable[fd[w]] : w \in {v \in Workers : pc[v] \in {"send", "close"}}},
    answered   <- {c \in Clients : conn[c] \in {"answered", "served"}},
    gone       <- {c \in Clients : conn[c] \in {"served", "refused"}},
    orderly    <- Intact,
    MaxServing <- Cardinality(Workers)

\* The server implements the abstract time service, whatever the threads and the
\* signal do: clients are served first come first served, each once, until two
\* threads meet in the queue whose mutex is destroyed.  Also then nobody is
\* answered whose connection has ended, and no connection comes back.
ServesInOrder == Service!Spec

\* Once a client is in the queue a worker answers it (when send fails, its
\* connection at least ends), or a signal arrives: enqueue's post is never lost
\* or used up for another client.
QueuedIsServed ==
    \A c \in Clients :
        (\E f \in Queued : fdTable[f] = c)
            ~> \/ conn[c] \in {"answered", "served"}
               \/ SendFails /\ conn[c] = "refused"
               \/ hpc # "none"

\* A signal ends the process, provided it interrupted a thread that was not
\* inside one of the queue's critical sections.
SignalEndsServer ==
    (hpc = "stop" /\ mutex # hthread) ~> hpc = "dead"

\* "Receiving signal %d. Shutting down server...": every signal does.
EverySignalEndsServer ==
    hpc = "stop" ~> hpc = "dead"
=============================================================================
