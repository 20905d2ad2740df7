----------------------------- MODULE PoolServer -----------------------------
(***************************************************************************)
(* The thread-per-client time server with a pool of slots,                 *)
(* 16_sockets/part2/pthread_pool_server/server.c.  main looks for a free   *)
(* slot, starts a thread in it and only then marks the slot as taken; the  *)
(* thread marks the slot it finds itself in as free before it returns.     *)
(* Threads are never joined, so their ids are never reused: a thread is    *)
(* named by the client it serves.                                          *)
(***************************************************************************)
EXTENDS Naturals

CONSTANTS
    MaxThreads,   \* MAX_THREADS
    Clients,      \* the client processes that may connect
    CreateFails,  \* may pthread_create fail?  Its result is not looked at
    SendFails,    \* may send return -1?
    None          \* no thread

ASSUME PoolAssumption ==
    /\ MaxThreads \in Nat \ {0}
    /\ CreateFails \in BOOLEAN
    /\ SendFails \in BOOLEAN
    /\ None \notin Clients

Slots == 0..MaxThreads - 1

VARIABLES
    mpc,      \* where main is
    i,        \* main's slot index
    client,   \* the client main has accepted last
    thread,   \* thread_pool[].thread
    is_free,  \* thread_pool[].is_free
    tpc,      \* where the thread of each client is
    conn      \* what each client has seen of its connection

mainVars == <<mpc, i, client>>
pool == <<thread, is_free>>
vars == <<mainVars, pool, tpc, conn>>

Init ==
    /\ mpc = "accept"
    /\ i = 0
    /\ client = None
    /\ thread = [s \in Slots |-> None]
    /\ is_free = [s \in Slots |-> TRUE]
    /\ tpc = [c \in Clients |-> "none"]
    /\ conn = [c \in Clients |-> "new"]

Running == mpc # "exited"
Live(c) == tpc[c] \in {"send", "close", "free"}

Connect(c) ==
    /\ Running
    /\ conn[c] = "new"
    /\ conn' = [conn EXCEPT ![c] = "pending"]
    /\ UNCHANGED <<mainVars, pool, tpc>>

-----------------------------------------------------------------------------
(* main *)

Accept(c) ==
    /\ mpc = "accept"
    /\ conn[c] = "pending"
    /\ conn' = [conn EXCEPT ![c] = "accepted"]
    /\ client' = c
    /\ i' = 0
    /\ mpc' = "scan"
    /\ UNCHANGED <<pool, tpc>>

\* Mutant: the scan does not start again behind the last slot.
ScanNoWrap ==
    /\ mpc = "scan"
    /\ i \in Slots
    /\ IF is_free[i]
       THEN mpc' = "create" /\ UNCHANGED i
       ELSE i' = i + 1 /\ UNCHANGED mpc
    /\ UNCHANGED <<client, pool, tpc, conn>>

\* One round of the busy-waiting loop.
Scan ==
    /\ mpc = "scan"
    /\ IF is_free[i]
       THEN mpc' = "create" /\ UNCHANGED i
       ELSE i' = (i + 1) % MaxThreads /\ UNCHANGED mpc
    /\ UNCHANGED <<client, pool, tpc, conn>>

\* A failing pthread_create leaves no thread, and main goes on all the same.
Create ==
    /\ mpc = "create"
    /\ \/ /\ thread' = [thread EXCEPT ![i] = client]
          /\ tpc' = [tpc EXCEPT ![client] = "send"]
       \/ CreateFails /\ UNCHANGED <<thread, tpc>>
    /\ mpc' = "mark"
    /\ UNCHANGED <<i, client, is_free, conn>>

\* Mutant: main forgets to take the slot.
MarkForgotten ==
    /\ mpc = "mark"
    /\ mpc' = "accept"
    /\ UNCHANGED <<i, client, pool, tpc, conn>>

Mark ==
    /\ mpc = "mark"
    /\ is_free' = [is_free EXCEPT ![i] = FALSE]
    /\ mpc' = "accept"
    /\ UNCHANGED <<i, client, thread, tpc, conn>>

MainStep ==
    \/ \E c \in Clients : Accept(c)
    \/ Scan
    \/ Create
    \/ Mark

-----------------------------------------------------------------------------
(* handle_client, in the thread of client c *)

Ended(s) == IF s \in {"answered", "served"} THEN "served" ELSE "refused"

Send(c) ==
    /\ Running
    /\ tpc[c] = "send"
    /\ conn' = [conn EXCEPT ![c] = "answered"]
    /\ tpc' = [tpc EXCEPT ![c] = "close"]
    /\ UNCHANGED <<mainVars, pool>>

\* A failing send ends the process and every connection with it.
SendError(c) ==
    /\ Running
    /\ SendFails
    /\ tpc[c] = "send"
    /\ mpc' = "exited"
    /\ conn' = [d \in Clients |-> Ended(conn[d])]
    /\ tpc' = [d \in Clients |-> IF Live(d) THEN "done" ELSE tpc[d]]
    /\ UNCHANGED <<i, client, pool>>

Close(c) ==
    /\ Running
    /\ tpc[c] = "close"
    /\ conn' = [conn EXCEPT ![c] = Ended(@)]
    /\ tpc' = [tpc EXCEPT ![c] = "free"]
    /\ UNCHANGED <<mainVars, pool>>

\* The first slot that holds this thread's id becomes free.
Free(c) ==
    LET mine == {s \in Slots : thread[s] = c} IN
    /\ Running
    /\ tpc[c] = "free"
    /\ is_free' = [s \in Slots |-> is_free[s] \/ (s \in mine /\ \A r \in mine : s <= r)]
    /\ tpc' = [tpc EXCEPT ![c] = "done"]
    /\ UNCHANGED <<mainVars, thread, conn>>

ThreadStep(c) == Send(c) \/ SendError(c) \/ Close(c) \/ Free(c)

Next ==
    \/ MainStep
    \/ \E c \in Clients : Connect(c) \/ ThreadStep(c)

\* Threads are scheduled; clients need not come.
Fairness ==
    /\ WF_vars(MainStep)
    /\ \A c \in Clients : WF_vars(ThreadStep(c))

SafeSpec == Init /\ [][Next]_vars
Spec == SafeSpec /\ Fairness

-----------------------------------------------------------------------------
(* Properties *)

\* Every variable has the type the code gives it.
TypeOK ==
    /\ mpc \in {"accept", "scan", "create", "mark", "exited"}
    /\ i \in Slots
    /\ client \in Clients \cup {None}
    /\ thread \in [Slots -> Clients \cup {None}]
    /\ is_free \in [Slots -> BOOLEAN]
    /\ tpc \in [Clients -> {"none", "send", "close", "free", "done"}]
    /\ conn \in [Clients -> {"new", "pending", "accepted", "answered", "served", "refused"}]

\* A running thread is found in exactly one slot, whatever main is doing: no
\* slot is given away under it, it will free its own slot and no other, and
\* there are never more threads than slots.
SlotKept ==
    \A c \in Clients : Live(c) =>
        \E s \in Slots : thread[s] = c /\ \A r \in Slots : thread[r] = c => r = s

\* No slot is offered while its thread runs, but for the moment between
\* pthread_create and the assignment that takes the slot.
FreeSlotIsIdle ==
    \A s \in Slots :
        is_free[s] /\ ~(mpc = "mark" /\ i = s)
            => thread[s] = None \/ ~Live(thread[s])

\* A slot that is taken has a thread that will free it: once a thread says
\* "Thread %d is now free", its slot can be found.
TakenSlotHasThread ==
    mpc \in {"accept", "scan"} =>
        \A s \in Slots : ~is_free[s] => thread[s] # None /\ Live(thread[s])

\* As long as that holds, every client that connects is served, unless a
\* failing send ends the process.
ClientsServed ==
    []TakenSlotHasThread =>
        \A c \in Clients : conn[c] = "pending" ~> (conn[c] = "served" \/ ~Running)
=============================================================================
