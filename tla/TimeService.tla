---------------------------- MODULE TimeService ----------------------------
(***************************************************************************)
(* What the producer/consumer time server of 16_sockets/part2 promises to  *)
(* its clients, with no descriptors, locks, semaphores or threads: clients *)
(* wait in a bounded first-come-first-served line, at most MaxServing of   *)
(* them are served at a time, each is answered at most once and before its *)
(* connection ends, and a client that leaves never comes back.             *)
(*                                                                         *)
(* The promise of order ends with Collapse, which the server reaches only  *)
(* in the last moments of a shutdown; that answers come before the end of  *)
(* a connection, and that ends are final, is kept even then.  RequestQueue *)
(* implements this.                                                        *)
(***************************************************************************)
EXTENDS Naturals, Sequences, FiniteSets

CONSTANTS Clients,     \* every client that may ever connect
          Capacity,    \* places in the waiting line
          MaxServing,  \* clients that can be served at the same time
          SendFails    \* may an answer get lost on its way?

VARIABLES waiting,     \* the line, first in first out
          serving,     \* the clients being served
          answered,    \* the clients that have been sent the time
          gone,        \* the clients whose connection is closed
          orderly      \* is there still a line?

tsVars == <<waiting, serving, answered, gone, orderly>>

InLine(c) == \E i \in 1..Len(waiting) : waiting[i] = c

Init ==
    /\ waiting = <<>>
    /\ serving = {}
    /\ answered = {}
    /\ gone = {}
    /\ orderly = TRUE

\* A client that is not in the system yet joins the end of the line.
Admit(c) ==
    /\ ~InLine(c)
    /\ c \notin serving \cup gone
    /\ Len(waiting) < Capacity
    /\ waiting' = Append(waiting, c)
    /\ UNCHANGED <<serving, answered, gone>>

\* A client that is not in the line is turned away.
Refuse(c) ==
    /\ ~InLine(c)
    /\ c \notin serving \cup gone
    /\ gone' = gone \cup {c}
    /\ UNCHANGED <<waiting, serving, answered>>

\* The head of the line, and nobody else, moves to a free server.
Start ==
    /\ waiting # <<>>
    /\ Cardinality(serving) < MaxServing
    /\ serving' = serving \cup {Head(waiting)}
    /\ waiting' = Tail(waiting)
    /\ UNCHANGED <<answered, gone>>

Answer(c) ==
    /\ c \in serving \ answered
    /\ answered' = answered \cup {c}
    /\ UNCHANGED <<waiting, serving, gone>>

Finish(c) ==
    /\ c \in serving
    /\ c \in answered \/ SendFails
    /\ serving' = serving \ {c}
    /\ gone' = gone \cup {c}
    /\ UNCHANGED <<waiting, answered>>

\* Shutdown, first part: everyone still in the line is sent away.
Abandon ==
    /\ waiting' = <<>>
    /\ gone' = gone \cup {waiting[i] : i \in 1..Len(waiting)}
    /\ UNCHANGED <<serving, answered>>

\* Shutdown, second part: the process ends and every connection with it.
Stop ==
    /\ waiting' = <<>>
    /\ serving' = {}
    /\ gone' = Clients
    /\ UNCHANGED answered

Orderly ==
    \/ \E c \in Clients : Admit(c) \/ Refuse(c) \/ Answer(c) \/ Finish(c)
    \/ Start
    \/ Abandon
    \/ Stop

\* The line and the servers are no longer to be relied on.
Collapse ==
    /\ orderly' = FALSE
    /\ UNCHANGED <<waiting, serving, answered, gone>>

\* After that clients may be answered or lose their connection in any order,
\* twice, or without having waited; waiting and serving mean nothing any more.
Disorder ==
    /\ answered \subseteq answered'
    /\ (answered' \ answered) \cap gone = {}
    /\ gone \subseteq gone'
    /\ UNCHANGED orderly

Next ==
    \/ orderly /\ UNCHANGED orderly /\ Orderly
    \/ orderly /\ Collapse
    \/ ~orderly /\ Disorder

Spec == Init /\ [][Next]_tsVars
=============================================================================
