------------------------------ MODULE RawEcho ------------------------------
(***************************************************************************)
(* The UDP echo service on raw packet sockets, 21_raw_sockets/server.c and *)
(* client.c.  The server keeps a table of MAX_CLIENTS clients with a       *)
(* message counter each; a client process has a sender and a receiver      *)
(* thread that share stop_flag.  All clients use port 7777, so an address  *)
(* stands for the pair of address and port.  The packet sockets lose what  *)
(* does not fit; on the bridge between the containers the packets of one   *)
(* host keep their order, and the bridge may flood a reply to every host.  *)
(* The server throws away what is not for its port or has no text, so an   *)
(* empty line is a lost packet here.                                       *)
(***************************************************************************)
EXTENDS Integers, Sequences, FiniteSetsExt, SequencesExt

CONSTANTS
    Hosts,       \* client addresses
    NoIp,        \* the address of an unused table entry
    MaxClients,  \* MAX_CLIENTS
    BufCap,      \* packets that fit into the receive buffer of a socket
    MaxSends,    \* bound: lines typed by all users together
    Lines,       \* the kinds of lines users type: a message, "quit"
    Signals,     \* may SIGINT reach the server?
    Floods       \* may a reply reach other hosts too?

ASSUME EchoAssumption ==
    /\ NoIp \notin Hosts
    /\ MaxClients \in Nat \ {0}
    /\ BufCap \in Nat \ {0}
    /\ MaxSends \in Nat
    /\ Lines \subseteq {"msg", "quit"}
    /\ Signals \in BOOLEAN
    /\ Floods \in BOOLEAN

Slots == 1..MaxClients

VARIABLES
    clients,    \* the server's table
    stop,       \* the server's stop_flag
    spc,        \* where the server is
    srvBuf,     \* packets in the server's socket
    snd, rcv,   \* where the two threads of each client process are
    cstop,      \* stop_flag of each client process
    cliBuf,     \* packets in the socket of each client process
    shown,      \* history: the replies the running client process has printed
    sent,       \* what each host has typed, over all its processes; the last
                \* element is the line the sender is working on
    abandoned   \* history: the host's last process left, and the server has
                \* not seen a quit from it

server == <<clients, stop, spc>>
threads == <<snd, rcv, cstop>>
history == <<shown, sent, abandoned>>
vars == <<server, srvBuf, threads, cliBuf, history>>

Unused == [ip |-> NoIp, counter |-> 0, used |-> FALSE]

Init ==
    /\ clients = [s \in Slots |-> Unused]
    /\ stop = FALSE
    /\ spc = "check"
    /\ srvBuf = <<>>
    /\ snd = [h \in Hosts |-> "off"]
    /\ rcv = [h \in Hosts |-> "off"]
    /\ cstop = [h \in Hosts |-> FALSE]
    /\ cliBuf = [h \in Hosts |-> <<>>]
    /\ shown = [h \in Hosts |-> <<>>]
    /\ sent = [h \in Hosts |-> <<>>]
    /\ abandoned = [h \in Hosts |-> FALSE]

CanType == MapThenSumSet(LAMBDA h : Len(sent[h]), Hosts) < MaxSends

\* A packet the socket has no room for is dropped; any packet may get lost.
Arrivals(buf, p) ==
    {buf} \cup (IF Len(buf) < BufCap THEN {Append(buf, p)} ELSE {})

-----------------------------------------------------------------------------
(* The server's table *)

EntriesOf(h) == {s \in Slots : clients[s].used /\ clients[s].ip = h}
FreeSlots == {s \in Slots : ~clients[s].used}

\* Mutant: a free entry is taken before the table is searched.
FreeFirst(h) ==
    IF FreeSlots # {} THEN Min(FreeSlots)
    ELSE IF EntriesOf(h) # {} THEN Min(EntriesOf(h)) ELSE -1

\* The entry of host h, else the first unused one, else -1.
get_client_index(h) ==
    IF EntriesOf(h) # {} THEN Min(EntriesOf(h))
    ELSE IF FreeSlots # {} THEN Min(FreeSlots) ELSE -1

\* The entry as get_client_index leaves it.
Registered(s, h) ==
    IF clients[s].used THEN clients[s]
    ELSE [ip |-> h, counter |-> 0, used |-> TRUE]

reset_client(s) == [clients EXCEPT ![s] = Unused]

\* The packet's text with the client's counter behind it, addressed back.
create_reply_packet(p, n) == [dst |-> p.src, id |-> p.id, n |-> n]

\* The sockets a reply to host h reaches.  A failing sendto reaches none.
Deliveries(h, r) ==
    LET Open == {g \in Hosts : snd[g] # "off" /\ (g = h \/ Floods)}
        Fits == {g \in Open : Len(cliBuf[g]) < BufCap}
    IN  {[g \in Hosts |-> IF g \in G THEN Append(cliBuf[g], r) ELSE cliBuf[g]] :
            G \in SUBSET Fits}

-----------------------------------------------------------------------------
(* The server's loop *)

ServerCheck ==
    /\ spc = "check"
    /\ spc' = IF stop THEN "closed" ELSE "call"
    /\ UNCHANGED <<clients, stop, srvBuf, threads, cliBuf, history>>

\* recv finds nothing and sleeps.
ServerSleep ==
    /\ spc = "call"
    /\ srvBuf = <<>>
    /\ spc' = "recv"
    /\ UNCHANGED <<clients, stop, srvBuf, threads, cliBuf, history>>

ServerTakes ==
    /\ spc \in {"call", "recv"}
    /\ srvBuf # <<>>
    /\ srvBuf' = Tail(srvBuf)
    /\ spc' = "check"
    /\ UNCHANGED <<stop, threads>>

\* The table is full of others.
Ignore ==
    /\ ServerTakes
    /\ get_client_index(Head(srvBuf).src) = -1
    /\ UNCHANGED <<clients, cliBuf, history>>

\* Mutant: the quit is answered with nothing and resets nothing.
QuitKeeps ==
    /\ ServerTakes
    /\ Head(srvBuf).kind = "quit"
    /\ LET h == Head(srvBuf).src IN
          /\ get_client_index(h) # -1
          /\ abandoned' = [abandoned EXCEPT ![h] = @ /\ Head(srvBuf).id # Len(sent[h])]
    /\ UNCHANGED <<clients, cliBuf, shown, sent>>

\* A stranger's quit is registered and unregistered at once.
HandleQuit ==
    /\ ServerTakes
    /\ Head(srvBuf).kind = "quit"
    /\ LET h == Head(srvBuf).src
           s == get_client_index(h)
       IN  /\ s # -1
           /\ clients' = reset_client(s)
           /\ abandoned' = [abandoned EXCEPT ![h] = @ /\ Head(srvBuf).id # Len(sent[h])]
    /\ UNCHANGED <<cliBuf, shown, sent>>

HandleMessage ==
    /\ ServerTakes
    /\ Head(srvBuf).kind = "msg"
    /\ LET h == Head(srvBuf).src
           s == get_client_index(h)
           e == [Registered(s, h) EXCEPT !.counter = @ + 1]
       IN  /\ s # -1
           /\ clients' = [clients EXCEPT ![s] = e]
           /\ cliBuf' \in Deliveries(h,
                                  create_reply_packet(Head(srvBuf), e.counter))
    /\ UNCHANGED history

\* SIGINT sets the flag and ends a recv that sleeps.
handle_sigint ==
    /\ Signals
    /\ spc # "closed"
    /\ ~stop
    /\ stop' = TRUE
    /\ spc' = IF spc = "recv" /\ srvBuf = <<>> THEN "closed" ELSE spc
    /\ UNCHANGED <<clients, srvBuf, threads, cliBuf, history>>

-----------------------------------------------------------------------------
(* A client process on host h *)

Start(h) ==
    /\ snd[h] = "off"
    /\ CanType
    /\ snd' = [snd EXCEPT ![h] = "type"]
    /\ rcv' = [rcv EXCEPT ![h] = "check"]
    /\ UNCHANGED <<server, srvBuf, cstop, cliBuf, history>>

Type(h, k) ==
    /\ snd[h] = "type"
    /\ CanType
    /\ cstop' = [cstop EXCEPT ![h] = @ \/ k = "quit"]
    /\ sent' = [sent EXCEPT ![h] = Append(@, k)]
    /\ snd' = [snd EXCEPT ![h] = "send"]
    /\ UNCHANGED <<server, srvBuf, rcv, cliBuf, shown, abandoned>>

\* sendto and the test at the top of the loop.
Send(h) ==
    /\ snd[h] = "send"
    /\ \E b \in IF spc = "closed" THEN {srvBuf}
                ELSE Arrivals(srvBuf, [src |-> h, kind |-> Last(sent[h]), id |-> Len(sent[h])]) :
          /\ srvBuf' = b
          /\ abandoned' = [abandoned EXCEPT ![h] = @ \/ (Last(sent[h]) = "quit" /\ b = srvBuf)]
    /\ snd' = [snd EXCEPT ![h] = IF cstop[h] THEN "done" ELSE "type"]
    /\ UNCHANGED <<server, rcv, cstop, cliBuf, shown, sent>>

\* A failing sendto ends the sender and leaves stop_flag as it is.
SendFails(h) ==
    /\ snd[h] = "send"
    /\ snd' = [snd EXCEPT ![h] = "done"]
    /\ abandoned' = [abandoned EXCEPT ![h] = TRUE]
    /\ UNCHANGED <<server, srvBuf, rcv, cstop, cliBuf, shown, sent>>

ReceiverCheck(h) ==
    /\ rcv[h] = "check"
    /\ rcv' = [rcv EXCEPT ![h] = IF cstop[h] THEN "done" ELSE "recv"]
    /\ UNCHANGED <<server, srvBuf, snd, cstop, cliBuf, history>>

\* SO_RCVTIMEO of one second.
ReceiverTimeout(h) ==
    /\ rcv[h] = "recv"
    /\ cliBuf[h] = <<>>
    /\ rcv' = [rcv EXCEPT ![h] = "check"]
    /\ UNCHANGED <<server, srvBuf, snd, cstop, cliBuf, history>>

\* Mutant: the destination address is not looked at.
PrintAny(h) ==
    /\ rcv[h] = "recv"
    /\ cliBuf[h] # <<>>
    /\ cliBuf' = [cliBuf EXCEPT ![h] = Tail(@)]
    /\ shown' = [shown EXCEPT ![h] = Append(@, Head(cliBuf[h]))]
    /\ rcv' = [rcv EXCEPT ![h] = "check"]
    /\ UNCHANGED <<server, srvBuf, snd, cstop, sent, abandoned>>

ReceiverPrints(h) ==
    /\ rcv[h] = "recv"
    /\ cliBuf[h] # <<>>
    /\ cliBuf' = [cliBuf EXCEPT ![h] = Tail(@)]
    /\ shown' = IF Head(cliBuf[h]).dst = h
                THEN [shown EXCEPT ![h] = Append(@, Head(cliBuf[h]))]
                ELSE shown
    /\ rcv' = [rcv EXCEPT ![h] = "check"]
    /\ UNCHANGED <<server, srvBuf, snd, cstop, sent, abandoned>>

\* Both threads are joined and the socket is closed.
Exit(h) ==
    /\ snd[h] = "done"
    /\ rcv[h] = "done"
    /\ snd' = [snd EXCEPT ![h] = "off"]
    /\ rcv' = [rcv EXCEPT ![h] = "off"]
    /\ cliBuf' = [cliBuf EXCEPT ![h] = <<>>]
    /\ cstop' = [cstop EXCEPT ![h] = FALSE]
    /\ shown' = [shown EXCEPT ![h] = <<>>]
    /\ UNCHANGED <<server, srvBuf, sent, abandoned>>

\* The client installs no handler: Ctrl-C ends it without a quit.
Killed(h) ==
    /\ snd[h] \in {"type", "send", "done"}
    /\ snd' = [snd EXCEPT ![h] = "off"]
    /\ rcv' = [rcv EXCEPT ![h] = "off"]
    /\ cliBuf' = [cliBuf EXCEPT ![h] = <<>>]
    /\ cstop' = [cstop EXCEPT ![h] = FALSE]
    /\ shown' = [shown EXCEPT ![h] = <<>>]
    /\ abandoned' = [abandoned EXCEPT ![h] = @ \/ snd[h] # "done"]
    /\ UNCHANGED <<server, srvBuf, sent>>

-----------------------------------------------------------------------------
ServerStep == ServerCheck \/ ServerSleep \/ Ignore \/ HandleQuit \/ HandleMessage
Receiver(h) == ReceiverCheck(h) \/ ReceiverTimeout(h) \/ ReceiverPrints(h)

Next ==
    \/ ServerStep
    \/ handle_sigint
    \/ \E h \in Hosts :
          \/ Start(h)
          \/ \E k \in Lines : Type(h, k)
          \/ Send(h) \/ SendFails(h)
          \/ Receiver(h)
          \/ Exit(h)
          \/ Killed(h)

Spec == Init /\ [][Next]_vars

-----------------------------------------------------------------------------
(* Properties *)

Entry == [ip : Hosts \cup {NoIp}, counter : Nat, used : BOOLEAN]

\* Every variable stays in its type: the buffers keep within their capacity
\* and an unused table entry is blank, as reset_client leaves it.
TypeOK ==
    /\ clients \in [Slots -> Entry]
    /\ \A s \in Slots : clients[s].used \/ clients[s] = Unused
    /\ stop \in BOOLEAN
    /\ spc \in {"check", "call", "recv", "closed"}
    /\ srvBuf \in Seq([src : Hosts, kind : Lines, id : Nat])
    /\ Len(srvBuf) <= BufCap
    /\ snd \in [Hosts -> {"off", "type", "send", "done"}]
    /\ rcv \in [Hosts -> {"off", "check", "recv", "done"}]
    /\ cstop \in [Hosts -> BOOLEAN]
    /\ cliBuf \in [Hosts -> Seq([dst : Hosts, id : Nat, n : Nat])]
    /\ \A h \in Hosts : Len(cliBuf[h]) <= BufCap
    /\ shown \in [Hosts -> Seq([dst : Hosts, id : Nat, n : Nat])]
    /\ sent \in [Hosts -> Seq(Lines)]
    /\ abandoned \in [Hosts -> BOOLEAN]

\* get_client_index never gives a host a second entry, and an entry in use
\* belongs to a host and has counted at least one of its messages.
OneEntry ==
    /\ \A s, t \in Slots :
          clients[s].used /\ clients[t].used /\ clients[s].ip = clients[t].ip => s = t
    /\ \A s \in Slots : clients[s].used => clients[s].ip \in Hosts /\ clients[s].counter > 0

\* The replies a client process prints are its host's, in the order in which
\* the messages were typed, and their counters grow until a quit in between
\* has made the server start again, whatever was lost on the way and however
\* often the process was restarted.
RepliesInOrder ==
    \A h \in Hosts : \A i \in 1..Len(shown[h]) :
        LET r == shown[h][i] IN
        /\ r.dst = h
        /\ sent[h][r.id] = "msg"
        /\ \A j \in 1..(i - 1) :
              LET q == shown[h][j] IN
              /\ q.id < r.id
              /\ \/ q.n < r.n
                 \/ \E m \in q.id..r.id : sent[h][m] = "quit"

\* An entry of the table is used only by a client that may still send, by one
\* whose last packets the server has yet to read, or by one that left without
\* the server seeing its quit: quitting gives the entry back.
EntriesReturned ==
    \A s \in Slots : clients[s].used =>
        LET h == clients[s].ip IN
        \/ snd[h] \in {"type", "send"}
        \/ \E i \in 1..Len(srvBuf) : srvBuf[i].src = h /\ srvBuf[i].kind = "quit"
        \/ abandoned[h]
=============================================================================
