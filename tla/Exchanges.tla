----------------------------- MODULE Exchanges -----------------------------
(***************************************************************************)
(* The exercises in which a server and its clients exchange one greeting:  *)
(* over message queues (13_mqueue/posix, sysv), shared memory              *)
(* (14_shared_memory/posix, sysv), a pipe and a FIFO (12_channels/p1, p2), *)
(* local and Internet sockets (16_sockets/part1), raw sockets              *)
(* (part4_raw), datagrams to a group (part3), two small time servers       *)
(* (part2/pthread_server, multi_protocol) and signals (15_signals).        *)
(*                                                                         *)
(* A program is a sequence of system calls (ExchangePrograms); what a call *)
(* does is an action below.  A call that fails ends the program with       *)
(* exit(1), unless the program does not look.  Nobody starts the programs  *)
(* in a particular order, and sleep promises nothing.  A text is known by  *)
(* who wrote it.                                                           *)
(***************************************************************************)
EXTENDS ExchangePrograms, FiniteSetsExt, SequencesExt

CONSTANTS
    Clients,  \* client processes of the socket servers; the other exercises
              \* are meant for one
    Nobody    \* no process

Server == "server"
First == CHOOSE c \in Clients : TRUE

ExchangesAssumption ==
    /\ Clients # {}
    /\ IsFiniteSet(Clients)
    /\ {Nobody, Server} \cap Clients = {}
    /\ Nobody # Server

VARIABLES
    pair,    \* the exercise that runs
    pc,      \* the call each process is at; 0 when it has failed
    exists,  \* can the server's object be found?
    mail,    \* the messages in it, in order
    asleep,  \* processes waiting inside mq_receive or msgrcv
    mem,     \* the two words of the shared memory that are used
    line,    \* connections to be accepted
    peer,    \* whom the server answers
    owner,   \* whose socket CLIENT_PATH leads to
    ready,   \* revents
    pending, \* is SIGUSR1 pending?
    heard    \* history: what each process printed last

media == <<exists, mail, asleep, mem, line, owner, pending>>
vars == <<pair, pc, media, peer, ready, heard>>

Present == IF pair \in OneClient THEN {First} ELSE Clients
Processes == {Server} \cup Clients

Script(p) ==
    Programs[pair][IF p = Server THEN 1
                   ELSE IF p = First \/ pair \in OneClient THEN 2 ELSE 3]

At(p, call) ==
    /\ p \in {Server} \cup Present
    /\ pc[p] \in DOMAIN Script(p)
    /\ Script(p)[pc[p]] = call

Finished(p) == pc[p] > Len(Script(p))
Ended(p) == pc[p] = 0 \/ Finished(p)

Init ==
    /\ pair \in Pairs
    /\ pc = [p \in Processes |-> 1]
    /\ exists = (pair = "pipe")
    /\ mail = <<>>
    /\ asleep = {}
    /\ mem = <<"none", "none">>
    /\ line = <<>>
    /\ peer = Nobody
    /\ owner = Nobody
    /\ ready = {}
    /\ pending = FALSE
    /\ heard = [p \in Processes |-> Nobody]

-----------------------------------------------------------------------------
(* What the calls do *)

Passes(p) == pc' = [pc EXCEPT ![p] = @ + 1]
Fails(p) == pc' = [pc EXCEPT ![p] = 0]
Hears(p, text) == heard' = [heard EXCEPT ![p] = text]

\* A message from p to q.
Letter(p, q) == [from |-> p, to |-> q]

\* Mutant: msgrcv with type 0.
AcceptsAll(p, m) == pair \in Streams /\ p = Server => m.from = peer

\* A POSIX queue gives any reader its first message, the others look at the
\* type or the address, and a connection carries its client's messages only.
Accepts(p, m) ==
    /\ pair = "posix_mq" \/ m.to = p
    /\ pair \in Streams /\ p = Server => m.from = peer

Acceptable(p) == {i \in DOMAIN mail : Accepts(p, mail[i])}

\* mq_open and shm_open with O_CREAT, msgget and shmget with IPC_CREAT,
\* mkfifo, bind with listen.  System V memory has its size from the start.
create(p) ==
    /\ At(p, "create")
    /\ exists' = TRUE
    /\ mem' = IF pair = "sysv_shm" THEN <<"zero", "zero">> ELSE mem
    /\ Passes(p)
    /\ UNCHANGED <<pair, mail, asleep, line, owner, pending, peer, ready, heard>>

\* The same calls without O_CREAT.
open(p) ==
    /\ At(p, "open")
    /\ IF exists THEN Passes(p) ELSE Fails(p)
    /\ UNCHANGED <<pair, media, peer, ready, heard>>

\* Opening an end of a FIFO waits for the other end.
meet(p) ==
    /\ At(p, "meet")
    /\ \A q \in {Server, First} : pc[q] >= 2
    /\ Passes(p)
    /\ UNCHANGED <<pair, media, peer, ready, heard>>

\* A reader that sleeps in the queue gets the message at once.  Sending to a
\* queue that is gone fails without notice, on a connection that is gone it
\* ends the client.
send(p) ==
    LET q == IF p = Server THEN First ELSE Server
        m == Letter(p, q)
    IN  /\ At(p, "send")
        /\ \/ \E r \in asleep :
                /\ Accepts(r, m)
                /\ asleep' = asleep \ {r}
                /\ pc' = [pc EXCEPT ![p] = @ + 1, ![r] = @ + 1]
                /\ Hears(r, p)
                /\ peer' = IF r = Server THEN p ELSE peer
                /\ UNCHANGED mail
           \/ /\ \A r \in asleep : ~Accepts(r, m)
              /\ mail' = IF pair \in {"sysv_mq"} \cup Streams /\ ~exists THEN mail
                         ELSE Append(mail, m)
              /\ IF pair \in Streams /\ ~exists THEN Fails(p) ELSE Passes(p)
              /\ UNCHANGED <<asleep, heard, peer>>
        /\ UNCHANGED <<pair, exists, mem, line, owner, pending, ready>>

\* mq_receive, msgrcv, read, recv, recvfrom.  The server answers whom it has
\* heard.
receive(p) ==
    /\ At(p, "receive")
    /\ Acceptable(p) # {}
    /\ LET i == Min(Acceptable(p)) IN
          /\ mail' = RemoveAt(mail, i)
          /\ Hears(p, mail[i].from)
          /\ peer' = IF p = Server THEN mail[i].from ELSE peer
    /\ Passes(p)
    /\ UNCHANGED <<pair, exists, asleep, mem, line, owner, pending, ready>>

\* Both kinds of queue let the reader sleep.
receive_sleeps(p) ==
    /\ At(p, "receive")
    /\ pair \in Mqs
    /\ p \notin asleep
    /\ Acceptable(p) = {}
    /\ pair = "sysv_mq" => exists
    /\ asleep' = asleep \cup {p}
    /\ UNCHANGED <<pair, pc, exists, mail, mem, line, owner, pending, peer, ready, heard>>

\* msgrcv on a removed queue: nobody looks at the result, and the program
\* prints what its buffer held, its own greeting.
receive_removed(p) ==
    /\ At(p, "receive")
    /\ pair = "sysv_mq"
    /\ ~exists
    /\ Hears(p, p)
    /\ Passes(p)
    /\ UNCHANGED <<pair, media, peer, ready>>

\* The server closed its listening socket before it accepted this client.
receive_reset(p) ==
    /\ At(p, "receive")
    /\ pair \in Streams
    /\ ~exists
    /\ Acceptable(p) = {}
    /\ Fails(p)
    /\ UNCHANGED <<pair, media, peer, ready, heard>>

\* mq_unlink, shm_unlink and unlink take the name away; IPC_RMID destroys the
\* queue and wakes its readers.
remove(p) ==
    LET Woken == IF pair = "sysv_mq" THEN asleep ELSE {} IN
    /\ At(p, "remove")
    /\ exists' = FALSE
    /\ mail' = IF pair = "sysv_mq" THEN <<>> ELSE mail
    /\ asleep' = asleep \ Woken
    /\ pc' = [q \in Processes |-> IF q = p \/ q \in Woken THEN pc[q] + 1 ELSE pc[q]]
    /\ heard' = [q \in Processes |-> IF q \in Woken THEN q ELSE heard[q]]
    /\ UNCHANGED <<pair, mem, line, owner, pending, peer, ready>>

-----------------------------------------------------------------------------
(* Shared memory: the first word holds "Hi!" or "Hell", the second one *)
(* overlaps its last byte and holds "lo!".                              *)

ftruncate ==
    /\ At(Server, "ftruncate")
    /\ mem' = <<"zero", "zero">>
    /\ Passes(Server)
    /\ UNCHANGED <<pair, exists, mail, asleep, line, owner, pending, peer, ready, heard>>

\* The server's strcpy.
greet ==
    /\ At(Server, "greet")
    /\ mem' = [mem EXCEPT ![1] = Server]
    /\ Passes(Server)
    /\ UNCHANGED <<pair, exists, mail, asleep, line, owner, pending, peer, ready, heard>>

\* The loop that waits until "Hi!" is gone.
watch ==
    /\ At(Server, "watch")
    /\ mem[1] # Server
    /\ Passes(Server)
    /\ UNCHANGED <<pair, media, peer, ready, heard>>

\* printf of the memory; a segment that has no size yet cannot be touched.
print(p) ==
    /\ At(p, "print")
    /\ IF mem[1] = "none" THEN Fails(p) /\ UNCHANGED heard
       ELSE /\ Passes(p)
            /\ Hears(p, IF mem \in {<<Server, "zero">>, <<mem[1], mem[1]>>} THEN mem[1] ELSE "mixed")
    /\ UNCHANGED <<pair, media, peer, ready>>

\* The client's strcpy, in two stores.
strcpy(c, call, word) ==
    /\ At(c, call)
    /\ mem' = [mem EXCEPT ![word] = c]
    /\ Passes(c)
    /\ UNCHANGED <<pair, exists, mail, asleep, line, owner, pending, peer, ready, heard>>

waitpid ==
    /\ At(Server, "waitpid")
    /\ Ended(First)
    /\ Passes(Server)
    /\ UNCHANGED <<pair, media, peer, ready, heard>>

-----------------------------------------------------------------------------
(* Sockets *)

\* Of CLIENT_PATH, which all clients share.
unlink(c) ==
    /\ At(c, "unlink")
    /\ owner' = Nobody
    /\ Passes(c)
    /\ UNCHANGED <<pair, exists, mail, asleep, mem, line, pending, peer, ready, heard>>

bind(c) ==
    /\ At(c, "bind")
    /\ owner' = IF owner = Nobody THEN c ELSE owner
    /\ IF owner = Nobody THEN Passes(c) ELSE Fails(c)
    /\ UNCHANGED <<pair, exists, mail, asleep, mem, line, pending, peer, ready, heard>>

\* Without the server a local datagram is refused and another one lost.
sendto(c) ==
    /\ At(c, "sendto")
    /\ mail' = IF exists THEN Append(mail, Letter(c, Server)) ELSE mail
    /\ IF exists \/ pair # "unix_dgram" THEN Passes(c) ELSE Fails(c)
    /\ UNCHANGED <<pair, exists, asleep, mem, line, owner, pending, peer, ready, heard>>

connect(c) ==
    /\ At(c, "connect")
    /\ line' = IF exists THEN Append(line, c) ELSE line
    /\ IF exists THEN Passes(c) ELSE Fails(c)
    /\ UNCHANGED <<pair, exists, mail, asleep, mem, owner, pending, peer, ready, heard>>

accept ==
    /\ At(Server, "accept")
    /\ line # <<>>
    /\ peer' = Head(line)
    /\ line' = Tail(line)
    /\ Passes(Server)
    /\ UNCHANGED <<pair, exists, mail, asleep, mem, owner, pending, ready, heard>>

\* A socket of the client's is open and sees what comes for its port.
join(c) ==
    /\ At(c, "join")
    /\ Passes(c)
    /\ UNCHANGED <<pair, media, peer, ready, heard>>

Joined == {c \in Present : pc[c] >= 2 /\ ~Ended(c)}

\* A raw socket sees every reply, a local datagram goes where CLIENT_PATH leads.
Addressees ==
    CASE pair = "unix_dgram" -> {owner} \cap Clients
      [] pair \in Raws -> Joined
      [] OTHER -> {peer}

Post(box, to) == box \o SetToSeq({Letter(Server, c) : c \in to})

reply ==
    /\ At(Server, "reply")
    /\ mail' = Post(mail, Addressees)
    /\ Passes(Server)
    /\ UNCHANGED <<pair, exists, asleep, mem, line, owner, pending, peer, ready, heard>>

shout ==
    /\ At(Server, "shout")
    /\ mail' = Post(mail, Joined)
    /\ Passes(Server)
    /\ UNCHANGED <<pair, exists, asleep, mem, line, owner, pending, peer, ready, heard>>

\* What has not been read is lost: it stays in mail, and nobody accepts it.
close ==
    /\ At(Server, "close")
    /\ exists' = FALSE
    /\ line' = <<>>
    /\ Passes(Server)
    /\ UNCHANGED <<pair, mail, asleep, mem, owner, pending, peer, ready, heard>>

Datagrams == {i \in DOMAIN mail : mail[i].to = Server}

\* Mutant: one descriptor is polled.
poll_first ==
    /\ At(Server, "poll")
    /\ line # <<>>
    /\ ready' = {"tcp"}
    /\ Passes(Server)
    /\ UNCHANGED <<pair, media, peer, heard>>

\* Both sockets may be ready at once.
poll ==
    /\ At(Server, "poll")
    /\ ready' = (IF line # <<>> THEN {"tcp"} ELSE {})
                    \cup (IF Datagrams # {} THEN {"udp"} ELSE {})
    /\ ready' # {}
    /\ Passes(Server)
    /\ UNCHANGED <<pair, media, peer, heard>>

\* accept and handle_client; the connection is closed behind the answer.
handle_tcp ==
    /\ At(Server, "handle_tcp")
    /\ IF "tcp" \in ready
       THEN mail' = Post(mail, {Head(line)}) /\ line' = Tail(line)
       ELSE UNCHANGED <<mail, line>>
    /\ Passes(Server)
    /\ UNCHANGED <<pair, exists, asleep, mem, owner, pending, peer, ready, heard>>

handle_udp ==
    /\ At(Server, "handle_udp")
    /\ LET i == Min(Datagrams) IN
          mail' = IF "udp" \in ready THEN Post(RemoveAt(mail, i), {mail[i].from})
                  ELSE mail
    /\ Passes(Server)
    /\ UNCHANGED <<pair, exists, asleep, mem, line, owner, pending, peer, ready, heard>>

\* while (1).
again ==
    /\ At(Server, "again")
    /\ pc' = [pc EXCEPT ![Server] = 2]
    /\ UNCHANGED <<pair, media, peer, ready, heard>>

-----------------------------------------------------------------------------
(* Signals *)

\* From here on SIGUSR1 does not end the receiver, unless it blocks SIGINT only.
prepare ==
    /\ At(Server, "sigaction") \/ At(Server, "sigprocmask")
    /\ Passes(Server)
    /\ UNCHANGED <<pair, media, peer, ready, heard>>

\* The user knows the receiver's number from what it prints after that.
\* Signals that are pending together are one.
kill(c) ==
    /\ At(c, "kill")
    /\ pc[Server] # 1
    /\ pending' = TRUE
    /\ IF Ended(Server) THEN Fails(c)
       ELSE IF pair = "masked" THEN pc' = [pc EXCEPT ![c] = @ + 1, ![Server] = 0]
       ELSE Passes(c)
    /\ UNCHANGED <<pair, exists, mail, asleep, mem, line, owner, peer, ready, heard>>

\* The handler during pause, or sigwait.
pause ==
    /\ At(Server, "pause")
    /\ pending
    /\ pending' = FALSE
    /\ Hears(Server, "SIGUSR1")
    /\ Passes(Server)
    /\ UNCHANGED <<pair, exists, mail, asleep, mem, line, owner, peer, ready>>

-----------------------------------------------------------------------------
Both(p) ==
    \/ create(p) \/ open(p) \/ meet(p) \/ send(p)
    \/ receive(p) \/ receive_sleeps(p) \/ receive_removed(p) \/ receive_reset(p)
    \/ remove(p) \/ print(p)

ServerStep ==
    \/ Both(Server)
    \/ ftruncate \/ greet \/ watch \/ waitpid
    \/ accept \/ reply \/ shout \/ close
    \/ poll \/ handle_tcp \/ handle_udp \/ again
    \/ prepare \/ pause

ClientStep(c) ==
    \/ Both(c)
    \/ strcpy(c, "strcpy", 1) \/ strcpy(c, "strcpy_end", 2)
    \/ unlink(c) \/ bind(c) \/ sendto(c) \/ connect(c) \/ join(c)
    \/ kill(c)

Next == ServerStep \/ \E c \in Clients : ClientStep(c)

Fairness == WF_vars(ServerStep) /\ \A c \in Clients : WF_vars(ClientStep(c))

Spec == Init /\ [][Next]_vars /\ Fairness

-----------------------------------------------------------------------------
(* Properties *)

\* Who prints what.  One POSIX queue carries both greetings, so the server may
\* read its own back, but never one the client has read as well.  With System
\* V types it prints its own only if the client has removed the queue before
\* the answer was read.  The server in shared memory may see half an answer,
\* but no longer its own words.  All others hear the other side.
HeardRight ==
    LET byServer == heard[Server] IN
    /\ \A c \in Present : heard[c] \in {Nobody, Server} \cup (IF pair \in Shms THEN {"zero"} ELSE {})
    /\ CASE pair = "posix_mq" -> byServer = Server => heard[First] # Server
         [] pair = "sysv_mq" -> byServer = Server => Finished(First)
         [] pair \in Shms -> byServer \in Clients \cup {Nobody, "mixed"}
         [] pair \in Signals -> byServer \in {Nobody, "SIGUSR1"}
         [] OTHER -> byServer \in Present \cup {Nobody}

\* The two sides have found each other.
Met(c) ==
    CASE pair \in Mqs \cup Shms -> heard[c] = Server
      [] pair = "fifo" -> pc[c] >= 2
      [] pair = "unix_dgram" -> heard[Server] = c /\ owner = c
      [] pair \in Raws \cup {"udp"} -> heard[Server] = c
      [] pair \in Streams -> c \in ToSet(line) \/ Letter(c, Server) \in ToSet(mail)
      [] pair \in Groups -> pc[c] >= 2 /\ pc[Server] = 1
      [] OTHER -> TRUE

\* What waiting is for: the answer, or the end of the connection if a server
\* that serves one client is busy with another, or having lost CLIENT_PATH to
\* another client.  A receiver that blocks SIGINT only is to be ended.
Served(c) ==
    CASE pair \in OneClient -> Finished(c) /\ Finished(Server)
      [] pair \in {"tcp", "unix_stream"} -> Ended(c)
      [] pair = "unix_dgram" -> Finished(c) \/ owner # c
      [] pair \in Signals -> heard[Server] = "SIGUSR1"
      [] pair = "masked" -> Ended(c) /\ Ended(Server)
      [] OTHER -> Finished(c)

\* Once the sides of an exercise have met nobody waits in vain.
Answered == \A c \in Clients : (c \in Present /\ Met(c)) ~> Served(c)
=============================================================================
