----------------------------- MODULE MQueueChat -----------------------------
(***************************************************************************)
(* The chat over POSIX message queues, 13_mqueue/chat: a server (server.c: *)
(* the main loop and input_thread) that reads a service queue and copies   *)
(* everything to one queue per user, and clients (client.c: main,          *)
(* sender_thread, receiver_thread).                                        *)
(*                                                                         *)
(* Queues are bounded and every mq_send blocks while its queue is full, so *)
(* the server's loops over the history and over the users are one step per *)
(* send.  A client process joins once: uid is its pid.                     *)
(***************************************************************************)
EXTENDS Integers, Sequences, FiniteSets, SequencesExt

CONSTANTS
    Clients,      \* the client processes
    Name,         \* the name each user types; names need not differ
    ServiceMax,   \* mq_maxmsg of the service queue
    UserMax,      \* mq_maxmsg of a user's queue (the same attr in the code)
    UsersMax,     \* length of users[], in the server and in the client
    HistorySize,  \* HISTORY_SIZE
    ChatMax,      \* length of chat_history in the client
    MaxSays       \* bound: messages typed, all users together

ASSUME ChatAssumption ==
    /\ DOMAIN Name = Clients
    /\ {ServiceMax, UserMax, UsersMax, HistorySize, ChatMax} \subseteq Nat \ {0}
    /\ MaxSays \in Nat

VARIABLES
    running,       \* server: the global flag
    spc,           \* server: where main is
    smsg,          \* server: the message main is working on
    idx,           \* server: the loop variable of its sends
    users,         \* server: users[0..active_users-1]
    history,       \* server: history[0..history_count-1]
    ipc,           \* server: where input_thread is
    service,       \* the service queue
    mq,            \* the users' queues
    exists,        \* does the name /chat_user_<pid> exist?
    cpc,           \* client: where its sender and main threads are
    chat_history,  \* client: the lines it shows
    cusers,        \* client: users[0..users_count-1]
    says           \* history: messages typed so far

serverVars == <<running, spc, smsg, idx, users, history, ipc>>
clientVars == <<cpc, chat_history, cusers, says>>
queueVars == <<service, mq, exists>>
vars == <<serverVars, clientVars, queueVars>>

Server == "server"
NEW_USER == "NEW_USER"
NEW_MESSAGE == "NEW_MESSAGE"
USER_LEFT == "USER_LEFT"
Msg(type, from, text) == [type |-> type, from |-> from, text |-> text]
Dummy == Msg(NEW_MESSAGE, Server, 0)
Shutdown == Msg(NEW_MESSAGE, Server, 1)

Init ==
    /\ running = TRUE
    /\ spc = "recv"
    /\ smsg = Dummy
    /\ idx = 1
    /\ users = <<>>
    /\ history = <<>>
    /\ ipc = "read"
    /\ service = <<>>
    /\ mq = [c \in Clients |-> <<>>]
    /\ exists = [c \in Clients |-> FALSE]
    /\ cpc = [c \in Clients |-> "idle"]
    /\ chat_history = [c \in Clients |-> <<>>]
    /\ cusers = [c \in Clients |-> <<>>]
    /\ says = 0

SendService(m) == Len(service) < ServiceMax /\ service' = Append(service, m)
SendUser(c, m) == Len(mq[c]) < UserMax /\ mq' = [mq EXCEPT ![c] = Append(@, m)]

-----------------------------------------------------------------------------
(* The server's input_thread *)

InputExit ==
    /\ ipc = "read"
    /\ running' = FALSE
    /\ ipc' = "send"
    /\ UNCHANGED <<spc, smsg, idx, users, history, clientVars, queueVars>>

\* Mutant: input_thread returns without unblocking mq_receive.
InputNoDummy ==
    /\ ipc = "send"
    /\ ipc' = "done"
    /\ UNCHANGED <<running, spc, smsg, idx, users, history, clientVars, queueVars>>

InputUnblock ==
    /\ ipc = "send"
    /\ SendService(Dummy)
    /\ ipc' = "done"
    /\ UNCHANGED <<running, spc, smsg, idx, users, history, clientVars, mq, exists>>

InputStep == InputExit \/ InputUnblock

-----------------------------------------------------------------------------
(* The server's main loop *)

add_to_history(m) ==
    history' = IF Len(history) < HistorySize THEN Append(history, m) ELSE history

\* The test of the while loop.
Loop == spc' = IF running THEN "recv" ELSE "join"

\* Users full: the request is dropped.
NewUserIgnored(m) ==
    /\ m.type = NEW_USER
    /\ Len(users) >= UsersMax
    /\ Loop
    /\ UNCHANGED <<smsg, idx, users, history, exists>>

NewUser(m) ==
    /\ m.type = NEW_USER
    /\ Len(users) < UsersMax
    /\ exists' = [exists EXCEPT ![m.from] = TRUE]
    /\ users' = Append(users, m.from)
    /\ smsg' = m
    /\ idx' = 1
    /\ spc' = "replay"
    /\ UNCHANGED history

NewMessage(m) ==
    /\ m.type = NEW_MESSAGE
    /\ add_to_history(m)
    /\ smsg' = m
    /\ idx' = 1
    /\ spc' = "bcast"
    /\ UNCHANGED <<users, exists>>

\* find_user and the loop that closes the gap.
RemoveUser(c) == RemoveFirst(users, c)

\* A departure that find_user knows nothing of is ignored.
UserLeft(m) ==
    /\ m.type = USER_LEFT
    /\ IF m.from \in ToSet(users)
       THEN /\ exists' = [exists EXCEPT ![m.from] = FALSE]
            /\ users' = RemoveUser(m.from)
            /\ add_to_history(m)
            /\ smsg' = m
            /\ idx' = 1
            /\ spc' = "bcast"
       ELSE /\ Loop
            /\ UNCHANGED <<smsg, idx, users, history, exists>>

\* mq_receive: once running is 0 the message is dropped and the loop left.
Receive ==
    LET m == Head(service) IN
    /\ spc = "recv"
    /\ service # <<>>
    /\ service' = Tail(service)
    /\ IF running
       THEN NewUser(m) \/ NewUserIgnored(m) \/ NewMessage(m) \/ UserLeft(m)
       ELSE spc' = "join" /\ UNCHANGED <<smsg, idx, users, history, exists>>
    /\ UNCHANGED <<running, ipc, mq, clientVars>>

\* The newcomer first gets the history, message by message ...
Replay ==
    /\ spc = "replay"
    /\ idx <= Len(history)
    /\ SendUser(smsg.from, history[idx])
    /\ idx' = idx + 1
    /\ UNCHANGED <<running, spc, smsg, users, history, ipc, clientVars, service, exists>>

\* Mutant: the newcomer's notice goes into the history before the replay ends.
ReplayShort ==
    /\ spc = "replay"
    /\ idx >= Len(history)
    /\ add_to_history(smsg)
    /\ idx' = 1
    /\ spc' = "bcast"
    /\ UNCHANGED <<running, smsg, users, ipc, clientVars, queueVars>>

\* ... and then everybody, the newcomer too, gets the notice.
ReplayDone ==
    /\ spc = "replay"
    /\ idx > Len(history)
    /\ add_to_history(smsg)
    /\ idx' = 1
    /\ spc' = "bcast"
    /\ UNCHANGED <<running, smsg, users, ipc, clientVars, queueVars>>

Broadcast ==
    /\ spc = "bcast"
    /\ idx <= Len(users)
    /\ SendUser(users[idx], smsg)
    /\ idx' = idx + 1
    /\ UNCHANGED <<running, spc, smsg, users, history, ipc, clientVars, service, exists>>

BroadcastDone ==
    /\ spc = "bcast"
    /\ idx > Len(users)
    /\ Loop
    /\ UNCHANGED <<running, smsg, idx, users, history, ipc, clientVars, queueVars>>

\* pthread_join on input_thread.
Join ==
    /\ spc = "join"
    /\ ipc = "done"
    /\ idx' = 1
    /\ spc' = "cleanup"
    /\ UNCHANGED <<running, smsg, users, history, ipc, clientVars, queueVars>>

cleanup_resources ==
    /\ spc = "cleanup"
    /\ idx <= Len(users)
    /\ SendUser(users[idx], Shutdown)
    /\ exists' = [exists EXCEPT ![users[idx]] = FALSE]
    /\ idx' = idx + 1
    /\ UNCHANGED <<running, spc, smsg, users, history, ipc, clientVars, service>>

Stopped ==
    /\ spc = "cleanup"
    /\ idx > Len(users)
    /\ spc' = "stopped"
    /\ UNCHANGED <<running, smsg, idx, users, history, ipc, clientVars, queueVars>>

ServerStep ==
    \/ Receive
    \/ Replay
    \/ ReplayDone
    \/ Broadcast
    \/ BroadcastDone
    \/ Join
    \/ cleanup_resources
    \/ Stopped

-----------------------------------------------------------------------------
(* A client *)

\* main up to its sleep(2).
ClientJoin(c) ==
    /\ cpc[c] = "idle"
    /\ spc # "stopped"
    /\ SendService(Msg(NEW_USER, c, 0))
    /\ cpc' = [cpc EXCEPT ![c] = "sleep"]
    /\ UNCHANGED <<chat_history, cusers, says, serverVars, mq, exists>>

\* After the sleep the queue is there, or the client gives up.
ClientOpen(c) ==
    /\ cpc[c] = "sleep"
    /\ cpc' = [cpc EXCEPT ![c] = IF exists[c] THEN "chat" ELSE "failed"]
    /\ UNCHANGED <<chat_history, cusers, says, serverVars, queueVars>>

ClientSay(c) ==
    /\ cpc[c] = "chat"
    /\ says < MaxSays
    /\ SendService(Msg(NEW_MESSAGE, c, says + 2))
    /\ says' = says + 1
    /\ UNCHANGED <<cpc, chat_history, cusers, serverVars, mq, exists>>

\* "/exit": sender_thread ends and main cancels receiver_thread.
ClientLeave(c) ==
    /\ cpc[c] = "chat"
    /\ SendService(Msg(USER_LEFT, c, 0))
    /\ cpc' = [cpc EXCEPT ![c] = "left"]
    /\ UNCHANGED <<chat_history, cusers, says, serverVars, mq, exists>>

add_user(list, name) == IF Len(list) < UsersMax THEN Append(list, name) ELSE list

\* Mutant: remove_user does not stop at the first user of that name.
remove_all_users(list, name) == SelectSeq(list, LAMBDA n : n # name)

\* The first user of that name goes: a message names no pid here.
remove_user(list, name) ==
    IF name \in ToSet(list) THEN RemoveFirst(list, name) ELSE list

\* receiver_thread.  chat_lines stops at its maximum less one, so from then on
\* every line goes to the last slot, which is never shown.
ClientReceive(c) ==
    LET m == Head(mq[c]) IN
    /\ cpc[c] = "chat"
    /\ mq[c] # <<>>
    /\ mq' = [mq EXCEPT ![c] = Tail(@)]
    /\ cusers' = [cusers EXCEPT ![c] =
                     CASE m.type = NEW_USER -> add_user(@, Name[m.from])
                       [] m.type = USER_LEFT -> remove_user(@, Name[m.from])
                       [] OTHER -> @]
    /\ chat_history' = [chat_history EXCEPT ![c] =
                           IF Len(@) < ChatMax - 1 THEN Append(@, m) ELSE @]
    /\ UNCHANGED <<cpc, says, serverVars, service, exists>>

ClientStep(c) ==
    \/ ClientJoin(c)
    \/ ClientOpen(c)
    \/ ClientSay(c)
    \/ ClientLeave(c)
    \/ ClientReceive(c)

Next ==
    \/ InputStep
    \/ ServerStep
    \/ \E c \in Clients : ClientStep(c)

\* Threads that can run are scheduled; nobody has to join, type or leave.
Fairness ==
    /\ WF_vars(InputUnblock)
    /\ WF_vars(ServerStep)
    /\ \A c \in Clients : WF_vars(ClientOpen(c)) /\ WF_vars(ClientReceive(c))

SafeSpec == Init /\ [][Next]_vars
Spec == SafeSpec /\ Fairness

-----------------------------------------------------------------------------
(* Properties *)

\* Only users join and leave; the server has messages of its own.
Message ==
    [type : {NEW_USER, USER_LEFT}, from : Clients, text : Nat]
        \cup [type : {NEW_MESSAGE}, from : Clients \cup {Server}, text : Nat]

Names == {Name[c] : c \in Clients}

\* Every variable has the type the code gives it.
TypeOK ==
    /\ running \in BOOLEAN
    /\ spc \in {"recv", "replay", "bcast", "join", "cleanup", "stopped"}
    /\ ipc \in {"read", "send", "done"}
    /\ smsg \in Message
    /\ idx \in Nat \ {0}
    /\ users \in Seq(Clients) /\ Len(users) <= UsersMax
    /\ history \in Seq(Message) /\ Len(history) <= HistorySize
    /\ service \in Seq(Message) /\ Len(service) <= ServiceMax
    /\ mq \in [Clients -> Seq(Message)]
    /\ exists \in [Clients -> BOOLEAN]
    /\ cpc \in [Clients -> {"idle", "sleep", "chat", "left", "failed"}]
    /\ chat_history \in [Clients -> Seq(Message)]
    /\ cusers \in [Clients -> Seq(Names)]
    /\ \A c \in Clients :
        /\ Len(mq[c]) <= UserMax
        /\ Len(chat_history[c]) < ChatMax
        /\ Len(cusers[c]) <= UsersMax
    /\ says \in 0..MaxSays

\* What the server has still to send to user c before its next mq_receive.
Position(c) == CHOOSE i \in 1..Len(users) : users[i] = c
Pending(c) ==
    CASE spc = "replay" /\ smsg.from = c -> SubSeq(history, idx, Len(history))
      [] spc = "bcast" /\ Position(c) >= idx -> <<smsg>>
      [] OTHER -> <<>>

\* All users see the same chat: the lines a user has on its screen, what is in
\* its queue and what the server is about to send it are together the history,
\* from the first message on, also for a user that joins in the middle of the
\* traffic.  It holds until add_to_history starts to drop messages or a screen
\* is full.
SameTranscript ==
    ( /\ Len(history) < HistorySize
      /\ Len(history) < ChatMax
      /\ spc \notin {"cleanup", "stopped"} )
        => \A c \in ToSet(users) : chat_history[c] \o mq[c] \o Pending(c) = history

\* The list a client builds from the messages names the users the server has,
\* once the client has read everything: with two users of one name, as often.
UserListsAgree ==
    \A c \in ToSet(users) :
        ( /\ cpc[c] = "chat"
          /\ mq[c] = <<>>
          /\ spc \in {"recv", "join"}
          /\ Len(history) < HistorySize )
        => \A n \in Names :
               Cardinality({i \in 1..Len(cusers[c]) : cusers[c][i] = n})
               = Cardinality({i \in 1..Len(users) : Name[users[i]] = n})

\* The user whose queue main's next mq_send goes to.
Addressed(c) ==
    \/ spc = "replay" /\ idx <= Len(history) /\ smsg.from = c
    \/ spc \in {"bcast", "cleanup"} /\ idx <= Len(users) /\ users[idx] = c

\* main waits for room in the queue of a user that will never read again: it has
\* left, or its client gave up before its queue was there.
StuckSending ==
    \E c \in Clients : /\ Addressed(c)
                      /\ Len(mq[c]) = UserMax
                      /\ cpc[c] \in {"left", "failed"}

\* main has left its loop and waits for input_thread, which waits for room in
\* the queue that only main empties.
StuckJoining == spc = "join" /\ ipc = "send" /\ Len(service) = ServiceMax

\* "/exit" ends the server, or the server is in one of two deadlocks: there is no
\* third way in which the blocking sends of main, input_thread and the users'
\* two threads hold each other up, however full the queues are.
ExitStopsUnlessStuck == ipc = "send" ~> (spc = "stopped" \/ StuckSending \/ StuckJoining)

=============================================================================
