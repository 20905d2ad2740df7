------------------------------ MODULE ShmChat ------------------------------
(***************************************************************************)
(* The chat over shared memory, 14_shared_memory/chat: clients send to the *)
(* server through a bounded message queue; the server (server.c) is the    *)
(* only writer of shared_data_t (chat.h), and each client's receiver       *)
(* thread (client.c) polls it.  Nothing orders the server's writes and the *)
(* clients' reads but the order in which each side does them, so every     *)
(* write and every read of a shared field is a step, and overwriting a     *)
(* name is two: in between, its slot holds Torn.  A history slot holds     *)
(* Torn until its message is complete and is never written again.          *)
(***************************************************************************)
EXTENDS Integers, Sequences, FiniteSets, SequencesExt

CONSTANTS
    Clients,      \* the client processes, each with a name of its own
    ServiceMax,   \* mq_maxmsg
    UsersMax,     \* USERS_MAX, and the 10 of users[] in main
    HistorySize,  \* HISTORY_SIZE
    MaxSays,      \* bound: messages typed, all users together
    Stayers,      \* bound: the clients that are not interrupted in their sleep(2)
    Torn          \* a slot that is half written, or was never written

VARIABLES
    running,        \* server: the global flag
    spc,            \* server: where main is
    smsg,           \* server: the message main is working on
    idx,            \* server: j, the loop variable of its shifts
    users,          \* server: main's users[0..active_users-1]
    ipc,            \* server: where input_thread is
    service,        \* the service queue
    history,        \* shared: history[]
    shm_users,      \* shared: users[]
    users_count,    \* shared
    current_pos,    \* shared
    history_count,  \* shared
    cpc,            \* client: where its main and sender threads are
    rpc,            \* client: where its receiver thread is
    last_read_pos,  \* client
    chat_history,   \* client: chat_history[0..chat_lines-1]
    cusers,         \* client: users[0..users_count-1]
    want,           \* client: users_count as last read
    says            \* history: messages typed so far

shared == <<history, shm_users, users_count, current_pos, history_count>>
serverVars == <<running, spc, smsg, idx, users, ipc>>
receiverVars == <<rpc, last_read_pos, chat_history, cusers, want>>
vars == <<serverVars, service, shared, cpc, receiverVars, says>>

NEW_USER == "NEW_USER"
NEW_MESSAGE == "NEW_MESSAGE"
USER_LEFT == "USER_LEFT"
Server == "server"
Message == [type : {NEW_USER, NEW_MESSAGE, USER_LEFT}, from : Clients \cup {Server}, text : Nat]
Msg(type, from, text) == [type |-> type, from |-> from, text |-> text]
Dummy == Msg(NEW_MESSAGE, Server, 0)

ASSUME ShmAssumption ==
    /\ {ServiceMax, UsersMax, HistorySize} \subseteq Nat \ {0}
    /\ MaxSays \in Nat
    /\ Stayers \subseteq Clients
    /\ Torn \notin Clients \cup Message

Slots == 0..HistorySize - 1
UserSlots == 0..UsersMax - 1

\* main after its memset and mq_open.
Init ==
    /\ running = TRUE
    /\ spc = "recv"
    /\ smsg = Dummy
    /\ idx = 0
    /\ users = <<>>
    /\ ipc = "read"
    /\ service = <<>>
    /\ history = [i \in Slots |-> Torn]
    /\ shm_users = [i \in UserSlots |-> Torn]
    /\ users_count = 0
    /\ current_pos = 0
    /\ history_count = 0
    /\ cpc = [c \in Clients |-> "idle"]
    /\ rpc = [c \in Clients |-> "off"]
    /\ last_read_pos = [c \in Clients |-> 0]
    /\ chat_history = [c \in Clients |-> <<>>]
    /\ cusers = [c \in Clients |-> <<>>]
    /\ want = [c \in Clients |-> 0]
    /\ says = 0

SendService(m) == Len(service) < ServiceMax /\ service' = Append(service, m)

-----------------------------------------------------------------------------
(* The server's input_thread *)

InputExit ==
    /\ ipc = "read"
    /\ running' = FALSE
    /\ ipc' = "send"
    /\ UNCHANGED <<spc, smsg, idx, users, service, shared, cpc, receiverVars, says>>

\* Mutant: the dummy message is forgotten.
InputNoDummy ==
    /\ ipc = "send"
    /\ ipc' = "done"
    /\ UNCHANGED <<running, spc, smsg, idx, users, service, shared, cpc, receiverVars, says>>

\* The dummy message, sent even if main has noticed the flag by itself.
InputUnblock ==
    /\ ipc = "send"
    /\ SendService(Dummy)
    /\ ipc' = "done"
    /\ UNCHANGED <<running, spc, smsg, idx, users, shared, cpc, receiverVars, says>>

-----------------------------------------------------------------------------
(* The server's main loop *)

\* The test of the while loop; msg and j go out of scope before it.
Loop ==
    /\ spc' = IF running THEN "recv" ELSE "join"
    /\ smsg' = Dummy
    /\ idx' = 0
Find(c) == CHOOSE i \in 1..Len(users) : users[i] = c

\* NEW_USER while there is room: first the local list ...
NewUser(m) ==
    /\ m.type = NEW_USER
    /\ Len(users) < UsersMax
    /\ users' = Append(users, m.from)
    /\ smsg' = m
    /\ spc' = "user_tear"
    /\ UNCHANGED idx

NewUserIgnored(m) ==
    /\ m.type = NEW_USER
    /\ Len(users) >= UsersMax
    /\ Loop
    /\ UNCHANGED users

NewMessage(m) ==
    /\ m.type = NEW_MESSAGE
    /\ smsg' = m
    /\ spc' = "hist_test"
    /\ UNCHANGED <<users, idx>>

\* USER_LEFT of a user find_user finds: the local list at once, the shared one
\* from the same index on.
UserLeft(m) ==
    /\ m.type = USER_LEFT
    /\ m.from \in ToSet(users)
    /\ users' = RemoveAt(users, Find(m.from))
    /\ smsg' = m
    /\ idx' = Find(m.from) - 1
    /\ spc' = "shift_test"

UserLeftIgnored(m) ==
    /\ m.type = USER_LEFT
    /\ m.from \notin ToSet(users)
    /\ Loop
    /\ UNCHANGED users

Receive ==
    LET m == Head(service) IN
    /\ spc = "recv"
    /\ service # <<>>
    /\ service' = Tail(service)
    /\ IF running
       THEN \/ NewUser(m) \/ NewUserIgnored(m)
            \/ NewMessage(m)
            \/ UserLeft(m) \/ UserLeftIgnored(m)
       ELSE spc' = "join" /\ UNCHANGED <<smsg, users, idx>>
    /\ UNCHANGED <<running, ipc, shared, cpc, receiverVars, says>>

\* ... then the name behind the shared list, then its length.
UserTear ==
    /\ spc = "user_tear"
    /\ shm_users' = [shm_users EXCEPT ![users_count] = Torn]
    /\ spc' = "user_copy"
    /\ UNCHANGED <<running, smsg, idx, users, ipc, service, history, users_count,
                   current_pos, history_count, cpc, receiverVars, says>>

UserCopy ==
    /\ spc = "user_copy"
    /\ shm_users' = [shm_users EXCEPT ![users_count] = smsg.from]
    /\ spc' = "user_count"
    /\ UNCHANGED <<running, smsg, idx, users, ipc, service, history, users_count,
                   current_pos, history_count, cpc, receiverVars, says>>

UserCount ==
    /\ spc = "user_count"
    /\ users_count' = users_count + 1
    /\ spc' = "hist_test"
    /\ UNCHANGED <<running, smsg, idx, users, ipc, service, history, shm_users,
                   current_pos, history_count, cpc, receiverVars, says>>

\* Mutant: the shift stops one name early.
ShiftTestShort ==
    /\ spc = "shift_test"
    /\ IF idx < users_count - 2
       THEN /\ shm_users' = [shm_users EXCEPT ![idx] = Torn]
            /\ spc' = "shift_copy"
            /\ UNCHANGED users_count
       ELSE /\ users_count' = users_count - 1
            /\ spc' = "hist_test"
            /\ UNCHANGED shm_users
    /\ UNCHANGED <<running, smsg, idx, users, ipc, service, history,
                   current_pos, history_count, cpc, receiverVars, says>>

\* The loop over the shared users, and users_count-- after it.
ShiftTest ==
    /\ spc = "shift_test"
    /\ IF idx < users_count - 1
       THEN /\ shm_users' = [shm_users EXCEPT ![idx] = Torn]
            /\ spc' = "shift_copy"
            /\ UNCHANGED users_count
       ELSE /\ users_count' = users_count - 1
            /\ spc' = "hist_test"
            /\ UNCHANGED shm_users
    /\ UNCHANGED <<running, smsg, idx, users, ipc, service, history,
                   current_pos, history_count, cpc, receiverVars, says>>

ShiftCopy ==
    /\ spc = "shift_copy"
    /\ shm_users' = [shm_users EXCEPT ![idx] = shm_users[idx + 1]]
    /\ idx' = idx + 1
    /\ spc' = "shift_test"
    /\ UNCHANGED <<running, smsg, users, ipc, service, history, users_count,
                   current_pos, history_count, cpc, receiverVars, says>>

\* add_to_history: nothing when full, else slot, position, count.
HistoryTest ==
    /\ spc = "hist_test"
    /\ IF history_count >= HistorySize
       THEN Loop
       ELSE spc' = "hist_copy" /\ UNCHANGED <<smsg, idx>>
    /\ UNCHANGED <<running, users, ipc, service, shared, cpc, receiverVars, says>>

\* Mutant: memcpy copies the size of the pointer, not of the message.
HistoryCopyPart ==
    /\ spc = "hist_copy"
    /\ history' = [history EXCEPT ![current_pos] = Torn]
    /\ spc' = "hist_pos"
    /\ UNCHANGED <<running, smsg, idx, users, ipc, service, shm_users, users_count,
                   current_pos, history_count, cpc, receiverVars, says>>

HistoryCopy ==
    /\ spc = "hist_copy"
    /\ history' = [history EXCEPT ![current_pos] = smsg]
    /\ spc' = "hist_pos"
    /\ UNCHANGED <<running, smsg, idx, users, ipc, service, shm_users, users_count,
                   current_pos, history_count, cpc, receiverVars, says>>

\* Mutant: the position is not moved.
HistoryPosStays ==
    /\ spc = "hist_pos"
    /\ spc' = "hist_count"
    /\ UNCHANGED <<running, smsg, idx, users, ipc, service, shared, cpc, receiverVars, says>>

HistoryPos ==
    /\ spc = "hist_pos"
    /\ current_pos' = (current_pos + 1) % HistorySize
    /\ spc' = "hist_count"
    /\ UNCHANGED <<running, smsg, idx, users, ipc, service, history, shm_users, users_count,
                   history_count, cpc, receiverVars, says>>

HistoryCount ==
    /\ spc = "hist_count"
    /\ history_count' = IF history_count < HistorySize THEN history_count + 1 ELSE history_count
    /\ Loop
    /\ UNCHANGED <<running, users, ipc, service, history, shm_users, users_count,
                   current_pos, cpc, receiverVars, says>>

\* pthread_join, then cleanup_resources unlinks the memory and the queue.
Stop ==
    /\ spc = "join"
    /\ ipc = "done"
    /\ spc' = "stopped"
    /\ UNCHANGED <<running, smsg, idx, users, ipc, service, shared, cpc, receiverVars, says>>

ServerStep ==
    \/ Receive
    \/ UserTear \/ UserCopy \/ UserCount
    \/ ShiftTest \/ ShiftCopy
    \/ HistoryTest \/ HistoryCopy \/ HistoryPos \/ HistoryCount
    \/ Stop

-----------------------------------------------------------------------------
(* A client *)

ClientJoin(c) ==
    /\ cpc[c] = "idle"
    /\ spc # "stopped"
    /\ SendService(Msg(NEW_USER, c, 0))
    /\ cpc' = [cpc EXCEPT ![c] = "sleep"]
    /\ UNCHANGED <<serverVars, shared, receiverVars, says>>

\* After sleep(2) both threads start; the receiver exits the process when the
\* shared memory is gone.  The server may not have handled NEW_USER yet.
ClientStart(c) ==
    /\ c \in Stayers
    /\ cpc[c] = "sleep"
    /\ cpc' = [cpc EXCEPT ![c] = IF spc = "stopped" THEN "failed" ELSE "chat"]
    /\ rpc' = [rpc EXCEPT ![c] = IF spc = "stopped" THEN "off" ELSE "poll"]
    /\ UNCHANGED <<serverVars, service, shared, last_read_pos, chat_history, cusers, want, says>>

ClientSay(c) ==
    /\ cpc[c] = "chat"
    /\ says < MaxSays
    /\ SendService(Msg(NEW_MESSAGE, c, says + 1))
    /\ says' = says + 1
    /\ UNCHANGED <<serverVars, shared, cpc, receiverVars>>

\* "/exit" also cancels the receiver thread, and the process ends.
ClientLeave(c) ==
    /\ cpc[c] = "chat"
    /\ SendService(Msg(USER_LEFT, c, 0))
    /\ cpc' = [cpc EXCEPT ![c] = "left"]
    /\ rpc' = [rpc EXCEPT ![c] = "off"]
    /\ last_read_pos' = [last_read_pos EXCEPT ![c] = 0]
    /\ chat_history' = [chat_history EXCEPT ![c] = <<>>]
    /\ cusers' = [cusers EXCEPT ![c] = <<>>]
    /\ want' = [want EXCEPT ![c] = 0]
    /\ UNCHANGED <<serverVars, shared, says>>

\* receiver_thread: the test of the inner loop ...
PollPos(c) ==
    /\ rpc[c] = "poll"
    /\ last_read_pos[c] # current_pos
    /\ rpc' = [rpc EXCEPT ![c] = "read"]
    /\ UNCHANGED <<serverVars, service, shared, cpc, last_read_pos, chat_history, cusers, want, says>>

\* Mutant: the reader jumps to the newest message.
ReadMessageSkips(c) ==
    /\ rpc[c] = "read"
    /\ chat_history' = [chat_history EXCEPT ![c] =
                           IF Len(@) + 1 >= HistorySize THEN <<>>
                           ELSE Append(@, history[last_read_pos[c]])]
    /\ last_read_pos' = [last_read_pos EXCEPT ![c] = current_pos]
    /\ rpc' = [rpc EXCEPT ![c] = "count"]
    /\ UNCHANGED <<serverVars, service, shared, cpc, cusers, want, says>>

\* ... one message; a full screen starts again from nothing ...
ReadMessage(c) ==
    /\ rpc[c] = "read"
    /\ chat_history' = [chat_history EXCEPT ![c] =
                           IF Len(@) + 1 >= HistorySize THEN <<>>
                           ELSE Append(@, history[last_read_pos[c]])]
    /\ last_read_pos' = [last_read_pos EXCEPT ![c] = (@ + 1) % HistorySize]
    /\ rpc' = [rpc EXCEPT ![c] = "count"]
    /\ UNCHANGED <<serverVars, service, shared, cpc, cusers, want, says>>

\* Mutant: the names are copied only when their number has changed.
ReadUsersIfChanged(c) ==
    /\ rpc[c] = "count"
    /\ want' = [want EXCEPT ![c] = users_count]
    /\ IF want[c] = users_count
       THEN UNCHANGED cusers /\ rpc' = [rpc EXCEPT ![c] = "poll"]
       ELSE /\ cusers' = [cusers EXCEPT ![c] = <<>>]
            /\ rpc' = [rpc EXCEPT ![c] = IF users_count = 0 THEN "poll" ELSE "names"]
    /\ UNCHANGED <<serverVars, service, shared, cpc, last_read_pos, chat_history, says>>

\* ... and the users, name by name.
ReadUsersCount(c) ==
    /\ rpc[c] = "count"
    /\ want' = [want EXCEPT ![c] = users_count]
    /\ cusers' = [cusers EXCEPT ![c] = <<>>]
    /\ rpc' = [rpc EXCEPT ![c] = IF users_count = 0 THEN "poll" ELSE "names"]
    /\ UNCHANGED <<serverVars, service, shared, cpc, last_read_pos, chat_history, says>>

ReadUserName(c) ==
    /\ rpc[c] = "names"
    /\ cusers' = [cusers EXCEPT ![c] = Append(@, shm_users[Len(@)])]
    /\ rpc' = [rpc EXCEPT ![c] = IF Len(cusers[c]) + 1 < want[c] THEN "names" ELSE "poll"]
    /\ UNCHANGED <<serverVars, service, shared, cpc, last_read_pos, chat_history, want, says>>

ReceiverStep(c) ==
    \/ PollPos(c)
    \/ ReadMessage(c)
    \/ ReadUsersCount(c)
    \/ ReadUserName(c)

Next ==
    \/ InputExit
    \/ InputUnblock
    \/ ServerStep
    \/ \E c \in Clients :
        \/ ClientJoin(c) \/ ClientStart(c) \/ ClientSay(c) \/ ClientLeave(c)
        \/ ReceiverStep(c)

\* Threads that can run are scheduled; nobody has to join, type or leave.
Fairness ==
    /\ WF_vars(InputUnblock)
    /\ WF_vars(ServerStep)
    /\ \A c \in Clients : WF_vars(ClientStart(c)) /\ WF_vars(ReceiverStep(c))

SafeSpec == Init /\ [][Next]_vars
Spec == SafeSpec /\ Fairness

-----------------------------------------------------------------------------
(* Properties *)

\* Every variable has the type the code gives it.
TypeOK ==
    /\ running \in BOOLEAN
    /\ spc \in {"recv", "user_tear", "user_copy", "user_count", "shift_test", "shift_copy",
                "hist_test", "hist_copy", "hist_pos", "hist_count", "join", "stopped"}
    /\ ipc \in {"read", "send", "done"}
    /\ smsg \in Message
    /\ idx \in UserSlots
    /\ users \in Seq(Clients) /\ Len(users) <= UsersMax
    /\ service \in Seq(Message) /\ Len(service) <= ServiceMax
    /\ history \in [Slots -> Message \cup {Torn}]
    /\ shm_users \in [UserSlots -> Clients \cup {Torn}]
    /\ users_count \in 0..UsersMax
    /\ current_pos \in Slots
    /\ history_count \in 0..HistorySize
    /\ cpc \in [Clients -> {"idle", "sleep", "chat", "left", "failed"}]
    /\ rpc \in [Clients -> {"off", "poll", "read", "count", "names"}]
    /\ last_read_pos \in [Clients -> Slots]
    /\ chat_history \in [Clients -> Seq(Message)]
    /\ cusers \in [Clients -> Seq(Clients \cup {Torn})]
    /\ want \in [Clients -> 0..UsersMax]
    /\ \A c \in Clients :
        Len(chat_history[c]) < HistorySize /\ Len(cusers[c]) <= UsersMax
    /\ says \in 0..MaxSays

\* Although nothing but the order of the server's writes protects them, a
\* client never takes over a message that is half written, out of order or
\* twice: its screen is the beginning of the history.
ReadsPublished ==
    \A c \in Clients : \A i \in 1..Len(chat_history[c]) :
        chat_history[c][i] # Torn /\ chat_history[c][i] = history[i - 1]

CaughtUp(c) == rpc[c] = "poll" /\ last_read_pos[c] = current_pos

\* A client that has caught up shows every message there is, as long as the
\* history has never been full.
CaughtUpSeesAll ==
    history_count < HistorySize /\ spc = "recv"
        => \A c \in Clients : CaughtUp(c) => Len(chat_history[c]) = history_count

\* main keeps two lists of users and applies the index found in one to the
\* other: between two messages they are the same.
ListsAligned ==
    spc \in {"recv", "join", "stopped"}
        => /\ users_count = Len(users)
           /\ \A i \in 1..Len(users) : shm_users[i - 1] = users[i]

\* Names are copied while the server shifts them, so a client may show a torn
\* list; but once the server is idle and the client has caught up, it shows
\* the server's users, as long as the history has never been full.
UsersAgree ==
    \A c \in Clients :
        ( /\ CaughtUp(c)
          /\ spc = "recv"
          /\ 0 < history_count
          /\ history_count < HistorySize )
        => cusers[c] = users

\* A client that stays always comes to show the whole history again, once the
\* others pause, unless the history fills up.
EveryoneReads ==
    \A c \in Clients :
        []<>(cpc[c] = "chat" => Len(chat_history[c]) = history_count \/ history_count = HistorySize)

\* After "/exit" the server stops unless main left its loop by itself while the
\* service queue was full: then input_thread waits for room and main for
\* input_thread.
ExitStops ==
    ~running ~> (spc = "stopped" \/ (spc = "join" /\ Len(service) = ServiceMax))
=============================================================================
