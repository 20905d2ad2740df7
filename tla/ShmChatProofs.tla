--------------------------- MODULE ShmChatProofs ---------------------------
(* Proofs about ShmChat, for any number of clients and any sizes of the      *)
(* history, the list of users and the queue.  What holds between the single  *)
(* stores of the server is said once, by the phase it is in; the readers     *)
(* are then related to what is published.                                    *)
EXTENDS ShmChat, SequenceTheorems, TLAPS

-----------------------------------------------------------------------------
(* The invariant *)

Adding == {"user_tear", "user_copy", "user_count"}
Shifting == {"shift_test", "shift_copy"}

\* Only users announce themselves and leave.
Genuine(m) == m.type # NEW_MESSAGE => m.from \in Clients

\* While a name is added main's list is one ahead; while one is removed the
\* names before j are in their new places and the others in their old ones.
ListInv ==
    /\ spc \in Adding =>
          /\ Len(users) = users_count + 1
          /\ \A i \in 0..users_count - 1 : shm_users[i] = users[i + 1]
          /\ users[users_count + 1] = smsg.from
          /\ smsg.from \in Clients
          /\ spc = "user_count" => shm_users[users_count] = smsg.from
    /\ spc \in Shifting =>
          /\ users_count = Len(users) + 1
          /\ idx < users_count
          /\ spc = "shift_copy" => idx < users_count - 1
          /\ \A i \in 0..Len(users) - 1 :
                users[i + 1] = IF i < idx THEN shm_users[i] ELSE shm_users[i + 1]
    /\ spc \notin Adding \cup Shifting =>
          /\ users_count = Len(users)
          /\ \A i \in 0..users_count - 1 : shm_users[i] = users[i + 1]

\* How many messages readers may take.
Published == IF spc = "hist_count" THEN history_count + 1 ELSE history_count

HistoryInv ==
    /\ Published <= HistorySize
    /\ current_pos = IF Published = HistorySize THEN 0 ELSE Published
    /\ spc \in {"hist_copy", "hist_pos"} => history_count < HistorySize
    /\ \A i \in 0..Published - 1 : history[i] \in Message
    /\ spc = "hist_pos" => history[history_count] \in Message

\* A reader's position is the number of messages on its screen, also after the
\* screen was emptied, and never beyond what is published.
Reader(c) ==
    /\ last_read_pos[c] = Len(chat_history[c])
    /\ last_read_pos[c] <= Published
    /\ rpc[c] = "read" => last_read_pos[c] < Published
    /\ \A i \in 1..Len(chat_history[c]) : chat_history[c][i] = history[i - 1]
    /\ rpc[c] = "names" => Len(cusers[c]) < want[c]
    /\ cpc[c] \in {"idle", "sleep"} => last_read_pos[c] = 0 /\ rpc[c] = "off"

\* Every change of the users is followed by a message, so a reader that has
\* read all of them has looked at the users since their last change.
Settled == spc \in {"recv", "hist_count", "join", "stopped"}
View(c) ==
    Settled /\ 0 < Published /\ last_read_pos[c] = Published =>
        /\ rpc[c] = "poll" => cusers[c] = users
        /\ rpc[c] = "names" =>
              /\ want[c] = Len(users)
              /\ \A i \in 1..Len(cusers[c]) : cusers[c][i] = users[i]

ServerInv ==
    /\ \A i \in 1..Len(service) : Genuine(service[i])
    /\ ListInv
    /\ HistoryInv

ReaderInv == \A c \in Clients : Reader(c) /\ View(c)

ShmInv == TypeOK /\ ServerInv /\ ReaderInv

-----------------------------------------------------------------------------
(* Lemmas about the operators *)

\* The ring index after the last slot is the first one.
LEMMA NextSlot ==
    ASSUME NEW n \in Slots
    PROVE  (n + 1) % HistorySize = IF n + 1 = HistorySize THEN 0 ELSE n + 1
<1>1. HistorySize \in Nat \ {0} /\ n \in Nat /\ n + 1 <= HistorySize
  BY ShmAssumption DEF Slots
<1>2. \A h \in Nat \ {0} : h % h = 0
  OBVIOUS
<1>3. \A h \in Nat \ {0}, m \in Nat : m < h => m % h = m
  OBVIOUS
<1> QED BY <1>1, <1>2, <1>3

\* main's list without the user at position k.
LEMMA Removed ==
    ASSUME NEW u \in Seq(Clients), NEW k \in 1..Len(u)
    PROVE  /\ RemoveAt(u, k) \in Seq(Clients)
           /\ Len(RemoveAt(u, k)) = Len(u) - 1
           /\ \A i \in 1..Len(u) - 1 :
                 RemoveAt(u, k)[i] = IF i < k THEN u[i] ELSE u[i + 1]
<1> DEFINE front == SubSeq(u, 1, k - 1)
           back == SubSeq(u, k + 1, Len(u))
<1>1. Len(u) \in Nat /\ \A i \in 1..Len(u) : u[i] \in Clients
  BY LenProperties, ElementOfSeq
<1>2. /\ front \in Seq(Clients)
      /\ Len(front) = k - 1
      /\ \A i \in 1..k - 1 : front[i] = u[i]
  BY <1>1, SubSeqProperties
<1>3. /\ back \in Seq(Clients)
      /\ Len(back) = Len(u) - k
      /\ \A i \in 1..Len(u) - k : back[i] = u[k + i]
  BY <1>1, SubSeqProperties
<1>4. RemoveAt(u, k) = front \o back
  BY DEF RemoveAt
<1> HIDE DEF front, back
<1>5. /\ front \o back \in Seq(Clients)
      /\ Len(front \o back) = Len(u) - 1
      /\ \A i \in 1..Len(u) - 1 :
            (front \o back)[i] = IF i <= k - 1 THEN front[i] ELSE back[i - (k - 1)]
  <2>1. /\ front \o back \in Seq(Clients)
        /\ Len(front \o back) = Len(front) + Len(back)
        /\ \A i \in 1..Len(front) + Len(back) :
              (front \o back)[i] = IF i <= Len(front) THEN front[i] ELSE back[i - Len(front)]
    BY <1>2, <1>3, ConcatProperties
  <2>2. Len(front) = k - 1 /\ Len(front) + Len(back) = Len(u) - 1
    BY <1>1, <1>2, <1>3
  <2> QED BY <2>1, <2>2
<1> QED BY <1>1, <1>2, <1>3, <1>4, <1>5

ServiceInv ==
    /\ service \in Seq(Message)
    /\ Len(service) <= ServiceMax
    /\ \A i \in 1..Len(service) : Genuine(service[i])

\* What sending and receiving do to the queue.
LEMMA Sent ==
    ASSUME ServiceInv, NEW m \in Message, Genuine(m), SendService(m)
    PROVE  ServiceInv'
<1>1. Len(service) \in Nat
  BY LenProperties DEF ServiceInv
<1> QED BY <1>1, AppendProperties, ShmAssumption DEF ServiceInv, SendService

LEMMA Taken ==
    ASSUME ServiceInv, service # <<>>, service' = Tail(service)
    PROVE  Head(service) \in Message /\ Genuine(Head(service)) /\ ServiceInv'
<1>1. /\ Head(service) \in Message
      /\ Tail(service) \in Seq(Message)
      /\ Len(Tail(service)) = Len(service) - 1
      /\ \A i \in 1..Len(Tail(service)) : Tail(service)[i] = service[i + 1]
      /\ Len(service) \in Nat
  BY HeadTailProperties, LenProperties DEF ServiceInv
<1>2. Head(service) = service[1] /\ Len(service) # 0
  BY EmptySeq DEF ServiceInv
<1>3. Genuine(Head(service))
  BY <1>1, <1>2 DEF ServiceInv
<1>4. \A i \in 1..Len(service') : Genuine(service'[i])
  <2> SUFFICES ASSUME NEW i \in 1..Len(service') PROVE Genuine(service'[i])
    OBVIOUS
  <2>1. i + 1 \in 1..Len(service) /\ service'[i] = service[i + 1]
    BY <1>1
  <2> QED BY <2>1 DEF ServiceInv
<1> QED BY <1>1, <1>3, <1>4, ShmAssumption DEF ServiceInv

\* The messages that clients and input_thread send.
LEMMA Messages ==
    /\ Dummy \in Message /\ Genuine(Dummy)
    /\ \A c \in Clients, n \in Nat :
          /\ Msg(NEW_USER, c, n) \in Message /\ Genuine(Msg(NEW_USER, c, n))
          /\ Msg(NEW_MESSAGE, c, n) \in Message /\ Genuine(Msg(NEW_MESSAGE, c, n))
          /\ Msg(USER_LEFT, c, n) \in Message /\ Genuine(Msg(USER_LEFT, c, n))
  BY DEF Dummy, Msg, Message, Genuine, NEW_USER, NEW_MESSAGE, USER_LEFT

-----------------------------------------------------------------------------
(* Types *)

\* What Receive does to main's list, for each message.
LEMMA Handled ==
    ASSUME ShmInv, Receive
    PROVE  /\ ServiceInv'
           /\ smsg' \in Message /\ idx' \in UserSlots
           /\ users' \in Seq(Clients) /\ Len(users') <= UsersMax
           /\ \/ /\ spc' = "user_tear" /\ smsg'.from \in Clients
                 /\ users' = Append(users, smsg'.from)
              \/ /\ spc' \in {"recv", "join", "hist_test"}
                 /\ users' = users
              \/ /\ spc' = "shift_test" /\ idx' + 1 \in 1..Len(users)
                 /\ users' = RemoveAt(users, idx' + 1)
<1> DEFINE m == Head(service)
<1>1. m \in Message /\ Genuine(m) /\ ServiceInv'
  BY Taken DEF Receive, ShmInv, TypeOK, ServerInv, ServiceInv
<1>2. /\ users \in Seq(Clients) /\ Len(users) \in Nat /\ Len(users) <= UsersMax
      /\ idx \in UserSlots /\ smsg \in Message /\ UsersMax \in Nat \ {0}
  BY LenProperties, ShmAssumption DEF ShmInv, TypeOK
<1>3. Dummy \in Message /\ 0 \in UserSlots
  BY <1>2, Messages DEF UserSlots
<1> HIDE DEF m
<1>4. CASE NewUser(m)
  <2>1. m.from \in Clients
    BY <1>1, <1>4 DEF NewUser, Genuine, NEW_USER, NEW_MESSAGE
  <2>2. users' \in Seq(Clients) /\ Len(users') = Len(users) + 1
    BY <1>2, <1>4, <2>1, AppendProperties DEF NewUser
  <2> QED BY <1>1, <1>2, <1>4, <2>1, <2>2 DEF NewUser
<1>5. CASE NewUserIgnored(m) \/ NewMessage(m) \/ UserLeftIgnored(m)
  BY <1>1, <1>2, <1>3, <1>5 DEF NewUserIgnored, NewMessage, UserLeftIgnored, Loop
<1>6. CASE UserLeft(m)
  <2> DEFINE k == Find(m.from)
  <2>1. k \in 1..Len(users)
    BY <1>2, <1>6 DEF UserLeft, Find, ToSet
  <2>2. idx' = k - 1 /\ users' = RemoveAt(users, k)
    BY <1>6 DEF UserLeft
  <2> HIDE DEF k
  <2>3. k - 1 \in UserSlots
    BY <1>2, <2>1 DEF UserSlots
  <2>4. users' \in Seq(Clients) /\ Len(users') = Len(users) - 1
    BY <1>2, <2>1, <2>2, Removed
  <2>5. idx' + 1 = k
    BY <2>1, <2>2
  <2> QED BY <1>1, <1>2, <1>6, <2>1, <2>2, <2>3, <2>4, <2>5 DEF UserLeft
<1>7. CASE spc' = "join" /\ UNCHANGED <<smsg, users, idx>>
  BY <1>1, <1>2, <1>7
<1> QED BY <1>4, <1>5, <1>6, <1>7 DEF Receive, m

\* Receivers: a message on the screen, and a name in the list.
LEMMA Screen ==
    ASSUME ShmInv, NEW c \in Clients, ReadMessage(c)
    PROVE  LET n == Len(chat_history[c]) IN
           /\ n \in Nat /\ last_read_pos[c] = n /\ n < Published /\ n < HistorySize
           /\ chat_history'[c] \in Seq(Message)
           /\ \/ n + 1 = HistorySize /\ Len(chat_history'[c]) = 0 /\ last_read_pos'[c] = 0
              \/ /\ n + 1 < HistorySize
                 /\ Len(chat_history'[c]) = n + 1
                 /\ \A i \in 1..n : chat_history'[c][i] = chat_history[c][i]
                 /\ chat_history'[c][n + 1] = history[n]
                 /\ last_read_pos'[c] = n + 1
<1> DEFINE s == chat_history[c]
           n == Len(s)
<1>1. /\ s \in Seq(Message) /\ n \in Nat /\ n < HistorySize
      /\ last_read_pos[c] = n /\ n < Published
  BY LenProperties DEF ShmInv, TypeOK, ReaderInv, Reader, ReadMessage
<1>2. history[n] \in Message
  BY <1>1 DEF ShmInv, ServerInv, HistoryInv, Published, TypeOK
<1>3. n \in Slots /\ HistorySize \in Nat
  BY <1>1, ShmAssumption DEF Slots
<1>4. /\ last_read_pos'[c] = (n + 1) % HistorySize
      /\ chat_history'[c] = IF n + 1 >= HistorySize THEN <<>> ELSE Append(s, history[n])
  BY <1>1 DEF ReadMessage, ShmInv, TypeOK
<1>5. /\ Append(s, history[n]) \in Seq(Message)
      /\ Len(Append(s, history[n])) = n + 1
      /\ \A i \in 1..n : Append(s, history[n])[i] = s[i]
      /\ Append(s, history[n])[n + 1] = history[n]
  BY <1>1, <1>2, AppendProperties
<1>6. <<>> \in Seq(Message) /\ Len(<<>>) = 0
  BY EmptySeq
<1> HIDE DEF n
<1>7. (n + 1) % HistorySize = IF n + 1 = HistorySize THEN 0 ELSE n + 1
  BY <1>3, NextSlot
<1>8. CASE n + 1 = HistorySize
  <2>1. chat_history'[c] = <<>> /\ last_read_pos'[c] = 0
    BY <1>1, <1>3, <1>4, <1>7, <1>8
  <2> QED BY <1>1, <1>6, <1>8, <2>1 DEF n
<1>9. CASE n + 1 < HistorySize
  <2>1. chat_history'[c] = Append(s, history[n]) /\ last_read_pos'[c] = n + 1
    BY <1>1, <1>3, <1>4, <1>7, <1>9
  <2> QED BY <1>1, <1>5, <1>9, <2>1 DEF n
<1>10. n + 1 = HistorySize \/ n + 1 < HistorySize
  BY <1>1, <1>3
<1> QED BY <1>8, <1>9, <1>10

LEMMA Copied ==
    ASSUME ShmInv, NEW c \in Clients, ReadUserName(c)
    PROVE  LET n == Len(cusers[c]) IN
           /\ n \in Nat /\ n < want[c] /\ want[c] \in 0..UsersMax
           /\ cusers'[c] \in Seq(Clients \cup {Torn})
           /\ Len(cusers'[c]) = n + 1
           /\ \A i \in 1..n : cusers'[c][i] = cusers[c][i]
           /\ cusers'[c][n + 1] = shm_users[n]
<1> DEFINE s == cusers[c]
           n == Len(s)
<1>1. /\ s \in Seq(Clients \cup {Torn}) /\ n \in Nat
      /\ want[c] \in 0..UsersMax /\ n < want[c]
  BY LenProperties DEF ShmInv, TypeOK, ReaderInv, Reader, ReadUserName
<1>2. n \in UserSlots
  BY <1>1, ShmAssumption DEF UserSlots
<1>3. shm_users[n] \in Clients \cup {Torn}
  BY <1>2 DEF ShmInv, TypeOK
<1>4. cusers'[c] = Append(s, shm_users[n])
  BY DEF ReadUserName, ShmInv, TypeOK
<1> QED BY <1>1, <1>3, <1>4, ShmAssumption, AppendProperties

LEMMA TypeInit == Init => TypeOK
<1> SUFFICES ASSUME Init PROVE TypeOK
  OBVIOUS
<1>1. \A S : <<>> \in Seq(S) /\ Len(<<>>) = 0
  BY EmptySeq
<1>2. Dummy \in Message /\ 0 \in UserSlots /\ 0 \in Slots
  BY Messages, ShmAssumption DEF UserSlots, Slots
<1> QED BY <1>1, <1>2, ShmAssumption DEF Init, TypeOK

LEMMA TypeNext == ShmInv /\ [Next]_vars => TypeOK'
<1> SUFFICES ASSUME ShmInv, [Next]_vars PROVE TypeOK'
  OBVIOUS
<1> USE ShmAssumption DEF shared, serverVars, receiverVars
<1>1. TypeOK /\ ServiceInv
  BY DEF ShmInv, TypeOK, ServerInv, ServiceInv
<1>2. CASE InputExit
  BY <1>1, <1>2 DEF InputExit, TypeOK
<1>3. CASE InputUnblock
  <2>1. ServiceInv'
    BY <1>1, <1>3, Messages, Sent DEF InputUnblock
  <2> QED BY <1>1, <1>3, <2>1 DEF InputUnblock, TypeOK, ServiceInv
<1>4. CASE Receive
  BY <1>1, <1>4, Handled DEF Receive, TypeOK, ServiceInv
<1>5. CASE UserTear \/ UserCopy
  <2>1. smsg.from \in Clients
    BY <1>5 DEF UserTear, UserCopy, ShmInv, ServerInv, ListInv, Adding
  <2> QED BY <1>1, <1>5, <2>1 DEF UserTear, UserCopy, TypeOK
<1>6. CASE UserCount
  <2>1. users_count + 1 \in 0..UsersMax
    BY <1>1, <1>6, LenProperties DEF UserCount, ShmInv, ServerInv, ListInv, Adding, TypeOK
  <2> QED BY <1>1, <1>6, <2>1 DEF UserCount, TypeOK
<1>7. CASE ShiftTest
  <2>1. users_count = Len(users) + 1 /\ Len(users) \in Nat
    BY <1>1, <1>7, LenProperties DEF ShiftTest, ShmInv, ServerInv, ListInv, Shifting, TypeOK
  <2>2. users_count - 1 \in 0..UsersMax
    BY <1>1, <2>1 DEF TypeOK
  <2>3. users_count' \in 0..UsersMax /\ shm_users' \in [UserSlots -> Clients \cup {Torn}]
    BY <1>1, <1>7, <2>2 DEF ShiftTest, TypeOK
  <2> QED BY <1>1, <1>7, <2>3 DEF ShiftTest, TypeOK
<1>8. CASE ShiftCopy
  <2>1. idx < users_count - 1
    BY <1>1, <1>8 DEF ShiftCopy, ShmInv, ServerInv, ListInv, Shifting
  <2>2. idx + 1 \in UserSlots
    BY <1>1, <2>1 DEF TypeOK, UserSlots
  <2> QED BY <1>1, <1>8, <2>2 DEF ShiftCopy, TypeOK
<1>9. CASE HistoryTest
  BY <1>1, <1>9, Messages DEF HistoryTest, Loop, TypeOK, UserSlots
<1>10. CASE HistoryCopy
  BY <1>1, <1>10 DEF HistoryCopy, TypeOK
<1>11. CASE HistoryPos
  <2>1. (current_pos + 1) % HistorySize \in Slots
    BY <1>1, NextSlot DEF TypeOK, Slots
  <2> QED BY <1>1, <1>11, <2>1 DEF HistoryPos, TypeOK
<1>12. CASE HistoryCount
  <2>1. Dummy \in Message /\ 0 \in UserSlots
    BY Messages DEF UserSlots
  <2>2. history_count' \in 0..HistorySize
    BY <1>1, <1>12 DEF HistoryCount, TypeOK
  <2> QED BY <1>1, <1>12, <2>1, <2>2 DEF HistoryCount, Loop, TypeOK
<1>13. CASE Stop
  BY <1>1, <1>13 DEF Stop, TypeOK
<1>14. ASSUME NEW c \in Clients, ClientJoin(c) PROVE TypeOK'
  <2>1. ServiceInv'
    BY <1>1, <1>14, Messages, Sent DEF ClientJoin
  <2> QED BY <1>1, <1>14, <2>1 DEF ClientJoin, TypeOK, ServiceInv
<1>15. ASSUME NEW c \in Clients, ClientStart(c) PROVE TypeOK'
  BY <1>1, <1>15 DEF ClientStart, TypeOK
<1>16. ASSUME NEW c \in Clients, ClientSay(c) PROVE TypeOK'
  <2>1. ServiceInv'
    BY <1>1, <1>16, Messages, Sent DEF ClientSay, TypeOK
  <2> QED BY <1>1, <1>16, <2>1 DEF ClientSay, TypeOK, ServiceInv
<1>17. ASSUME NEW c \in Clients, ClientLeave(c) PROVE TypeOK'
  <2>1. ServiceInv'
    BY <1>1, <1>17, Messages, Sent DEF ClientLeave
  <2>2. \A S : <<>> \in Seq(S) /\ Len(<<>>) = 0
    BY EmptySeq
  <2>3. 0 \in Slots
    BY DEF Slots
  <2>4. /\ cpc' \in [Clients -> {"idle", "sleep", "chat", "left", "failed"}]
        /\ rpc' \in [Clients -> {"off", "poll", "read", "count", "names"}]
        /\ last_read_pos' \in [Clients -> Slots]
        /\ want' \in [Clients -> 0..UsersMax]
    BY <1>1, <1>17, <2>3 DEF ClientLeave, TypeOK
  <2>5. /\ chat_history' \in [Clients -> Seq(Message)]
        /\ cusers' \in [Clients -> Seq(Clients \cup {Torn})]
    BY <1>1, <1>17, <2>2 DEF ClientLeave, TypeOK
  <2>6. \A d \in Clients : Len(chat_history'[d]) < HistorySize /\ Len(cusers'[d]) <= UsersMax
    BY <1>1, <1>17, <2>2 DEF ClientLeave, TypeOK
  <2> QED BY <1>1, <1>17, <2>1, <2>4, <2>5, <2>6 DEF ClientLeave, TypeOK, ServiceInv
<1>18. ASSUME NEW c \in Clients, PollPos(c) PROVE TypeOK'
  BY <1>1, <1>18 DEF PollPos, TypeOK
<1>19. ASSUME NEW c \in Clients, ReadMessage(c) PROVE TypeOK'
  <2>1. /\ chat_history'[c] \in Seq(Message)
        /\ Len(chat_history'[c]) < HistorySize
    BY <1>1, <1>19, Screen
  <2>2. last_read_pos'[c] \in Slots
    <3>1. 0 \in Slots
      BY DEF Slots
    <3>2. \A n \in Nat : n + 1 < HistorySize => n + 1 \in Slots
      BY DEF Slots
    <3> QED BY <1>19, <3>1, <3>2, Screen
  <2> QED BY <1>1, <1>19, <2>1, <2>2 DEF ReadMessage, TypeOK
<1>20. ASSUME NEW c \in Clients, ReadUsersCount(c) PROVE TypeOK'
  <2>1. \A S : <<>> \in Seq(S) /\ Len(<<>>) = 0
    BY EmptySeq
  <2> QED BY <1>1, <1>20, <2>1 DEF ReadUsersCount, TypeOK
<1>21. ASSUME NEW c \in Clients, ReadUserName(c) PROVE TypeOK'
  <2>1. /\ cusers'[c] \in Seq(Clients \cup {Torn})
        /\ Len(cusers'[c]) <= UsersMax
    BY <1>21, Copied
  <2> QED BY <1>1, <1>21, <2>1 DEF ReadUserName, TypeOK
<1>22. CASE UNCHANGED vars
  BY <1>1, <1>22 DEF vars, TypeOK
<1> QED BY <1>2, <1>3, <1>4, <1>5, <1>6, <1>7, <1>8, <1>9, <1>10, <1>11, <1>12, <1>13,
           <1>14, <1>15, <1>16, <1>17, <1>18, <1>19, <1>20, <1>21, <1>22
        DEF Next, ServerStep, ReceiverStep

-----------------------------------------------------------------------------
(* The server *)

StoreVars == <<spc, smsg, idx, users, shared>>

\* What does not touch the server's lists and the history.
Elsewhere ==
    \/ InputExit \/ InputUnblock
    \/ \E c \in Clients : \/ ClientJoin(c) \/ ClientStart(c) \/ ClientSay(c) \/ ClientLeave(c)
                          \/ ReceiverStep(c)
    \/ UNCHANGED vars

LEMMA ElsewhereKeeps == Elsewhere => UNCHANGED StoreVars
  BY DEF Elsewhere, StoreVars, InputExit, InputUnblock, ClientJoin, ClientStart, ClientSay,
         ClientLeave, ReceiverStep, PollPos, ReadMessage, ReadUsersCount, ReadUserName,
         vars, serverVars, receiverVars, shared

LEMMA Steps == [Next]_vars => ServerStep \/ Elsewhere
  BY DEF Next, Elsewhere

LEMMA ServiceNext == ShmInv /\ [Next]_vars => ServiceInv'
<1> SUFFICES ASSUME ShmInv, [Next]_vars PROVE ServiceInv'
  OBVIOUS
<1>1. ServiceInv /\ says \in Nat
  BY ShmAssumption DEF ShmInv, TypeOK, ServerInv, ServiceInv
<1>2. CASE InputUnblock
  BY <1>1, <1>2, Messages, Sent DEF InputUnblock
<1>3. CASE Receive
  BY <1>1, <1>3, Taken DEF Receive
<1>4. CASE \E c \in Clients : ClientJoin(c) \/ ClientSay(c) \/ ClientLeave(c)
  BY <1>1, <1>4, Messages, Sent DEF ClientJoin, ClientSay, ClientLeave
<1>5. CASE UNCHANGED service
  BY <1>1, <1>5 DEF ServiceInv
<1>6. \/ InputUnblock \/ Receive
      \/ \E c \in Clients : ClientJoin(c) \/ ClientSay(c) \/ ClientLeave(c)
      \/ UNCHANGED service
  BY DEF Next, vars, InputExit, ServerStep, UserTear, UserCopy, UserCount, ShiftTest, ShiftCopy,
         HistoryTest, HistoryCopy, HistoryPos, HistoryCount, Stop, ClientStart,
         ReceiverStep, PollPos, ReadMessage, ReadUsersCount, ReadUserName
<1> QED BY <1>2, <1>3, <1>4, <1>5, <1>6

LEMMA ListNext == ShmInv /\ [Next]_vars => ListInv'
<1> SUFFICES ASSUME ShmInv, [Next]_vars PROVE ListInv'
  OBVIOUS
<1> USE ShmAssumption DEF Adding, Shifting, shared
<1>1. /\ TypeOK /\ ListInv
      /\ users \in Seq(Clients) /\ Len(users) \in Nat /\ users_count \in Nat /\ idx \in Nat
      /\ users_count <= UsersMax /\ UsersMax \in Nat
      /\ DOMAIN shm_users = 0..UsersMax - 1
  BY LenProperties DEF ShmInv, TypeOK, ServerInv, UserSlots
<1>2. CASE Elsewhere
  <2>1. UNCHANGED StoreVars
    BY <1>2, ElsewhereKeeps
  <2> QED BY <1>1, <2>1 DEF ListInv, StoreVars
<1>3. CASE Receive
  <2>1. /\ users_count = Len(users)
        /\ \A i \in 0..users_count - 1 : shm_users[i] = users[i + 1]
        /\ UNCHANGED <<users_count, shm_users>>
    BY <1>1, <1>3 DEF Receive, ListInv
  <2>2. CASE /\ spc' = "user_tear" /\ smsg'.from \in Clients
             /\ users' = Append(users, smsg'.from)
    <3>1. /\ Len(users') = Len(users) + 1
          /\ \A i \in 1..Len(users) : users'[i] = users[i]
          /\ users'[Len(users) + 1] = smsg'.from
      BY <1>1, <2>2, AppendProperties
    <3> QED BY <1>1, <2>1, <2>2, <3>1 DEF ListInv
  <2>3. CASE spc' \in {"recv", "join", "hist_test"} /\ users' = users
    BY <2>1, <2>3 DEF ListInv
  <2>4. CASE /\ spc' = "shift_test" /\ idx' + 1 \in 1..Len(users)
             /\ users' = RemoveAt(users, idx' + 1)
    <3>1. /\ Len(users') = Len(users) - 1
          /\ \A i \in 1..Len(users) - 1 :
                users'[i] = IF i < idx' + 1 THEN users[i] ELSE users[i + 1]
      BY <1>1, <2>4, Removed
    <3>2. idx' \in Nat
      BY <1>3, Handled DEF UserSlots
    <3>3. \A i \in 0..Len(users') - 1 :
              users'[i + 1] = IF i < idx' THEN shm_users'[i] ELSE shm_users'[i + 1]
      <4> SUFFICES ASSUME NEW i \in 0..Len(users') - 1
                   PROVE  users'[i + 1] = IF i < idx' THEN shm_users'[i] ELSE shm_users'[i + 1]
        OBVIOUS
      <4>1. i + 1 \in 1..Len(users) - 1 /\ i \in 0..users_count - 1 /\ i + 1 \in 0..users_count - 1
        BY <1>1, <2>1, <3>1
      <4>2. users'[i + 1] = IF i + 1 < idx' + 1 THEN users[i + 1] ELSE users[i + 2]
        BY <1>1, <3>1, <4>1
      <4>3. shm_users[i] = users[i + 1] /\ shm_users[i + 1] = users[i + 2]
        BY <1>1, <2>1, <4>1
      <4>4. i \in Nat
        BY <2>1, <4>1
      <4>5. i + 1 < idx' + 1 <=> i < idx'
        <5>1. \A m, n \in Nat : m + 1 < n + 1 <=> m < n
          OBVIOUS
        <5> QED BY <3>2, <4>4, <5>1
      <4> QED BY <2>1, <4>2, <4>3, <4>5
    <3> QED BY <1>1, <2>1, <2>4, <3>1, <3>2, <3>3 DEF ListInv
  <2> QED BY <1>3, <2>2, <2>3, <2>4, Handled
<1>4. CASE UserTear
  BY <1>1, <1>4 DEF UserTear, ListInv
<1>5. CASE UserCopy
  <2>1. users_count \in 0..UsersMax - 1
    BY <1>1, <1>5 DEF UserCopy, ListInv, TypeOK
  <2> QED BY <1>1, <1>5, <2>1 DEF UserCopy, ListInv
<1>6. CASE UserCount
  BY <1>1, <1>6 DEF UserCount, ListInv
<1>7. CASE ShiftTest
  <2>1. /\ users_count = Len(users) + 1 /\ idx < users_count
        /\ \A i \in 0..Len(users) - 1 :
              users[i + 1] = IF i < idx THEN shm_users[i] ELSE shm_users[i + 1]
        /\ UNCHANGED <<users, idx>>
    BY <1>1, <1>7 DEF ShiftTest, ListInv
  <2>2. CASE idx < users_count - 1
    <3>1. /\ spc' = "shift_copy" /\ UNCHANGED users_count
          /\ shm_users' = [shm_users EXCEPT ![idx] = Torn]
      BY <1>7, <2>2 DEF ShiftTest
    <3>2. \A i \in 0..Len(users) - 1 :
              users[i + 1] = IF i < idx THEN shm_users'[i] ELSE shm_users'[i + 1]
      <4> SUFFICES ASSUME NEW i \in 0..Len(users) - 1
                   PROVE  users[i + 1] = IF i < idx THEN shm_users'[i] ELSE shm_users'[i + 1]
        OBVIOUS
      <4>1. i \in DOMAIN shm_users /\ i + 1 \in DOMAIN shm_users
        BY <1>1, <2>1
      <4>2. CASE i < idx
        BY <1>1, <2>1, <3>1, <4>1, <4>2
      <4>3. CASE ~ (i < idx)
        <5>1. i + 1 # idx
          BY <1>1, <4>3
        <5> QED BY <1>1, <2>1, <3>1, <4>1, <4>3, <5>1
      <4> QED BY <4>2, <4>3
    <3> QED BY <1>1, <2>1, <2>2, <3>1, <3>2 DEF ListInv
  <2>3. CASE ~ (idx < users_count - 1)
    <3>1. \A i \in 0..Len(users) - 1 : users[i + 1] = shm_users[i]
      BY <1>1, <2>1, <2>3
    <3> QED BY <1>1, <1>7, <2>1, <2>3, <3>1 DEF ShiftTest, ListInv
  <2> QED BY <2>2, <2>3
<1>8. CASE ShiftCopy
  <2>1. /\ users_count = Len(users) + 1 /\ idx < users_count - 1
        /\ \A i \in 0..Len(users) - 1 :
              users[i + 1] = IF i < idx THEN shm_users[i] ELSE shm_users[i + 1]
    BY <1>1, <1>8 DEF ShiftCopy, ListInv
  <2>2. /\ shm_users' = [shm_users EXCEPT ![idx] = shm_users[idx + 1]]
        /\ idx' = idx + 1 /\ spc' = "shift_test" /\ UNCHANGED <<users, users_count>>
    BY <1>8 DEF ShiftCopy
  <2>3. \A i \in 0..Len(users) - 1 :
            users[i + 1] = IF i < idx' THEN shm_users'[i] ELSE shm_users'[i + 1]
    <3> SUFFICES ASSUME NEW i \in 0..Len(users) - 1
                 PROVE  users[i + 1] = IF i < idx' THEN shm_users'[i] ELSE shm_users'[i + 1]
      OBVIOUS
    <3>1. idx \in DOMAIN shm_users /\ i \in DOMAIN shm_users /\ i + 1 \in DOMAIN shm_users
      BY <1>1, <2>1
    <3>2. CASE i < idx
      BY <1>1, <2>1, <2>2, <3>1, <3>2
    <3>3. CASE i = idx
      BY <1>1, <2>1, <2>2, <3>1, <3>3
    <3>4. CASE i > idx
      BY <1>1, <2>1, <2>2, <3>1, <3>4
    <3> QED BY <1>1, <3>2, <3>3, <3>4
  <2> QED BY <1>1, <2>1, <2>2, <2>3 DEF ListInv
<1>9. CASE HistoryTest \/ HistoryCopy \/ HistoryPos \/ HistoryCount \/ Stop
  BY <1>1, <1>9 DEF HistoryTest, HistoryCopy, HistoryPos, HistoryCount, Stop, Loop, ListInv
<1> QED BY <1>2, <1>3, <1>4, <1>5, <1>6, <1>7, <1>8, <1>9, Steps DEF ServerStep

LEMMA HistoryNext == ShmInv /\ [Next]_vars => HistoryInv'
<1> SUFFICES ASSUME ShmInv, [Next]_vars PROVE HistoryInv'
  OBVIOUS
<1> USE DEF shared
<1>1. /\ TypeOK /\ HistoryInv
      /\ HistorySize \in Nat \ {0} /\ history_count \in Nat /\ history_count <= HistorySize
      /\ DOMAIN history = 0..HistorySize - 1
  BY ShmAssumption DEF ShmInv, TypeOK, ServerInv, Slots
<1>2. CASE Elsewhere
  <2>1. UNCHANGED StoreVars
    BY <1>2, ElsewhereKeeps
  <2> QED BY <1>1, <2>1 DEF HistoryInv, Published, StoreVars
<1>3. CASE Receive
  <2>1. /\ spc' \notin {"hist_copy", "hist_pos", "hist_count"}
        /\ spc # "hist_count"
        /\ UNCHANGED shared
    BY <1>3, Handled DEF Receive
  <2> QED BY <1>1, <2>1 DEF HistoryInv, Published
<1>4. CASE UserTear \/ UserCopy \/ UserCount \/ ShiftTest \/ ShiftCopy
  BY <1>1, <1>4 DEF UserTear, UserCopy, UserCount, ShiftTest, ShiftCopy, HistoryInv, Published
<1>5. CASE HistoryTest
  BY <1>1, <1>5 DEF HistoryTest, Loop, HistoryInv, Published
<1>6. CASE HistoryCopy
  <2>1. current_pos = history_count /\ history_count < HistorySize
    BY <1>1, <1>6 DEF HistoryCopy, HistoryInv, Published
  <2>2. history' = [history EXCEPT ![history_count] = smsg] /\ smsg \in Message
    BY <1>1, <1>6, <2>1 DEF HistoryCopy, TypeOK
  <2>3. /\ history'[history_count] \in Message
        /\ \A i \in 0..history_count - 1 : history'[i] = history[i]
    BY <1>1, <2>1, <2>2
  <2> QED BY <1>1, <1>6, <2>1, <2>3 DEF HistoryCopy, HistoryInv, Published
<1>7. CASE HistoryPos
  <2>1. current_pos = history_count /\ history_count < HistorySize /\ history_count \in Slots
    BY <1>1, <1>7 DEF HistoryPos, HistoryInv, Published, Slots
  <2>2. current_pos' = IF history_count + 1 = HistorySize THEN 0 ELSE history_count + 1
    BY <1>7, <2>1, NextSlot DEF HistoryPos
  <2>3. \A i \in 0..history_count : history[i] \in Message
    BY <1>1, <1>7 DEF HistoryPos, HistoryInv, Published
  <2> QED BY <1>1, <1>7, <2>1, <2>2, <2>3 DEF HistoryPos, HistoryInv, Published
<1>8. CASE HistoryCount
  <2>1. history_count < HistorySize /\ Published = history_count + 1
    BY <1>1, <1>8 DEF HistoryCount, HistoryInv, Published
  <2>2. /\ history_count' = history_count + 1
        /\ spc' \in {"recv", "join"}
        /\ UNCHANGED <<history, current_pos>>
    BY <1>8, <2>1 DEF HistoryCount, Loop
  <2> QED BY <1>1, <2>1, <2>2 DEF HistoryInv, Published
<1>9. CASE Stop
  BY <1>1, <1>9 DEF Stop, HistoryInv, Published
<1> QED BY <1>2, <1>3, <1>4, <1>5, <1>6, <1>7, <1>8, <1>9, Steps DEF ServerStep

LEMMA ServerNext == ShmInv /\ [Next]_vars => ServerInv'
  BY ServiceNext, ListNext, HistoryNext DEF ServerInv, ServiceInv

-----------------------------------------------------------------------------
(* The readers *)

\* To a reader the server's steps only publish more: a message that may be
\* read is not written again.
LEMMA Publishing ==
    ASSUME ShmInv, ServerStep
    PROVE  /\ Published \in Nat /\ Published' \in Nat /\ Published <= Published'
           /\ \A i \in 0..Published - 1 : history'[i] = history[i]
           /\ UNCHANGED <<cpc, receiverVars>>
           /\ Published' = Published /\ Published < HistorySize /\ Settled'
                 => Settled /\ users' = users
<1> USE DEF shared
<1>1. /\ TypeOK /\ HistoryInv /\ Published <= HistorySize
      /\ HistorySize \in Nat \ {0} /\ history_count \in Nat /\ history_count <= HistorySize
      /\ DOMAIN history = 0..HistorySize - 1
  BY ShmAssumption DEF ShmInv, TypeOK, ServerInv, Slots, HistoryInv
<1>2. CASE Receive
  <2>1. /\ spc = "recv" /\ UNCHANGED <<shared, cpc, receiverVars>>
        /\ \/ spc' \in {"user_tear", "shift_test"}
           \/ spc' \in {"recv", "join", "hist_test"} /\ users' = users
    BY <1>2, Handled DEF Receive
  <2> QED BY <1>1, <2>1 DEF Published, Settled
<1>3. CASE UserTear \/ UserCopy \/ UserCount \/ ShiftTest \/ ShiftCopy
  BY <1>1, <1>3 DEF UserTear, UserCopy, UserCount, ShiftTest, ShiftCopy, Published, Settled
<1>4. CASE HistoryTest
  BY <1>1, <1>4 DEF HistoryTest, Loop, Published, Settled
<1>5. CASE HistoryCopy
  <2>1. current_pos = history_count /\ history_count < HistorySize
    BY <1>1, <1>5 DEF HistoryCopy, HistoryInv, Published
  <2>2. \A i \in 0..history_count - 1 : history'[i] = history[i]
    BY <1>1, <1>5, <2>1 DEF HistoryCopy
  <2> QED BY <1>1, <1>5, <2>1, <2>2 DEF HistoryCopy, Published, Settled
<1>6. CASE HistoryPos
  BY <1>1, <1>6 DEF HistoryPos, Published, Settled
<1>7. CASE HistoryCount
  BY <1>1, <1>7 DEF HistoryCount, Loop, HistoryInv, Published, Settled
<1>8. CASE Stop
  BY <1>1, <1>8 DEF Stop, Published, Settled
<1> QED BY <1>2, <1>3, <1>4, <1>5, <1>6, <1>7, <1>8 DEF ServerStep

ReaderFacts(d) == <<cpc[d], rpc[d], last_read_pos[d], chat_history[d], cusers[d], want[d]>>

\* A step that changes neither the reader nor what it reads.
LEMMA ReaderKept ==
    ASSUME NEW d \in Clients, Reader(d), View(d), UNCHANGED <<ReaderFacts(d), StoreVars>>
    PROVE  Reader(d)' /\ View(d)'
<1>1. UNCHANGED <<Published, Settled, users, history>>
  BY DEF StoreVars, shared, Published, Settled
<1> QED BY <1>1 DEF Reader, View, ReaderFacts

LEMMA OthersKept ==
    ASSUME ShmInv, NEW c \in Clients, NEW d \in Clients, c # d,
           \/ ClientJoin(c) \/ ClientStart(c) \/ ClientSay(c) \/ ClientLeave(c)
           \/ ReceiverStep(c)
    PROVE  UNCHANGED ReaderFacts(d)
  BY DEF ShmInv, TypeOK, ReaderFacts, receiverVars, ClientJoin, ClientStart, ClientSay,
         ClientLeave, ReceiverStep, PollPos, ReadMessage, ReadUsersCount, ReadUserName

LEMMA ReaderNext == ShmInv /\ [Next]_vars => ReaderInv'
<1> SUFFICES ASSUME ShmInv, [Next]_vars, NEW d \in Clients PROVE Reader(d)' /\ View(d)'
  BY DEF ReaderInv
<1> USE ShmAssumption
<1>1. TypeOK /\ Reader(d) /\ View(d) /\ ListInv /\ HistoryInv
  BY DEF ShmInv, ServerInv, ReaderInv
<1>2. /\ users \in Seq(Clients) /\ users_count \in Nat
      /\ chat_history[d] \in Seq(Message) /\ Len(chat_history[d]) < HistorySize
      /\ cusers[d] \in Seq(Clients \cup {Torn})
      /\ last_read_pos[d] \in Nat /\ HistorySize \in Nat \ {0} /\ history_count \in Nat
  BY <1>1 DEF TypeOK, Slots
<1>3. /\ Len(users) \in Nat /\ Len(chat_history[d]) \in Nat /\ Len(cusers[d]) \in Nat
      /\ Published \in Nat
  BY <1>2, LenProperties DEF Published
<1>4. CASE ServerStep
  <2>1. /\ Published' \in Nat /\ Published <= Published'
        /\ \A i \in 0..Published - 1 : history'[i] = history[i]
        /\ UNCHANGED <<cpc, rpc, last_read_pos, chat_history, cusers, want>>
        /\ Published' = Published /\ Published < HistorySize /\ Settled'
              => Settled /\ users' = users
    BY <1>4, Publishing DEF receiverVars
  <2>2. Reader(d)'
    BY <1>1, <1>2, <1>3, <2>1 DEF Reader
  <2>3. View(d)'
    <3>1. last_read_pos[d] = Published' => Published' = Published /\ Published < HistorySize
      BY <1>1, <1>2, <1>3, <2>1 DEF Reader
    <3> QED BY <1>1, <1>2, <1>3, <2>1, <3>1 DEF View
  <2> QED BY <2>2, <2>3
<1>5. CASE Elsewhere
  <2>1. /\ UNCHANGED StoreVars
        /\ UNCHANGED <<Published, Settled, users, history, users_count, shm_users, current_pos>>
    BY <1>5, ElsewhereKeeps DEF StoreVars, shared, Published, Settled
  <2>2. CASE InputExit \/ InputUnblock \/ UNCHANGED vars
    <3>1. UNCHANGED ReaderFacts(d)
      BY <2>2 DEF InputExit, InputUnblock, vars, receiverVars, ReaderFacts
    <3> QED BY <1>1, <1>2, <1>3, <2>1, <3>1, ReaderKept
  <2>3. ASSUME NEW c \in Clients, c # d,
               \/ ClientJoin(c) \/ ClientStart(c) \/ ClientSay(c) \/ ClientLeave(c)
               \/ ReceiverStep(c)
        PROVE  Reader(d)' /\ View(d)'
    BY <1>1, <1>2, <1>3, <2>1, <2>3, ReaderKept, OthersKept
  <2>4. CASE ClientJoin(d) \/ ClientSay(d)
    BY <1>1, <1>2, <1>3, <2>1, <2>4 DEF ClientJoin, ClientSay, receiverVars, TypeOK, Reader, View
  <2>5. CASE ClientStart(d)
    <3>1. last_read_pos[d] = 0
      BY <1>1, <1>2, <1>3, <2>5 DEF ClientStart, Reader
    <3> QED BY <1>1, <1>2, <1>3, <2>1, <2>5, <3>1 DEF ClientStart, TypeOK, Reader, View
  <2>6. CASE ClientLeave(d)
    <3>1. Len(<<>>) = 0
      BY EmptySeq
    <3>2. /\ cpc'[d] = "left" /\ rpc'[d] = "off" /\ last_read_pos'[d] = 0
          /\ chat_history'[d] = <<>>
      BY <1>1, <1>2, <1>3, <2>6 DEF ClientLeave, TypeOK
    <3> QED BY <1>1, <1>2, <1>3, <2>1, <3>1, <3>2 DEF Reader, View
  <2>7. CASE PollPos(d)
    <3>1. last_read_pos[d] < Published
      <4>1. last_read_pos[d] # current_pos /\ last_read_pos[d] <= Published
        BY <1>1, <2>7 DEF PollPos, Reader
      <4>2. last_read_pos[d] = Len(chat_history[d])
        BY <1>1 DEF Reader
      <4>3. Published = HistorySize \/ current_pos = Published
        BY <1>1 DEF HistoryInv
      <4> QED BY <1>2, <1>3, <4>1, <4>2, <4>3
    <3>2. rpc'[d] = "read" /\ UNCHANGED <<cpc, last_read_pos, chat_history, cusers, want>>
      BY <1>1, <1>2, <1>3, <2>7 DEF PollPos, TypeOK
    <3>3. rpc[d] = "poll"
      BY <2>7 DEF PollPos
    <3> QED BY <1>1, <1>2, <1>3, <2>1, <3>1, <3>2, <3>3 DEF Reader, View
  <2>8. CASE ReadMessage(d)
    <3>1. rpc'[d] = "count" /\ cpc' = cpc /\ rpc[d] = "read"
      BY <1>1, <1>2, <1>3, <2>8 DEF ReadMessage, TypeOK
    <3>2. /\ last_read_pos'[d] = Len(chat_history'[d]) /\ last_read_pos'[d] <= Published
          /\ \A i \in 1..Len(chat_history'[d]) : chat_history'[d][i] = history[i - 1]
      <4> DEFINE n == Len(chat_history[d])
      <4>1. CASE n + 1 = HistorySize /\ Len(chat_history'[d]) = 0 /\ last_read_pos'[d] = 0
        BY <1>1, <1>2, <1>3, <4>1
      <4>2. CASE /\ Len(chat_history'[d]) = n + 1
                 /\ \A i \in 1..n : chat_history'[d][i] = chat_history[d][i]
                 /\ chat_history'[d][n + 1] = history[n]
                 /\ last_read_pos'[d] = n + 1
        <5>1. n < Published
          BY <2>8, Screen
        <5>2. ASSUME NEW i \in 1..n + 1 PROVE chat_history'[d][i] = history[i - 1]
          <6>1. \A j \in 1..n : chat_history[d][j] = history[j - 1]
            BY <1>1 DEF Reader
          <6>2. CASE i \in 1..n
            BY <4>2, <6>1, <6>2
          <6>3. CASE i = n + 1
            <7>1. i - 1 = n
              BY <1>3, <6>3
            <7> QED BY <4>2, <6>3, <7>1
          <6> QED BY <1>3, <6>2, <6>3
        <5> QED BY <1>1, <1>2, <1>3, <4>2, <5>1, <5>2
      <4> QED BY <2>8, <4>1, <4>2, Screen
    <3> QED BY <1>1, <1>2, <1>3, <2>1, <3>1, <3>2 DEF Reader, View
  <2>9. CASE ReadUsersCount(d)
    <3>1. /\ rpc[d] = "count"
          /\ cpc'[d] = cpc[d] /\ last_read_pos'[d] = last_read_pos[d]
          /\ chat_history'[d] = chat_history[d]
          /\ want'[d] = users_count
          /\ cusers'[d] = <<>>
          /\ rpc'[d] = IF users_count = 0 THEN "poll" ELSE "names"
      BY <1>1, <1>2, <1>3, <2>9 DEF ReadUsersCount, TypeOK
    <3>2. Len(<<>>) = 0 /\ (Len(users) = 0 => users = <<>>)
      BY <1>1, <1>2, <1>3, EmptySeq
    <3>3. Settled => users_count = Len(users)
      BY <1>1, <1>2, <1>3 DEF Settled, ListInv, Adding, Shifting
    <3>4. Reader(d)'
      BY <1>1, <1>2, <1>3, <2>1, <3>1, <3>2 DEF Reader
    <3>5. View(d)'
      BY <1>1, <1>2, <1>3, <2>1, <3>1, <3>2, <3>3 DEF View
    <3> QED BY <3>4, <3>5
  <2>10. CASE ReadUserName(d)
    <3> DEFINE n == Len(cusers[d])
    <3>1. /\ rpc[d] = "names"
          /\ cpc'[d] = cpc[d] /\ last_read_pos'[d] = last_read_pos[d]
          /\ chat_history'[d] = chat_history[d]
          /\ want'[d] = want[d]
          /\ rpc'[d] = IF n + 1 < want[d] THEN "names" ELSE "poll"
      BY <1>1, <1>2, <1>3, <2>10 DEF ReadUserName, TypeOK
    <3>2. /\ n < want[d] /\ want[d] \in Nat
          /\ cusers'[d] \in Seq(Clients \cup {Torn})
          /\ Len(cusers'[d]) = n + 1
          /\ \A i \in 1..n : cusers'[d][i] = cusers[d][i]
          /\ cusers'[d][n + 1] = shm_users[n]
      BY <2>10, Copied
    <3>3. Reader(d)'
      BY <1>1, <1>2, <1>3, <2>1, <3>1, <3>2 DEF Reader
    <3>4. ASSUME Settled, 0 < Published, last_read_pos[d] = Published
          PROVE  /\ want[d] = Len(users)
                 /\ \A i \in 1..n + 1 : cusers'[d][i] = users[i]
                 /\ rpc'[d] = "poll" => cusers'[d] = users
      <4>1. want[d] = Len(users) /\ \A i \in 1..n : cusers[d][i] = users[i]
        BY <1>1, <1>2, <1>3, <3>1, <3>4 DEF View
      <4>2. shm_users[n] = users[n + 1]
        BY <1>1, <1>2, <1>3, <3>2, <3>4, <4>1 DEF Settled, ListInv, Adding, Shifting
      <4>3. \A i \in 1..n + 1 : cusers'[d][i] = users[i]
        BY <1>1, <1>2, <1>3, <3>2, <4>1, <4>2
      <4>4. ASSUME rpc'[d] = "poll" PROVE cusers'[d] = users
        <5>1. n + 1 = Len(users)
          BY <1>1, <1>2, <1>3, <3>1, <3>2, <4>1, <4>4
        <5>2. users \in Seq(Clients \cup {Torn})
          BY <1>1, <1>2, <1>3
        <5> QED BY <3>2, <4>3, <5>1, <5>2, SeqEqual
      <4> QED BY <4>1, <4>3, <4>4
    <3>5. View(d)'
      BY <1>1, <1>2, <1>3, <2>1, <3>1, <3>2, <3>4 DEF View
    <3> QED BY <3>3, <3>5
  <2> QED BY <1>5, <2>2, <2>3, <2>4, <2>5, <2>6, <2>7, <2>8, <2>9, <2>10
          DEF Elsewhere, ReceiverStep
<1> QED BY <1>4, <1>5, Steps

-----------------------------------------------------------------------------
(* The theorems *)

LEMMA ShmInit == Init => ShmInv
<1> SUFFICES ASSUME Init PROVE ShmInv
  OBVIOUS
<1>1. \A S : <<>> \in Seq(S) /\ Len(<<>>) = 0
  BY EmptySeq
<1>2. ServerInv
  BY <1>1, ShmAssumption DEF Init, ServerInv, ListInv, HistoryInv, Published, Adding, Shifting
<1>3. ReaderInv
  BY <1>1, ShmAssumption DEF Init, ReaderInv, Reader, View, Published
<1> QED BY <1>2, <1>3, TypeInit DEF ShmInv

LEMMA ShmInvariant == Spec => []ShmInv
<1>1. ShmInv /\ [Next]_vars => ShmInv'
  BY TypeNext, ServerNext, ReaderNext DEF ShmInv
<1> QED BY <1>1, ShmInit, PTL DEF Spec, SafeSpec

\* Every variable keeps its type: no index leaves its array, and the shared
\* list of users never outgrows its places.
THEOREM ShmTyped == Spec => []TypeOK
<1>1. ShmInv => TypeOK
  BY DEF ShmInv
<1> QED BY <1>1, ShmInvariant, PTL

\* The polling readers take over complete messages only, each once and in
\* order, although nothing but the order of the server's stores protects them.
THEOREM MessagesArePublished == Spec => []ReadsPublished
<1>1. ShmInv => ReadsPublished
  <2> SUFFICES ASSUME ShmInv, NEW c \in Clients, NEW i \in 1..Len(chat_history[c])
               PROVE  chat_history[c][i] # Torn /\ chat_history[c][i] = history[i - 1]
    BY DEF ReadsPublished
  <2>1. chat_history[c] \in Seq(Message)
    BY DEF ShmInv, TypeOK
  <2>2. chat_history[c][i] \in Message
    BY <2>1, ElementOfSeq
  <2> QED BY <2>2, ShmAssumption DEF ShmInv, ReaderInv, Reader
<1> QED BY <1>1, ShmInvariant, PTL

\* A reader that has caught up shows all messages, until the history is full.
THEOREM NothingMissed == Spec => []CaughtUpSeesAll
<1>1. ShmInv => CaughtUpSeesAll
  BY ShmAssumption DEF ShmInv, TypeOK, ServerInv, HistoryInv, Published, ReaderInv, Reader,
     CaughtUpSeesAll, CaughtUp
<1> QED BY <1>1, ShmInvariant, PTL

\* Between two messages the shared users are main's users, so that an index
\* found in one list may be used in the other.
THEOREM ListsSame == Spec => []ListsAligned
<1>1. ShmInv => ListsAligned
  <2> SUFFICES ASSUME ShmInv, spc \in {"recv", "join", "stopped"}
               PROVE  /\ users_count = Len(users)
                      /\ \A i \in 1..Len(users) : shm_users[i - 1] = users[i]
    BY DEF ListsAligned
  <2>1. /\ users_count = Len(users) /\ users_count \in Nat
        /\ \A i \in 0..users_count - 1 : shm_users[i] = users[i + 1]
    BY ShmAssumption DEF ShmInv, TypeOK, ServerInv, ListInv, Adding, Shifting
  <2>2. ASSUME NEW i \in 1..Len(users) PROVE shm_users[i - 1] = users[i]
    <3>1. i - 1 \in 0..users_count - 1 /\ (i - 1) + 1 = i
      BY <2>1
    <3> QED BY <2>1, <3>1
  <2> QED BY <2>1, <2>2
<1> QED BY <1>1, ShmInvariant, PTL

\* A reader that has caught up with an idle server shows the server's users,
\* although it copies them while the server shifts them.
THEOREM ViewsAgree == Spec => []UsersAgree
<1>1. ShmInv => UsersAgree
  BY ShmAssumption DEF ShmInv, TypeOK, ServerInv, HistoryInv, Published, ReaderInv, View,
     Settled, UsersAgree, CaughtUp
<1> QED BY <1>1, ShmInvariant, PTL
=============================================================================
