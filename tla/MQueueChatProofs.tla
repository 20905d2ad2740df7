-------------------------- MODULE MQueueChatProofs --------------------------
(* Proofs about MQueueChat, for any number of clients with any names, queues *)
(* of any capacity and a history and screens of any length.                  *)
EXTENDS MQueueChat, FiniteSetTheorems, SequenceTheorems, WellFoundedInduction, TLAPS

-----------------------------------------------------------------------------
(* The inductive invariant *)

Announces(m, c) == m.type = NEW_USER /\ m.from = c
Leaves(m, c) == m.type = USER_LEFT /\ m.from = c
Announced(h, k, c) == \E i \in 1..k : Announces(h[i], c)
HasLeft(h, k, c) == \E i \in 1..k : Leaves(h[i], c)

\* Who is in the chat after the first k messages of h.
Present(h, k) == {c \in Clients : Announced(h, k, c) /\ ~HasLeft(h, k, c)}

\* The server has not read c's request to join, and may never get one.
Unserved(c) == cpc[c] = "idle" \/ Announced(service, Len(service), c)

\* A client asks to join once.
AsksOnce ==
    /\ \A i, j \in 1..Len(service) :
          service[i].type = NEW_USER /\ Announces(service[j], service[i].from) => i = j
    /\ \A c \in Clients : cpc[c] = "idle" => ~Announced(service, Len(service), c)

\* Nothing of c is anywhere.
Blank(c) ==
    /\ \A i \in 1..Len(users) : users[i] # c
    /\ ~exists[c]
    /\ mq[c] = <<>> /\ chat_history[c] = <<>> /\ cusers[c] = <<>>
    /\ ~Announced(history, Len(history), c)
    /\ ~HasLeft(history, Len(history), c)

JoinInv == AsksOnce /\ \A c \in Clients : Unserved(c) => Blank(c)

UsersDiffer == \A i, j \in 1..Len(users) : users[i] = users[j] => i = j

\* What main is doing between two mq_receive.
SendInv ==
    /\ spc = "replay" =>
          /\ smsg.type = NEW_USER
          /\ Len(users) > 0 /\ users[Len(users)] = smsg.from
          /\ idx <= Len(history) + 1
          /\ ~Announced(history, Len(history), smsg.from)
          /\ ~HasLeft(history, Len(history), smsg.from)
    /\ spc = "bcast" /\ Len(history) < HistorySize =>
          Len(history) > 0 /\ history[Len(history)] = smsg

\* The first k messages of a history, read as a ledger of who comes and goes.
Entry(h, k) ==
    /\ h[k].type = NEW_USER =>
          ~Announced(h, k - 1, h[k].from) /\ ~HasLeft(h, k - 1, h[k].from)
    /\ h[k].type = USER_LEFT => h[k].from \in Present(h, k - 1)

Newcomer == IF spc = "replay" THEN {smsg.from} ELSE {}

\* As long as nothing has been dropped from it, the history accounts for users.
Ledger ==
    /\ \A k \in 1..Len(history) : Entry(history, k)
    /\ \A k \in 0..Len(history) :
          /\ IsFiniteSet(Present(history, k))
          /\ Cardinality(Present(history, k)) <= UsersMax

LedgerInv ==
    Len(history) < HistorySize =>
       Ledger /\ ToSet(users) = Present(history, Len(history)) \cup Newcomer

\* How many messages of the history main has still to send to c.
Owed(c) ==
    IF spc = "replay" /\ smsg.from = c THEN Len(history) + 1 - idx
    ELSE IF spc = "bcast" /\ (\E i \in 1..Len(users) : i >= idx /\ users[i] = c) THEN 1
    ELSE 0

\* How many of them c has read.
Read(c) == Len(history) - Owed(c) - Len(mq[c])

Count(list, n) == Cardinality({i \in 1..Len(list) : list[i] = n})
Called(n, S) == {c \in S : Name[c] = n}

\* What a user has read and what waits in its queue q are parts of the history h
\* next to each other: the first r messages, and those after them.  Its list is
\* what the messages it has read amount to.
View(h, r, q, screen, list) ==
    /\ r \in Nat /\ r + Len(q) <= Len(h)
    /\ \A i \in 1..Len(q) : q[i] = h[r + i]
    /\ Len(h) < ChatMax =>
          /\ Len(screen) = r
          /\ \A i \in 1..r : screen[i] = h[i]
    /\ Len(list) = Cardinality(Present(h, r))
    /\ \A n \in Names : Count(list, n) = Cardinality(Called(n, Present(h, r)))

ViewInv(c) == View(history, Read(c), mq[c], chat_history[c], cusers[c])

InTouch == Len(history) < HistorySize /\ spc \notin {"cleanup", "stopped"}
ViewsInv == InTouch => \A c \in Clients : c \in ToSet(users) => ViewInv(c)

ChatInv == TypeOK /\ JoinInv /\ UsersDiffer /\ SendInv /\ LedgerInv /\ ViewsInv

-----------------------------------------------------------------------------
(* Lemmas about lists *)

\* A sequence without its k-th element.
LEMMA Removed ==
    ASSUME NEW S, NEW s \in Seq(S), NEW k \in 1..Len(s)
    PROVE  /\ RemoveAt(s, k) \in Seq(S)
           /\ Len(RemoveAt(s, k)) = Len(s) - 1
           /\ \A i \in 1..Len(s) - 1 :
                 RemoveAt(s, k)[i] = IF i < k THEN s[i] ELSE s[i + 1]
<1> DEFINE front == SubSeq(s, 1, k - 1)
           back == SubSeq(s, k + 1, Len(s))
<1>1. Len(s) \in Nat /\ \A i \in 1..Len(s) : s[i] \in S
  BY LenProperties, ElementOfSeq
<1>2. /\ front \in Seq(S)
      /\ Len(front) = k - 1
      /\ \A i \in 1..k - 1 : front[i] = s[i]
  BY <1>1, SubSeqProperties
<1>3. /\ back \in Seq(S)
      /\ Len(back) = Len(s) - k
      /\ \A i \in 1..Len(s) - k : back[i] = s[k + i]
  BY <1>1, SubSeqProperties
<1>4. RemoveAt(s, k) = front \o back
  BY DEF RemoveAt
<1> HIDE DEF front, back
<1>5. /\ front \o back \in Seq(S)
      /\ Len(front \o back) = Len(front) + Len(back)
      /\ \A i \in 1..Len(front) + Len(back) :
            (front \o back)[i] = IF i <= Len(front) THEN front[i] ELSE back[i - Len(front)]
  BY <1>2, <1>3, ConcatProperties
<1>6. Len(front) = k - 1 /\ Len(front) + Len(back) = Len(s) - 1
  BY <1>1, <1>2, <1>3
<1> QED BY <1>1, <1>2, <1>3, <1>4, <1>5, <1>6

\* The smallest of some natural numbers is one of them.
LEMMA MinIn ==
    ASSUME NEW S \in SUBSET Nat, S # {}
    PROVE  Min(S) \in S
<1> DEFINE R == {ij \in Nat \X Nat : ij[1] < ij[2]}
<1>1. IsWellFoundedOn(R, Nat)
  BY NatLessThanWellFounded DEF OpToRel
<1>2. \A x, y \in Nat : <<y, x>> \notin R => x <= y
  OBVIOUS
<1> HIDE DEF R
<1>3. PICK x \in S : \A y \in S : <<y, x>> \notin R
  BY <1>1, WFMin
<1> QED BY <1>2, <1>3 DEF Min

\* Where the first e is found and removed.
LEMMA FirstRemoved ==
    ASSUME NEW S, NEW s \in Seq(S), NEW e, e \in ToSet(s)
    PROVE  \E k \in 1..Len(s) : s[k] = e /\ RemoveFirst(s, e) = RemoveAt(s, k)
<1>1. Len(s) \in Nat /\ \E i \in 1..Len(s) : s[i] = e
  BY LenProperties DEF ToSet
<1> DEFINE I == {i \in 1..Len(s) : s[i] = e}
<1>2. SelectInSeq(s, LAMBDA v : v = e) = IF I # {} THEN Min(I) ELSE 0
  BY DEF SelectInSeq
<1>3. I \subseteq Nat /\ I # {}
  BY <1>1
<1>4. Min(I) \in I
  <2> HIDE DEF I
  <2> QED BY <1>3, MinIn
<1>5. RemoveFirst(s, e) = RemoveAt(s, SelectInSeq(s, LAMBDA v : v = e))
  BY <1>1 DEF RemoveFirst
<1> QED BY <1>2, <1>3, <1>4, <1>5

-----------------------------------------------------------------------------
(* Lemmas about counting *)

LEMMA CountType ==
    ASSUME NEW S, NEW s \in Seq(S), NEW n
    PROVE  /\ IsFiniteSet({i \in 1..Len(s) : s[i] = n})
           /\ Count(s, n) \in Nat
<1>1. IsFiniteSet(1..Len(s))
  BY LenProperties, FS_Interval
<1>2. IsFiniteSet({i \in 1..Len(s) : s[i] = n})
  BY <1>1, FS_Subset
<1> QED BY <1>2, FS_CardinalityType DEF Count

LEMMA CountAppend ==
    ASSUME NEW S, NEW s \in Seq(S), NEW e \in S, NEW n
    PROVE  Count(Append(s, e), n) = Count(s, n) + (IF e = n THEN 1 ELSE 0)
<1> DEFINE t == Append(s, e)
           I == {i \in 1..Len(s) : s[i] = n}
<1>1. /\ Len(s) \in Nat /\ Len(t) = Len(s) + 1
      /\ \A i \in 1..Len(s) : t[i] = s[i]
      /\ t[Len(s) + 1] = e
  BY LenProperties, AppendProperties
<1>2. IsFiniteSet(I) /\ Count(s, n) = Cardinality(I) /\ Cardinality(I) \in Nat
  BY CountType DEF Count
<1>3. Len(s) + 1 \notin I
  BY <1>1
<1> HIDE DEF t
<1>4. CASE e = n
  <2>1. {i \in 1..Len(t) : t[i] = n} = I \cup {Len(s) + 1}
    BY <1>1, <1>4
  <2> HIDE DEF I
  <2> QED BY <1>2, <1>3, <1>4, <2>1, FS_AddElement DEF Count, t
<1>5. CASE e # n
  <2>1. {i \in 1..Len(t) : t[i] = n} = I
    BY <1>1, <1>5
  <2>2. Count(t, n) = Cardinality(I)
    BY <2>1 DEF Count
  <2> HIDE DEF I
  <2> QED BY <1>2, <1>5, <2>2 DEF t
<1> QED BY <1>4, <1>5

\* Counting the rest of a list: every place but the removed one has a place of
\* its own in it.
LEMMA CountRemoved ==
    ASSUME NEW S, NEW s \in Seq(S), NEW k \in 1..Len(s), NEW n
    PROVE  Count(RemoveAt(s, k), n) = Count(s, n) - (IF s[k] = n THEN 1 ELSE 0)
<1> DEFINE t == RemoveAt(s, k)
           I == {i \in 1..Len(s) : s[i] = n}
           J == {i \in 1..Len(t) : t[i] = n}
           f == [i \in J |-> IF i < k THEN i ELSE i + 1]
<1>1. /\ Len(s) \in Nat /\ t \in Seq(S) /\ Len(t) = Len(s) - 1
      /\ \A i \in 1..Len(s) - 1 : t[i] = IF i < k THEN s[i] ELSE s[i + 1]
  BY LenProperties, Removed
<1> HIDE DEF t
<1>2. f \in Bijection(J, I \ {k})
  <2>1. \A i \in J : f[i] \in I \ {k}
    BY <1>1
  <2>2. \A i, j \in J : f[i] = f[j] => i = j
    BY <1>1
  <2>3. \A j \in I \ {k} : \E i \in J : f[i] = j
    <3> SUFFICES ASSUME NEW j \in I \ {k} PROVE \E i \in J : f[i] = j
      OBVIOUS
    <3>1. CASE j < k
      <4>1. j \in J /\ f[j] = j
        BY <1>1, <3>1
      <4> QED BY <4>1
    <3>2. CASE j > k
      <4>1. j - 1 \in 1..Len(s) - 1 /\ ~(j - 1 < k) /\ (j - 1) + 1 = j
        BY <1>1, <3>2
      <4>2. j - 1 \in J /\ f[j - 1] = j
        BY <1>1, <4>1
      <4> QED BY <4>2
    <3> QED BY <3>1, <3>2
  <2> HIDE DEF I, J
  <2> QED BY <2>1, <2>2, <2>3 DEF Bijection, Injection, Surjection, IsInjective
<1>3. IsFiniteSet(I) /\ Count(s, n) = Cardinality(I)
  BY CountType DEF Count
<1>4. IsFiniteSet(J) /\ Count(t, n) = Cardinality(J)
  BY <1>1, CountType DEF Count
<1> HIDE DEF I, J, f
<1>5. Cardinality(J) = Cardinality(I \ {k})
  BY <1>2, <1>4, FS_Bijection DEF ExistsBijection
<1>6. Cardinality(I \ {k}) = IF k \in I THEN Cardinality(I) - 1 ELSE Cardinality(I)
  BY <1>3, FS_RemoveElement
<1>7. k \in I <=> s[k] = n
  BY DEF I
<1>8. Cardinality(I) \in Nat
  BY <1>3, FS_CardinalityType
<1> QED BY <1>3, <1>4, <1>5, <1>6, <1>7, <1>8 DEF t

\* Counting the users of a name as sets of users come and go.
LEMMA CalledFinite ==
    ASSUME NEW S, IsFiniteSet(S), NEW n
    PROVE  IsFiniteSet(Called(n, S)) /\ Cardinality(Called(n, S)) \in Nat
  BY FS_Subset, FS_CardinalityType DEF Called

LEMMA CalledAdd ==
    ASSUME NEW S, IsFiniteSet(S), NEW n, NEW c, c \notin S
    PROVE  Cardinality(Called(n, S \cup {c}))
           = Cardinality(Called(n, S)) + (IF Name[c] = n THEN 1 ELSE 0)
<1>1. IsFiniteSet(Called(n, S)) /\ Cardinality(Called(n, S)) \in Nat
  BY CalledFinite
<1>2. CASE Name[c] = n
  <2>1. Called(n, S \cup {c}) = Called(n, S) \cup {c} /\ c \notin Called(n, S)
    BY <1>2 DEF Called
  <2> QED BY <1>1, <1>2, <2>1, FS_AddElement
<1>3. CASE Name[c] # n
  <2>1. Called(n, S \cup {c}) = Called(n, S)
    BY <1>3 DEF Called
  <2> QED BY <1>1, <1>3, <2>1
<1> QED BY <1>2, <1>3

LEMMA CalledRemove ==
    ASSUME NEW S, IsFiniteSet(S), NEW n, NEW c \in S
    PROVE  Cardinality(Called(n, S \ {c}))
           = Cardinality(Called(n, S)) - (IF Name[c] = n THEN 1 ELSE 0)
<1>1. IsFiniteSet(Called(n, S)) /\ Cardinality(Called(n, S)) \in Nat
  BY CalledFinite
<1>2. CASE Name[c] = n
  <2>1. Called(n, S \ {c}) = Called(n, S) \ {c} /\ c \in Called(n, S)
    BY <1>2 DEF Called
  <2> QED BY <1>1, <1>2, <2>1, FS_RemoveElement
<1>3. CASE Name[c] # n
  <2>1. Called(n, S \ {c}) = Called(n, S)
    BY <1>3 DEF Called
  <2> QED BY <1>1, <1>3, <2>1
<1> QED BY <1>2, <1>3

\* The server's list counts every user in it once.
LEMMA CalledUsers ==
    ASSUME TypeOK, UsersDiffer, NEW n
    PROVE  /\ IsFiniteSet(ToSet(users))
           /\ Cardinality(ToSet(users)) = Len(users)
           /\ Cardinality({i \in 1..Len(users) : Name[users[i]] = n})
              = Cardinality(Called(n, ToSet(users)))
<1>1. users \in Seq(Clients) /\ Len(users) \in Nat /\ DOMAIN users = 1..Len(users)
  BY LenProperties DEF TypeOK
<1>2. IsFiniteSet(1..Len(users)) /\ Cardinality(1..Len(users)) = Len(users)
  BY <1>1, FS_Interval
<1> DEFINE f == [i \in 1..Len(users) |-> users[i]]
           I == {i \in 1..Len(users) : Name[users[i]] = n}
           g == [i \in I |-> users[i]]
<1>3. f \in Bijection(1..Len(users), ToSet(users))
  BY <1>1 DEF Bijection, Injection, Surjection, IsInjective, ToSet, UsersDiffer
<1>4. g \in Bijection(I, Called(n, ToSet(users)))
  BY <1>1 DEF Bijection, Injection, Surjection, IsInjective, ToSet, UsersDiffer, Called
<1>5. IsFiniteSet(I)
  BY <1>2, FS_Subset
<1> HIDE DEF f, g, I
<1>6. Cardinality(Called(n, ToSet(users))) = Cardinality(I)
  BY <1>4, <1>5, FS_Bijection DEF ExistsBijection
<1>7. IsFiniteSet(ToSet(users)) /\ Cardinality(ToSet(users)) = Len(users)
  BY <1>2, <1>3, FS_Bijection DEF ExistsBijection
<1> QED BY <1>6, <1>7 DEF I

-----------------------------------------------------------------------------
(* Lemmas about the ledger *)

\* Only the first k messages say who is present after them.
LEMMA PresentSame ==
    ASSUME NEW h, NEW g, NEW k, \A i \in 1..k : g[i] = h[i]
    PROVE  /\ \A c : Announced(g, k, c) <=> Announced(h, k, c)
           /\ \A c : HasLeft(g, k, c) <=> HasLeft(h, k, c)
           /\ Present(g, k) = Present(h, k)
  BY DEF Announced, HasLeft, Present, Announces, Leaves

\* What each kind of message does to it.
LEMMA PresentStep ==
    ASSUME NEW h \in Seq(Message), NEW k \in 1..Len(h), Entry(h, k)
    PROVE  /\ h[k].type = NEW_USER =>
                 /\ h[k].from \in Clients \ Present(h, k - 1)
                 /\ Present(h, k) = Present(h, k - 1) \cup {h[k].from}
           /\ h[k].type = USER_LEFT =>
                 /\ h[k].from \in Present(h, k - 1)
                 /\ Present(h, k) = Present(h, k - 1) \ {h[k].from}
           /\ h[k].type = NEW_MESSAGE => Present(h, k) = Present(h, k - 1)
<1>1. k \in Nat /\ h[k] \in Message
  BY LenProperties, ElementOfSeq
<1>2. \A i : i \in 1..k <=> i \in 1..(k - 1) \/ i = k
  BY <1>1
<1>3. \A c : /\ Announced(h, k, c) <=> Announced(h, k - 1, c) \/ Announces(h[k], c)
             /\ HasLeft(h, k, c) <=> HasLeft(h, k - 1, c) \/ Leaves(h[k], c)
  BY <1>2 DEF Announced, HasLeft
<1>4. CASE h[k].type = NEW_USER
  <2>1. h[k].from \in Clients
    BY <1>1, <1>4 DEF Message, NEW_USER, NEW_MESSAGE
  <2>2. \A c : ~Leaves(h[k], c) /\ (Announces(h[k], c) <=> c = h[k].from)
    BY <1>4 DEF Leaves, Announces, NEW_USER, USER_LEFT
  <2> QED BY <1>3, <1>4, <2>1, <2>2
        DEF Entry, Present, NEW_USER, USER_LEFT, NEW_MESSAGE
<1>5. CASE h[k].type = USER_LEFT
  <2>1. \A c : ~Announces(h[k], c) /\ (Leaves(h[k], c) <=> c = h[k].from)
    BY <1>5 DEF Leaves, Announces, NEW_USER, USER_LEFT
  <2> QED BY <1>3, <1>5, <2>1
        DEF Entry, Present, NEW_USER, USER_LEFT, NEW_MESSAGE
<1>6. CASE h[k].type = NEW_MESSAGE
  <2>1. \A c : ~Announces(h[k], c) /\ ~Leaves(h[k], c)
    BY <1>6 DEF Leaves, Announces, NEW_USER, USER_LEFT, NEW_MESSAGE
  <2> QED BY <1>3, <1>6, <2>1
        DEF Entry, Present, NEW_USER, USER_LEFT, NEW_MESSAGE
<1> QED BY <1>4, <1>5, <1>6

-----------------------------------------------------------------------------
(* Types *)

\* The first user of a name is removed; an unknown one leaves the list alone.
LEMMA RemoveTyped ==
    ASSUME NEW S, NEW s \in Seq(S), NEW e
    PROVE  /\ remove_user(s, e) \in Seq(S)
           /\ Len(remove_user(s, e)) <= Len(s)
<1>1. Len(s) \in Nat
  BY LenProperties
<1>2. CASE e \in ToSet(s)
  <2>1. PICK k \in 1..Len(s) : RemoveFirst(s, e) = RemoveAt(s, k)
    BY <1>2, FirstRemoved
  <2> QED BY <1>1, <1>2, <2>1, Removed DEF remove_user
<1>3. CASE e \notin ToSet(s)
  BY <1>1, <1>3 DEF remove_user
<1> QED BY <1>2, <1>3

LEMMA AddTyped ==
    ASSUME NEW S, NEW s \in Seq(S), Len(s) <= UsersMax, NEW e \in S
    PROVE  /\ add_user(s, e) \in Seq(S)
           /\ Len(add_user(s, e)) <= UsersMax
<1>1. Len(s) \in Nat /\ UsersMax \in Nat
  BY LenProperties, ChatAssumption
<1> QED BY <1>1, AppendProperties DEF add_user

LEMMA HistoryTyped ==
    ASSUME TypeOK, NEW m \in Message, add_to_history(m)
    PROVE  history' \in Seq(Message) /\ Len(history') <= HistorySize
<1>1. Len(history) \in Nat /\ HistorySize \in Nat
  BY LenProperties, ChatAssumption DEF TypeOK
<1> QED BY <1>1, AppendProperties DEF TypeOK, add_to_history

LEMMA ServiceTyped ==
    ASSUME TypeOK, NEW m \in Message, SendService(m)
    PROVE  service' \in Seq(Message) /\ Len(service') <= ServiceMax
<1>1. Len(service) \in Nat /\ ServiceMax \in Nat
  BY LenProperties, ChatAssumption DEF TypeOK
<1> QED BY <1>1, AppendProperties DEF TypeOK, SendService

LEMMA UserTyped ==
    ASSUME TypeOK, NEW c, NEW m \in Message, SendUser(c, m)
    PROVE  mq' \in [Clients -> Seq(Message)] /\ \A d \in Clients : Len(mq'[d]) <= UserMax
<1>1. \A d \in Clients : Len(mq[d]) \in Nat /\ mq[d] \in Seq(Message)
  BY LenProperties DEF TypeOK
<1>2. UserMax \in Nat
  BY ChatAssumption
<1>3. \A d \in Clients :
         /\ Append(mq[d], m) \in Seq(Message)
         /\ Len(Append(mq[d], m)) = Len(mq[d]) + 1
  BY <1>1, AppendProperties
<1>4. /\ mq' = [d \in Clients |-> mq'[d]]
      /\ \A d \in Clients : mq'[d] = IF d = c THEN Append(mq[d], m) ELSE mq[d]
      /\ Len(mq[c]) < UserMax
  BY DEF TypeOK, SendUser
<1>5. \A d \in Clients : Len(mq[d]) <= UserMax
  BY DEF TypeOK
<1>6. \A d \in Clients : mq'[d] \in Seq(Message) /\ Len(mq'[d]) <= UserMax
  BY <1>1, <1>2, <1>3, <1>4, <1>5
<1> QED BY <1>4, <1>6

LEMMA MessagesTyped ==
    /\ Dummy \in Message /\ Shutdown \in Message
    /\ \A c \in Clients, n \in Nat :
          /\ Msg(NEW_USER, c, n) \in Message
          /\ Msg(USER_LEFT, c, n) \in Message
          /\ Msg(NEW_MESSAGE, c, n) \in Message
  BY DEF Dummy, Shutdown, Msg, Message

LEMMA MessageFrom ==
    ASSUME NEW m \in Message, m.type \in {NEW_USER, USER_LEFT}
    PROVE  m.from \in Clients
  BY DEF Message, NEW_USER, USER_LEFT, NEW_MESSAGE

LEMMA TypeInit == Init => TypeOK
<1> SUFFICES ASSUME Init PROVE TypeOK
  OBVIOUS
<1>1. <<>> \in Seq(Message) /\ <<>> \in Seq(Clients) /\ <<>> \in Seq(Names) /\ Len(<<>>) = 0
  BY EmptySeq
<1> QED BY <1>1, ChatAssumption, MessagesTyped DEF Init, TypeOK

LEMMA ReceiveTyped == TypeOK /\ Receive => TypeOK'
<1> SUFFICES ASSUME TypeOK, Receive PROVE TypeOK'
  OBVIOUS
<1> DEFINE m == Head(service)
<1>1. /\ m \in Message
      /\ service' \in Seq(Message) /\ Len(service') <= ServiceMax
  <2>1. Len(service) \in Nat /\ ServiceMax \in Nat
    BY LenProperties, ChatAssumption DEF TypeOK
  <2> QED BY <2>1, HeadTailProperties DEF TypeOK, Receive
<1>2. UNCHANGED <<running, ipc, mq, clientVars>>
  BY DEF Receive
<1>3. \/ running /\ (NewUser(m) \/ NewUserIgnored(m) \/ NewMessage(m) \/ UserLeft(m))
      \/ spc' = "join" /\ UNCHANGED <<smsg, idx, users, history, exists>>
  BY DEF Receive, TypeOK
<1> HIDE DEF m
<1>4. CASE spc' = "join" /\ UNCHANGED <<smsg, idx, users, history, exists>>
  BY <1>1, <1>2, <1>4 DEF TypeOK, clientVars
<1>5. CASE NewUser(m)
  <2>1. m.from \in Clients
    BY <1>1, <1>5, MessageFrom DEF NewUser
  <2>2. users' \in Seq(Clients) /\ Len(users') <= UsersMax
    <3>1. Len(users) \in Nat /\ UsersMax \in Nat
      BY LenProperties, ChatAssumption DEF TypeOK
    <3> QED BY <1>5, <2>1, <3>1, AppendProperties DEF NewUser, TypeOK
  <2> QED BY <1>1, <1>2, <1>5, <2>2 DEF NewUser, TypeOK, clientVars
<1>6. CASE NewUserIgnored(m)
  BY <1>1, <1>2, <1>6 DEF NewUserIgnored, Loop, TypeOK, clientVars
<1>7. CASE NewMessage(m)
  <2>1. history' \in Seq(Message) /\ Len(history') <= HistorySize
    BY <1>1, <1>7, HistoryTyped DEF NewMessage
  <2> QED BY <1>1, <1>2, <1>7, <2>1 DEF NewMessage, TypeOK, clientVars
<1>8. CASE UserLeft(m)
  <2>1. CASE m.from \in ToSet(users)
    <3>1. history' \in Seq(Message) /\ Len(history') <= HistorySize
      BY <1>1, <1>8, <2>1, HistoryTyped DEF UserLeft
    <3>2. users' \in Seq(Clients) /\ Len(users') <= UsersMax
      <4>1. PICK k \in 1..Len(users) : users' = RemoveAt(users, k)
        BY <1>8, <2>1, FirstRemoved DEF UserLeft, RemoveUser, TypeOK
      <4>2. Len(users) \in Nat /\ UsersMax \in Nat
        BY LenProperties, ChatAssumption DEF TypeOK
      <4> QED BY <4>1, <4>2, Removed DEF TypeOK
    <3>3. exists' \in [Clients -> BOOLEAN]
      BY <1>8, <2>1 DEF UserLeft, TypeOK
    <3>4. spc' = "bcast" /\ smsg' = m /\ idx' = 1
      BY <1>8, <2>1 DEF UserLeft
    <3> QED BY <1>1, <1>2, <3>1, <3>2, <3>3, <3>4 DEF TypeOK, clientVars
  <2>2. CASE m.from \notin ToSet(users)
    BY <1>1, <1>2, <1>8, <2>2 DEF UserLeft, Loop, TypeOK, clientVars
  <2> QED BY <2>1, <2>2
<1> QED BY <1>3, <1>4, <1>5, <1>6, <1>7, <1>8

LEMMA ClientReceiveTyped ==
    ASSUME TypeOK, NEW c \in Clients, ClientReceive(c)
    PROVE  TypeOK'
<1> DEFINE m == Head(mq[c])
<1>1. /\ mq[c] \in Seq(Message) /\ Len(mq[c]) \in Nat /\ Len(mq[c]) <= UserMax
      /\ mq[c] # <<>>
  BY LenProperties DEF TypeOK, ClientReceive
<1>2. m \in Message /\ Tail(mq[c]) \in Seq(Message) /\ Len(Tail(mq[c])) <= UserMax
  <2>1. UserMax \in Nat
    BY ChatAssumption
  <2> QED BY <1>1, <2>1, HeadTailProperties
<1>3. cusers' \in [Clients -> Seq(Names)] /\ \A d \in Clients : Len(cusers'[d]) <= UsersMax
  <2>1. m.type \in {NEW_USER, USER_LEFT} => Name[m.from] \in Names
    BY <1>2, MessageFrom DEF Names
  <2>2. cusers[c] \in Seq(Names) /\ Len(cusers[c]) <= UsersMax /\ Len(cusers[c]) \in Nat
    BY LenProperties DEF TypeOK
  <2>3. UsersMax \in Nat
    BY ChatAssumption
  <2> DEFINE new == CASE m.type = NEW_USER -> add_user(cusers[c], Name[m.from])
                      [] m.type = USER_LEFT -> remove_user(cusers[c], Name[m.from])
                      [] OTHER -> cusers[c]
  <2>4. cusers' = [cusers EXCEPT ![c] = new]
    BY DEF ClientReceive
  <2> HIDE DEF m
  <2>5. new \in Seq(Names) /\ Len(new) <= UsersMax
    <3>1. CASE m.type = NEW_USER
      BY <2>1, <2>2, <3>1, AddTyped DEF NEW_USER, USER_LEFT
    <3>2. CASE m.type = USER_LEFT
      <4>1. new = remove_user(cusers[c], Name[m.from])
        BY <3>2 DEF NEW_USER, USER_LEFT
      <4>2. /\ remove_user(cusers[c], Name[m.from]) \in Seq(Names)
            /\ Len(remove_user(cusers[c], Name[m.from])) <= Len(cusers[c])
        BY <2>2, RemoveTyped
      <4>3. Len(remove_user(cusers[c], Name[m.from])) \in Nat
        BY <4>2, LenProperties
      <4> QED BY <2>2, <2>3, <4>1, <4>2, <4>3
    <3>3. CASE m.type \notin {NEW_USER, USER_LEFT}
      BY <2>2, <3>3
    <3> QED BY <3>1, <3>2, <3>3
  <2> HIDE DEF new
  <2> QED BY <2>4, <2>5 DEF TypeOK
<1>4. /\ chat_history' \in [Clients -> Seq(Message)]
      /\ \A d \in Clients : Len(chat_history'[d]) < ChatMax
  <2>1. chat_history[c] \in Seq(Message) /\ Len(chat_history[c]) \in Nat /\ ChatMax \in Nat
    BY LenProperties, ChatAssumption DEF TypeOK
  <2> DEFINE new == IF Len(chat_history[c]) < ChatMax - 1
                    THEN Append(chat_history[c], m) ELSE chat_history[c]
  <2>2. chat_history' = [chat_history EXCEPT ![c] = new]
    BY DEF ClientReceive
  <2> HIDE DEF m
  <2>3. new \in Seq(Message) /\ Len(new) < ChatMax
    BY <1>2, <2>1, AppendProperties DEF TypeOK
  <2> HIDE DEF new
  <2> QED BY <2>2, <2>3 DEF TypeOK
<1>5. mq' \in [Clients -> Seq(Message)] /\ \A d \in Clients : Len(mq'[d]) <= UserMax
  <2>1. mq' = [mq EXCEPT ![c] = Tail(mq[c])]
    BY DEF ClientReceive
  <2> QED BY <1>2, <2>1 DEF TypeOK
<1> QED BY <1>3, <1>4, <1>5 DEF ClientReceive, TypeOK, serverVars

LEMMA TypeNext == TypeOK /\ [Next]_vars => TypeOK'
<1> SUFFICES ASSUME TypeOK, [Next]_vars PROVE TypeOK'
  OBVIOUS
<1> USE DEF clientVars, queueVars, serverVars
<1>1. CASE InputExit
  BY <1>1 DEF InputExit, TypeOK
<1>2. CASE InputUnblock
  BY <1>2, ServiceTyped, MessagesTyped DEF InputUnblock, TypeOK
<1>3. CASE Receive
  BY <1>3, ReceiveTyped
<1>4. CASE Replay
  <2>1. history[idx] \in Message /\ idx + 1 \in Nat \ {0}
    BY <1>4, ElementOfSeq, LenProperties DEF Replay, TypeOK
  <2>2. mq' \in [Clients -> Seq(Message)] /\ \A d \in Clients : Len(mq'[d]) <= UserMax
    BY <1>4, <2>1, UserTyped DEF Replay
  <2> QED BY <1>4, <2>1, <2>2 DEF Replay, TypeOK
<1>5. CASE ReplayDone
  <2>1. history' \in Seq(Message) /\ Len(history') <= HistorySize
    BY <1>5, HistoryTyped DEF ReplayDone, TypeOK
  <2> QED BY <1>5, <2>1 DEF ReplayDone, TypeOK
<1>6. CASE Broadcast
  <2>1. mq' \in [Clients -> Seq(Message)] /\ \A d \in Clients : Len(mq'[d]) <= UserMax
    BY <1>6, UserTyped DEF Broadcast, TypeOK
  <2> QED BY <1>6, <2>1 DEF Broadcast, TypeOK
<1>7. CASE BroadcastDone
  BY <1>7 DEF BroadcastDone, Loop, TypeOK
<1>8. CASE Join
  BY <1>8 DEF Join, TypeOK
<1>9. CASE cleanup_resources
  <2>1. mq' \in [Clients -> Seq(Message)] /\ \A d \in Clients : Len(mq'[d]) <= UserMax
    BY <1>9, UserTyped, MessagesTyped DEF cleanup_resources, TypeOK
  <2>2. exists' \in [Clients -> BOOLEAN]
    BY <1>9 DEF cleanup_resources, TypeOK
  <2>3. idx' \in Nat \ {0}
    BY <1>9 DEF cleanup_resources, TypeOK
  <2>4. UNCHANGED <<running, spc, smsg, users, history, ipc, clientVars, service>>
    BY <1>9 DEF cleanup_resources
  <2> QED BY <2>1, <2>2, <2>3, <2>4 DEF TypeOK
<1>10. CASE Stopped
  BY <1>10 DEF Stopped, TypeOK
<1>11. ASSUME NEW c \in Clients, ClientJoin(c) PROVE TypeOK'
  <2>1. service' \in Seq(Message) /\ Len(service') <= ServiceMax
    BY <1>11, ServiceTyped, MessagesTyped DEF ClientJoin
  <2> QED BY <1>11, <2>1 DEF ClientJoin, TypeOK
<1>12. ASSUME NEW c \in Clients, ClientOpen(c) PROVE TypeOK'
  BY <1>12 DEF ClientOpen, TypeOK
<1>13. ASSUME NEW c \in Clients, ClientSay(c) PROVE TypeOK'
  <2>1. says + 2 \in Nat /\ says' \in 0..MaxSays
    BY <1>13, ChatAssumption DEF ClientSay, TypeOK
  <2>2. service' \in Seq(Message) /\ Len(service') <= ServiceMax
    BY <1>13, <2>1, ServiceTyped, MessagesTyped DEF ClientSay
  <2> QED BY <1>13, <2>1, <2>2 DEF ClientSay, TypeOK
<1>14. ASSUME NEW c \in Clients, ClientLeave(c) PROVE TypeOK'
  <2>1. service' \in Seq(Message) /\ Len(service') <= ServiceMax
    BY <1>14, ServiceTyped, MessagesTyped DEF ClientLeave
  <2> QED BY <1>14, <2>1 DEF ClientLeave, TypeOK
<1>15. CASE UNCHANGED vars
  BY <1>15 DEF vars, TypeOK
<1> QED
  BY <1>1, <1>2, <1>3, <1>4, <1>5, <1>6, <1>7, <1>8, <1>9, <1>10, <1>11, <1>12,
     <1>13, <1>14, <1>15, ClientReceiveTyped DEF Next, InputStep, ServerStep, ClientStep

-----------------------------------------------------------------------------
(* Everyone joins once *)

\* Whatever else is sent, the requests to join are where they were.
LEMMA SentOther ==
    ASSUME TypeOK, AsksOnce, NEW m \in Message, m.type # NEW_USER, SendService(m),
           \A c \in Clients : cpc'[c] = "idle" <=> cpc[c] = "idle"
    PROVE  AsksOnce' /\ \A c \in Clients : Unserved(c)' => Unserved(c)
<1>1. /\ Len(service) \in Nat /\ Len(service') = Len(service) + 1
      /\ \A i \in 1..Len(service) : service'[i] = service[i]
      /\ service'[Len(service) + 1] = m
  BY LenProperties, AppendProperties DEF TypeOK, SendService
<1>2. \A i : i \in 1..Len(service') <=> i \in 1..Len(service) \/ i = Len(service) + 1
  BY <1>1
<1>3. \A c : Announced(service', Len(service'), c) <=> Announced(service, Len(service), c)
  BY <1>1, <1>2 DEF Announced, Announces
<1> QED BY <1>1, <1>2, <1>3 DEF AsksOnce, Unserved, Announces

\* A request to join by a client that had none.
LEMMA SentJoin ==
    ASSUME TypeOK, AsksOnce, NEW c \in Clients, ClientJoin(c)
    PROVE  AsksOnce' /\ \A d \in Clients : Unserved(d)' => Unserved(d)
<1> DEFINE m == Msg(NEW_USER, c, 0)
<1>1. /\ m.type = NEW_USER /\ m.from = c /\ m \in Message
      /\ cpc[c] = "idle" /\ cpc' = [cpc EXCEPT ![c] = "sleep"] /\ SendService(m)
  BY MessagesTyped DEF Msg, ClientJoin
<1>2. /\ Len(service) \in Nat /\ Len(service') = Len(service) + 1
      /\ \A i \in 1..Len(service) : service'[i] = service[i]
      /\ service'[Len(service) + 1] = m
  <2> HIDE DEF m
  <2> QED BY <1>1, LenProperties, AppendProperties DEF TypeOK, SendService
<1> HIDE DEF m
<1>3. \A i : i \in 1..Len(service') <=> i \in 1..Len(service) \/ i = Len(service) + 1
  BY <1>2
<1>4. \A d : Announced(service', Len(service'), d) <=>
                Announced(service, Len(service), d) \/ d = c
  BY <1>1, <1>2, <1>3 DEF Announced, Announces
<1>5. ~Announced(service, Len(service), c)
  BY <1>1 DEF AsksOnce
<1>6. \A d \in Clients : cpc'[d] = "idle" <=> cpc[d] = "idle" /\ d # c
  BY <1>1 DEF TypeOK
<1>7. \A d \in Clients : cpc'[d] = "idle" => ~Announced(service', Len(service'), d)
  BY <1>4, <1>6 DEF AsksOnce
<1>8. ASSUME NEW i \in 1..Len(service'), NEW j \in 1..Len(service'),
             service'[i].type = NEW_USER, Announces(service'[j], service'[i].from)
      PROVE  i = j
  <2>1. CASE i = Len(service) + 1 /\ j # i
    BY <1>1, <1>2, <1>3, <1>5, <1>8, <2>1 DEF Announced, Announces
  <2>2. CASE j = Len(service) + 1 /\ j # i
    BY <1>1, <1>2, <1>3, <1>5, <1>8, <2>2 DEF Announced, Announces
  <2>3. CASE i # Len(service) + 1 /\ j # Len(service) + 1
    BY <1>2, <1>3, <1>8, <2>3 DEF AsksOnce
  <2> QED BY <2>1, <2>2, <2>3
<1> QED BY <1>1, <1>4, <1>6, <1>7, <1>8 DEF AsksOnce, Unserved

\* Once the server has read a request to join there is no other by that client.
LEMMA TakenJoin ==
    ASSUME TypeOK, AsksOnce, Receive
    PROVE  /\ AsksOnce'
           /\ \A c \in Clients : Unserved(c)' =>
                 Unserved(c) /\ ~Announces(Head(service), c)
<1>1. /\ service # <<>> /\ service' = Tail(service) /\ UNCHANGED cpc
  BY DEF Receive, clientVars
<1>2. /\ Len(service) \in Nat \ {0} /\ Len(service') = Len(service) - 1
      /\ \A i \in 1..Len(service') : service'[i] = service[i + 1]
      /\ Head(service) = service[1]
  BY <1>1, LenProperties, EmptySeq, HeadTailProperties DEF TypeOK
<1>3. \A i \in 1..Len(service') : i + 1 \in 1..Len(service) /\ i + 1 # 1
  BY <1>2
<1>4. \A c : Announced(service', Len(service'), c) =>
                \E i \in 1..Len(service) : i # 1 /\ Announces(service[i], c)
  BY <1>2, <1>3 DEF Announced
<1>5. 1 \in 1..Len(service)
  BY <1>2
<1>6. \A c \in Clients : Announced(service', Len(service'), c) =>
          Announced(service, Len(service), c) /\ ~Announces(Head(service), c)
  BY <1>2, <1>4, <1>5 DEF AsksOnce, Announced, Announces
<1>7. \A c \in Clients : cpc[c] = "idle" => ~Announces(Head(service), c)
  BY <1>2, <1>5 DEF AsksOnce, Announced
<1>8. \A i, j \in 1..Len(service') :
         service'[i].type = NEW_USER /\ Announces(service'[j], service'[i].from) => i = j
  <2> SUFFICES ASSUME NEW i \in 1..Len(service'), NEW j \in 1..Len(service'),
                      service'[i].type = NEW_USER, Announces(service'[j], service'[i].from)
               PROVE  i = j
    OBVIOUS
  <2>1. i + 1 = j + 1
    BY <1>2, <1>3 DEF AsksOnce
  <2> QED BY <1>2, <2>1
<1> QED BY <1>1, <1>6, <1>7, <1>8 DEF AsksOnce, Unserved

LEMMA AsksNext ==
    ASSUME TypeOK, AsksOnce, [Next]_vars
    PROVE  AsksOnce' /\ \A c \in Clients : Unserved(c)' => Unserved(c)
<1> USE DEF clientVars, queueVars, serverVars
<1>1. CASE UNCHANGED <<service, cpc>>
  BY <1>1 DEF AsksOnce, Unserved
<1>2. CASE InputUnblock
  <2>1. SendService(Dummy) /\ UNCHANGED cpc /\ Dummy.type # NEW_USER
    BY <1>2 DEF InputUnblock, Dummy, Msg, NEW_USER, NEW_MESSAGE
  <2> QED BY <2>1, SentOther, MessagesTyped
<1>3. CASE Receive
  BY <1>3, TakenJoin
<1>4. ASSUME NEW c \in Clients, ClientJoin(c) PROVE AsksOnce' /\ \A d \in Clients : Unserved(d)' => Unserved(d)
  BY <1>4, SentJoin
<1>5. ASSUME NEW c \in Clients, ClientOpen(c) PROVE AsksOnce' /\ \A d \in Clients : Unserved(d)' => Unserved(d)
  <2>1. UNCHANGED service /\ \A d \in Clients : cpc'[d] = "idle" <=> cpc[d] = "idle"
    BY <1>5 DEF ClientOpen, TypeOK
  <2> QED BY <2>1 DEF AsksOnce, Unserved
<1>6. ASSUME NEW c \in Clients, ClientSay(c) PROVE AsksOnce' /\ \A d \in Clients : Unserved(d)' => Unserved(d)
  <2> DEFINE m == Msg(NEW_MESSAGE, c, says + 2)
  <2>1. m \in Message /\ m.type # NEW_USER /\ SendService(m) /\ UNCHANGED cpc
    <3>1. says + 2 \in Nat
      BY ChatAssumption DEF TypeOK
    <3> QED BY <1>6, <3>1, MessagesTyped DEF ClientSay, Msg, NEW_USER, NEW_MESSAGE
  <2> HIDE DEF m
  <2> QED BY <2>1, SentOther
<1>7. ASSUME NEW c \in Clients, ClientLeave(c) PROVE AsksOnce' /\ \A d \in Clients : Unserved(d)' => Unserved(d)
  <2> DEFINE m == Msg(USER_LEFT, c, 0)
  <2>1. m \in Message /\ m.type # NEW_USER /\ SendService(m)
    BY <1>7, MessagesTyped DEF ClientLeave, Msg, NEW_USER, USER_LEFT
  <2>2. \A d \in Clients : cpc'[d] = "idle" <=> cpc[d] = "idle"
    BY <1>7 DEF ClientLeave, TypeOK
  <2> HIDE DEF m
  <2> QED BY <2>1, <2>2, SentOther
<1>8. ASSUME NEW c \in Clients, ClientReceive(c) PROVE UNCHANGED <<service, cpc>>
  BY <1>8 DEF ClientReceive
<1>9. InputExit \/ Replay \/ ReplayDone \/ Broadcast \/ BroadcastDone \/ Join
      \/ cleanup_resources \/ Stopped => UNCHANGED <<service, cpc>>
  BY DEF InputExit, Replay, ReplayDone, Broadcast, BroadcastDone, Join, cleanup_resources, Stopped
<1>10. UNCHANGED vars => UNCHANGED <<service, cpc>>
  BY DEF vars
<1> QED
  BY <1>1, <1>2, <1>3, <1>4, <1>5, <1>6, <1>7, <1>8, <1>9, <1>10
     DEF Next, InputStep, ServerStep, ClientStep

-----------------------------------------------------------------------------
(* What single steps do to the lists *)

Extends(h, g, m) ==
    /\ Len(h) = Len(g) + 1
    /\ \A i \in 1..Len(g) : h[i] = g[i]
    /\ h[Len(g) + 1] = m

LEMMA HistoryAdded ==
    ASSUME TypeOK, NEW m \in Message, add_to_history(m)
    PROVE  /\ Len(history) < HistorySize => Extends(history', history, m)
           /\ Len(history) >= HistorySize => UNCHANGED history
           /\ Len(history) \in Nat
           /\ Len(history') < HistorySize => Len(history) < HistorySize
<1>1. Len(history) \in Nat /\ HistorySize \in Nat
  BY LenProperties, ChatAssumption DEF TypeOK
<1> QED BY <1>1, AppendProperties DEF TypeOK, add_to_history, Extends

\* A new message brings in only who it names.
LEMMA ExtendsNames ==
    ASSUME NEW h, NEW g, NEW m, Len(g) \in Nat, Extends(h, g, m), NEW c
    PROVE  /\ Announced(h, Len(h), c) <=> Announced(g, Len(g), c) \/ Announces(m, c)
           /\ HasLeft(h, Len(h), c) <=> HasLeft(g, Len(g), c) \/ Leaves(m, c)
<1>1. \A i : i \in 1..Len(h) <=> i \in 1..Len(g) \/ i = Len(g) + 1
  BY DEF Extends
<1> QED BY <1>1 DEF Extends, Announced, HasLeft, Announces, Leaves

LEMMA UserAdded ==
    ASSUME TypeOK, NEW c \in Clients, users' = Append(users, c)
    PROVE  Extends(users', users, c) /\ Len(users) \in Nat
  BY LenProperties, AppendProperties DEF TypeOK, Extends

\* RemoveUser closes the gap.
LEMMA UserRemoved ==
    ASSUME TypeOK, UsersDiffer, NEW c \in ToSet(users)
    PROVE  LET new == RemoveUser(c) IN
           /\ new \in Seq(Clients) /\ Len(new) \in Nat
           /\ Len(new) = Len(users) - 1
           /\ \A i, j \in 1..Len(new) : new[i] = new[j] => i = j
           /\ ToSet(new) = ToSet(users) \ {c}
<1>1. users \in Seq(Clients) /\ Len(users) \in Nat
  BY LenProperties DEF TypeOK
<1>2. PICK k \in 1..Len(users) : users[k] = c /\ RemoveUser(c) = RemoveAt(users, k)
  BY <1>1, FirstRemoved DEF RemoveUser
<1> DEFINE new == RemoveAt(users, k)
<1>3. /\ new \in Seq(Clients) /\ Len(new) = Len(users) - 1
      /\ \A i \in 1..Len(new) : new[i] = IF i < k THEN users[i] ELSE users[i + 1]
  BY <1>1, Removed
<1> HIDE DEF new
<1>4. \A i \in 1..Len(new) : i \in 1..Len(users) /\ i + 1 \in 1..Len(users)
  BY <1>1, <1>3
<1>5. \A i \in 1..Len(new) : \E j \in 1..Len(users) :
         j # k /\ j = (IF i < k THEN i ELSE i + 1) /\ new[i] = users[j]
  BY <1>1, <1>3, <1>4
<1>6. \A i, j \in 1..Len(new) : new[i] = new[j] => i = j
  BY <1>1, <1>3, <1>5 DEF UsersDiffer
<1>7. \A i \in 1..Len(new) : new[i] # c
  BY <1>2, <1>5 DEF UsersDiffer
<1>8. ASSUME NEW j \in 1..Len(users), users[j] # c
      PROVE  \E i \in 1..Len(new) : new[i] = users[j]
  <2>1. CASE j < k
    <3>1. j \in 1..Len(new) /\ new[j] = users[j]
      BY <1>1, <1>3, <2>1
    <3> QED BY <3>1
  <2>2. CASE j > k
    <3>1. j - 1 \in 1..Len(new) /\ ~(j - 1 < k) /\ (j - 1) + 1 = j
      BY <1>1, <1>3, <2>2
    <3>2. new[j - 1] = users[j]
      BY <1>3, <3>1
    <3> QED BY <3>1, <3>2
  <2>3. j # k
    BY <1>2, <1>8
  <2> QED BY <1>1, <2>1, <2>2, <2>3
<1>9. Len(new) \in Nat
  BY <1>3, LenProperties
<1>10. ToSet(new) = ToSet(users) \ {c}
  <2>1. DOMAIN new = 1..Len(new) /\ DOMAIN users = 1..Len(users)
    BY <1>1, <1>3, LenProperties
  <2>2. \A d \in ToSet(new) : d \in ToSet(users) /\ d # c
    BY <1>5, <1>7, <2>1 DEF ToSet
  <2>3. \A d \in ToSet(users) : d # c => d \in ToSet(new)
    BY <1>8, <2>1 DEF ToSet
  <2> QED BY <2>2, <2>3
<1> QED BY <1>2, <1>3, <1>6, <1>9, <1>10 DEF new

\* What main sends goes to users only.
LEMMA SentToUser ==
    ASSUME TypeOK, NEW c \in Clients, NEW m, SendUser(c, m), NEW d \in Clients, d # c
    PROVE  mq'[d] = mq[d]
  BY DEF TypeOK, SendUser

-----------------------------------------------------------------------------
(* Who has not been served has nothing *)

LEMMA BlankNext ==
    ASSUME TypeOK, JoinInv, UsersDiffer, SendInv, [Next]_vars,
           NEW c \in Clients, Unserved(c)'
    PROVE  Blank(c)'
<1>1. AsksOnce /\ Unserved(c) /\ Blank(c)
  BY AsksNext DEF JoinInv
<1> USE DEF clientVars, queueVars, serverVars
<1>2. CASE UNCHANGED <<users, exists, mq, chat_history, cusers, history>>
  BY <1>1, <1>2 DEF Blank
<1>3. CASE Receive
  <2> DEFINE m == Head(service)
  <2>1. m \in Message /\ ~Announces(m, c)
    BY <1>1, <1>3, TakenJoin, HeadTailProperties DEF TypeOK, Receive
  <2>2. UNCHANGED <<mq, chat_history, cusers>>
    BY <1>3 DEF Receive
  <2>3. \/ NewUser(m) \/ NewUserIgnored(m) \/ NewMessage(m) \/ UserLeft(m)
        \/ UNCHANGED <<users, history, exists>>
    BY <1>3 DEF Receive
  <2> HIDE DEF m
  <2>4. CASE NewUser(m)
    <3>1. m.from \in Clients /\ m.from # c
      BY <2>1, <2>4, MessageFrom DEF NewUser, Announces
    <3>2. Extends(users', users, m.from) /\ Len(users) \in Nat
      BY <2>4, <3>1, UserAdded DEF NewUser
    <3>3. \A i \in 1..Len(users') : users'[i] # c
      BY <1>1, <3>1, <3>2 DEF Extends, Blank
    <3>4. exists'[c] = exists[c] /\ UNCHANGED history
      BY <2>4, <3>1 DEF NewUser, TypeOK
    <3> QED BY <1>1, <2>2, <3>3, <3>4 DEF Blank
  <2>5. CASE NewMessage(m)
    <3>1. add_to_history(m) /\ UNCHANGED <<users, exists>> /\ m.type = NEW_MESSAGE
      BY <2>5 DEF NewMessage
    <3>2. ~Announces(m, c) /\ ~Leaves(m, c)
      BY <3>1 DEF Announces, Leaves, NEW_USER, USER_LEFT, NEW_MESSAGE
    <3>3. /\ ~Announced(history', Len(history'), c)
          /\ ~HasLeft(history', Len(history'), c)
      BY <1>1, <2>1, <3>1, <3>2, HistoryAdded, ExtendsNames, ChatAssumption DEF Blank
    <3> QED BY <1>1, <2>2, <3>1, <3>3 DEF Blank
  <2>6. CASE UserLeft(m) /\ m.from \in ToSet(users)
    <3>1. add_to_history(m) /\ users' = RemoveUser(m.from) /\ m.type = USER_LEFT
      BY <2>6 DEF UserLeft
    <3>2. m.from # c
      BY <1>1, <2>6, LenProperties DEF Blank, ToSet, TypeOK
    <3>3. ~Announces(m, c) /\ ~Leaves(m, c)
      BY <3>1, <3>2 DEF Announces, Leaves
    <3>4. /\ ~Announced(history', Len(history'), c)
          /\ ~HasLeft(history', Len(history'), c)
      BY <1>1, <2>1, <3>1, <3>3, HistoryAdded, ExtendsNames, ChatAssumption DEF Blank
    <3>5. \A i \in 1..Len(users') : users'[i] # c
      <4>1. c \notin ToSet(users)
        BY <1>1, LenProperties DEF Blank, ToSet, TypeOK
      <4>2. users' \in Seq(Clients) /\ c \notin ToSet(users')
        BY <2>6, <3>1, <4>1, UserRemoved
      <4> QED BY <4>2, LenProperties DEF ToSet
    <3>6. exists'[c] = exists[c]
      BY <2>6, <3>2 DEF UserLeft, TypeOK
    <3> QED BY <1>1, <2>2, <3>4, <3>5, <3>6 DEF Blank
  <2> QED BY <1>2, <2>2, <2>3, <2>4, <2>5, <2>6 DEF UserLeft, NewUserIgnored
<1>4. CASE Replay
  <2>1. smsg.from \in Clients /\ smsg.from # c
    <3>1. smsg \in Message /\ smsg.type = NEW_USER /\ smsg.from # c
      BY <1>1, <1>4, LenProperties DEF Replay, SendInv, TypeOK, Blank
    <3> QED BY <3>1, MessageFrom
  <2>2. mq'[c] = mq[c] /\ UNCHANGED <<users, exists, chat_history, cusers, history>>
    BY <1>4, <2>1, SentToUser DEF Replay
  <2> QED BY <1>1, <2>2 DEF Blank
<1>5. CASE ReplayDone
  <2>1. smsg \in Message /\ smsg.from # c /\ smsg.type = NEW_USER
    BY <1>1, <1>5, LenProperties DEF ReplayDone, SendInv, TypeOK, Blank
  <2>2. ~Announces(smsg, c) /\ ~Leaves(smsg, c)
    BY <2>1 DEF Announces, Leaves
  <2>3. add_to_history(smsg) /\ UNCHANGED <<users, exists, mq, chat_history, cusers>>
    BY <1>5 DEF ReplayDone
  <2>4. /\ ~Announced(history', Len(history'), c)
        /\ ~HasLeft(history', Len(history'), c)
    BY <1>1, <2>1, <2>2, <2>3, HistoryAdded, ExtendsNames, ChatAssumption DEF Blank
  <2> QED BY <1>1, <2>3, <2>4 DEF Blank
<1>6. CASE Broadcast \/ cleanup_resources
  <2>1. idx \in 1..Len(users) /\ users[idx] \in Clients
    BY <1>6, LenProperties, ElementOfSeq DEF Broadcast, cleanup_resources, TypeOK
  <2>2. users[idx] # c
    BY <1>1, <2>1 DEF Blank
  <2>3. mq'[c] = mq[c] /\ exists'[c] = exists[c] /\ UNCHANGED <<users, chat_history, cusers, history>>
    BY <1>6, <2>1, <2>2, SentToUser DEF Broadcast, cleanup_resources, TypeOK
  <2> QED BY <1>1, <2>3 DEF Blank
<1>7. ASSUME NEW d \in Clients, ClientReceive(d) PROVE Blank(c)'
  <2>1. d # c
    BY <1>1, <1>7 DEF ClientReceive, Blank
  <2>2. /\ mq'[c] = mq[c] /\ chat_history'[c] = chat_history[c] /\ cusers'[c] = cusers[c]
        /\ UNCHANGED <<users, exists, history>>
    BY <1>7, <2>1 DEF ClientReceive, TypeOK
  <2> QED BY <1>1, <2>2 DEF Blank
<1>8. ASSUME NEW d \in Clients, ClientJoin(d) \/ ClientOpen(d) \/ ClientSay(d) \/ ClientLeave(d)
      PROVE  UNCHANGED <<users, exists, mq, chat_history, cusers, history>>
  BY <1>8 DEF ClientJoin, ClientOpen, ClientSay, ClientLeave
<1>9. InputExit \/ InputUnblock \/ BroadcastDone \/ Join \/ Stopped \/ UNCHANGED vars
         => UNCHANGED <<users, exists, mq, chat_history, cusers, history>>
  BY DEF InputExit, InputUnblock, BroadcastDone, Join, Stopped, vars
<1> QED
  BY <1>2, <1>3, <1>4, <1>5, <1>6, <1>7, <1>8, <1>9
     DEF Next, InputStep, ServerStep, ClientStep

-----------------------------------------------------------------------------
(* The server's list and what it is sending *)

LEMMA DifferNext ==
    ASSUME TypeOK, JoinInv, UsersDiffer, [Next]_vars
    PROVE  UsersDiffer'
<1> USE DEF clientVars, queueVars, serverVars
<1>1. CASE UNCHANGED users
  BY <1>1 DEF UsersDiffer
<1>2. CASE Receive
  <2> DEFINE m == Head(service)
  <2>1. m \in Message /\ (\A c \in Clients : Announces(m, c) => Unserved(c))
    <3>1. service # <<>> /\ service \in Seq(Message)
      BY <1>2 DEF Receive, TypeOK
    <3>2. Len(service) \in Nat \ {0} /\ m = service[1] /\ m \in Message
      BY <3>1, EmptySeq, HeadTailProperties
    <3>3. 1 \in 1..Len(service)
      BY <3>2
    <3> HIDE DEF m
    <3> QED BY <3>2, <3>3 DEF Unserved, Announced
  <2>2. \/ NewUser(m) \/ NewUserIgnored(m) \/ NewMessage(m) \/ UserLeft(m)
        \/ UNCHANGED users
    BY <1>2 DEF Receive
  <2> HIDE DEF m
  <2>3. CASE NewUser(m)
    <3>1. m.from \in Clients /\ Announces(m, m.from)
      BY <2>1, <2>3, MessageFrom DEF NewUser, Announces
    <3>2. \A i \in 1..Len(users) : users[i] # m.from
      BY <2>1, <3>1 DEF JoinInv, Blank
    <3>3. Extends(users', users, m.from) /\ Len(users) \in Nat
      BY <2>3, <3>1, UserAdded DEF NewUser
    <3>4. \A i : i \in 1..Len(users') <=> i \in 1..Len(users) \/ i = Len(users) + 1
      BY <3>3 DEF Extends
    <3> QED BY <3>2, <3>3, <3>4 DEF Extends, UsersDiffer
  <2>4. CASE UserLeft(m) /\ m.from \in ToSet(users)
    BY <2>4, UserRemoved DEF UserLeft, UsersDiffer
  <2> QED BY <1>1, <2>2, <2>3, <2>4 DEF NewUserIgnored, NewMessage, UserLeft
<1>3. ASSUME NEW c \in Clients, ClientStep(c) PROVE UNCHANGED users
  BY <1>3 DEF ClientStep, ClientJoin, ClientOpen, ClientSay, ClientLeave, ClientReceive
<1>4. InputStep \/ Replay \/ ReplayDone \/ Broadcast \/ BroadcastDone \/ Join
      \/ cleanup_resources \/ Stopped \/ UNCHANGED vars => UNCHANGED users
  BY DEF InputStep, InputExit, InputUnblock, Replay, ReplayDone, Broadcast, BroadcastDone,
         Join, cleanup_resources, Stopped, vars
<1> QED BY <1>1, <1>2, <1>3, <1>4 DEF Next, ServerStep

\* What main has just read.
LEMMA HeadKnown ==
    ASSUME TypeOK, JoinInv, Receive, NEW m, m = Head(service)
    PROVE  /\ m \in Message
           /\ m.type = NEW_USER => m.from \in Clients /\ Blank(m.from)
<1>1. service # <<>> /\ service \in Seq(Message)
  BY DEF Receive, TypeOK
<1>2. Len(service) \in Nat \ {0} /\ m = service[1] /\ m \in Message
  BY <1>1, EmptySeq, HeadTailProperties
<1>3. 1 \in 1..Len(service)
  BY <1>2
<1>4. CASE m.type = NEW_USER
  <2>1. m.from \in Clients
    BY <1>2, <1>4, MessageFrom
  <2>2. Unserved(m.from)
    BY <1>2, <1>3, <1>4 DEF Unserved, Announced, Announces
  <2> QED BY <1>2, <2>1, <2>2 DEF JoinInv
<1> QED BY <1>2, <1>4

\* The newest message is the one being sent round.
LEMMA NewestSent ==
    ASSUME TypeOK, NEW m \in Message, add_to_history(m), smsg' = m, spc' = "bcast"
    PROVE  SendInv'
<1>1. Len(history') < HistorySize => Extends(history', history, m) /\ Len(history) \in Nat
  BY HistoryAdded, ChatAssumption
<1>2. Len(history') < HistorySize => Len(history') > 0 /\ history'[Len(history')] = m
  BY <1>1 DEF Extends
<1> QED BY <1>2 DEF SendInv

LEMMA SendNext ==
    ASSUME TypeOK, JoinInv, SendInv, [Next]_vars
    PROVE  SendInv'
<1> USE DEF clientVars, queueVars, serverVars
<1>1. CASE UNCHANGED <<spc, smsg, users, history, idx>>
  BY <1>1 DEF SendInv
<1>2. CASE spc' \notin {"replay", "bcast"}
  BY <1>2 DEF SendInv
<1>3. CASE Receive
  <2> DEFINE m == Head(service)
  <2>1. m \in Message /\ (m.type = NEW_USER => m.from \in Clients /\ Blank(m.from))
    BY <1>3, HeadKnown
  <2>2. \/ NewUser(m) \/ NewUserIgnored(m) \/ NewMessage(m) \/ UserLeft(m)
        \/ spc' = "join"
    BY <1>3 DEF Receive
  <2> HIDE DEF m
  <2>3. CASE NewUser(m)
    <3>1. /\ m.type = NEW_USER /\ UNCHANGED history
          /\ users' = Append(users, m.from) /\ smsg' = m /\ idx' = 1 /\ spc' = "replay"
      BY <2>3 DEF NewUser
    <3>2. Extends(users', users, m.from) /\ Len(users) \in Nat /\ Len(history) \in Nat
      BY <2>1, <3>1, UserAdded, LenProperties DEF TypeOK
    <3>3. Len(users') > 0 /\ users'[Len(users')] = m.from /\ 1 <= Len(history) + 1
      BY <3>2 DEF Extends
    <3> QED BY <2>1, <3>1, <3>3 DEF SendInv, Blank
  <2>4. CASE NewMessage(m) \/ (UserLeft(m) /\ m.from \in ToSet(users))
    BY <2>1, <2>4, NewestSent DEF NewMessage, UserLeft
  <2>5. CASE NewUserIgnored(m) \/ (UserLeft(m) /\ m.from \notin ToSet(users))
    BY <1>2, <2>5 DEF NewUserIgnored, UserLeft, Loop
  <2> QED BY <1>2, <2>2, <2>3, <2>4, <2>5
<1>4. CASE Replay
  <2>1. /\ spc = "replay" /\ UNCHANGED <<spc, smsg, users, history>> /\ idx' = idx + 1
        /\ idx + 1 <= Len(history) + 1
    BY <1>4, LenProperties DEF Replay, TypeOK
  <2> QED BY <2>1 DEF SendInv
<1>5. CASE ReplayDone
  BY <1>5, NewestSent DEF ReplayDone, TypeOK
<1>6. CASE Broadcast
  <2>1. spc = "bcast" /\ UNCHANGED <<spc, smsg, users, history>>
    BY <1>6 DEF Broadcast
  <2> QED BY <2>1 DEF SendInv
<1>7. BroadcastDone \/ Join \/ cleanup_resources \/ Stopped => spc' \notin {"replay", "bcast"}
  BY DEF BroadcastDone, Join, cleanup_resources, Stopped, Loop
<1>8. ASSUME NEW c \in Clients, ClientStep(c) PROVE UNCHANGED <<spc, smsg, users, history, idx>>
  BY <1>8 DEF ClientStep, ClientJoin, ClientOpen, ClientSay, ClientLeave, ClientReceive
<1>9. InputStep \/ UNCHANGED vars => UNCHANGED <<spc, smsg, users, history, idx>>
  BY DEF InputStep, InputExit, InputUnblock, vars
<1> QED BY <1>1, <1>2, <1>3, <1>4, <1>5, <1>6, <1>7, <1>8, <1>9 DEF Next, ServerStep

-----------------------------------------------------------------------------
(* The history as a ledger *)

\* What a message adds to the history accounts for, if who joins has not been
\* there, finds room, and only who is there leaves.
LEMMA LedgerMore ==
    ASSUME TypeOK, TypeOK', Ledger, NEW m \in Message, Extends(history', history, m),
           m.type = NEW_USER =>
              /\ ~Announced(history, Len(history), m.from)
              /\ ~HasLeft(history, Len(history), m.from)
              /\ Cardinality(Present(history, Len(history))) < UsersMax,
           m.type = USER_LEFT => m.from \in Present(history, Len(history))
    PROVE  /\ Ledger'
           /\ \A k \in 0..Len(history) : Present(history', k) = Present(history, k)
           /\ m.type = NEW_USER =>
                 Present(history', Len(history')) = Present(history, Len(history)) \cup {m.from}
           /\ m.type = USER_LEFT =>
                 Present(history', Len(history')) = Present(history, Len(history)) \ {m.from}
           /\ m.type = NEW_MESSAGE =>
                 Present(history', Len(history')) = Present(history, Len(history))
<1> DEFINE n == Len(history)
<1>1. /\ n \in Nat /\ Len(history') = n + 1 /\ history'[n + 1] = m
      /\ \A i \in 1..n : history'[i] = history[i]
      /\ history' \in Seq(Message) /\ UsersMax \in Nat
  BY LenProperties, ChatAssumption DEF Extends, TypeOK
<1>2. \A k \in 0..n : /\ Present(history', k) = Present(history, k)
                      /\ \A c : Announced(history', k, c) <=> Announced(history, k, c)
                      /\ \A c : HasLeft(history', k, c) <=> HasLeft(history, k, c)
  <2> SUFFICES ASSUME NEW k \in 0..n
               PROVE  /\ Present(history', k) = Present(history, k)
                      /\ \A c : Announced(history', k, c) <=> Announced(history, k, c)
                      /\ \A c : HasLeft(history', k, c) <=> HasLeft(history, k, c)
    OBVIOUS
  <2>1. \A i \in 1..k : history'[i] = history[i]
    BY <1>1
  <2> QED BY <2>1, PresentSame
<1>3. \A k \in 1..n : Entry(history', k)
  <2>1. \A k \in 1..n : k - 1 \in 0..n /\ history'[k] = history[k]
    BY <1>1
  <2>2. \A k \in 1..n : Entry(history, k)
    BY DEF Ledger
  <2> QED BY <1>2, <2>1, <2>2 DEF Entry
<1>4. Entry(history', n + 1)
  <2>1. n \in 0..n /\ (n + 1) - 1 = n
    BY <1>1
  <2> QED BY <1>1, <1>2, <2>1 DEF Entry
<1>5. \A k \in 1..Len(history') : Entry(history', k)
  BY <1>1, <1>3, <1>4
<1>6. n + 1 \in 1..Len(history') /\ (n + 1) - 1 = n /\ n \in 0..n
  BY <1>1
<1> DEFINE before == Present(history, n)
           after == Present(history', n + 1)
<1>7. /\ m.type = NEW_USER => m.from \notin before /\ after = before \cup {m.from}
      /\ m.type = USER_LEFT => after = before \ {m.from}
      /\ m.type = NEW_MESSAGE => after = before
  <2>1. Present(history', n) = before
    BY <1>2, <1>6
  <2>2. /\ m.type = NEW_USER =>
              /\ m.from \in Clients \ Present(history', n)
              /\ Present(history', n + 1) = Present(history', n) \cup {m.from}
        /\ m.type = USER_LEFT =>
              Present(history', n + 1) = Present(history', n) \ {m.from}
        /\ m.type = NEW_MESSAGE => Present(history', n + 1) = Present(history', n)
    <3> HIDE DEF n, before, after
    <3> QED BY <1>1, <1>4, <1>6, PresentStep
  <2> QED BY <2>1, <2>2
<1>8. IsFiniteSet(before) /\ Cardinality(before) \in Nat /\ Cardinality(before) <= UsersMax
  BY <1>6, FS_CardinalityType DEF Ledger
<1>9. IsFiniteSet(after) /\ Cardinality(after) <= UsersMax
  <2> HIDE DEF n, before, after
  <2>1. CASE m.type = NEW_USER
    <3>1. Cardinality(before) < UsersMax
      BY <2>1 DEF before, n
    <3>2. m.from \notin before /\ after = before \cup {m.from}
      BY <1>7, <2>1
    <3>3. /\ IsFiniteSet(before \cup {m.from})
          /\ Cardinality(before \cup {m.from}) = Cardinality(before) + 1
      BY <1>8, <3>2, FS_AddElement
    <3>4. UsersMax \in Nat /\ Cardinality(before) \in Nat
      BY <1>1, <1>8
    <3> QED BY <3>1, <3>2, <3>3, <3>4
  <2>2. CASE m.type = USER_LEFT
    <3>1. Cardinality(before \ {m.from}) <= Cardinality(before)
      BY <1>8, FS_Subset
    <3>2. IsFiniteSet(before \ {m.from}) /\ Cardinality(before \ {m.from}) \in Nat
      BY <1>8, FS_Subset, FS_CardinalityType
    <3>3. after = before \ {m.from}
      BY <1>7, <2>2
    <3>4. UsersMax \in Nat /\ Cardinality(before) \in Nat /\ Cardinality(before) <= UsersMax
      BY <1>1, <1>8
    <3> QED BY <3>1, <3>2, <3>3, <3>4
  <2>3. CASE m.type = NEW_MESSAGE
    BY <1>7, <1>8, <2>3
  <2> QED BY <2>1, <2>2, <2>3 DEF Message
<1>10. \A k \in 0..Len(history') :
          IsFiniteSet(Present(history', k)) /\ Cardinality(Present(history', k)) <= UsersMax
  <2>1. \A k \in 0..Len(history') : k \in 0..n \/ k = n + 1
    BY <1>1
  <2>2. \A k \in 0..n : /\ IsFiniteSet(Present(history, k))
                        /\ Cardinality(Present(history, k)) <= UsersMax
    BY DEF Ledger
  <2> QED BY <1>2, <1>9, <2>1, <2>2
<1> QED BY <1>1, <1>2, <1>5, <1>7, <1>10 DEF Ledger

LEMMA LedgerSays ==
    ASSUME TypeOK, TypeOK', LedgerInv, NEW m \in Message, add_to_history(m),
           m.type = NEW_MESSAGE, users' = users, spc # "replay", spc' # "replay"
    PROVE  LedgerInv'
<1> SUFFICES ASSUME Len(history') < HistorySize
             PROVE  Ledger' /\ ToSet(users') = Present(history', Len(history')) \cup Newcomer'
  BY DEF LedgerInv
<1>1. Extends(history', history, m) /\ Len(history) < HistorySize
  BY HistoryAdded
<1>2. Ledger /\ ToSet(users) = Present(history, Len(history))
  BY <1>1 DEF LedgerInv, Newcomer
<1>3. m.type # NEW_USER /\ m.type # USER_LEFT
  BY DEF NEW_USER, NEW_MESSAGE, USER_LEFT
<1>4. Ledger' /\ Present(history', Len(history')) = ToSet(users)
  BY <1>1, <1>2, <1>3, LedgerMore
<1> QED BY <1>4 DEF Newcomer

LEMMA LedgerLeaves ==
    ASSUME TypeOK, TypeOK', UsersDiffer, LedgerInv, NEW m \in Message, add_to_history(m),
           m.type = USER_LEFT, m.from \in ToSet(users), users' = RemoveUser(m.from),
           spc # "replay", spc' # "replay"
    PROVE  LedgerInv'
<1> SUFFICES ASSUME Len(history') < HistorySize
             PROVE  Ledger' /\ ToSet(users') = Present(history', Len(history')) \cup Newcomer'
  BY DEF LedgerInv
<1>1. Extends(history', history, m) /\ Len(history) < HistorySize
  BY HistoryAdded
<1>2. Ledger /\ ToSet(users) = Present(history, Len(history))
  BY <1>1 DEF LedgerInv, Newcomer
<1>3. m.type # NEW_USER
  BY DEF NEW_USER, USER_LEFT
<1>4. Ledger' /\ Present(history', Len(history')) = ToSet(users) \ {m.from}
  BY <1>1, <1>2, <1>3, LedgerMore
<1>5. ToSet(users') = ToSet(users) \ {m.from}
  BY UserRemoved
<1> QED BY <1>4, <1>5 DEF Newcomer

LEMMA LedgerNext ==
    ASSUME TypeOK, TypeOK', JoinInv, UsersDiffer, SendInv, LedgerInv, [Next]_vars
    PROVE  LedgerInv'
<1> SUFFICES ASSUME Len(history') < HistorySize
             PROVE  Ledger' /\ ToSet(users') = Present(history', Len(history')) \cup Newcomer'
  BY DEF LedgerInv
<1>0. /\ Len(history) \in Nat /\ Len(users) \in Nat /\ HistorySize \in Nat /\ UsersMax \in Nat
      /\ DOMAIN users = 1..Len(users) /\ DOMAIN users' = 1..Len(users')
  BY LenProperties, ChatAssumption DEF TypeOK
<1>1. CASE /\ UNCHANGED <<history, users>>
           /\ \/ spc # "replay" /\ spc' # "replay"
              \/ UNCHANGED <<spc, smsg>>
  <2>1. Ledger /\ ToSet(users) = Present(history, Len(history)) \cup Newcomer
    BY <1>1 DEF LedgerInv
  <2>2. Newcomer' = Newcomer
    BY <1>1 DEF Newcomer
  <2>3. Ledger'
    BY <1>1, <2>1 DEF Ledger
  <2> QED BY <1>1, <2>1, <2>2, <2>3
<1>3. CASE Receive
  <2> DEFINE m == Head(service)
  <2>1. m \in Message /\ (m.type = NEW_USER => m.from \in Clients /\ Blank(m.from))
    BY <1>3, HeadKnown
  <2>2. /\ spc = "recv"
        /\ \/ NewUser(m) \/ NewUserIgnored(m) \/ NewMessage(m) \/ UserLeft(m)
           \/ spc' = "join" /\ users' = users /\ history' = history
    BY <1>3 DEF Receive
  <2> HIDE DEF m
  <2>3. CASE NewUser(m)
    <3>1. /\ m.type = NEW_USER /\ UNCHANGED history
          /\ users' = Append(users, m.from) /\ smsg' = m /\ spc' = "replay"
      BY <2>3 DEF NewUser
    <3>2. Extends(users', users, m.from)
      BY <2>1, <3>1, UserAdded
    <3>3. \A i : i \in 1..Len(users') <=> i \in 1..Len(users) \/ i = Len(users) + 1
      BY <1>0, <3>2 DEF Extends
    <3>4. ToSet(users') = ToSet(users) \cup {m.from}
      BY <1>0, <3>2, <3>3 DEF Extends, ToSet
    <3>5. Ledger /\ ToSet(users) = Present(history, Len(history))
      BY <2>2, <3>1 DEF LedgerInv, Newcomer
    <3>6. Ledger'
      BY <3>1, <3>5 DEF Ledger
    <3> QED BY <3>1, <3>4, <3>5, <3>6 DEF Newcomer
  <2>4. CASE NewMessage(m)
    <3>1. add_to_history(m) /\ users' = users /\ m.type = NEW_MESSAGE
          /\ spc # "replay" /\ spc' # "replay"
      BY <2>2, <2>4 DEF NewMessage
    <3> QED BY <2>1, <3>1, LedgerSays DEF LedgerInv
  <2>5. CASE UserLeft(m) /\ m.from \in ToSet(users)
    <3>1. /\ add_to_history(m) /\ users' = RemoveUser(m.from) /\ m.type = USER_LEFT
          /\ m.from \in ToSet(users) /\ spc # "replay" /\ spc' # "replay"
      BY <2>2, <2>5 DEF UserLeft
    <3> QED BY <2>1, <3>1, LedgerLeaves DEF LedgerInv
  <2>6. CASE NewUserIgnored(m) \/ (UserLeft(m) /\ m.from \notin ToSet(users))
             \/ (spc' = "join" /\ users' = users /\ history' = history)
    <3>1. UNCHANGED <<history, users>> /\ spc # "replay" /\ spc' # "replay"
      BY <2>2, <2>6 DEF NewUserIgnored, UserLeft, Loop
    <3> QED BY <1>1, <3>1
  <2> QED BY <2>2, <2>3, <2>4, <2>5, <2>6
<1>4. CASE ReplayDone
  <2>1. /\ spc = "replay" /\ spc' = "bcast" /\ UNCHANGED users
        /\ add_to_history(smsg) /\ smsg \in Message
    BY <1>4 DEF ReplayDone, TypeOK
  <2>2. Extends(history', history, smsg) /\ Len(history) < HistorySize
    BY <2>1, HistoryAdded
  <2>3. /\ smsg.type = NEW_USER
        /\ ~Announced(history, Len(history), smsg.from)
        /\ ~HasLeft(history, Len(history), smsg.from)
    BY <2>1 DEF SendInv
  <2>4. Ledger /\ ToSet(users) = Present(history, Len(history)) \cup {smsg.from}
    BY <2>1, <2>2 DEF LedgerInv, Newcomer
  <2>5. Cardinality(Present(history, Len(history))) < UsersMax
    <3>1. smsg.from \notin Present(history, Len(history))
      BY <2>3 DEF Present
    <3>2. /\ IsFiniteSet(Present(history, Len(history)))
          /\ Cardinality(Present(history, Len(history))) \in Nat
      BY <1>0, <2>4, FS_CardinalityType DEF Ledger
    <3>3. Cardinality(ToSet(users)) = Cardinality(Present(history, Len(history))) + 1
      BY <2>4, <3>1, <3>2, FS_AddElement
    <3>4. Cardinality(ToSet(users)) = Len(users)
      BY CalledUsers
    <3> QED BY <1>0, <3>2, <3>3, <3>4 DEF TypeOK
  <2>6. smsg.type # USER_LEFT
    BY <2>3 DEF NEW_USER, USER_LEFT
  <2>7. Ledger' /\ Present(history', Len(history')) = ToSet(users)
    BY <2>1, <2>2, <2>3, <2>4, <2>5, <2>6, LedgerMore
  <2> QED BY <2>1, <2>7 DEF Newcomer
<1>5. Replay => UNCHANGED <<history, users, spc, smsg>>
  BY DEF Replay
<1>6. Broadcast \/ BroadcastDone \/ Join \/ cleanup_resources \/ Stopped =>
         UNCHANGED <<history, users>> /\ spc # "replay" /\ spc' # "replay"
  BY DEF Broadcast, BroadcastDone, Join, cleanup_resources, Stopped, Loop
<1>7. ASSUME NEW c \in Clients, ClientStep(c) PROVE UNCHANGED <<history, users, spc, smsg>>
  BY <1>7 DEF ClientStep, ClientJoin, ClientOpen, ClientSay, ClientLeave, ClientReceive, serverVars
<1>8. InputStep \/ UNCHANGED vars => UNCHANGED <<history, users, spc, smsg>>
  BY DEF InputStep, InputExit, InputUnblock, vars, serverVars
<1> QED BY <1>1, <1>3, <1>4, <1>5, <1>6, <1>7, <1>8 DEF Next, ServerStep

-----------------------------------------------------------------------------
(* What a user has read *)

LEMMA ViewLonger ==
    ASSUME NEW g, Len(g) \in Nat, NEW h, NEW m, Extends(h, g, m),
           NEW r, NEW q, Len(q) \in Nat, NEW screen, NEW list,
           View(g, r, q, screen, list)
    PROVE  View(h, r, q, screen, list)
<1>1. /\ Len(h) = Len(g) + 1 /\ \A i \in 1..Len(g) : h[i] = g[i]
      /\ r \in Nat /\ r + Len(q) <= Len(g) /\ r \in 0..Len(g)
  BY DEF Extends, View
<1>2. r + Len(q) <= Len(h)
  BY <1>1
<1>3. \A i \in 1..Len(q) : q[i] = h[r + i]
  <2>1. \A i \in 1..Len(q) : r + i \in 1..Len(g)
    BY <1>1
  <2> QED BY <1>1, <2>1 DEF View
<1>4. Len(h) < ChatMax => Len(screen) = r /\ \A i \in 1..r : screen[i] = h[i]
  <2>1. \A i \in 1..r : i \in 1..Len(g)
    BY <1>1
  <2>2. Len(h) < ChatMax => Len(g) < ChatMax
    BY <1>1, ChatAssumption
  <2> QED BY <1>1, <2>1, <2>2 DEF View
<1>5. Present(h, r) = Present(g, r)
  <2>1. \A i \in 1..r : h[i] = g[i]
    BY <1>1
  <2> QED BY <2>1, PresentSame
<1> QED BY <1>1, <1>2, <1>3, <1>4, <1>5 DEF View

LEMMA ViewSent ==
    ASSUME NEW h, Len(h) \in Nat, NEW r, NEW q \in Seq(Message), NEW screen, NEW list,
           View(h, r, q, screen, list), r + Len(q) < Len(h),
           NEW m \in Message, h[r + Len(q) + 1] = m
    PROVE  View(h, r, Append(q, m), screen, list)
<1>1. /\ Len(q) \in Nat /\ r \in Nat /\ Len(Append(q, m)) = Len(q) + 1
      /\ \A i \in 1..Len(q) : Append(q, m)[i] = q[i]
      /\ Append(q, m)[Len(q) + 1] = m
  BY LenProperties, AppendProperties DEF View
<1>2. r + (Len(q) + 1) <= Len(h) /\ r + (Len(q) + 1) = r + Len(q) + 1
  BY <1>1
<1>3. \A i \in 1..Len(q) + 1 : i \in 1..Len(q) \/ i = Len(q) + 1
  BY <1>1
<1>4. \A i \in 1..Len(Append(q, m)) : Append(q, m)[i] = h[r + i]
  BY <1>1, <1>2, <1>3 DEF View
<1> QED BY <1>1, <1>2, <1>4 DEF View

\* Who has just come has read nothing.
LEMMA ViewNew ==
    ASSUME NEW h, Len(h) \in Nat
    PROVE  View(h, 0, <<>>, <<>>, <<>>)
<1>1. Present(h, 0) = {}
  BY DEF Present, Announced
<1>2. \A n : Called(n, {}) = {}
  BY DEF Called
<1>3. \A n : Count(<<>>, n) = 0
  <2>1. Len(<<>>) = 0
    BY EmptySeq
  <2>2. \A n : {i \in 1..Len(<<>>) : <<>>[i] = n} = {}
    BY <2>1
  <2> QED BY <2>2, FS_EmptySet DEF Count
<1>4. Len(<<>>) = 0 /\ Cardinality({}) = 0 /\ 0 \in Nat
  BY EmptySeq, FS_EmptySet
<1>5. \A i : i \notin 1..0
  OBVIOUS
<1>6. 0 + Len(<<>>) <= Len(h)
  BY <1>4
<1>7. Cardinality(Present(h, 0)) = Len(<<>>)
  BY <1>1, <1>4
<1>8. \A n : Cardinality(Called(n, Present(h, 0))) = 0
  BY <1>1, <1>2, <1>4
<1>9. /\ \A i \in 1..Len(<<>>) : <<>>[i] = h[0 + i]
      /\ Len(h) < ChatMax => Len(<<>>) = 0 /\ \A i \in 1..0 : <<>>[i] = h[i]
  BY <1>4, <1>5
<1> QED BY <1>3, <1>4, <1>6, <1>7, <1>8, <1>9 DEF View

\* A name is in a list that counts it.
LEMMA Counted ==
    ASSUME NEW S, NEW list \in Seq(S), NEW n, Count(list, n) # 0
    PROVE  n \in ToSet(list)
<1>1. DOMAIN list = 1..Len(list)
  BY LenProperties
<1>2. {i \in 1..Len(list) : list[i] = n} # {}
  BY FS_EmptySet DEF Count
<1> QED BY <1>1, <1>2 DEF ToSet

\* What remove_user does to a list with that name.
LEMMA NameRemoved ==
    ASSUME NEW S, NEW list \in Seq(S), NEW e \in ToSet(list)
    PROVE  /\ Len(remove_user(list, e)) = Len(list) - 1
           /\ \A n : Count(remove_user(list, e), n)
                     = Count(list, n) - (IF e = n THEN 1 ELSE 0)
<1>1. PICK k \in 1..Len(list) : list[k] = e /\ RemoveFirst(list, e) = RemoveAt(list, k)
  BY FirstRemoved
<1>2. remove_user(list, e) = RemoveAt(list, k)
  BY <1>1 DEF remove_user
<1> QED BY <1>1, <1>2, Removed, CountRemoved

NewList(m, list) ==
    CASE m.type = NEW_USER -> add_user(list, Name[m.from])
      [] m.type = USER_LEFT -> remove_user(list, Name[m.from])
      [] OTHER -> list

\* A client's list follows the ledger.
LEMMA ListFollows ==
    ASSUME NEW h \in Seq(Message), NEW k \in 1..Len(h), Entry(h, k),
           IsFiniteSet(Present(h, k - 1)), IsFiniteSet(Present(h, k)),
           Cardinality(Present(h, k)) <= UsersMax,
           NEW list \in Seq(Names), Len(list) = Cardinality(Present(h, k - 1)),
           \A n \in Names : Count(list, n) = Cardinality(Called(n, Present(h, k - 1)))
    PROVE  /\ Len(NewList(h[k], list)) = Cardinality(Present(h, k))
           /\ \A n \in Names : Count(NewList(h[k], list), n)
                               = Cardinality(Called(n, Present(h, k)))
<1> DEFINE m == h[k]
           before == Present(h, k - 1)
           after == Present(h, k)
<1>1. /\ m.type = NEW_USER => m.from \in Clients \ before /\ after = before \cup {m.from}
      /\ m.type = USER_LEFT => m.from \in before /\ after = before \ {m.from}
      /\ m.type = NEW_MESSAGE => after = before
      /\ m \in Message
  BY PresentStep, ElementOfSeq
<1>2. Cardinality(before) \in Nat /\ Cardinality(after) \in Nat /\ Len(list) \in Nat /\ UsersMax \in Nat
  BY FS_CardinalityType, LenProperties, ChatAssumption
<1>3. before \subseteq Clients /\ Len(list) = Cardinality(before)
  BY DEF Present
<1>4. /\ \A n \in Names : Count(list, n) = Cardinality(Called(n, before))
      /\ IsFiniteSet(before) /\ Cardinality(after) <= UsersMax
  OBVIOUS
<1> HIDE DEF m, before, after
<1>5. CASE m.type = NEW_USER
  <2>1. m.from \in Clients /\ m.from \notin before /\ after = before \cup {m.from}
    BY <1>1, <1>5
  <2>2. Cardinality(after) = Cardinality(before) + 1
    BY <1>4, <2>1, FS_AddElement
  <2>3. Name[m.from] \in Names
    BY <2>1 DEF Names
  <2>4. NewList(m, list) = Append(list, Name[m.from])
    <3>1. Len(list) < UsersMax
      BY <1>2, <1>3, <1>4, <2>2
    <3>2. NewList(m, list) = add_user(list, Name[m.from])
      BY <1>5 DEF NewList, NEW_USER, USER_LEFT
    <3> QED BY <3>1, <3>2 DEF add_user
  <2>5. Len(NewList(m, list)) = Cardinality(after)
    BY <1>3, <2>2, <2>3, <2>4, AppendProperties
  <2>6. ASSUME NEW n \in Names
        PROVE  Count(NewList(m, list), n) = Cardinality(Called(n, after))
    <3>1. Count(NewList(m, list), n) = Count(list, n) + (IF Name[m.from] = n THEN 1 ELSE 0)
      BY <2>3, <2>4, CountAppend
    <3>2. Cardinality(Called(n, after))
          = Cardinality(Called(n, before)) + (IF Name[m.from] = n THEN 1 ELSE 0)
      BY <1>4, <2>1, CalledAdd
    <3> QED BY <1>4, <3>1, <3>2
  <2> QED BY <2>5, <2>6 DEF m, after
<1>6. CASE m.type = USER_LEFT
  <2>1. m.from \in Clients /\ m.from \in before /\ after = before \ {m.from}
    BY <1>1, <1>3, <1>6
  <2>2. Cardinality(after) = Cardinality(before) - 1
    BY <1>4, <2>1, FS_RemoveElement
  <2>3. Name[m.from] \in Names
    BY <2>1 DEF Names
  <2>4. Name[m.from] \in ToSet(list)
    <3>1. m.from \in Called(Name[m.from], before)
      BY <2>1 DEF Called
    <3>2. IsFiniteSet(Called(Name[m.from], before))
      BY <1>4, CalledFinite
    <3>3. Count(list, Name[m.from]) # 0
      BY <1>4, <2>3, <3>1, <3>2, FS_EmptySet
    <3> QED BY <3>3, Counted
  <2>5. NewList(m, list) = remove_user(list, Name[m.from])
    BY <1>6 DEF NewList, NEW_USER, USER_LEFT
  <2>6. Len(NewList(m, list)) = Cardinality(after)
    BY <1>3, <2>2, <2>4, <2>5, NameRemoved
  <2>7. ASSUME NEW n \in Names
        PROVE  Count(NewList(m, list), n) = Cardinality(Called(n, after))
    <3>1. Count(NewList(m, list), n) = Count(list, n) - (IF Name[m.from] = n THEN 1 ELSE 0)
      BY <2>4, <2>5, NameRemoved
    <3>2. Cardinality(Called(n, after))
          = Cardinality(Called(n, before)) - (IF Name[m.from] = n THEN 1 ELSE 0)
      BY <1>4, <2>1, CalledRemove
    <3> QED BY <1>4, <3>1, <3>2
  <2> QED BY <2>6, <2>7 DEF m, after
<1>7. CASE m.type = NEW_MESSAGE
  <2>1. NewList(m, list) = list
    BY <1>7 DEF NewList, NEW_USER, USER_LEFT, NEW_MESSAGE
  <2>2. after = before
    BY <1>1, <1>7
  <2> QED BY <1>3, <1>4, <2>1, <2>2 DEF m, after
<1> QED BY <1>1, <1>5, <1>6, <1>7 DEF Message

\* Reading the next message.
LEMMA ViewRead ==
    ASSUME NEW h \in Seq(Message),
           \A k \in 1..Len(h) : Entry(h, k),
           \A k \in 0..Len(h) : /\ IsFiniteSet(Present(h, k))
                                /\ Cardinality(Present(h, k)) <= UsersMax,
           NEW r, NEW q \in Seq(Message), q # <<>>,
           NEW screen \in Seq(Message), NEW list \in Seq(Names),
           View(h, r, q, screen, list)
    PROVE  View(h, r + 1, Tail(q),
                IF Len(screen) < ChatMax - 1 THEN Append(screen, Head(q)) ELSE screen,
                NewList(Head(q), list))
<1>1. /\ Len(h) \in Nat /\ r \in Nat /\ Len(q) \in Nat \ {0} /\ r + Len(q) <= Len(h)
      /\ Tail(q) \in Seq(Message) /\ Len(Tail(q)) = Len(q) - 1
      /\ \A i \in 1..Len(Tail(q)) : Tail(q)[i] = q[i + 1]
      /\ Head(q) = q[1] /\ Head(q) \in Message
  BY LenProperties, EmptySeq, HeadTailProperties DEF View
<1>2. r + 1 \in Nat /\ r + 1 \in 1..Len(h) /\ (r + 1) - 1 = r /\ r \in 0..Len(h) /\ r + 1 \in 0..Len(h)
  BY <1>1
<1>3. Head(q) = h[r + 1]
  <2>1. 1 \in 1..Len(q)
    BY <1>1
  <2> QED BY <1>1, <2>1 DEF View
<1>4. (r + 1) + Len(Tail(q)) <= Len(h)
  BY <1>1
<1>5. \A i \in 1..Len(Tail(q)) : Tail(q)[i] = h[(r + 1) + i]
  <2>1. \A i \in 1..Len(Tail(q)) : i + 1 \in 1..Len(q) /\ r + (i + 1) = (r + 1) + i
    BY <1>1
  <2>2. \A j \in 1..Len(q) : q[j] = h[r + j]
    BY DEF View
  <2>3. \A i \in 1..Len(Tail(q)) : Tail(q)[i] = q[i + 1] /\ q[i + 1] = h[r + (i + 1)]
    BY <1>1, <2>1, <2>2
  <2> QED BY <2>1, <2>3
<1> DEFINE shown == IF Len(screen) < ChatMax - 1 THEN Append(screen, Head(q)) ELSE screen
<1>6. Len(h) < ChatMax => Len(shown) = r + 1 /\ \A i \in 1..r + 1 : shown[i] = h[i]
  <2> SUFFICES ASSUME Len(h) < ChatMax
               PROVE  Len(shown) = r + 1 /\ \A i \in 1..r + 1 : shown[i] = h[i]
    OBVIOUS
  <2>1. Len(screen) = r /\ \A i \in 1..r : screen[i] = h[i]
    BY DEF View
  <2>2. Len(screen) < ChatMax - 1
    BY <1>1, <1>2, <2>1, ChatAssumption
  <2>3. /\ shown = Append(screen, Head(q))
        /\ Len(shown) = r + 1
        /\ \A i \in 1..r : shown[i] = screen[i]
        /\ shown[r + 1] = Head(q)
    BY <1>1, <2>1, <2>2, AppendProperties
  <2>4. \A i \in 1..r + 1 : i \in 1..r \/ i = r + 1
    BY <1>1
  <2> HIDE DEF shown
  <2> QED BY <1>3, <2>1, <2>3, <2>4
<1>7. /\ Len(NewList(Head(q), list)) = Cardinality(Present(h, r + 1))
      /\ \A n \in Names : Count(NewList(Head(q), list), n)
                          = Cardinality(Called(n, Present(h, r + 1)))
  <2>1. Len(list) = Cardinality(Present(h, r))
    BY DEF View
  <2>2. \A n \in Names : Count(list, n) = Cardinality(Called(n, Present(h, r)))
    BY DEF View
  <2>3. PICK k \in 1..Len(h) : k = r + 1
    BY <1>2
  <2>4. k - 1 = r
    BY <1>2, <2>3
  <2>5. /\ IsFiniteSet(Present(h, k - 1)) /\ IsFiniteSet(Present(h, k))
        /\ Cardinality(Present(h, k)) <= UsersMax
    BY <1>2, <2>3, <2>4
  <2>6. /\ Len(list) = Cardinality(Present(h, k - 1))
        /\ \A n \in Names : Count(list, n) = Cardinality(Called(n, Present(h, k - 1)))
    BY <2>1, <2>2, <2>4
  <2>7. /\ Len(NewList(h[k], list)) = Cardinality(Present(h, k))
        /\ \A n \in Names : Count(NewList(h[k], list), n) = Cardinality(Called(n, Present(h, k)))
    BY <2>5, <2>6, ListFollows
  <2> QED BY <1>3, <2>3, <2>7
<1> HIDE DEF shown
<1> QED BY <1>2, <1>4, <1>5, <1>6, <1>7 DEF View, shown

-----------------------------------------------------------------------------
(* What every user has read *)

LEMMA OwedType ==
    ASSUME TypeOK, SendInv, NEW c
    PROVE  Owed(c) \in Nat
  BY LenProperties DEF TypeOK, SendInv, Owed

\* A step that is no business of c's.
LEMMA ViewKept ==
    ASSUME NEW c, ViewInv(c), history' = history, Owed(c)' = Owed(c), mq'[c] = mq[c],
           chat_history'[c] = chat_history[c], cusers'[c] = cusers[c]
    PROVE  ViewInv(c)'
  BY DEF ViewInv, Read

\* The next message that main owes to c is put into its queue.
LEMMA ViewServed ==
    ASSUME TypeOK, SendInv, NEW c \in Clients, ViewInv(c), history' = history, NEW m \in Message,
           mq'[c] = Append(mq[c], m), Owed(c) > 0, Owed(c)' = Owed(c) - 1,
           history[Len(history) - Owed(c) + 1] = m,
           chat_history'[c] = chat_history[c], cusers'[c] = cusers[c]
    PROVE  ViewInv(c)'
<1>1. /\ mq[c] \in Seq(Message) /\ Len(mq[c]) \in Nat /\ Len(history) \in Nat
      /\ Owed(c) \in Nat
  BY LenProperties, OwedType DEF TypeOK
<1>2. Len(mq'[c]) = Len(mq[c]) + 1
  BY <1>1, AppendProperties
<1>3. Read(c)' = Read(c)
  BY <1>1, <1>2 DEF Read
<1>4. /\ Read(c) + Len(mq[c]) < Len(history)
      /\ Read(c) + Len(mq[c]) + 1 = Len(history) - Owed(c) + 1
  BY <1>1 DEF Read
<1>5. View(history, Read(c), Append(mq[c], m), chat_history[c], cusers[c])
  BY <1>1, <1>4, ViewSent DEF ViewInv
<1> QED BY <1>3, <1>5 DEF ViewInv

\* Main has a new message for everyone.
LEMMA ViewGrown ==
    ASSUME TypeOK, NEW c \in Clients, ViewInv(c), NEW m, Extends(history', history, m),
           Owed(c) = 0, Owed(c)' = 1, mq'[c] = mq[c],
           chat_history'[c] = chat_history[c], cusers'[c] = cusers[c]
    PROVE  ViewInv(c)'
<1>1. Len(mq[c]) \in Nat /\ Len(history) \in Nat /\ Len(history') = Len(history) + 1
  BY LenProperties DEF TypeOK, Extends
<1>2. Read(c)' = Read(c)
  BY <1>1 DEF Read
<1>3. View(history', Read(c), mq[c], chat_history[c], cusers[c])
  BY <1>1, ViewLonger DEF ViewInv
<1> QED BY <1>2, <1>3 DEF ViewInv

LEMMA ViewReplay ==
    ASSUME TypeOK, SendInv, ViewsInv, Replay, InTouch', NEW c \in Clients, c \in ToSet(users')
    PROVE  ViewInv(c)'
<1>1. /\ spc = "replay" /\ idx <= Len(history) /\ SendUser(smsg.from, history[idx])
      /\ idx' = idx + 1 /\ idx \in Nat \ {0} /\ Len(history) \in Nat
      /\ spc' = spc /\ smsg' = smsg /\ users' = users /\ history' = history
      /\ UNCHANGED <<chat_history, cusers>>
  BY LenProperties DEF Replay, clientVars, TypeOK
<1>2. ViewInv(c)
  BY <1>1 DEF ViewsInv, InTouch
<1>3. CASE c = smsg.from
  <2>1. history[idx] \in Message /\ mq'[c] = Append(mq[c], history[idx])
    BY <1>1, <1>3, ElementOfSeq DEF TypeOK, SendUser
  <2>2. Owed(c) = Len(history) + 1 - idx /\ Owed(c)' = Len(history) + 1 - (idx + 1)
    BY <1>1, <1>3 DEF Owed
  <2>3. Owed(c) > 0 /\ Owed(c)' = Owed(c) - 1 /\ Len(history) - Owed(c) + 1 = idx
    BY <1>1, <2>2
  <2> QED BY <1>1, <1>2, <2>1, <2>3, ViewServed
<1>4. CASE c # smsg.from
  <2>1. smsg.from \in Clients
    BY <1>1, MessageFrom DEF SendInv, TypeOK
  <2>2. mq'[c] = mq[c]
    BY <1>1, <1>4, <2>1, SentToUser
  <2>3. Owed(c) = 0 /\ Owed(c)' = 0
    BY <1>1, <1>4 DEF Owed
  <2> QED BY <1>1, <1>2, <2>2, <2>3, ViewKept
<1> QED BY <1>3, <1>4

LEMMA ViewReplayDone ==
    ASSUME TypeOK, SendInv, ViewsInv, ReplayDone, InTouch', NEW c \in Clients, c \in ToSet(users')
    PROVE  ViewInv(c)'
<1>1. /\ spc = "replay" /\ idx > Len(history) /\ idx <= Len(history) + 1
      /\ add_to_history(smsg) /\ smsg \in Message
      /\ idx' = 1 /\ spc' = "bcast" /\ idx \in Nat /\ Len(history) \in Nat
      /\ users' = users /\ UNCHANGED <<mq, chat_history, cusers>>
  BY LenProperties DEF ReplayDone, SendInv, TypeOK, clientVars, queueVars
<1>2. Extends(history', history, smsg) /\ Len(history) < HistorySize
  BY <1>1, HistoryAdded DEF InTouch
<1>3. ViewInv(c)
  BY <1>1, <1>2 DEF ViewsInv, InTouch
<1>4. Owed(c) = 0
  BY <1>1 DEF Owed
<1>5. Owed(c)' = 1
  <2>1. \E i \in 1..Len(users') : i >= 1 /\ users'[i] = c
    BY <1>1, LenProperties DEF ToSet, TypeOK
  <2> QED BY <1>1, <2>1 DEF Owed
<1> QED BY <1>1, <1>2, <1>3, <1>4, <1>5, ViewGrown

LEMMA ViewBroadcast ==
    ASSUME TypeOK, SendInv, UsersDiffer, ViewsInv, Broadcast, InTouch',
           NEW c \in Clients, c \in ToSet(users')
    PROVE  ViewInv(c)'
<1>1. /\ spc = "bcast" /\ idx \in 1..Len(users) /\ SendUser(users[idx], smsg)
      /\ idx' = idx + 1 /\ idx \in Nat \ {0} /\ Len(history) \in Nat /\ Len(users) \in Nat
      /\ spc' = spc /\ smsg' = smsg /\ users' = users /\ history' = history
      /\ UNCHANGED <<chat_history, cusers>> /\ smsg \in Message
  BY LenProperties DEF Broadcast, clientVars, TypeOK
<1>2. ViewInv(c)
  BY <1>1 DEF ViewsInv, InTouch
<1>3. CASE c = users[idx]
  <2>1. mq'[c] = Append(mq[c], smsg)
    BY <1>1, <1>3 DEF TypeOK, SendUser
  <2>2. Owed(c) = 1
    <3>1. \E i \in 1..Len(users) : i >= idx /\ users[i] = c
      BY <1>1, <1>3
    <3> QED BY <1>1, <3>1 DEF Owed
  <2>3. Owed(c)' = 0
    <3>1. ~\E i \in 1..Len(users) : i >= idx + 1 /\ users[i] = c
      BY <1>1, <1>3 DEF UsersDiffer
    <3> QED BY <1>1, <3>1 DEF Owed
  <2>4. history[Len(history)] = smsg
    BY <1>1 DEF SendInv, InTouch
  <2>5. Owed(c) > 0 /\ Owed(c)' = Owed(c) - 1 /\ Len(history) - Owed(c) + 1 = Len(history)
    BY <1>1, <2>2, <2>3
  <2> QED BY <1>1, <1>2, <2>1, <2>4, <2>5, ViewServed
<1>4. CASE c # users[idx]
  <2>1. users[idx] \in Clients
    BY <1>1, ElementOfSeq DEF TypeOK
  <2>2. mq'[c] = mq[c]
    BY <1>1, <1>4, <2>1, SentToUser
  <2>3. \A i \in 1..Len(users) : users[i] = c => (i >= idx <=> i >= idx + 1)
    BY <1>1, <1>4
  <2>4. Owed(c)' = Owed(c)
    BY <1>1, <2>3 DEF Owed
  <2> QED BY <1>1, <1>2, <2>2, <2>4, ViewKept
<1> QED BY <1>3, <1>4

LEMMA ViewBroadcastDone ==
    ASSUME TypeOK, ViewsInv, BroadcastDone, InTouch', NEW c \in Clients, c \in ToSet(users')
    PROVE  ViewInv(c)'
<1>1. /\ spc = "bcast" /\ idx > Len(users) /\ idx \in Nat /\ Len(users) \in Nat
      /\ spc' \in {"recv", "join"} /\ users' = users /\ history' = history
      /\ UNCHANGED <<mq, chat_history, cusers>>
  BY LenProperties DEF BroadcastDone, Loop, clientVars, queueVars, TypeOK
<1>2. ViewInv(c)
  BY <1>1 DEF ViewsInv, InTouch
<1>3. Owed(c) = 0 /\ Owed(c)' = 0
  <2>1. ~\E i \in 1..Len(users) : i >= idx /\ users[i] = c
    BY <1>1
  <2> QED BY <1>1, <2>1 DEF Owed
<1> QED BY <1>1, <1>2, <1>3, ViewKept

LEMMA ViewReceive ==
    ASSUME TypeOK, JoinInv, UsersDiffer, ViewsInv, Receive, InTouch',
           NEW c \in Clients, c \in ToSet(users')
    PROVE  ViewInv(c)'
<1> DEFINE m == Head(service)
<1>1. m \in Message /\ (m.type = NEW_USER => m.from \in Clients /\ Blank(m.from))
  BY HeadKnown
<1>2. /\ spc = "recv" /\ UNCHANGED <<mq, chat_history, cusers>>
      /\ \/ NewUser(m) \/ NewUserIgnored(m) \/ NewMessage(m) \/ UserLeft(m)
         \/ spc' = "join" /\ users' = users /\ history' = history
  BY DEF Receive, clientVars
<1>3. Owed(c) = 0 /\ Len(history) \in Nat
  BY <1>2, LenProperties DEF Owed, TypeOK
<1> HIDE DEF m
<1>4. ASSUME NEW e \in Message, add_to_history(e), idx' = 1, spc' = "bcast", c \in ToSet(users),
             users' \in Seq(Clients)
      PROVE  ViewInv(c)'
  <2>1. Extends(history', history, e) /\ Len(history) < HistorySize
    BY <1>4, HistoryAdded DEF InTouch
  <2>2. ViewInv(c)
    BY <1>2, <1>4, <2>1 DEF ViewsInv, InTouch
  <2>3. \E i \in 1..Len(users') : i >= 1 /\ users'[i] = c
    BY <1>4, LenProperties DEF ToSet
  <2>4. Owed(c)' = 1
    BY <1>4, <2>3 DEF Owed
  <2> QED BY <1>2, <1>3, <2>1, <2>2, <2>4, ViewGrown
<1>5. CASE NewUser(m)
  <2>1. /\ m.type = NEW_USER /\ history' = history /\ smsg' = m /\ idx' = 1 /\ spc' = "replay"
        /\ users' = Append(users, m.from)
    BY <1>5 DEF NewUser
  <2>2. CASE c = m.from
    <3>1. /\ mq[c] = <<>> /\ chat_history[c] = <<>> /\ cusers[c] = <<>>
      BY <1>1, <2>1, <2>2 DEF Blank
    <3>2. Owed(c)' = Len(history) /\ Len(mq'[c]) = 0
      BY <1>2, <1>3, <2>1, <2>2, <3>1 DEF Owed
    <3>3. Read(c)' = 0
      BY <1>3, <2>1, <3>2 DEF Read
    <3> QED BY <1>2, <1>3, <2>1, <3>1, <3>3, ViewNew DEF ViewInv
  <2>3. CASE c # m.from
    <3>1. c \in ToSet(users)
      <4>1. Extends(users', users, m.from) /\ Len(users) \in Nat
        BY <1>1, <2>1, UserAdded
      <4>2. /\ users \in Seq(Clients) /\ users' \in Seq(Clients)
        BY <1>1, <2>1, AppendProperties DEF TypeOK
      <4>3. PICK i \in 1..Len(users') : users'[i] = c
        BY <4>2, LenProperties DEF ToSet
      <4>4. i \in 1..Len(users) /\ users[i] = c
        BY <2>3, <4>1, <4>3 DEF Extends
      <4> QED BY <4>2, <4>4, LenProperties DEF ToSet
    <3>2. ViewInv(c)
      BY <1>2, <2>1, <3>1 DEF ViewsInv, InTouch
    <3>3. Owed(c)' = 0
      BY <2>1, <2>3 DEF Owed
    <3> QED BY <1>2, <1>3, <2>1, <3>2, <3>3, ViewKept
  <2> QED BY <2>2, <2>3
<1>6. CASE NewMessage(m)
  <2>1. add_to_history(m) /\ idx' = 1 /\ spc' = "bcast" /\ users' = users
    BY <1>6 DEF NewMessage
  <2> QED BY <1>1, <1>4, <2>1 DEF TypeOK
<1>7. CASE UserLeft(m) /\ m.from \in ToSet(users)
  <2>1. add_to_history(m) /\ idx' = 1 /\ spc' = "bcast" /\ users' = RemoveUser(m.from)
    BY <1>7 DEF UserLeft
  <2>2. users' \in Seq(Clients) /\ ToSet(users') = ToSet(users) \ {m.from}
    BY <1>7, <2>1, UserRemoved
  <2> QED BY <1>1, <1>4, <2>1, <2>2
<1>8. CASE NewUserIgnored(m) \/ (UserLeft(m) /\ m.from \notin ToSet(users))
           \/ (spc' = "join" /\ users' = users /\ history' = history)
  <2>1. users' = users /\ history' = history /\ spc' \in {"recv", "join"}
    BY <1>8 DEF NewUserIgnored, UserLeft, Loop
  <2>2. ViewInv(c)
    BY <1>2, <2>1 DEF ViewsInv, InTouch
  <2>3. Owed(c)' = 0
    BY <2>1 DEF Owed
  <2> QED BY <1>2, <1>3, <2>1, <2>2, <2>3, ViewKept
<1> QED BY <1>2, <1>5, <1>6, <1>7, <1>8

LEMMA ViewClient ==
    ASSUME TypeOK, SendInv, LedgerInv, ViewsInv, NEW d \in Clients, ClientReceive(d), InTouch',
           NEW c \in Clients, c \in ToSet(users')
    PROVE  ViewInv(c)'
<1>1. /\ history' = history /\ users' = users /\ spc' = spc /\ smsg' = smsg /\ idx' = idx
  BY DEF ClientReceive, serverVars
<1>2. ViewInv(c) /\ Len(history) < HistorySize
  BY <1>1 DEF ViewsInv, InTouch
<1>3. Owed(c)' = Owed(c)
  BY <1>1 DEF Owed
<1>4. CASE c # d
  <2>1. mq'[c] = mq[c] /\ chat_history'[c] = chat_history[c] /\ cusers'[c] = cusers[c]
    BY <1>4 DEF ClientReceive, TypeOK
  <2> QED BY <1>1, <1>2, <1>3, <2>1, ViewKept
<1>5. CASE c = d
  <2>1. /\ mq[c] # <<>> /\ mq'[c] = Tail(mq[c])
        /\ chat_history'[c] = IF Len(chat_history[c]) < ChatMax - 1
                              THEN Append(chat_history[c], Head(mq[c])) ELSE chat_history[c]
        /\ cusers'[c] = NewList(Head(mq[c]), cusers[c])
    BY <1>5 DEF ClientReceive, TypeOK, NewList
  <2>2. /\ history \in Seq(Message) /\ mq[c] \in Seq(Message)
        /\ chat_history[c] \in Seq(Message) /\ cusers[c] \in Seq(Names)
    BY DEF TypeOK
  <2>3. /\ \A k \in 1..Len(history) : Entry(history, k)
        /\ \A k \in 0..Len(history) : /\ IsFiniteSet(Present(history, k))
                                      /\ Cardinality(Present(history, k)) <= UsersMax
    BY <1>2 DEF LedgerInv, Ledger
  <2>4. View(history, Read(c) + 1, Tail(mq[c]),
             IF Len(chat_history[c]) < ChatMax - 1
             THEN Append(chat_history[c], Head(mq[c])) ELSE chat_history[c],
             NewList(Head(mq[c]), cusers[c]))
    BY <1>2, <2>1, <2>2, <2>3, ViewRead DEF ViewInv
  <2>5. Read(c)' = Read(c) + 1
    <3>1. Len(history) \in Nat /\ Owed(c) \in Nat /\ Len(mq[c]) \in Nat
      BY <2>2, LenProperties, OwedType
    <3>2. Len(mq'[c]) = Len(mq[c]) - 1
      BY <2>1, <2>2, EmptySeq, HeadTailProperties
    <3> QED BY <1>1, <1>3, <3>1, <3>2 DEF Read
  <2> QED BY <1>1, <2>1, <2>4, <2>5 DEF ViewInv
<1> QED BY <1>4, <1>5

LEMMA ViewsNext ==
    ASSUME TypeOK, JoinInv, UsersDiffer, SendInv, LedgerInv, ViewsInv, [Next]_vars
    PROVE  ViewsInv'
<1> SUFFICES ASSUME InTouch', NEW c \in Clients, c \in ToSet(users') PROVE ViewInv(c)'
  BY DEF ViewsInv
<1> USE DEF clientVars, queueVars, serverVars
<1>1. CASE UNCHANGED <<spc, smsg, idx, users, history, mq, chat_history, cusers>>
  <2>1. ViewInv(c)
    BY <1>1 DEF ViewsInv, InTouch
  <2>2. Owed(c)' = Owed(c)
    BY <1>1 DEF Owed
  <2> QED BY <1>1, <2>1, <2>2, ViewKept
<1>2. InputStep \/ UNCHANGED vars =>
         UNCHANGED <<spc, smsg, idx, users, history, mq, chat_history, cusers>>
  BY DEF InputStep, InputExit, InputUnblock, vars
<1>3. ASSUME NEW d \in Clients, ClientJoin(d) \/ ClientOpen(d) \/ ClientSay(d) \/ ClientLeave(d)
      PROVE  UNCHANGED <<spc, smsg, idx, users, history, mq, chat_history, cusers>>
  BY <1>3 DEF ClientJoin, ClientOpen, ClientSay, ClientLeave
<1>4. ASSUME NEW d \in Clients, ClientReceive(d) PROVE ViewInv(c)'
  BY <1>4, ViewClient
<1>5. ~(Join \/ cleanup_resources \/ Stopped)
  BY DEF Join, cleanup_resources, Stopped, InTouch
<1> QED
  BY <1>1, <1>2, <1>3, <1>4, <1>5, ViewReceive, ViewReplay, ViewReplayDone, ViewBroadcast,
     ViewBroadcastDone DEF Next, ServerStep, ClientStep

-----------------------------------------------------------------------------
(* The theorems *)

LEMMA ChatInit == Init => ChatInv
<1> SUFFICES ASSUME Init PROVE ChatInv
  OBVIOUS
<1>1. TypeOK
  BY TypeInit
<1>2. /\ users = <<>> /\ history = <<>> /\ service = <<>> /\ spc = "recv"
      /\ \A c \in Clients : /\ mq[c] = <<>> /\ chat_history[c] = <<>> /\ cusers[c] = <<>>
                            /\ ~exists[c]
  BY DEF Init
<1>3. Len(<<>>) = 0 /\ \A i : i \notin 1..0
  BY EmptySeq
<1>4. \A h, c : ~Announced(h, 0, c) /\ ~HasLeft(h, 0, c)
  BY <1>3 DEF Announced, HasLeft
<1>5. JoinInv
  BY <1>2, <1>3, <1>4 DEF JoinInv, AsksOnce, Blank
<1>6. UsersDiffer /\ SendInv
  BY <1>2, <1>3 DEF UsersDiffer, SendInv
<1>7. ToSet(users) = {}
  <2>1. users \in Seq(Clients) /\ Len(users) = 0
    BY <1>2, <1>3, EmptySeq
  <2> QED BY <1>3, <2>1, LenProperties DEF ToSet
<1>8. LedgerInv
  <2>1. \A k \in 0..0 : k = 0
    OBVIOUS
  <2>2. Present(history, 0) = {}
    BY <1>4 DEF Present
  <2>3. IsFiniteSet({}) /\ Cardinality({}) = 0 /\ 0 <= UsersMax
    BY FS_EmptySet, ChatAssumption
  <2>4. Ledger
    BY <1>2, <1>3, <2>1, <2>2, <2>3 DEF Ledger
  <2> QED BY <1>2, <1>3, <1>7, <2>2, <2>4 DEF LedgerInv, Newcomer
<1>9. ViewsInv
  BY <1>7 DEF ViewsInv
<1> QED BY <1>1, <1>5, <1>6, <1>8, <1>9 DEF ChatInv

LEMMA ChatNext == ChatInv /\ [Next]_vars => ChatInv'
<1> SUFFICES ASSUME ChatInv, [Next]_vars PROVE ChatInv'
  OBVIOUS
<1>1. TypeOK /\ JoinInv /\ UsersDiffer /\ SendInv /\ LedgerInv /\ ViewsInv
  BY DEF ChatInv
<1>2. TypeOK'
  BY <1>1, TypeNext
<1>3. JoinInv'
  BY <1>1, AsksNext, BlankNext DEF JoinInv
<1>4. UsersDiffer'
  BY <1>1, DifferNext
<1>5. SendInv'
  BY <1>1, SendNext
<1>6. LedgerInv'
  BY <1>1, <1>2, LedgerNext
<1>7. ViewsInv'
  BY <1>1, ViewsNext
<1> QED BY <1>2, <1>3, <1>4, <1>5, <1>6, <1>7 DEF ChatInv

LEMMA ChatInvariant == SafeSpec => []ChatInv
  BY ChatInit, ChatNext, PTL DEF SafeSpec

\* Every variable keeps its type: no queue, list, history or screen outgrows
\* its array, whatever the clients send.
THEOREM ChatTyped == SafeSpec => []TypeOK
<1>1. ChatInv => TypeOK
  BY DEF ChatInv
<1> QED BY <1>1, ChatInvariant, PTL

\* What main is about to send to a user is the end of the history.
LEMMA PendingOwed ==
    ASSUME TypeOK, UsersDiffer, SendInv, Len(history) < HistorySize, NEW c \in ToSet(users)
    PROVE  /\ Pending(c) \in Seq(Message) /\ Len(Pending(c)) = Owed(c)
           /\ \A i \in 1..Owed(c) : Pending(c)[i] = history[Len(history) - Owed(c) + i]
<1>1. /\ history \in Seq(Message) /\ Len(history) \in Nat /\ idx \in Nat \ {0}
      /\ smsg \in Message /\ Len(users) \in Nat
      /\ \A i \in 1..Len(history) : history[i] \in Message
  BY LenProperties, ElementOfSeq DEF TypeOK
<1>2. CASE spc = "replay" /\ smsg.from = c
  <2>1. Pending(c) = SubSeq(history, idx, Len(history))
    BY <1>2 DEF Pending
  <2>2. Owed(c) = Len(history) + 1 - idx /\ idx <= Len(history) + 1
    BY <1>2 DEF Owed, SendInv
  <2>3. \A i \in idx..Len(history) : history[i] \in Message
    BY <1>1
  <2>4. /\ SubSeq(history, idx, Len(history)) \in Seq(Message)
        /\ Len(SubSeq(history, idx, Len(history)))
              = IF idx <= Len(history) THEN Len(history) - idx + 1 ELSE 0
        /\ \A i \in 1..Len(history) - idx + 1 :
              SubSeq(history, idx, Len(history))[i] = history[idx + i - 1]
    BY <1>1, <2>3, SubSeqProperties
  <2>5. \A i \in 1..Owed(c) : /\ i \in 1..Len(history) - idx + 1
                              /\ idx + i - 1 = Len(history) - Owed(c) + i
    BY <1>1, <2>2
  <2> QED BY <1>1, <2>1, <2>2, <2>4, <2>5
<1>3. CASE spc = "bcast"
  <2>1. PICK k \in 1..Len(users) : users[k] = c
    BY LenProperties DEF ToSet, TypeOK
  <2>2. Position(c) \in 1..Len(users) /\ users[Position(c)] = c
    BY <2>1 DEF Position
  <2>3. CASE Position(c) >= idx
    <3>1. Pending(c) = <<smsg>>
      BY <1>3, <2>3 DEF Pending
    <3>2. \E i \in 1..Len(users) : i >= idx /\ users[i] = c
      BY <2>2, <2>3
    <3>3. Owed(c) = 1
      BY <1>3, <3>2 DEF Owed
    <3>4. history[Len(history)] = smsg
      BY <1>3 DEF SendInv
    <3>5. <<smsg>> \in Seq(Message) /\ Len(<<smsg>>) = 1 /\ <<smsg>>[1] = smsg
      BY <1>1
    <3>6. \A i \in 1..1 : i = 1 /\ Len(history) - 1 + i = Len(history)
      BY <1>1
    <3> QED BY <3>1, <3>3, <3>4, <3>5, <3>6
  <2>4. CASE ~(Position(c) >= idx)
    <3>1. Pending(c) = <<>>
      BY <1>3, <2>4 DEF Pending
    <3>2. ~\E i \in 1..Len(users) : i >= idx /\ users[i] = c
      BY <2>2, <2>4 DEF UsersDiffer
    <3>3. Owed(c) = 0
      BY <1>3, <3>2 DEF Owed
    <3> QED BY <3>1, <3>3, EmptySeq
  <2> QED BY <2>3, <2>4
<1>4. CASE ~(spc = "replay" /\ smsg.from = c) /\ spc # "bcast"
  <2>1. Pending(c) = <<>> /\ Owed(c) = 0
    BY <1>4 DEF Pending, Owed
  <2> QED BY <2>1, EmptySeq
<1> QED BY <1>2, <1>3, <1>4

LEMMA Offset ==
    ASSUME NEW x \in Nat, NEW y \in Nat, NEW i \in x + 1..x + y
    PROVE  i - x \in 1..y /\ (x + y) - y + (i - x) = i
  OBVIOUS

\* Three parts of a sequence next to each other are all of it.
PartsOf(h, a, b, d) ==
    /\ Len(a) + Len(b) + Len(d) = Len(h)
    /\ \A i \in 1..Len(a) : a[i] = h[i]
    /\ \A i \in 1..Len(b) : b[i] = h[Len(a) + i]
    /\ \A i \in 1..Len(d) : d[i] = h[Len(h) - Len(d) + i]

LEMMA PartsOfAll ==
    ASSUME NEW S, NEW h \in Seq(S), NEW a \in Seq(S), NEW b \in Seq(S), NEW d \in Seq(S),
           PartsOf(h, a, b, d)
    PROVE  a \o b \o d = h
<1>0. /\ Len(a) + Len(b) + Len(d) = Len(h)
      /\ \A i \in 1..Len(a) : a[i] = h[i]
      /\ \A i \in 1..Len(b) : b[i] = h[Len(a) + i]
      /\ \A i \in 1..Len(d) : d[i] = h[Len(h) - Len(d) + i]
  BY DEF PartsOf
<1>1. Len(a) \in Nat /\ Len(b) \in Nat /\ Len(d) \in Nat /\ Len(h) \in Nat
  BY LenProperties
<1>2. /\ a \o b \in Seq(S) /\ Len(a \o b) = Len(a) + Len(b)
      /\ \A i \in 1..Len(a) + Len(b) :
            (a \o b)[i] = IF i <= Len(a) THEN a[i] ELSE b[i - Len(a)]
  BY ConcatProperties
<1>3. \A i \in 1..Len(a) + Len(b) : (a \o b)[i] = h[i]
  <2>1. \A i \in Len(a) + 1..Len(a) + Len(b) :
           i - Len(a) \in 1..Len(b) /\ Len(a) + (i - Len(a)) = i
    BY <1>1
  <2>2. \A i \in Len(a) + 1..Len(a) + Len(b) : b[i - Len(a)] = h[i]
    BY <1>0, <2>1
  <2> QED BY <1>0, <1>1, <1>2, <2>2
<1> DEFINE e == a \o b
<1> HIDE DEF e
<1>4. /\ e \in Seq(S) /\ Len(e) = Len(a) + Len(b) /\ Len(e) \in Nat
      /\ \A i \in 1..Len(e) : e[i] = h[i]
  BY <1>1, <1>2, <1>3 DEF e
<1>5. /\ e \o d \in Seq(S) /\ Len(e \o d) = Len(e) + Len(d)
      /\ \A i \in 1..Len(e) + Len(d) :
            (e \o d)[i] = IF i <= Len(e) THEN e[i] ELSE d[i - Len(e)]
  <2>1. e \in Seq(S)
    BY <1>4
  <2> QED BY <2>1, ConcatProperties
<1>6. Len(e) + Len(d) = Len(h)
  BY <1>0, <1>4
<1>7. \A i \in 1..Len(h) : (e \o d)[i] = h[i]
  <2>0. Len(d) \in Nat /\ Len(e) \in Nat /\ Len(h) \in Nat
    BY <1>1, <1>4
  <2>1. \A i \in Len(e) + 1..Len(h) :
           i - Len(e) \in 1..Len(d) /\ Len(h) - Len(d) + (i - Len(e)) = i
    <3> SUFFICES ASSUME NEW i \in Len(e) + 1..Len(h)
                 PROVE  i - Len(e) \in 1..Len(d) /\ Len(h) - Len(d) + (i - Len(e)) = i
      OBVIOUS
    <3>1. i \in Len(e) + 1..Len(e) + Len(d)
      BY <1>6
    <3>2. i - Len(e) \in 1..Len(d) /\ (Len(e) + Len(d)) - Len(d) + (i - Len(e)) = i
      BY <2>0, <3>1, Offset
    <3> QED BY <1>6, <3>2
  <2>2. \A i \in Len(e) + 1..Len(h) : d[i - Len(e)] = h[i]
    BY <1>0, <2>1
  <2> QED BY <1>1, <1>4, <1>5, <1>6, <2>2
<1>8. e \o d = h
  BY <1>5, <1>6, <1>7, SeqEqual
<1> QED BY <1>8 DEF e

\* All users see the same chat: for each of them the screen, the queue and what
\* main is still going to send make up the history, whoever joins in between.
THEOREM TranscriptsSame == SafeSpec => []SameTranscript
<1>1. ChatInv => SameTranscript
  <2> SUFFICES ASSUME ChatInv, Len(history) < HistorySize, Len(history) < ChatMax,
                      spc \notin {"cleanup", "stopped"}, NEW c \in ToSet(users)
               PROVE  chat_history[c] \o mq[c] \o Pending(c) = history
    BY DEF SameTranscript
  <2>1. TypeOK /\ UsersDiffer /\ SendInv /\ InTouch
    BY DEF ChatInv, InTouch
  <2>2. c \in Clients
    BY <2>1, LenProperties DEF ToSet, TypeOK
  <2>3. ViewInv(c)
    BY <2>1, <2>2 DEF ChatInv, ViewsInv
  <2>4. /\ Pending(c) \in Seq(Message) /\ Len(Pending(c)) = Owed(c)
        /\ \A i \in 1..Owed(c) : Pending(c)[i] = history[Len(history) - Owed(c) + i]
    BY <2>1, PendingOwed
  <2>5. /\ history \in Seq(Message) /\ chat_history[c] \in Seq(Message) /\ mq[c] \in Seq(Message)
    BY <2>1, <2>2 DEF TypeOK
  <2>6. /\ Len(chat_history[c]) = Read(c)
        /\ \A i \in 1..Read(c) : chat_history[c][i] = history[i]
        /\ \A i \in 1..Len(mq[c]) : mq[c][i] = history[Read(c) + i]
    BY <2>3 DEF ViewInv, View
  <2>7. Len(chat_history[c]) + Len(mq[c]) + Len(Pending(c)) = Len(history)
    BY <2>4, <2>5, <2>6, LenProperties DEF Read
  <2>8. \A i \in 1..Len(chat_history[c]) : chat_history[c][i] = history[i]
    BY <2>6
  <2>9. \A i \in 1..Len(mq[c]) : mq[c][i] = history[Len(chat_history[c]) + i]
    BY <2>6
  <2>10. \A i \in 1..Len(Pending(c)) :
            Pending(c)[i] = history[Len(history) - Len(Pending(c)) + i]
    BY <2>4
  <2>11. PartsOf(history, chat_history[c], mq[c], Pending(c))
    BY <2>7, <2>8, <2>9, <2>10 DEF PartsOf
  <2> QED BY <2>4, <2>5, <2>11, PartsOfAll
<1> QED BY <1>1, ChatInvariant, PTL

\* A user that has read everything lists the names of the server's users, a
\* name as often as users have it, although messages carry no pid.
THEOREM ListsAgree == SafeSpec => []UserListsAgree
<1>1. ChatInv => UserListsAgree
  <2> SUFFICES ASSUME ChatInv, NEW c \in ToSet(users), mq[c] = <<>>, spc \in {"recv", "join"},
                      Len(history) < HistorySize, NEW n \in Names
               PROVE  Count(cusers[c], n) = Cardinality({i \in 1..Len(users) : Name[users[i]] = n})
    BY DEF UserListsAgree, Count
  <2>1. TypeOK /\ UsersDiffer /\ InTouch
    BY DEF ChatInv, InTouch
  <2>2. c \in Clients /\ Len(history) \in Nat
    BY <2>1, LenProperties DEF ToSet, TypeOK
  <2>3. ViewInv(c)
    BY <2>1, <2>2 DEF ChatInv, ViewsInv
  <2>4. Read(c) = Len(history)
    BY <2>2, EmptySeq DEF Read, Owed
  <2>5. Count(cusers[c], n) = Cardinality(Called(n, Present(history, Len(history))))
    BY <2>3, <2>4 DEF ViewInv, View
  <2>6. ToSet(users) = Present(history, Len(history))
    BY DEF ChatInv, LedgerInv, Newcomer
  <2> QED BY <2>1, <2>5, <2>6, CalledUsers
<1> QED BY <1>1, ChatInvariant, PTL
=============================================================================
