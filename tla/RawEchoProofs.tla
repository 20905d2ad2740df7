--------------------------- MODULE RawEchoProofs ---------------------------
(* Proofs about RawEcho, for any number of hosts and of table entries and    *)
(* any capacity of the sockets.                                              *)
EXTENDS RawEcho, SequenceTheorems, WellFoundedInduction, TLAPS

-----------------------------------------------------------------------------
(* Lemmas about the operators *)

\* The smallest of some natural numbers is one of them.
LEMMA MinIn ==
    ASSUME NEW S \in SUBSET Nat, S # {}
    PROVE  Min(S) \in S
<1> DEFINE R == {ss \in Nat \X Nat : ss[1] < ss[2]}
<1>1. IsWellFoundedOn(R, Nat)
  BY NatLessThanWellFounded DEF OpToRel
<1>2. \E x \in S : \A y \in S : ~ (<<y, x>> \in R)
  <2> HIDE DEF R
  <2> QED BY <1>1, WFMin
<1>3. \A x, y \in Nat : y < x => <<y, x>> \in R
  OBVIOUS
<1>4. PICK x \in S : \A y \in S : ~ (<<y, x>> \in R)
  BY <1>2
<1>5. \A y \in S : x <= y
  <2> SUFFICES ASSUME NEW y \in S, ~ (x <= y) PROVE FALSE
    OBVIOUS
  <2>1. x \in Nat /\ y \in Nat /\ y < x
    OBVIOUS
  <2> HIDE DEF R
  <2>2. <<y, x>> \in R
    BY <1>3, <2>1
  <2> QED BY <1>4, <2>2
<1> QED BY <1>5 DEF Min

\* An index other than -1 is the host's entry, or a free one if it has none.
LEMMA IndexFound ==
    ASSUME NEW h \in Hosts, get_client_index(h) # -1
    PROVE  LET s == get_client_index(h) IN
           /\ s \in Slots
           /\ \/ s \in EntriesOf(h)
              \/ ~clients[s].used /\ EntriesOf(h) = {}
<1>1. EntriesOf(h) \in SUBSET Nat /\ FreeSlots \in SUBSET Nat
  BY EchoAssumption DEF EntriesOf, FreeSlots, Slots
<1>2. CASE EntriesOf(h) # {}
  BY <1>1, <1>2, MinIn DEF get_client_index, EntriesOf
<1>3. CASE EntriesOf(h) = {}
  <2>1. FreeSlots # {} /\ get_client_index(h) = Min(FreeSlots)
    BY <1>3 DEF get_client_index
  <2>2. get_client_index(h) \in FreeSlots
    BY <1>1, <2>1, MinIn
  <2> QED BY <1>3, <2>2 DEF FreeSlots
<1> QED BY <1>2, <1>3

Packet == [src : Hosts, kind : Lines, id : Nat]
Reply == [dst : Hosts, id : Nat, n : Nat]

\* What a delivery does to each socket.
LEMMA Delivered ==
    \A h \in Hosts : \A r \in Reply : \A b \in Deliveries(h, r) :
       /\ b = [g \in Hosts |-> b[g]]
       /\ \A g \in Hosts :
             \/ b[g] = cliBuf[g]
             \/ b[g] = Append(cliBuf[g], r) /\ Len(cliBuf[g]) < BufCap
  BY DEF Deliveries

-----------------------------------------------------------------------------
(* Types.  A client that is about to send has typed something. *)

TypeInv ==
    /\ TypeOK
    /\ \A h \in Hosts : snd[h] = "send" => sent[h] # <<>>

LEMMA TypeInit == Init => TypeInv
<1> SUFFICES ASSUME Init PROVE TypeInv
  OBVIOUS
<1>1. Unused \in Entry /\ BufCap \in Nat
  BY EchoAssumption DEF Unused, Entry
<1>2. \A S : <<>> \in Seq(S) /\ Len(<<>>) = 0
  BY EmptySeq
<1>3. /\ clients \in [Slots -> Entry]
      /\ \A s \in Slots : clients[s].used \/ clients[s] = Unused
  BY <1>1 DEF Init
<1>4. /\ srvBuf \in Seq(Packet) /\ Len(srvBuf) <= BufCap
      /\ cliBuf \in [Hosts -> Seq(Reply)]
      /\ \A h \in Hosts : Len(cliBuf[h]) <= BufCap
      /\ shown \in [Hosts -> Seq(Reply)]
      /\ sent \in [Hosts -> Seq(Lines)]
  BY <1>1, <1>2 DEF Init
<1>5. \A h \in Hosts : snd[h] # "send"
  BY DEF Init
<1> QED BY <1>3, <1>4, <1>5 DEF Init, TypeInv, TypeOK, Packet, Reply

LEMMA TypeNext == TypeInv /\ [Next]_vars => TypeInv'
<1> SUFFICES ASSUME TypeInv, [Next]_vars PROVE TypeInv'
  OBVIOUS
<1> USE EchoAssumption DEF server, threads, history
<1>1. CASE ServerCheck
  BY <1>1 DEF ServerCheck, TypeInv, TypeOK
<1>2. CASE ServerSleep
  BY <1>2 DEF ServerSleep, TypeInv, TypeOK
<1>3. ASSUME ServerTakes
      PROVE  /\ Head(srvBuf) \in Packet
             /\ srvBuf' \in Seq(Packet)
             /\ Len(srvBuf') <= BufCap
  <2>1. srvBuf \in Seq(Packet) /\ srvBuf # <<>> /\ Len(srvBuf) <= BufCap
    BY <1>3 DEF ServerTakes, TypeInv, TypeOK, Packet
  <2> QED BY <1>3, <2>1, HeadTailProperties, LenProperties DEF ServerTakes
<1>4. CASE Ignore
  BY <1>3, <1>4 DEF Ignore, ServerTakes, TypeInv, TypeOK, Packet
<1>5. CASE HandleQuit
  <2> DEFINE h == Head(srvBuf).src
  <2>1. h \in Hosts /\ get_client_index(h) # -1
    BY <1>3, <1>5 DEF HandleQuit, Packet
  <2>2. get_client_index(h) \in Slots
    BY <2>1, IndexFound
  <2>3. clients' = reset_client(get_client_index(h))
    BY <1>5 DEF HandleQuit
  <2>4. /\ clients' \in [Slots -> Entry]
        /\ \A s \in Slots : clients'[s].used \/ clients'[s] = Unused
    BY <2>2, <2>3 DEF reset_client, TypeInv, TypeOK, Entry, Unused
  <2>5. abandoned' \in [Hosts -> BOOLEAN]
    BY <1>5 DEF HandleQuit, TypeInv, TypeOK
  <2> QED BY <1>3, <1>5, <2>4, <2>5 DEF HandleQuit, ServerTakes, TypeInv, TypeOK, Packet
<1>6. CASE HandleMessage
  <2> DEFINE h == Head(srvBuf).src
             s == get_client_index(h)
             e == [Registered(s, h) EXCEPT !.counter = @ + 1]
             r == create_reply_packet(Head(srvBuf), e.counter)
  <2>1. h \in Hosts /\ s # -1
    BY <1>3, <1>6 DEF HandleMessage, Packet
  <2>2. s \in Slots
    BY <2>1, IndexFound
  <2>3. e \in Entry /\ e.used
    <3>1. Registered(s, h) \in Entry /\ Registered(s, h).used
      <4> HIDE DEF s, h
      <4> QED BY <2>1, <2>2 DEF Registered, TypeInv, TypeOK, Entry
    <3> HIDE DEF s, h
    <3> QED BY <3>1 DEF Entry
  <2>4. r \in Reply
    <3>1. e.counter \in Nat
      <4> HIDE DEF e
      <4> QED BY <2>3 DEF Entry
    <3> HIDE DEF e
    <3> QED BY <1>3, <1>6, <3>1 DEF HandleMessage, create_reply_packet, Reply, Packet
  <2>5. clients' = [clients EXCEPT ![s] = e] /\ cliBuf' \in Deliveries(h, r)
    BY <1>6 DEF HandleMessage
  <2> HIDE DEF e, r, s, h
  <2>6. /\ clients' \in [Slots -> Entry]
        /\ \A t \in Slots : clients'[t].used \/ clients'[t] = Unused
    BY <2>2, <2>3, <2>5 DEF TypeInv, TypeOK
  <2>7. /\ cliBuf' \in [Hosts -> Seq(Reply)]
        /\ \A g \in Hosts : Len(cliBuf'[g]) <= BufCap
    <3>1. cliBuf \in [Hosts -> Seq(Reply)] /\ \A g \in Hosts : Len(cliBuf[g]) <= BufCap
      BY DEF TypeInv, TypeOK, Reply
    <3>2. /\ cliBuf' = [g \in Hosts |-> cliBuf'[g]]
          /\ \A g \in Hosts :
                \/ cliBuf'[g] = cliBuf[g]
                \/ cliBuf'[g] = Append(cliBuf[g], r) /\ Len(cliBuf[g]) < BufCap
      BY <2>1, <2>4, <2>5, Delivered
    <3>3. \A g \in Hosts : cliBuf'[g] \in Seq(Reply) /\ Len(cliBuf'[g]) <= BufCap
      <4> TAKE g \in Hosts
      <4>1. cliBuf[g] \in Seq(Reply) /\ Len(cliBuf[g]) <= BufCap
        BY <3>1
      <4>2. /\ Append(cliBuf[g], r) \in Seq(Reply)
            /\ Len(Append(cliBuf[g], r)) = Len(cliBuf[g]) + 1
        BY <2>4, <4>1, AppendProperties
      <4>3. Len(cliBuf[g]) \in Nat
        BY <4>1, LenProperties
      <4> QED BY <3>2, <4>1, <4>2, <4>3
    <3> QED BY <3>2, <3>3
  <2> QED BY <1>3, <1>6, <2>6, <2>7 DEF HandleMessage, ServerTakes, TypeInv, TypeOK, Packet, Reply
<1>7. CASE handle_sigint
  BY <1>7 DEF handle_sigint, TypeInv, TypeOK
<1>8. ASSUME NEW h \in Hosts, Start(h) PROVE TypeInv'
  BY <1>8 DEF Start, TypeInv, TypeOK
<1>9. ASSUME NEW h \in Hosts, NEW k \in Lines, Type(h, k) PROVE TypeInv'
  <2>1. Append(sent[h], k) \in Seq(Lines) /\ Append(sent[h], k) # <<>>
    <3>1. sent[h] \in Seq(Lines)
      BY DEF TypeInv, TypeOK
    <3> QED BY <3>1, AppendProperties
  <2> QED BY <1>9, <2>1 DEF Type, TypeInv, TypeOK
<1>10. ASSUME NEW h \in Hosts, Send(h) PROVE TypeInv'
  <2>1. sent[h] \in Seq(Lines) /\ sent[h] # <<>>
    BY <1>10 DEF Send, TypeInv, TypeOK
  <2>2. [src |-> h, kind |-> Last(sent[h]), id |-> Len(sent[h])] \in Packet
    BY <2>1, LenProperties, ElementOfSeq, EmptySeq DEF Last, Packet
  <2>3. srvBuf' \in Seq(Packet) /\ Len(srvBuf') <= BufCap
    <3>1. srvBuf \in Seq(Packet) /\ Len(srvBuf) <= BufCap
      BY DEF TypeInv, TypeOK, Packet
    <3> DEFINE p == [src |-> h, kind |-> Last(sent[h]), id |-> Len(sent[h])]
    <3>2. srvBuf' = srvBuf \/ (srvBuf' = Append(srvBuf, p) /\ Len(srvBuf) < BufCap)
      BY <1>10 DEF Send, Arrivals
    <3>3. p \in Packet
      BY <2>2
    <3> HIDE DEF p
    <3> QED BY <3>1, <3>2, <3>3, AppendProperties, LenProperties
  <2>4. abandoned' \in [Hosts -> BOOLEAN]
    BY <1>10 DEF Send, TypeInv, TypeOK
  <2> QED BY <1>10, <2>3, <2>4 DEF Send, TypeInv, TypeOK, Packet
<1>11. ASSUME NEW h \in Hosts, SendFails(h) PROVE TypeInv'
  BY <1>11 DEF SendFails, TypeInv, TypeOK
<1>12. ASSUME NEW h \in Hosts, ReceiverCheck(h) \/ ReceiverTimeout(h) PROVE TypeInv'
  BY <1>12 DEF ReceiverCheck, ReceiverTimeout, TypeInv, TypeOK
<1>13. ASSUME NEW h \in Hosts, ReceiverPrints(h) PROVE TypeInv'
  <2>1. cliBuf \in [Hosts -> Seq(Reply)] /\ shown \in [Hosts -> Seq(Reply)] /\ Len(cliBuf[h]) <= BufCap
    BY DEF TypeInv, TypeOK, Reply
  <2>2. /\ Head(cliBuf[h]) \in Reply
        /\ Tail(cliBuf[h]) \in Seq(Reply)
        /\ Len(Tail(cliBuf[h])) <= BufCap
    BY <1>13, <2>1, HeadTailProperties, LenProperties DEF ReceiverPrints
  <2>3. shown' \in [Hosts -> Seq(Reply)]
    BY <1>13, <2>1, <2>2, AppendProperties DEF ReceiverPrints
  <2> QED BY <1>13, <2>2, <2>3 DEF ReceiverPrints, TypeInv, TypeOK, Reply
<1>14. ASSUME NEW h \in Hosts, Exit(h) PROVE TypeInv'
  BY <1>14, EmptySeq DEF Exit, TypeInv, TypeOK
<1>15. ASSUME NEW h \in Hosts, Killed(h) PROVE TypeInv'
  BY <1>15, EmptySeq DEF Killed, TypeInv, TypeOK
<1>16. CASE UNCHANGED vars
  BY <1>16 DEF vars, TypeInv, TypeOK
<1> QED BY <1>1, <1>2, <1>4, <1>5, <1>6, <1>7, <1>8, <1>9, <1>10, <1>11, <1>12,
           <1>13, <1>14, <1>15, <1>16 DEF Next, ServerStep, Receiver

\* Every variable of the echo service keeps its type: the sockets stay within
\* their capacity and an unused table entry is blank.
THEOREM EchoTyped == Spec => []TypeOK
<1>1. TypeInv => TypeOK
  BY DEF TypeInv
<1> QED BY <1>1, TypeInit, TypeNext, PTL DEF Spec

-----------------------------------------------------------------------------
(* What is on the way between a host and its entry *)

\* The packets of a host wait in the order in which they were typed, and the
\* line the sender is working on is not among them yet.
PacketsInOrder ==
    /\ \A i \in 1..Len(srvBuf) :
          LET p == srvBuf[i] IN
          /\ p.id \in 1..Len(sent[p.src])
          /\ sent[p.src][p.id] = p.kind
          /\ snd[p.src] = "send" => p.id < Len(sent[p.src])
    /\ \A i, j \in 1..Len(srvBuf) :
          i < j /\ srvBuf[i].src = srvBuf[j].src => srvBuf[i].id < srvBuf[j].id

\* stop_flag is set by typing quit, the last line a process sends.
QuitIsLast ==
    \A h \in Hosts :
       /\ snd[h] \in {"off", "type"} => ~cstop[h]
       /\ snd[h] = "send" /\ cstop[h] => Last(sent[h]) = "quit"

\* A message the server has yet to read is followed by a quit, or its host may
\* still send one, or is known to have left without.
MessagesFollowed ==
    \A i \in 1..Len(srvBuf) :
       LET h == srvBuf[i].src IN
       \/ snd[h] \in {"type", "send"}
       \/ abandoned[h]
       \/ \E j \in i..Len(srvBuf) : srvBuf[j].src = h /\ srvBuf[j].kind = "quit"

TableInv ==
    /\ TypeInv
    /\ OneEntry
    /\ PacketsInOrder
    /\ QuitIsLast
    /\ MessagesFollowed
    /\ EntriesReturned

\* The server has read line m of host h and everything before it, and nothing
\* it has yet to read is as old.
Passed(h, m) ==
    /\ m \in 1..Len(sent[h])
    /\ snd[h] = "send" => m < Len(sent[h])
    /\ \A i \in 1..Len(srvBuf) : srvBuf[i].src = h => m < srvBuf[i].id

\* A reply to host h answers a message the server is past, and what it counted
\* is in the table still, or the server is past a later quit too.
Accounted(h, r) ==
    /\ Passed(h, r.id)
    /\ sent[h][r.id] = "msg"
    /\ \/ \E s \in Slots : clients[s].used /\ clients[s].ip = h /\ r.n <= clients[s].counter
       \/ \E m \in Nat : r.id <= m /\ Passed(h, m) /\ sent[h][m] = "quit"

Before(h, q, r) ==
    /\ q.id < r.id
    /\ q.n < r.n \/ \E m \in q.id..r.id : sent[h][m] = "quit"

\* The replies that host h has shown and those on their way to it.
RepliesOf(h) ==
    /\ \A i \in 1..Len(shown[h]) : shown[h][i].dst = h /\ Accounted(h, shown[h][i])
    /\ \A i \in 1..Len(cliBuf[h]) : cliBuf[h][i].dst = h => Accounted(h, cliBuf[h][i])
    /\ \A i, j \in 1..Len(shown[h]) : i < j => Before(h, shown[h][i], shown[h][j])
    /\ \A i \in 1..Len(shown[h]), j \in 1..Len(cliBuf[h]) :
          cliBuf[h][j].dst = h => Before(h, shown[h][i], cliBuf[h][j])
    /\ \A i, j \in 1..Len(cliBuf[h]) :
          i < j /\ cliBuf[h][i].dst = h /\ cliBuf[h][j].dst = h
             => Before(h, cliBuf[h][i], cliBuf[h][j])

ReplyInv == \A h \in Hosts : RepliesOf(h)

-----------------------------------------------------------------------------
(* Facts the step proofs share *)

\* The elements of a sequence without its first.
LEMMA TailIndex ==
    ASSUME NEW S, NEW q \in Seq(S), q # <<>>
    PROVE  /\ Len(q) \in Nat \ {0} /\ Len(Tail(q)) = Len(q) - 1
           /\ Head(q) = q[1] /\ Head(q) \in S
           /\ \A i \in 1..Len(Tail(q)) : i + 1 \in 1..Len(q) /\ Tail(q)[i] = q[i + 1]
           /\ \A i \in 2..Len(q) : i - 1 \in 1..Len(Tail(q)) /\ Tail(q)[i - 1] = q[i]
<1>1. Len(q) \in Nat \ {0} /\ Head(q) = q[1]
  BY EmptySeq, LenProperties, HeadTailProperties
<1>2. /\ Head(q) \in S /\ Len(Tail(q)) = Len(q) - 1
      /\ \A i \in 1..Len(Tail(q)) : Tail(q)[i] = q[i + 1]
  BY HeadTailProperties
<1> QED BY <1>1, <1>2

\* The elements of a sequence with one more.
LEMMA AppendIndex ==
    ASSUME NEW S, NEW q \in Seq(S), NEW e \in S
    PROVE  /\ Len(q) \in Nat /\ Len(Append(q, e)) = Len(q) + 1
           /\ \A i \in 1..Len(q) : Append(q, e)[i] = q[i]
           /\ Append(q, e)[Len(q) + 1] = e
  BY AppendProperties, LenProperties

\* A step without effect on what the invariants below speak of.
Quiet == UNCHANGED <<clients, srvBuf, snd, cstop, cliBuf, shown, sent, abandoned>>

ClientMove(h) ==
    \/ Start(h) \/ \E k \in Lines : Type(h, k)
    \/ Send(h) \/ SendFails(h) \/ ReceiverPrints(h) \/ Exit(h) \/ Killed(h)

LEMMA StepKinds ==
    ASSUME [Next]_vars
    PROVE  Ignore \/ HandleQuit \/ HandleMessage \/ (\E h \in Hosts : ClientMove(h)) \/ Quiet
<1> USE DEF server, threads, history, Quiet
<1>1. CASE ServerCheck \/ ServerSleep \/ handle_sigint
  BY <1>1 DEF ServerCheck, ServerSleep, handle_sigint
<1>2. ASSUME NEW h \in Hosts, ReceiverCheck(h) \/ ReceiverTimeout(h) PROVE Quiet
  BY <1>2 DEF ReceiverCheck, ReceiverTimeout
<1>3. CASE UNCHANGED vars
  BY <1>3 DEF vars
<1> QED BY <1>1, <1>2, <1>3 DEF Next, ServerStep, Receiver, ClientMove

\* What the types say of the variables the proofs below look at.
LEMMA Typed ==
    ASSUME TypeInv
    PROVE  /\ clients \in [Slots -> Entry]
           /\ \A s \in Slots : clients[s].used \/ clients[s] = Unused
           /\ srvBuf \in Seq(Packet) /\ Len(srvBuf) \in Nat
           /\ \A i \in 1..Len(srvBuf) :
                 srvBuf[i] \in Packet /\ srvBuf[i].src \in Hosts /\ srvBuf[i].id \in Nat
           /\ snd \in [Hosts -> {"off", "type", "send", "done"}]
           /\ cstop \in [Hosts -> BOOLEAN] /\ abandoned \in [Hosts -> BOOLEAN]
           /\ sent \in [Hosts -> Seq(Lines)]
           /\ \A h \in Hosts : /\ sent[h] \in Seq(Lines) /\ Len(sent[h]) \in Nat
                               /\ snd[h] = "send" => sent[h] # <<>> /\ Len(sent[h]) > 0
<1>1. srvBuf \in Seq(Packet) /\ \A h \in Hosts : sent[h] \in Seq(Lines)
  BY DEF TypeInv, TypeOK, Packet
<1>2. /\ Len(srvBuf) \in Nat /\ \A i \in 1..Len(srvBuf) : srvBuf[i] \in Packet
      /\ \A h \in Hosts : Len(sent[h]) \in Nat
  BY <1>1, LenProperties, ElementOfSeq
<1>3. \A h \in Hosts : snd[h] = "send" => sent[h] # <<>> /\ Len(sent[h]) > 0
  BY <1>1, <1>2, EmptySeq DEF TypeInv
<1> QED BY <1>1, <1>2, <1>3 DEF TypeInv, TypeOK, Packet

\* The server takes the first packet.
LEMMA Taken ==
    ASSUME TypeInv, ServerTakes
    PROVE  /\ srvBuf' = Tail(srvBuf) /\ UNCHANGED <<snd, cstop>>
           /\ Head(srvBuf) = srvBuf[1] /\ 1 \in 1..Len(srvBuf)
           /\ Head(srvBuf) \in Packet /\ Head(srvBuf).src \in Hosts
           /\ Len(srvBuf') = Len(srvBuf) - 1 /\ Len(srvBuf) \in Nat
           /\ \A i \in 1..Len(srvBuf') : i + 1 \in 1..Len(srvBuf) /\ srvBuf'[i] = srvBuf[i + 1]
           /\ \A i \in 2..Len(srvBuf) : i - 1 \in 1..Len(srvBuf') /\ srvBuf'[i - 1] = srvBuf[i]
<1>1. srvBuf \in Seq(Packet) /\ srvBuf # <<>> /\ srvBuf' = Tail(srvBuf)
  BY Typed DEF ServerTakes
<1>2. /\ Len(srvBuf) \in Nat \ {0} /\ Len(Tail(srvBuf)) = Len(srvBuf) - 1
      /\ Head(srvBuf) = srvBuf[1] /\ Head(srvBuf) \in Packet
      /\ \A i \in 1..Len(Tail(srvBuf)) :
            i + 1 \in 1..Len(srvBuf) /\ Tail(srvBuf)[i] = srvBuf[i + 1]
      /\ \A i \in 2..Len(srvBuf) :
            i - 1 \in 1..Len(Tail(srvBuf)) /\ Tail(srvBuf)[i - 1] = srvBuf[i]
  BY <1>1, TailIndex
<1>3. Head(srvBuf).src \in Hosts /\ 1 \in 1..Len(srvBuf)
  BY <1>2 DEF Packet
<1>4. UNCHANGED <<snd, cstop>>
  BY DEF ServerTakes, threads
<1> QED BY <1>1, <1>2, <1>3, <1>4

\* A sender's packet arrives last or not at all.
LEMMA Posted ==
    ASSUME TypeInv, NEW h \in Hosts, Send(h)
    PROVE  LET p == [src |-> h, kind |-> Last(sent[h]), id |-> Len(sent[h])] IN
           /\ snd[h] = "send" /\ UNCHANGED <<clients, cstop, cliBuf, shown, sent>>
           /\ snd' = [snd EXCEPT ![h] = IF cstop[h] THEN "done" ELSE "type"]
           /\ \/ srvBuf' = srvBuf
              \/ /\ Len(srvBuf') = Len(srvBuf) + 1 /\ srvBuf'[Len(srvBuf) + 1] = p
                 /\ \A i \in 1..Len(srvBuf) : srvBuf'[i] = srvBuf[i]
           /\ \A g \in Hosts : abandoned[g] => abandoned'[g]
           /\ Last(sent[h]) = "quit" /\ srvBuf' = srvBuf => abandoned'[h]
           /\ p.id \in 1..Len(sent[h]) /\ sent[h][p.id] = p.kind
<1> DEFINE p == [src |-> h, kind |-> Last(sent[h]), id |-> Len(sent[h])]
<1>1. snd[h] = "send" /\ sent[h] \in Seq(Lines) /\ Len(sent[h]) \in Nat \ {0}
  BY Typed DEF Send
<1>2. p.id \in 1..Len(sent[h]) /\ sent[h][p.id] = p.kind
  BY <1>1 DEF Last
<1>3. p \in Packet
  BY <1>1, <1>2, ElementOfSeq DEF Packet
<1>4. srvBuf' \in {srvBuf, Append(srvBuf, p)}
  BY DEF Send, Arrivals
<1>5. /\ \A g \in Hosts : abandoned[g] => abandoned'[g]
      /\ Last(sent[h]) = "quit" /\ srvBuf' = srvBuf => abandoned'[h]
  BY Typed DEF Send
<1>6. \/ srvBuf' = srvBuf
      \/ /\ Len(srvBuf') = Len(srvBuf) + 1 /\ srvBuf'[Len(srvBuf) + 1] = p
         /\ \A i \in 1..Len(srvBuf) : srvBuf'[i] = srvBuf[i]
  <2> HIDE DEF p
  <2>1. srvBuf \in Seq(Packet)
    BY Typed
  <2>2. /\ Len(Append(srvBuf, p)) = Len(srvBuf) + 1
        /\ Append(srvBuf, p)[Len(srvBuf) + 1] = p
        /\ \A i \in 1..Len(srvBuf) : Append(srvBuf, p)[i] = srvBuf[i]
    BY <1>3, <2>1, AppendIndex
  <2> QED BY <1>4, <2>2
<1> QED BY <1>1, <1>2, <1>5, <1>6 DEF Send, server

\* Typing a line adds it to what the host has sent.
LEMMA Grown ==
    ASSUME TypeInv, NEW h \in Hosts, NEW k \in Lines, Type(h, k)
    PROVE  /\ snd[h] = "type" /\ snd' = [snd EXCEPT ![h] = "send"]
           /\ cstop' = [cstop EXCEPT ![h] = @ \/ k = "quit"]
           /\ UNCHANGED <<clients, srvBuf, cliBuf, shown, abandoned>>
           /\ Len(sent'[h]) = Len(sent[h]) + 1 /\ sent'[h][Len(sent[h]) + 1] = k
           /\ Last(sent'[h]) = k
           /\ \A i \in 1..Len(sent[h]) : sent'[h][i] = sent[h][i]
           /\ \A g \in Hosts \ {h} : sent'[g] = sent[g]
<1>1. sent' = [sent EXCEPT ![h] = Append(@, k)] /\ sent[h] \in Seq(Lines)
  BY Typed DEF Type
<1>2. sent'[h] = Append(sent[h], k)
  BY <1>1, Typed
<1>3. /\ Len(sent'[h]) = Len(sent[h]) + 1 /\ sent'[h][Len(sent[h]) + 1] = k
      /\ \A i \in 1..Len(sent[h]) : sent'[h][i] = sent[h][i]
  BY <1>1, <1>2, AppendIndex
<1> QED BY <1>1, <1>3, Typed DEF Type, Last, server

-----------------------------------------------------------------------------
(* One entry each *)

\* The table after a message of host h, or after its quit: only the host's
\* own or a free entry has changed.
LEMMA Tabled ==
    ASSUME TypeInv, OneEntry, HandleMessage \/ HandleQuit
    PROVE  LET h == Head(srvBuf).src
               s == get_client_index(h)
           IN  /\ s \in Slots /\ (clients[s].used => clients[s].ip = h)
               /\ \A t \in Slots \ {s} : clients[t].used => clients[t].ip # h
               /\ \A t \in Slots \ {s} : clients'[t] = clients[t]
               /\ HandleQuit => ~clients'[s].used
               /\ HandleMessage =>
                     /\ clients'[s].used /\ clients'[s].ip = h
                     /\ clients'[s].counter \in Nat \ {0}
                     /\ clients'[s].counter =
                           (IF clients[s].used THEN clients[s].counter ELSE 0) + 1
<1> DEFINE h == Head(srvBuf).src
           s == get_client_index(h)
<1>1. h \in Hosts /\ s # -1
  BY Taken DEF HandleMessage, HandleQuit
<1>2. s \in Slots /\ (s \in EntriesOf(h) \/ (~clients[s].used /\ EntriesOf(h) = {}))
  BY <1>1, IndexFound
<1>3. HandleQuit => clients' = reset_client(s)
  BY DEF HandleQuit
<1>4. HandleMessage => clients' = [clients EXCEPT ![s] =
                                     [Registered(s, h) EXCEPT !.counter = @ + 1]]
  BY DEF HandleMessage
<1> HIDE DEF h, s
<1>5. clients[s] \in Entry /\ clients \in [Slots -> Entry]
  BY <1>2, Typed
<1>6. /\ clients[s].used => clients[s].ip = h
      /\ \A t \in Slots \ {s} : clients[t].used => clients[t].ip # h
  BY <1>2 DEF EntriesOf, OneEntry
<1>7. HandleQuit => ~clients'[s].used /\ \A t \in Slots \ {s} : clients'[t] = clients[t]
  BY <1>2, <1>3, <1>5 DEF reset_client, Unused
<1>8. HandleMessage =>
         /\ \A t \in Slots \ {s} : clients'[t] = clients[t]
         /\ clients'[s] = [Registered(s, h) EXCEPT !.counter = @ + 1]
  BY <1>2, <1>4, <1>5
<1>9. HandleMessage =>
         /\ clients'[s].used /\ clients'[s].ip = h
         /\ clients'[s].counter \in Nat \ {0}
         /\ clients'[s].counter = (IF clients[s].used THEN clients[s].counter ELSE 0) + 1
  BY <1>5, <1>6, <1>8 DEF Registered, Entry
<1> QED BY <1>2, <1>6, <1>7, <1>8, <1>9 DEF h, s

LEMMA OneEntryNext ==
    ASSUME TypeInv, OneEntry, [Next]_vars
    PROVE  OneEntry'
<1>1. CASE UNCHANGED clients
  BY <1>1 DEF OneEntry
<1>2. CASE HandleMessage \/ HandleQuit
  <2> DEFINE h == Head(srvBuf).src
             s == get_client_index(h)
  <2>1. h \in Hosts
    BY <1>2, Taken DEF HandleMessage, HandleQuit
  <2>2. /\ s \in Slots
        /\ \A t \in Slots \ {s} : clients[t].used => clients[t].ip # h
        /\ \A t \in Slots \ {s} : clients'[t] = clients[t]
        /\ \/ ~clients'[s].used
           \/ clients'[s].used /\ clients'[s].ip = h /\ clients'[s].counter > 0
    BY <1>2, Tabled
  <2> HIDE DEF h, s
  <2> QED BY <2>1, <2>2 DEF OneEntry
<1> QED
  BY <1>1, <1>2, StepKinds DEF Ignore, ClientMove, Quiet, server, Start, Type, Send,
     SendFails, ReceiverPrints, Exit, Killed

-----------------------------------------------------------------------------
(* The packets wait in order *)

LEMMA PacketsNext ==
    ASSUME TypeInv, PacketsInOrder, [Next]_vars
    PROVE  PacketsInOrder'
<1>1. CASE ServerTakes /\ UNCHANGED sent
  BY <1>1, Taken DEF PacketsInOrder
<1>2. CASE /\ UNCHANGED <<srvBuf, sent>>
           /\ \A h \in Hosts : snd'[h] = "send" => snd[h] = "send"
  BY <1>2, Typed DEF PacketsInOrder
<1>3. ASSUME NEW h \in Hosts, NEW k \in Lines, Type(h, k) PROVE PacketsInOrder'
  <2>1. \A i \in 1..Len(srvBuf') :
           LET p == srvBuf'[i] IN
           /\ p.id \in 1..Len(sent'[p.src]) /\ sent'[p.src][p.id] = p.kind
           /\ snd'[p.src] = "send" => p.id < Len(sent'[p.src])
    <3> SUFFICES ASSUME NEW i \in 1..Len(srvBuf)
                 PROVE  LET p == srvBuf[i] IN
                        /\ p.id \in 1..Len(sent'[p.src]) /\ sent'[p.src][p.id] = p.kind
                        /\ snd'[p.src] = "send" => p.id < Len(sent'[p.src])
      BY <1>3, Grown
    <3>1. LET p == srvBuf[i] IN
          /\ p.src \in Hosts /\ p.id \in 1..Len(sent[p.src])
          /\ sent[p.src][p.id] = p.kind
          /\ snd[p.src] = "send" => p.id < Len(sent[p.src])
      BY Typed DEF PacketsInOrder
    <3>2. Len(sent[h]) \in Nat
      BY Typed
    <3>3. CASE srvBuf[i].src = h
      BY <1>3, <3>1, <3>2, <3>3, Grown
    <3>4. CASE srvBuf[i].src # h
      BY <1>3, <3>1, <3>4, Grown, Typed
    <3> QED BY <3>3, <3>4
  <2> QED BY <1>3, <2>1, Grown DEF PacketsInOrder
<1>4. ASSUME NEW h \in Hosts, Send(h) PROVE PacketsInOrder'
  <2>1. /\ UNCHANGED sent /\ snd[h] = "send" /\ snd'[h] # "send"
        /\ \A g \in Hosts : snd'[g] = "send" => snd[g] = "send"
    BY <1>4, Posted, Typed
  <2>2. CASE srvBuf' = srvBuf
    BY <2>1, <2>2, Typed DEF PacketsInOrder
  <2>3. CASE /\ Len(srvBuf') = Len(srvBuf) + 1
             /\ srvBuf'[Len(srvBuf) + 1] =
                  [src |-> h, kind |-> Last(sent[h]), id |-> Len(sent[h])]
             /\ \A i \in 1..Len(srvBuf) : srvBuf'[i] = srvBuf[i]
    <3>1. Len(srvBuf) \in Nat /\ \A i \in 1..Len(srvBuf) : srvBuf[i].src \in Hosts
      BY Typed
    <3>2. Len(sent[h]) \in 1..Len(sent[h]) /\ sent[h][Len(sent[h])] = Last(sent[h])
      BY <1>4, Posted
    <3>3. \A i \in 1..Len(srvBuf) : i \in 1..Len(srvBuf') /\ srvBuf'[i] = srvBuf[i]
      BY <2>3, <3>1
    <3>4. \A i \in 1..Len(srvBuf') : i \in 1..Len(srvBuf) \/ i = Len(srvBuf) + 1
      BY <2>3, <3>1
    <3>5. \A i \in 1..Len(srvBuf') :
             LET p == srvBuf'[i] IN
             /\ p.id \in 1..Len(sent'[p.src]) /\ sent'[p.src][p.id] = p.kind
             /\ snd'[p.src] = "send" => p.id < Len(sent'[p.src])
      BY <2>1, <2>3, <3>1, <3>2, <3>3, <3>4 DEF PacketsInOrder
    <3>6. ASSUME NEW i \in 1..Len(srvBuf'), NEW j \in 1..Len(srvBuf'),
                 i < j, srvBuf'[i].src = srvBuf'[j].src
          PROVE  srvBuf'[i].id < srvBuf'[j].id
      <4>1. i \in 1..Len(srvBuf)
        BY <2>3, <3>1, <3>6
      <4>2. CASE j \in 1..Len(srvBuf)
        BY <3>3, <3>6, <4>1, <4>2 DEF PacketsInOrder
      <4>3. CASE j = Len(srvBuf) + 1
        BY <2>1, <2>3, <3>3, <3>6, <4>1, <4>3 DEF PacketsInOrder
      <4> QED BY <3>4, <4>2, <4>3
    <3> QED BY <3>5, <3>6 DEF PacketsInOrder
  <2> QED BY <1>4, <2>2, <2>3, Posted
<1>5. CASE Ignore \/ HandleQuit \/ HandleMessage
  BY <1>1, <1>5 DEF Ignore, HandleQuit, HandleMessage, history
<1>6. CASE Quiet
  BY <1>2, <1>6 DEF Quiet
<1>7. ASSUME NEW h \in Hosts,
             Start(h) \/ SendFails(h) \/ ReceiverPrints(h) \/ Exit(h) \/ Killed(h)
      PROVE  PacketsInOrder'
  BY <1>2, <1>7, Typed DEF Start, SendFails, ReceiverPrints, Exit, Killed, history
<1> QED BY <1>3, <1>4, <1>5, <1>6, <1>7, StepKinds DEF ClientMove

-----------------------------------------------------------------------------
(* A process that stops without a quit has been seen to *)

LEMMA QuitNext ==
    ASSUME TypeInv, QuitIsLast, [Next]_vars
    PROVE  QuitIsLast'
<1>1. CASE UNCHANGED <<snd, cstop, sent>>
  BY <1>1 DEF QuitIsLast
<1>2. CASE Ignore \/ HandleQuit \/ HandleMessage
  BY <1>1, <1>2, Taken DEF Ignore, HandleQuit, HandleMessage, history
<1>3. ASSUME NEW h \in Hosts, NEW k \in Lines, Type(h, k) PROVE QuitIsLast'
  <2>1. \A g \in Hosts \ {h} : /\ snd'[g] = snd[g] /\ cstop'[g] = cstop[g]
                               /\ sent'[g] = sent[g]
    BY <1>3, Grown, Typed
  <2>2. /\ snd[h] = "type" /\ snd'[h] = "send" /\ cstop'[h] = (cstop[h] \/ k = "quit")
        /\ Last(sent'[h]) = k
    BY <1>3, Grown, Typed
  <2> QED BY <2>1, <2>2 DEF QuitIsLast
<1>4. ASSUME NEW h \in Hosts, Send(h) PROVE QuitIsLast'
  <2>1. /\ \A g \in Hosts \ {h} : snd'[g] = snd[g]
        /\ snd'[h] = (IF cstop[h] THEN "done" ELSE "type") /\ UNCHANGED <<cstop, sent>>
    BY <1>4, Posted, Typed
  <2> QED BY <2>1 DEF QuitIsLast
<1>5. ASSUME NEW h \in Hosts,
             Start(h) \/ SendFails(h) \/ ReceiverPrints(h) \/ Exit(h) \/ Killed(h)
      PROVE  QuitIsLast'
  BY <1>5, Typed DEF QuitIsLast, Start, SendFails, ReceiverPrints, Exit, Killed, history
<1> QED BY <1>1, <1>2, <1>3, <1>4, <1>5, StepKinds DEF ClientMove, Quiet

LEMMA FollowedNext ==
    ASSUME TypeInv, PacketsInOrder, QuitIsLast, MessagesFollowed, [Next]_vars
    PROVE  MessagesFollowed'
<1>1. CASE ServerTakes /\ UNCHANGED abandoned
  <2> SUFFICES ASSUME NEW i \in 1..Len(srvBuf')
               PROVE  LET h == srvBuf'[i].src IN
                      \/ snd'[h] \in {"type", "send"}
                      \/ abandoned'[h]
                      \/ \E j \in i..Len(srvBuf') :
                            srvBuf'[j].src = h /\ srvBuf'[j].kind = "quit"
    BY DEF MessagesFollowed
  <2> DEFINE h == srvBuf[i + 1].src
  <2>1. i + 1 \in 1..Len(srvBuf) /\ srvBuf'[i] = srvBuf[i + 1]
    BY <1>1, Taken
  <2>2. \/ snd[h] \in {"type", "send"}
        \/ abandoned[h]
        \/ \E j \in (i + 1)..Len(srvBuf) : srvBuf[j].src = h /\ srvBuf[j].kind = "quit"
    BY <2>1 DEF MessagesFollowed
  <2>3. ASSUME NEW j \in (i + 1)..Len(srvBuf)
        PROVE  j - 1 \in i..Len(srvBuf') /\ srvBuf'[j - 1] = srvBuf[j]
    BY <1>1, Taken
  <2> QED BY <1>1, <2>1, <2>2, <2>3, Taken
<1>2. CASE HandleQuit
  <2> DEFINE q == Head(srvBuf)
  <2> SUFFICES ASSUME NEW i \in 1..Len(srvBuf')
               PROVE  LET h == srvBuf'[i].src IN
                      \/ snd'[h] \in {"type", "send"}
                      \/ abandoned'[h]
                      \/ \E j \in i..Len(srvBuf') :
                            srvBuf'[j].src = h /\ srvBuf'[j].kind = "quit"
    BY DEF MessagesFollowed
  <2> DEFINE h == srvBuf[i + 1].src
  <2>1. ServerTakes /\ abandoned' = [abandoned EXCEPT ![q.src] = @ /\ q.id # Len(sent[q.src])]
    BY <1>2 DEF HandleQuit
  <2>2. i + 1 \in 1..Len(srvBuf) /\ srvBuf'[i] = srvBuf[i + 1] /\ q = srvBuf[1]
    BY <2>1, Taken
  <2>3. \/ snd[h] \in {"type", "send"}
        \/ abandoned[h]
        \/ \E j \in (i + 1)..Len(srvBuf) : srvBuf[j].src = h /\ srvBuf[j].kind = "quit"
    BY <2>2 DEF MessagesFollowed
  <2>4. ASSUME NEW j \in (i + 1)..Len(srvBuf)
        PROVE  j - 1 \in i..Len(srvBuf') /\ srvBuf'[j - 1] = srvBuf[j]
    BY <2>1, Taken
  <2>5. h \in Hosts /\ abandoned \in [Hosts -> BOOLEAN]
    BY <2>2, Typed
  <2>6. h = q.src => q.id # Len(sent[q.src])
    <3>1. h = q.src => q.id < srvBuf[i + 1].id
      BY <2>1, <2>2, Taken DEF PacketsInOrder
    <3>2. srvBuf[i + 1].id \in 1..Len(sent[h]) /\ q.id \in Nat /\ Len(sent[h]) \in Nat
      BY <2>1, <2>2, <2>5, Taken, Typed DEF PacketsInOrder, Packet
    <3> QED BY <3>1, <3>2
  <2>7. abandoned[h] => abandoned'[h]
    BY <2>1, <2>5, <2>6
  <2> QED BY <2>1, <2>2, <2>3, <2>4, <2>7, Taken
<1>3. ASSUME NEW h \in Hosts, Send(h) PROVE MessagesFollowed'
  <2>1. /\ \A g \in Hosts \ {h} : snd'[g] = snd[g]
        /\ \A g \in Hosts : abandoned[g] => abandoned'[g]
    BY <1>3, Posted, Typed
  <2>2. /\ snd'[h] = (IF cstop[h] THEN "done" ELSE "type") /\ cstop[h] \in BOOLEAN
        /\ cstop[h] => Last(sent[h]) = "quit"
    BY <1>3, Posted, Typed DEF QuitIsLast
  <2>3. CASE srvBuf' = srvBuf
    <3>1. abandoned'[h] \/ snd'[h] = "type"
      BY <1>3, <2>2, <2>3, Posted
    <3>2. \A i \in 1..Len(srvBuf) : srvBuf[i].src \in Hosts
      BY Typed
    <3> QED BY <2>1, <2>3, <3>1, <3>2 DEF MessagesFollowed
  <2>4. CASE /\ Len(srvBuf') = Len(srvBuf) + 1
             /\ srvBuf'[Len(srvBuf) + 1] =
                  [src |-> h, kind |-> Last(sent[h]), id |-> Len(sent[h])]
             /\ \A i \in 1..Len(srvBuf) : srvBuf'[i] = srvBuf[i]
    <3> DEFINE n == Len(srvBuf) + 1
    <3>1. /\ Len(srvBuf) \in Nat
          /\ \A i \in 1..Len(srvBuf) : srvBuf[i].src \in Hosts
          /\ srvBuf'[n].src = h /\ srvBuf'[n].kind = Last(sent[h])
      <4>1. srvBuf'[n].src = h /\ srvBuf'[n].kind = Last(sent[h])
        BY <2>4
      <4> QED BY <4>1, Typed
    <3>2. \A i \in 1..Len(srvBuf') : i \in 1..Len(srvBuf) \/ i = n
      BY <2>4, <3>1
    <3>3. \A i \in 1..Len(srvBuf') : n \in i..Len(srvBuf')
      BY <2>4, <3>1
    <3>4. \A i \in 1..Len(srvBuf'), j \in 1..Len(srvBuf) :
             i <= j => j \in i..Len(srvBuf') /\ srvBuf'[j] = srvBuf[j]
      BY <2>4, <3>1
    <3>5. ASSUME NEW i \in 1..Len(srvBuf'), srvBuf'[i].src = h
          PROVE  \/ snd'[h] = "type"
                 \/ \E j \in i..Len(srvBuf') : srvBuf'[j].src = h /\ srvBuf'[j].kind = "quit"
      BY <2>2, <3>1, <3>3
    <3>6. ASSUME NEW i \in 1..Len(srvBuf'), srvBuf'[i].src # h
          PROVE  LET g == srvBuf'[i].src IN
                 \/ snd'[g] \in {"type", "send"}
                 \/ abandoned'[g]
                 \/ \E j \in i..Len(srvBuf') : srvBuf'[j].src = g /\ srvBuf'[j].kind = "quit"
      <4>1. i \in 1..Len(srvBuf) /\ srvBuf'[i] = srvBuf[i] /\ srvBuf[i].src \in Hosts
        BY <2>4, <3>1, <3>2, <3>6
      <4>2. \/ snd[srvBuf[i].src] \in {"type", "send"}
            \/ abandoned[srvBuf[i].src]
            \/ \E j \in i..Len(srvBuf) :
                  srvBuf[j].src = srvBuf[i].src /\ srvBuf[j].kind = "quit"
        BY <4>1 DEF MessagesFollowed
      <4>3. ASSUME NEW j \in i..Len(srvBuf) PROVE j \in i..Len(srvBuf') /\ srvBuf'[j] = srvBuf[j]
        BY <3>1, <3>4
      <4> QED BY <2>1, <3>6, <4>1, <4>2, <4>3
    <3> QED BY <3>5, <3>6 DEF MessagesFollowed
  <2> QED BY <1>3, <2>3, <2>4, Posted
<1>4. CASE Ignore \/ HandleMessage
  BY <1>1, <1>4 DEF Ignore, HandleMessage, history
<1>5. ASSUME NEW h \in Hosts, NEW k \in Lines, Type(h, k) PROVE MessagesFollowed'
  <2>1. /\ UNCHANGED <<srvBuf, abandoned>>
        /\ \A g \in Hosts : snd[g] \in {"type", "send"} => snd'[g] \in {"type", "send"}
    BY <1>5, Grown, Typed
  <2> QED BY <2>1, Typed DEF MessagesFollowed
<1>6. ASSUME NEW h \in Hosts,
             Start(h) \/ SendFails(h) \/ ReceiverPrints(h) \/ Exit(h) \/ Killed(h)
      PROVE  MessagesFollowed'
  <2>1. /\ srvBuf' = srvBuf
        /\ \A g \in Hosts : \/ snd'[g] = snd[g] \/ snd'[g] = "type"
                            \/ snd[g] = "done" \/ abandoned'[g]
        /\ \A g \in Hosts : abandoned[g] => abandoned'[g]
    BY <1>6, Typed DEF Start, SendFails, ReceiverPrints, Exit, Killed, history
  <2> QED BY <2>1, Typed DEF MessagesFollowed
<1>7. CASE Quiet
  BY <1>7 DEF Quiet, MessagesFollowed
<1> QED BY <1>2, <1>3, <1>4, <1>5, <1>6, <1>7, StepKinds DEF ClientMove

LEMMA ReturnedNext ==
    ASSUME TableInv, [Next]_vars
    PROVE  EntriesReturned'
<1> USE DEF TableInv
<1>1. \A s \in Slots : clients[s].used => clients[s].ip \in Hosts
  BY DEF OneEntry
<1>2. CASE Ignore
  <2>1. ServerTakes /\ get_client_index(Head(srvBuf).src) = -1
        /\ UNCHANGED <<clients, abandoned, snd>>
    BY <1>2 DEF Ignore, ServerTakes, threads, history
  <2>2. EntriesOf(Head(srvBuf).src) = {}
    <3> DEFINE h == Head(srvBuf).src
    <3>1. EntriesOf(h) \in SUBSET Nat
      BY EchoAssumption DEF EntriesOf, Slots
    <3>2. EntriesOf(h) # {} => Min(EntriesOf(h)) \in Nat
      BY <3>1, MinIn
    <3> QED BY <2>1, <3>2 DEF get_client_index
  <2>3. \A s \in Slots : clients[s].used => clients[s].ip # Head(srvBuf).src
    BY <2>2 DEF EntriesOf
  <2>4. ASSUME NEW s \in Slots, clients[s].used,
               NEW i \in 1..Len(srvBuf), srvBuf[i].src = clients[s].ip
        PROVE  i - 1 \in 1..Len(srvBuf') /\ srvBuf'[i - 1] = srvBuf[i]
    BY <2>1, <2>3, <2>4, Taken
  <2> QED BY <2>1, <2>4 DEF EntriesReturned
<1>3. CASE HandleQuit
  <2> DEFINE h == Head(srvBuf).src
             s == get_client_index(h)
  <2>1. ServerTakes /\ h \in Hosts /\ UNCHANGED snd
    BY <1>3, Taken DEF HandleQuit
  <2>2. /\ ~clients'[s].used
        /\ \A t \in Slots \ {s} : clients[t].used => clients[t].ip # h
        /\ \A t \in Slots \ {s} : clients'[t] = clients[t]
    BY <1>3, Tabled
  <2>3. \A g \in Hosts \ {h} : abandoned'[g] = abandoned[g]
    BY <1>3, Typed DEF HandleQuit
  <2>4. ASSUME NEW t \in Slots \ {s}, clients[t].used,
               NEW i \in 1..Len(srvBuf), srvBuf[i].src = clients[t].ip
        PROVE  i - 1 \in 1..Len(srvBuf') /\ srvBuf'[i - 1] = srvBuf[i]
    <3>1. i # 1
      BY <2>1, <2>2, <2>4, Taken
    <3> QED BY <2>1, <3>1, Taken
  <2> HIDE DEF h, s
  <2> QED BY <1>1, <2>1, <2>2, <2>3, <2>4 DEF EntriesReturned
<1>4. CASE HandleMessage
  <2> DEFINE h == Head(srvBuf).src
             s == get_client_index(h)
  <2>1. /\ ServerTakes /\ h \in Hosts /\ UNCHANGED <<snd, abandoned>>
        /\ Head(srvBuf) = srvBuf[1] /\ Head(srvBuf).kind = "msg" /\ 1 \in 1..Len(srvBuf)
        /\ Len(srvBuf) \in Nat
    BY <1>4, Taken DEF HandleMessage, history
  <2>2. /\ clients'[s].ip = h
        /\ \A t \in Slots \ {s} : clients[t].used => clients[t].ip # h
        /\ \A t \in Slots \ {s} : clients'[t] = clients[t]
    BY <1>4, Tabled
  <2>3. \A i \in 1..Len(srvBuf) : srvBuf[i].kind = "quit" =>
           i - 1 \in 1..Len(srvBuf') /\ srvBuf'[i - 1] = srvBuf[i]
    <3> TAKE i \in 1..Len(srvBuf)
    <3> HAVE srvBuf[i].kind = "quit"
    <3>1. i \in 2..Len(srvBuf)
      BY <2>1
    <3> QED BY <2>1, <3>1, Taken
  <2>4. \/ snd[h] \in {"type", "send"} \/ abandoned[h]
        \/ \E i \in 1..Len(srvBuf) : srvBuf[i].src = h /\ srvBuf[i].kind = "quit"
    BY <2>1 DEF MessagesFollowed
  <2> HIDE DEF h, s
  <2>5. \A i \in 1..Len(srvBuf) : srvBuf[i].kind = "quit" =>
           \E j \in 1..Len(srvBuf') : srvBuf'[j] = srvBuf[i]
    BY <2>3
  <2>6. ASSUME NEW t \in Slots, clients'[t].used
        PROVE  LET g == clients'[t].ip IN
               \/ snd[g] \in {"type", "send"} \/ abandoned[g]
               \/ \E i \in 1..Len(srvBuf) : srvBuf[i].src = g /\ srvBuf[i].kind = "quit"
    <3>1. CASE t = s
      BY <2>2, <2>4, <3>1
    <3>2. CASE t # s
      BY <2>2, <2>6, <3>2 DEF EntriesReturned
    <3> QED BY <3>1, <3>2
  <2> QED BY <2>1, <2>5, <2>6 DEF EntriesReturned
<1>5. ASSUME NEW h \in Hosts, Send(h) PROVE EntriesReturned'
  <2>1. /\ \A g \in Hosts \ {h} : snd'[g] = snd[g]
        /\ \A g \in Hosts : abandoned[g] => abandoned'[g]
        /\ UNCHANGED clients
        /\ snd'[h] = (IF cstop[h] THEN "done" ELSE "type") /\ cstop[h] \in BOOLEAN
        /\ cstop[h] => Last(sent[h]) = "quit"
    BY <1>5, Posted, Typed DEF QuitIsLast
  <2>2. CASE srvBuf' = srvBuf
    <3>1. abandoned'[h] \/ snd'[h] = "type"
      BY <1>5, <2>1, <2>2, Posted
    <3> QED BY <1>1, <2>1, <2>2, <3>1 DEF EntriesReturned
  <2>3. CASE /\ Len(srvBuf') = Len(srvBuf) + 1
             /\ srvBuf'[Len(srvBuf) + 1] =
                  [src |-> h, kind |-> Last(sent[h]), id |-> Len(sent[h])]
             /\ \A i \in 1..Len(srvBuf) : srvBuf'[i] = srvBuf[i]
    <3>1. /\ \A i \in 1..Len(srvBuf) : i \in 1..Len(srvBuf')
          /\ Len(srvBuf) + 1 \in 1..Len(srvBuf')
          /\ srvBuf'[Len(srvBuf) + 1].src = h
          /\ srvBuf'[Len(srvBuf) + 1].kind = Last(sent[h])
      BY <2>3, Typed
    <3> QED BY <1>1, <2>1, <2>3, <3>1 DEF EntriesReturned
  <2> QED BY <1>5, <2>2, <2>3, Posted
<1>6. ASSUME NEW h \in Hosts, NEW k \in Lines, Type(h, k) PROVE EntriesReturned'
  <2>1. /\ UNCHANGED <<clients, srvBuf, abandoned>>
        /\ \A g \in Hosts : snd[g] \in {"type", "send"} => snd'[g] \in {"type", "send"}
    BY <1>6, Grown, Typed
  <2> QED BY <1>1, <2>1 DEF EntriesReturned
<1>7. ASSUME NEW h \in Hosts,
             Start(h) \/ SendFails(h) \/ ReceiverPrints(h) \/ Exit(h) \/ Killed(h)
      PROVE  EntriesReturned'
  <2>1. /\ UNCHANGED <<clients, srvBuf>>
        /\ \A g \in Hosts : \/ snd'[g] = snd[g] \/ snd'[g] = "type"
                            \/ snd[g] = "done" \/ abandoned'[g]
        /\ \A g \in Hosts : abandoned[g] => abandoned'[g]
    BY <1>7, Typed DEF Start, SendFails, ReceiverPrints, Exit, Killed, history, server
  <2> QED BY <1>1, <2>1, Typed DEF EntriesReturned
<1>8. CASE Quiet
  BY <1>8 DEF Quiet, EntriesReturned
<1> QED BY <1>2, <1>3, <1>4, <1>5, <1>6, <1>7, <1>8, StepKinds DEF ClientMove

LEMMA TableInit == Init => TableInv
<1> SUFFICES ASSUME Init PROVE TableInv
  OBVIOUS
<1>1. TypeInv /\ Len(srvBuf) = 0
  BY TypeInit, EmptySeq DEF Init
<1>2. \A s \in Slots : ~clients[s].used
  BY DEF Init, Unused
<1>3. \A h \in Hosts : snd[h] = "off" /\ ~cstop[h]
  BY DEF Init
<1> QED BY <1>1, <1>2, <1>3 DEF TableInv, OneEntry, PacketsInOrder, QuitIsLast,
           MessagesFollowed, EntriesReturned

LEMMA TableNext == TableInv /\ [Next]_vars => TableInv'
  BY TypeNext, OneEntryNext, PacketsNext, QuitNext, FollowedNext, ReturnedNext
  DEF TableInv

\* No host ever has two entries of the table, and every entry in use has
\* counted a message of a host: get_client_index looks before it takes.
THEOREM EchoOneEntry == Spec => []OneEntry
<1>1. TableInv => OneEntry
  BY DEF TableInv
<1> QED BY <1>1, TableInit, TableNext, PTL DEF Spec

\* Quitting gives the entry back, however the packets of the hosts interleave:
\* an entry in use belongs to a client that may still send, to a quit that
\* waits in the socket, or to a host that left without one.
THEOREM EchoEntriesReturned == Spec => []EntriesReturned
<1>1. TableInv => EntriesReturned
  BY DEF TableInv
<1> QED BY <1>1, TableInit, TableNext, PTL DEF Spec

-----------------------------------------------------------------------------
(* The replies come in order *)

LEMMA PassedStays ==
    ASSUME TypeInv, [Next]_vars, NEW h \in Hosts, NEW m \in Nat, Passed(h, m)
    PROVE  Passed(h, m)' /\ sent'[h][m] = sent[h][m]
<1> USE DEF Passed
<1>1. Len(sent[h]) \in Nat /\ Len(srvBuf) \in Nat
  BY Typed
<1>2. CASE Ignore \/ HandleQuit \/ HandleMessage
  <2>1. ServerTakes /\ UNCHANGED sent
    BY <1>2 DEF Ignore, HandleQuit, HandleMessage, history
  <2> QED BY <2>1, Taken
<1>3. ASSUME NEW g \in Hosts, NEW k \in Lines, Type(g, k)
      PROVE  Passed(h, m)' /\ sent'[h][m] = sent[h][m]
  <2>1. CASE g = h
    BY <1>1, <1>3, <2>1, Grown
  <2>2. CASE g # h
    BY <1>3, <2>2, Grown, Typed
  <2> QED BY <2>1, <2>2
<1>4. ASSUME NEW g \in Hosts, Send(g)
      PROVE  Passed(h, m)' /\ sent'[h][m] = sent[h][m]
  <2>1. /\ UNCHANGED sent /\ snd[g] = "send"
        /\ snd'[h] = "send" => snd[h] = "send"
    BY <1>4, Posted, Typed
  <2>2. CASE srvBuf' = srvBuf
    BY <2>1, <2>2
  <2>3. CASE /\ Len(srvBuf') = Len(srvBuf) + 1
             /\ srvBuf'[Len(srvBuf) + 1] =
                  [src |-> g, kind |-> Last(sent[g]), id |-> Len(sent[g])]
             /\ \A i \in 1..Len(srvBuf) : srvBuf'[i] = srvBuf[i]
    <3> SUFFICES ASSUME NEW i \in 1..Len(srvBuf'), srvBuf'[i].src = h
                 PROVE  m < srvBuf'[i].id
      BY <2>1
    <3>1. CASE i \in 1..Len(srvBuf)
      BY <2>3, <3>1
    <3>2. CASE i = Len(srvBuf) + 1
      <4>1. g = h /\ srvBuf'[i].id = Len(sent[h])
        BY <2>3, <3>2
      <4> QED BY <2>1, <4>1
    <3> QED BY <1>1, <2>3, <3>1, <3>2
  <2> QED BY <1>4, <2>2, <2>3, Posted
<1>5. ASSUME NEW g \in Hosts,
             Start(g) \/ SendFails(g) \/ ReceiverPrints(g) \/ Exit(g) \/ Killed(g)
      PROVE  Passed(h, m)' /\ sent'[h][m] = sent[h][m]
  <2>1. UNCHANGED <<srvBuf, sent>> /\ (snd'[h] = "send" => snd[h] = "send")
    BY <1>5, Typed DEF Start, SendFails, ReceiverPrints, Exit, Killed, history
  <2> QED BY <2>1
<1>6. CASE Quiet
  BY <1>6 DEF Quiet
<1> QED BY <1>2, <1>3, <1>4, <1>5, <1>6, StepKinds DEF ClientMove

\* The packet the server takes is passed with it.
LEMMA HeadPassed ==
    ASSUME TypeInv, PacketsInOrder, ServerTakes, UNCHANGED sent,
           NEW h \in Hosts, NEW m \in Nat, h = Head(srvBuf).src, m = Head(srvBuf).id
    PROVE  Passed(h, m)' /\ sent'[h][m] = Head(srvBuf).kind
<1>1. /\ m \in 1..Len(sent[h]) /\ sent[h][m] = Head(srvBuf).kind
      /\ snd[h] = "send" => m < Len(sent[h])
  BY Taken DEF PacketsInOrder
<1>2. \A i \in 1..Len(srvBuf') : srvBuf'[i].src = h => m < srvBuf'[i].id
  BY Taken DEF PacketsInOrder
<1> QED BY <1>1, <1>2, Taken DEF Passed

LEMMA AccountedStays ==
    ASSUME TableInv, [Next]_vars, NEW h \in Hosts, NEW r \in Reply, Accounted(h, r)
    PROVE  Accounted(h, r)'
<1> USE DEF TableInv
<1>1. /\ Passed(h, r.id) /\ sent[h][r.id] = "msg" /\ r.id \in Nat /\ r.n \in Nat
      /\ \/ \E s \in Slots : clients[s].used /\ clients[s].ip = h /\ r.n <= clients[s].counter
         \/ \E m \in Nat : r.id <= m /\ Passed(h, m) /\ sent[h][m] = "quit"
  BY DEF Accounted, Reply
<1>2. Passed(h, r.id)' /\ sent'[h][r.id] = "msg"
  BY <1>1, PassedStays
<1>3. CASE \E m \in Nat : r.id <= m /\ Passed(h, m) /\ sent[h][m] = "quit"
  <2>1. PICK m \in Nat : r.id <= m /\ Passed(h, m) /\ sent[h][m] = "quit"
    BY <1>3
  <2>2. Passed(h, m)' /\ sent'[h][m] = "quit"
    BY <2>1, PassedStays
  <2> QED BY <1>2, <2>1, <2>2 DEF Accounted
<1>4. ASSUME NEW s \in Slots, clients[s].used, clients[s].ip = h, r.n <= clients[s].counter
      PROVE  Accounted(h, r)'
  <2>1. CASE UNCHANGED clients
    BY <1>2, <1>4, <2>1 DEF Accounted
  <2>2. CASE HandleQuit
    <3>1. CASE Head(srvBuf).src = h
      <4>1. PICK m \in Nat : m = Head(srvBuf).id
        BY <2>2, Taken DEF HandleQuit, Packet
      <4>2. ServerTakes /\ UNCHANGED sent /\ Head(srvBuf).kind = "quit"
        BY <2>2 DEF HandleQuit
      <4>3. Passed(h, m)' /\ sent'[h][m] = "quit"
        BY <3>1, <4>1, <4>2, HeadPassed
      <4>4. r.id < m
        BY <1>1, <3>1, <4>1, <4>2, Taken DEF Passed
      <4> QED BY <1>1, <1>2, <4>3, <4>4 DEF Accounted
    <3>2. CASE Head(srvBuf).src # h
      <4>1. clients'[s] = clients[s]
        BY <1>4, <2>2, <3>2, Tabled
      <4> QED BY <1>2, <1>4, <4>1 DEF Accounted
    <3> QED BY <3>1, <3>2
  <2>3. CASE HandleMessage
    <3> DEFINE g == Head(srvBuf).src
               t == get_client_index(g)
    <3>1. /\ t \in Slots /\ (clients[t].used => clients[t].ip = g)
          /\ \A u \in Slots \ {t} : clients'[u] = clients[u]
          /\ clients'[t].used /\ clients'[t].ip = g
          /\ clients'[t].counter = (IF clients[t].used THEN clients[t].counter ELSE 0) + 1
      BY <2>3, Tabled
    <3>2. clients[s].counter \in Nat
      BY Typed DEF Entry
    <3> HIDE DEF g, t
    <3>3. clients'[s].used /\ clients'[s].ip = h /\ r.n <= clients'[s].counter
      <4>1. CASE s = t
        BY <1>1, <1>4, <3>1, <3>2, <4>1
      <4>2. CASE s # t
        BY <1>4, <3>1, <4>2
      <4> QED BY <4>1, <4>2
    <3> QED BY <1>2, <3>3 DEF Accounted
  <2> QED
    BY <2>1, <2>2, <2>3, StepKinds DEF Ignore, ClientMove, Quiet, server, Start, Type,
       Send, SendFails, ReceiverPrints, Exit, Killed
<1> QED BY <1>1, <1>3, <1>4

LEMMA BeforeStays ==
    ASSUME TableInv, [Next]_vars, NEW h \in Hosts, NEW q \in Reply, NEW r \in Reply,
           Accounted(h, q), Accounted(h, r), Before(h, q, r)
    PROVE  Before(h, q, r)'
<1>1. q.id \in 1..Len(sent[h]) /\ r.id \in 1..Len(sent[h]) /\ Len(sent[h]) \in Nat
  BY Typed DEF Accounted, Passed, Reply, TableInv
<1>2. \A m \in 1..Len(sent[h]) : sent'[h][m] = sent[h][m]
  <2>1. ASSUME NEW k \in Lines, Type(h, k)
        PROVE  \A m \in 1..Len(sent[h]) : sent'[h][m] = sent[h][m]
    BY <2>1, Grown DEF TableInv
  <2>2. ASSUME NEW g \in Hosts, NEW k \in Lines, Type(g, k), g # h
        PROVE  sent'[h] = sent[h]
    BY <2>2, Grown DEF TableInv
  <2>3. ASSUME NEW g \in Hosts, ClientMove(g), ~ \E k \in Lines : Type(g, k)
        PROVE  UNCHANGED sent
    BY <2>3 DEF ClientMove, Start, Send, SendFails, ReceiverPrints, Exit, Killed, history
  <2>4. CASE Ignore \/ HandleQuit \/ HandleMessage \/ Quiet
    BY <2>4 DEF Ignore, HandleQuit, HandleMessage, Quiet, history
  <2> QED BY <2>1, <2>2, <2>3, <2>4, StepKinds
<1> QED BY <1>1, <1>2 DEF Before

\* The reply to the packet the server takes: it counts more than any reply
\* before it, or the server has forgotten the host in between.
LEMMA NewReply ==
    ASSUME TableInv, [Next]_vars, HandleMessage,
           NEW h \in Hosts, h = Head(srvBuf).src
    PROVE  \E r \in Reply :
              /\ r.dst = h
              /\ \A g \in Hosts :
                    \/ cliBuf'[g] = cliBuf[g]
                    \/ cliBuf'[g] = Append(cliBuf[g], r)
              /\ cliBuf' = [g \in Hosts |-> cliBuf'[g]]
              /\ Accounted(h, r)'
              /\ \A q \in Reply : Accounted(h, q) => Before(h, q, r)'
<1> USE DEF TableInv
<1> DEFINE p == Head(srvBuf)
           s == get_client_index(p.src)
           e == [Registered(s, p.src) EXCEPT !.counter = @ + 1]
<1>1. /\ ServerTakes /\ UNCHANGED sent /\ p.kind = "msg" /\ p.src = h
      /\ clients' = [clients EXCEPT ![s] = e]
      /\ cliBuf' \in Deliveries(p.src, create_reply_packet(p, e.counter))
  BY DEF HandleMessage, history
<1>2. /\ s \in Slots /\ (clients[s].used => clients[s].ip = h)
      /\ \A t \in Slots \ {s} : clients[t].used => clients[t].ip # h
      /\ clients'[s].used /\ clients'[s].ip = h /\ clients'[s].counter \in Nat \ {0}
      /\ clients'[s].counter = (IF clients[s].used THEN clients[s].counter ELSE 0) + 1
  BY <1>1, Tabled
<1>3. clients'[s] = e
  BY <1>1, <1>2, Typed
<1>4. PICK n \in Nat : n = e.counter
  BY <1>2, <1>3
<1>5. PICK i \in Nat : i = p.id
  BY <1>1, Taken DEF Packet
<1> DEFINE r == [dst |-> h, id |-> i, n |-> n]
<1>6. r \in Reply /\ create_reply_packet(p, e.counter) = r
  BY <1>1, <1>4, <1>5 DEF create_reply_packet, Reply
<1>7. /\ \A g \in Hosts : cliBuf'[g] = cliBuf[g] \/ cliBuf'[g] = Append(cliBuf[g], r)
      /\ cliBuf' = [g \in Hosts |-> cliBuf'[g]]
  <2>1. cliBuf' \in Deliveries(h, r)
    BY <1>1, <1>6
  <2> HIDE DEF r
  <2> QED BY <1>6, <2>1, Delivered
<1>8. Passed(h, i)' /\ sent'[h][i] = "msg"
  BY <1>1, <1>5, HeadPassed
<1>9. Accounted(h, r)'
  <2>1. r.id = i /\ r.n = n
    OBVIOUS
  <2>2. clients'[s].counter = n /\ n <= n
    BY <1>3, <1>4
  <2> HIDE DEF r, s, e
  <2> QED BY <1>2, <1>8, <2>1, <2>2 DEF Accounted
<1>10. ASSUME NEW q \in Reply, Accounted(h, q)
       PROVE  Before(h, q, r)'
  <2>1. q.id < i /\ q.id \in Nat /\ q.n \in Nat
    BY <1>1, <1>5, <1>10, Taken DEF Accounted, Passed, Reply
  <2>2. CASE \E t \in Slots : clients[t].used /\ clients[t].ip = h /\ q.n <= clients[t].counter
    <3>1. clients[s].used /\ q.n <= clients[s].counter
      BY <1>2, <2>2
    <3>2. clients[s].counter \in Nat /\ n = clients[s].counter + 1
      BY <1>2, <1>3, <1>4, <3>1, Typed DEF Entry
    <3> QED BY <2>1, <3>1, <3>2 DEF Before
  <2>3. CASE \E m \in Nat : q.id <= m /\ Passed(h, m) /\ sent[h][m] = "quit"
    <3>1. PICK m \in Nat : q.id <= m /\ Passed(h, m) /\ sent[h][m] = "quit"
      BY <2>3
    <3>2. m < i
      BY <1>1, <1>5, <3>1, Taken DEF Passed
    <3>3. m \in q.id..i /\ sent'[h][m] = "quit"
      BY <1>1, <2>1, <3>1, <3>2
    <3> QED BY <2>1, <3>3 DEF Before
  <2> QED BY <1>10, <2>2, <2>3 DEF Accounted
<1> HIDE DEF r
<1>11. r.dst = h
  BY DEF r
<1> QED BY <1>6, <1>7, <1>9, <1>10, <1>11

\* The replies on the way and on the screen are replies.
LEMMA TypedReplies ==
    ASSUME TypeInv
    PROVE  /\ cliBuf \in [Hosts -> Seq(Reply)] /\ shown \in [Hosts -> Seq(Reply)]
           /\ \A h \in Hosts :
                 /\ cliBuf[h] \in Seq(Reply) /\ Len(cliBuf[h]) \in Nat
                 /\ shown[h] \in Seq(Reply) /\ Len(shown[h]) \in Nat
                 /\ \A i \in 1..Len(cliBuf[h]) : cliBuf[h][i] \in Reply
                 /\ \A i \in 1..Len(shown[h]) : shown[h][i] \in Reply
<1>1. cliBuf \in [Hosts -> Seq(Reply)] /\ shown \in [Hosts -> Seq(Reply)]
  BY DEF TypeInv, TypeOK, Reply
<1>2. \A h \in Hosts : cliBuf[h] \in Seq(Reply) /\ shown[h] \in Seq(Reply)
  BY <1>1
<1> QED BY <1>1, <1>2, LenProperties, ElementOfSeq

LEMMA OldReplies ==
    ASSUME TableInv, [Next]_vars, NEW h \in Hosts
    PROVE  /\ \A r \in Reply : Accounted(h, r) => Accounted(h, r)'
           /\ \A q, r \in Reply :
                 Accounted(h, q) /\ Accounted(h, r) /\ Before(h, q, r) => Before(h, q, r)'
  BY AccountedStays, BeforeStays

LEMMA SameReplies ==
    ASSUME TableInv, [Next]_vars, NEW h \in Hosts, RepliesOf(h),
           shown'[h] = shown[h], cliBuf'[h] = cliBuf[h]
    PROVE  RepliesOf(h)'
<1>1. /\ \A i \in 1..Len(shown[h]) : shown[h][i] \in Reply
      /\ \A i \in 1..Len(cliBuf[h]) : cliBuf[h][i] \in Reply
  BY TypedReplies DEF TableInv
<1>2. /\ \A i \in 1..Len(shown'[h]) : shown'[h][i].dst = h /\ Accounted(h, shown[h][i])'
      /\ \A i \in 1..Len(cliBuf'[h]) : cliBuf'[h][i].dst = h => Accounted(h, cliBuf[h][i])'
  BY <1>1, OldReplies DEF RepliesOf
<1>3. \A i, j \in 1..Len(shown'[h]) : i < j => Before(h, shown[h][i], shown[h][j])'
  BY <1>1, OldReplies DEF RepliesOf
<1>4. \A i \in 1..Len(shown'[h]), j \in 1..Len(cliBuf'[h]) :
         cliBuf'[h][j].dst = h => Before(h, shown[h][i], cliBuf[h][j])'
  BY <1>1, OldReplies DEF RepliesOf
<1>5. \A i, j \in 1..Len(cliBuf'[h]) :
         i < j /\ cliBuf'[h][i].dst = h /\ cliBuf'[h][j].dst = h
            => Before(h, cliBuf[h][i], cliBuf[h][j])'
  BY <1>1, OldReplies DEF RepliesOf
<1> QED BY <1>2, <1>3, <1>4, <1>5 DEF RepliesOf

\* One more reply in the socket, to this host or to another.
LEMMA MoreReplies ==
    ASSUME TableInv, [Next]_vars, NEW h \in Hosts, RepliesOf(h), shown'[h] = shown[h],
           NEW r \in Reply, cliBuf'[h] = Append(cliBuf[h], r),
           r.dst = h => /\ Accounted(h, r)'
                        /\ \A q \in Reply : Accounted(h, q) => Before(h, q, r)'
    PROVE  RepliesOf(h)'
<1>1. /\ \A i \in 1..Len(shown[h]) : shown[h][i] \in Reply
      /\ \A i \in 1..Len(cliBuf[h]) : cliBuf[h][i] \in Reply
      /\ cliBuf[h] \in Seq(Reply)
  BY TypedReplies DEF TableInv
<1> DEFINE n == Len(cliBuf[h]) + 1
<1>2. /\ Len(cliBuf[h]) \in Nat /\ Len(cliBuf'[h]) = n /\ cliBuf'[h][n] = r
      /\ \A i \in 1..Len(cliBuf[h]) : cliBuf'[h][i] = cliBuf[h][i]
  <2>1. /\ Len(cliBuf[h]) \in Nat /\ Len(Append(cliBuf[h], r)) = n
        /\ Append(cliBuf[h], r)[n] = r
        /\ \A i \in 1..Len(cliBuf[h]) : Append(cliBuf[h], r)[i] = cliBuf[h][i]
    BY <1>1, AppendIndex
  <2> QED BY <2>1
<1>3. \A i \in 1..Len(cliBuf'[h]) : i \in 1..Len(cliBuf[h]) \/ i = n
  BY <1>2
<1> HIDE DEF n
<1>4. \A i \in 1..Len(shown'[h]) : shown'[h][i].dst = h /\ Accounted(h, shown[h][i])'
  BY <1>1, OldReplies DEF RepliesOf
<1>5. \A i \in 1..Len(cliBuf'[h]) : cliBuf'[h][i].dst = h => Accounted(h, cliBuf[h][i])'
  BY <1>1, <1>2, <1>3, OldReplies DEF RepliesOf
<1>6. \A i, j \in 1..Len(shown'[h]) : i < j => Before(h, shown[h][i], shown[h][j])'
  BY <1>1, OldReplies DEF RepliesOf
<1>7. \A i \in 1..Len(shown'[h]), j \in 1..Len(cliBuf'[h]) :
         cliBuf'[h][j].dst = h => Before(h, shown[h][i], cliBuf[h][j])'
  <2> SUFFICES ASSUME NEW i \in 1..Len(shown[h]), NEW j \in 1..Len(cliBuf'[h]),
                      cliBuf'[h][j].dst = h
               PROVE  Before(h, shown[h][i], cliBuf[h][j])'
    OBVIOUS
  <2>1. CASE j \in 1..Len(cliBuf[h])
    BY <1>1, <1>2, <2>1, OldReplies DEF RepliesOf
  <2>2. CASE j = n
    BY <1>1, <1>2, <2>2 DEF RepliesOf
  <2> QED BY <1>3, <2>1, <2>2
<1>8. \A i, j \in 1..Len(cliBuf'[h]) :
         i < j /\ cliBuf'[h][i].dst = h /\ cliBuf'[h][j].dst = h
            => Before(h, cliBuf[h][i], cliBuf[h][j])'
  <2> SUFFICES ASSUME NEW i \in 1..Len(cliBuf'[h]), NEW j \in 1..Len(cliBuf'[h]),
                      i < j, cliBuf'[h][i].dst = h, cliBuf'[h][j].dst = h
               PROVE  Before(h, cliBuf[h][i], cliBuf[h][j])'
    OBVIOUS
  <2>1. i \in 1..Len(cliBuf[h]) /\ cliBuf'[h][i] = cliBuf[h][i]
    BY <1>2 DEF n
  <2>2. CASE j \in 1..Len(cliBuf[h])
    BY <1>1, <1>2, <2>1, <2>2, OldReplies DEF RepliesOf
  <2>3. CASE j = n
    BY <1>1, <1>2, <2>1, <2>3 DEF RepliesOf
  <2> QED BY <1>3, <2>2, <2>3
<1> QED BY <1>4, <1>5, <1>6, <1>7, <1>8 DEF RepliesOf

\* The receiver takes the first reply from its socket and prints it if it is
\* for its host.
LEMMA PrintedReplies ==
    ASSUME TableInv, [Next]_vars, NEW h \in Hosts, RepliesOf(h), ReceiverPrints(h)
    PROVE  RepliesOf(h)'
<1> DEFINE r == cliBuf[h][1]
           n == Len(shown[h]) + 1
<1>1. /\ \A i \in 1..Len(shown[h]) : shown[h][i] \in Reply
      /\ \A i \in 1..Len(cliBuf[h]) : cliBuf[h][i] \in Reply
      /\ cliBuf[h] \in Seq(Reply) /\ shown[h] \in Seq(Reply) /\ cliBuf[h] # <<>>
      /\ Len(shown[h]) \in Nat
  BY TypedReplies DEF TableInv, ReceiverPrints
<1>2. /\ Len(cliBuf[h]) \in Nat \ {0} /\ Head(cliBuf[h]) = r
      /\ \A i \in 1..Len(Tail(cliBuf[h])) :
            i + 1 \in 1..Len(cliBuf[h]) /\ Tail(cliBuf[h])[i] = cliBuf[h][i + 1]
  BY <1>1, TailIndex
<1>3. /\ cliBuf'[h] = Tail(cliBuf[h])
      /\ shown'[h] = (IF r.dst = h THEN Append(shown[h], r) ELSE shown[h])
  BY <1>2, TypedReplies DEF ReceiverPrints, TableInv
<1>4. r \in Reply /\ 1 \in 1..Len(cliBuf[h])
  BY <1>1, <1>2
<1>5. /\ Len(Append(shown[h], r)) = n /\ Append(shown[h], r)[n] = r
      /\ \A i \in 1..Len(shown[h]) : Append(shown[h], r)[i] = shown[h][i]
  BY <1>1, <1>4, AppendIndex
<1>6. \A i \in 1..Len(cliBuf'[h]) :
         i + 1 \in 2..Len(cliBuf[h]) /\ cliBuf'[h][i] = cliBuf[h][i + 1]
  BY <1>2, <1>3
\* What is shown afterwards was shown or first in the socket.
<1>7. \A i \in 1..Len(shown'[h]) :
         \/ i \in 1..Len(shown[h]) /\ shown'[h][i] = shown[h][i]
         \/ i = n /\ shown'[h][i] = r /\ r.dst = h
  BY <1>1, <1>3, <1>5
<1> HIDE DEF n, r
<1>8. \A i \in 1..Len(shown'[h]) : shown'[h][i].dst = h /\ Accounted(h, shown[h][i])'
  BY <1>1, <1>4, <1>7, OldReplies DEF RepliesOf, r
<1>9. \A i \in 1..Len(cliBuf'[h]) : cliBuf'[h][i].dst = h => Accounted(h, cliBuf[h][i])'
  BY <1>1, <1>6, OldReplies DEF RepliesOf
<1>10. \A i, j \in 1..Len(shown'[h]) : i < j => Before(h, shown[h][i], shown[h][j])'
  <2> SUFFICES ASSUME NEW i \in 1..Len(shown'[h]), NEW j \in 1..Len(shown'[h]), i < j
               PROVE  Before(h, shown[h][i], shown[h][j])'
    OBVIOUS
  <2>1. i \in 1..Len(shown[h]) /\ shown'[h][i] = shown[h][i]
    BY <1>1, <1>7 DEF n
  <2>2. CASE j \in 1..Len(shown[h]) /\ shown'[h][j] = shown[h][j]
    BY <1>1, <2>1, <2>2, OldReplies DEF RepliesOf
  <2>3. CASE shown'[h][j] = r /\ r.dst = h
    BY <1>1, <1>4, <2>1, <2>3, OldReplies DEF RepliesOf, r
  <2> QED BY <1>7, <2>2, <2>3
<1>11. \A i \in 1..Len(shown'[h]), j \in 1..Len(cliBuf'[h]) :
          cliBuf'[h][j].dst = h => Before(h, shown[h][i], cliBuf[h][j])'
  <2> SUFFICES ASSUME NEW i \in 1..Len(shown'[h]), NEW j \in 1..Len(cliBuf'[h]),
                      cliBuf'[h][j].dst = h
               PROVE  Before(h, shown[h][i], cliBuf[h][j])'
    OBVIOUS
  <2>1. PICK k \in 2..Len(cliBuf[h]) : cliBuf'[h][j] = cliBuf[h][k]
    BY <1>6
  <2>2. k \in 1..Len(cliBuf[h]) /\ 1 < k
    BY <1>2
  <2>3. CASE i \in 1..Len(shown[h]) /\ shown'[h][i] = shown[h][i]
    BY <1>1, <2>1, <2>2, <2>3, OldReplies DEF RepliesOf
  <2>4. CASE shown'[h][i] = r /\ r.dst = h
    BY <1>1, <1>4, <2>1, <2>2, <2>4, OldReplies DEF RepliesOf, r
  <2> QED BY <1>7, <2>3, <2>4
<1>12. \A i, j \in 1..Len(cliBuf'[h]) :
          i < j /\ cliBuf'[h][i].dst = h /\ cliBuf'[h][j].dst = h
             => Before(h, cliBuf[h][i], cliBuf[h][j])'
  <2> SUFFICES ASSUME NEW i \in 1..Len(cliBuf'[h]), NEW j \in 1..Len(cliBuf'[h]),
                      i < j, cliBuf'[h][i].dst = h, cliBuf'[h][j].dst = h
               PROVE  Before(h, cliBuf[h][i], cliBuf[h][j])'
    OBVIOUS
  <2>1. /\ i + 1 \in 1..Len(cliBuf[h]) /\ j + 1 \in 1..Len(cliBuf[h]) /\ i + 1 < j + 1
        /\ cliBuf'[h][i] = cliBuf[h][i + 1] /\ cliBuf'[h][j] = cliBuf[h][j + 1]
    BY <1>2, <1>6
  <2> QED BY <1>1, <2>1, OldReplies DEF RepliesOf
<1> QED BY <1>8, <1>9, <1>10, <1>11, <1>12 DEF RepliesOf

LEMMA RepliesNext ==
    ASSUME TableInv, \A h \in Hosts : RepliesOf(h), [Next]_vars
    PROVE  \A h \in Hosts : RepliesOf(h)'
<1> SUFFICES ASSUME NEW h \in Hosts PROVE RepliesOf(h)'
  OBVIOUS
<1>1. CASE shown'[h] = shown[h] /\ cliBuf'[h] = cliBuf[h]
  BY <1>1, SameReplies
<1>2. CASE HandleMessage
  <2>1. UNCHANGED shown /\ Head(srvBuf).src \in Hosts
    BY <1>2, Taken DEF HandleMessage, history, TableInv
  <2>2. PICK g \in Hosts : g = Head(srvBuf).src
    BY <2>1
  <2>3. PICK r \in Reply :
           /\ r.dst = g
           /\ cliBuf'[h] = cliBuf[h] \/ cliBuf'[h] = Append(cliBuf[h], r)
           /\ Accounted(g, r)'
           /\ \A q \in Reply : Accounted(g, q) => Before(g, q, r)'
    BY <1>2, <2>2, NewReply
  <2>4. CASE cliBuf'[h] = Append(cliBuf[h], r)
    BY <2>1, <2>3, <2>4, MoreReplies
  <2> QED BY <1>1, <2>1, <2>3, <2>4
<1>3. CASE Ignore \/ HandleQuit \/ Quiet
  BY <1>1, <1>3 DEF Ignore, HandleQuit, Quiet, history
<1>4. ASSUME NEW g \in Hosts, ReceiverPrints(g)
      PROVE  RepliesOf(h)'
  <2>1. CASE g = h
    BY <1>4, <2>1, PrintedReplies
  <2>2. CASE g # h
    BY <1>1, <1>4, <2>2, TypedReplies DEF ReceiverPrints, TableInv
  <2> QED BY <2>1, <2>2
<1>5. ASSUME NEW g \in Hosts, Exit(g) \/ Killed(g)
      PROVE  RepliesOf(h)'
  <2>1. CASE g = h
    <3>1. shown'[h] = <<>> /\ cliBuf'[h] = <<>> /\ Len(<<>>) = 0
      BY <1>5, <2>1, TypedReplies, EmptySeq DEF Exit, Killed, TableInv
    <3> QED BY <3>1 DEF RepliesOf
  <2>2. CASE g # h
    BY <1>1, <1>5, <2>2, TypedReplies DEF Exit, Killed, TableInv
  <2> QED BY <2>1, <2>2
<1>6. ASSUME NEW g \in Hosts,
             Start(g) \/ (\E k \in Lines : Type(g, k)) \/ Send(g) \/ SendFails(g)
      PROVE  RepliesOf(h)'
  BY <1>1, <1>6 DEF Start, Type, Send, SendFails, history
<1> QED BY <1>2, <1>3, <1>4, <1>5, <1>6, StepKinds DEF ClientMove

LEMMA ReplyInvNext == TableInv /\ ReplyInv /\ [Next]_vars => ReplyInv'
  BY RepliesNext DEF ReplyInv

LEMMA ReplyInit == Init => ReplyInv
<1> SUFFICES ASSUME Init PROVE ReplyInv
  OBVIOUS
<1>1. \A h \in Hosts : Len(shown[h]) = 0 /\ Len(cliBuf[h]) = 0
  BY EmptySeq DEF Init
<1> QED BY <1>1 DEF ReplyInv, RepliesOf

\* Each client prints the replies to its own messages in the order in which
\* they were typed, with counters that grow until a quit in between, however
\* many packets are lost, flooded to other hosts or left behind by processes
\* that were killed.
THEOREM EchoRepliesInOrder == Spec => []RepliesInOrder
<1>1. TableInv /\ ReplyInv => RepliesInOrder
  <2> SUFFICES ASSUME TableInv, ReplyInv, NEW h \in Hosts, NEW i \in 1..Len(shown[h])
               PROVE  LET r == shown[h][i] IN
                      /\ r.dst = h
                      /\ sent[h][r.id] = "msg"
                      /\ \A j \in 1..(i - 1) :
                            LET q == shown[h][j] IN
                            /\ q.id < r.id
                            /\ q.n < r.n \/ \E m \in q.id..r.id : sent[h][m] = "quit"
    BY DEF RepliesInOrder
  <2>1. shown[h][i].dst = h /\ sent[h][shown[h][i].id] = "msg"
    BY DEF ReplyInv, RepliesOf, Accounted
  <2>2. ASSUME NEW j \in 1..(i - 1)
        PROVE  Before(h, shown[h][j], shown[h][i])
    <3>1. j \in 1..Len(shown[h]) /\ j < i
      BY <2>2, TypedReplies DEF TableInv
    <3> QED BY <3>1 DEF ReplyInv, RepliesOf
  <2> QED BY <2>1, <2>2 DEF Before
<1> QED BY <1>1, TableInit, TableNext, ReplyInit, ReplyInvNext, PTL DEF Spec
=============================================================================
