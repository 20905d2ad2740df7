-------------------------- MODULE PoolServerProofs --------------------------
(* Proofs about PoolServer, for any number of slots and of clients.          *)
EXTENDS PoolServer, TLAPS

(***************************************************************************)
(* The inductive invariant.  A slot may be overwritten by main because its *)
(* thread is no longer live, and it is not live because main only picks a  *)
(* slot that is free and nobody but main can take it.  The client main is  *)
(* about to start has no thread yet, so no slot names it.                  *)
(***************************************************************************)
Fresh(c) == tpc[c] = "none"
PoolInv ==
    /\ TypeOK
    /\ SlotKept
    /\ FreeSlotIsIdle
    /\ \A s \in Slots : thread[s] # None => ~Fresh(thread[s])
    /\ \A c \in Clients : conn[c] \in {"new", "pending"} => Fresh(c)
    /\ mpc \in {"scan", "create"} =>
           client # None /\ Fresh(client) /\ conn[client] = "accepted"
    /\ mpc = "mark" => client # None
    /\ mpc = "create" => is_free[i]

LEMMA PoolInit == Init => PoolInv
<1> SUFFICES ASSUME Init PROVE PoolInv
  OBVIOUS
<1>1. 0 \in Slots
  BY PoolAssumption DEF Slots
<1> QED BY <1>1 DEF Init, PoolInv, TypeOK, SlotKept, FreeSlotIsIdle, Live, Fresh

LEMMA PoolNext == PoolInv /\ [Next]_vars => PoolInv'
<1> SUFFICES ASSUME PoolInv, [Next]_vars PROVE PoolInv'
  OBVIOUS
<1> USE PoolAssumption DEF mainVars, pool, Running
<1>1. ASSUME NEW c \in Clients, Connect(c) PROVE PoolInv'
  BY <1>1 DEF Connect, PoolInv, TypeOK, SlotKept, FreeSlotIsIdle, Live, Fresh
<1>2. ASSUME NEW c \in Clients, Accept(c) PROVE PoolInv'
  <2>1. 0 \in Slots
    BY DEF Slots
  <2> QED BY <1>2, <2>1 DEF Accept, PoolInv, TypeOK, SlotKept, FreeSlotIsIdle, Live, Fresh
<1>3. CASE Scan
  <2>1. (i + 1) % MaxThreads \in Slots
    BY DEF Slots, PoolInv, TypeOK
  <2> QED BY <1>3, <2>1 DEF Scan, PoolInv, TypeOK, SlotKept, FreeSlotIsIdle, Live, Fresh
<1>4. CASE Create
  <2>1. client \in Clients /\ Fresh(client) /\ is_free[i] /\ i \in Slots
    BY <1>4 DEF Create, PoolInv, TypeOK
  <2>2. thread[i] = None \/ ~Live(thread[i])
    BY <1>4, <2>1 DEF Create, PoolInv, FreeSlotIsIdle
  <2>3. CASE UNCHANGED <<thread, tpc>>
    BY <1>4, <2>1, <2>3 DEF Create, PoolInv, TypeOK, SlotKept, FreeSlotIsIdle, Live, Fresh
  <2>4. CASE /\ thread' = [thread EXCEPT ![i] = client]
             /\ tpc' = [tpc EXCEPT ![client] = "send"]
    <3>1. TypeOK'
      BY <1>4, <2>1, <2>4 DEF Create, PoolInv, TypeOK
    <3>2. /\ thread'[i] = client
          /\ \A s \in Slots \ {i} : thread'[s] = thread[s]
          /\ tpc'[client] = "send"
          /\ \A c \in Clients \ {client} : tpc'[c] = tpc[c]
      BY <2>1, <2>4 DEF PoolInv, TypeOK
    <3>3. \A s \in Slots : thread[s] # client
      BY <2>1 DEF PoolInv, Fresh
    <3>4. SlotKept'
      <4> SUFFICES ASSUME NEW c \in Clients, Live(c)'
                   PROVE  \E s \in Slots : /\ thread'[s] = c
                                          /\ \A r \in Slots : thread'[r] = c => r = s
        BY DEF SlotKept
      <4>1. CASE c = client
        BY <4>1, <2>1, <3>2, <3>3
      <4>2. CASE c # client
        <5>1. Live(c)
          BY <4>2, <3>2 DEF Live
        <5>2. PICK s \in Slots : thread[s] = c /\ \A r \in Slots : thread[r] = c => r = s
          BY <5>1 DEF PoolInv, SlotKept
        <5>3. s # i
          BY <5>1, <5>2, <2>2
        <5> QED BY <4>2, <5>2, <5>3, <3>2
      <4> QED BY <4>1, <4>2
    <3>5. FreeSlotIsIdle'
      BY <1>4, <2>1, <3>2, <3>3 DEF Create, PoolInv, FreeSlotIsIdle, Live, TypeOK
    <3>6. \A s \in Slots : thread'[s] # None => ~Fresh(thread[s])'
      BY <2>1, <3>2, <3>3 DEF PoolInv, Fresh, TypeOK
    <3>7. \A c \in Clients : conn'[c] \in {"new", "pending"} => Fresh(c)'
      <4>1. conn' = conn /\ mpc = "create"
        BY <1>4 DEF Create
      <4>2. conn[client] \notin {"new", "pending"}
        BY <2>1, <4>1 DEF PoolInv
      <4> QED BY <4>1, <4>2, <3>2 DEF PoolInv, Fresh
    <3>8. mpc' = "mark" /\ client' # None
      BY <1>4, <2>1 DEF Create
    <3> QED BY <3>1, <3>4, <3>5, <3>6, <3>7, <3>8 DEF PoolInv
  <2> QED BY <1>4, <2>3, <2>4 DEF Create
<1>5. CASE Mark
  BY <1>5 DEF Mark, PoolInv, TypeOK, SlotKept, FreeSlotIsIdle, Live, Fresh
<1>6. ASSUME NEW c \in Clients, Send(c) \/ Close(c) PROVE PoolInv'
  <2>1. /\ Live(c)
        /\ \A d \in Clients : (Live(d)' <=> Live(d)) /\ (Fresh(d)' <=> Fresh(d))
        /\ UNCHANGED <<mainVars, pool>>
    BY <1>6 DEF Send, Close, Live, Fresh, PoolInv, TypeOK
  <2>2. TypeOK'
    BY <1>6 DEF Send, Close, PoolInv, TypeOK, Ended
  <2>3. \A d \in Clients : conn'[d] \in {"new", "pending"} => conn[d] \in {"new", "pending"}
    BY <1>6 DEF Send, Close, PoolInv, TypeOK, Ended
  <2>4. SlotKept' /\ FreeSlotIsIdle'
    BY <2>1 DEF PoolInv, TypeOK, SlotKept, FreeSlotIsIdle
  <2>5. mpc' \in {"scan", "create"} => conn'[client'] = "accepted"
    <3>1. \A d \in Clients \ {c} : conn'[d] = conn[d]
      BY <1>6 DEF Send, Close, PoolInv, TypeOK
    <3>2. mpc \in {"scan", "create"} => client \in Clients /\ client # c
      BY <2>1 DEF PoolInv, TypeOK, Live, Fresh
    <3> QED BY <2>1, <3>1, <3>2 DEF PoolInv
  <2> QED BY <2>1, <2>2, <2>3, <2>4, <2>5 DEF PoolInv, TypeOK
<1>7. ASSUME NEW c \in Clients, SendError(c) PROVE PoolInv'
  <2>1. \A d \in Clients : ~Live(d)' /\ (Fresh(d)' <=> Fresh(d))
    BY <1>7 DEF SendError, Live, Fresh, PoolInv, TypeOK
  <2>2. TypeOK'
    BY <1>7 DEF SendError, PoolInv, TypeOK, Ended
  <2>3. \A d \in Clients : conn'[d] \notin {"new", "pending"}
    BY <1>7 DEF SendError, Ended
  <2>4. SlotKept' /\ FreeSlotIsIdle'
    BY <1>7, <2>1, <2>2 DEF SlotKept, FreeSlotIsIdle, TypeOK
  <2> QED BY <1>7, <2>1, <2>2, <2>3, <2>4 DEF SendError, PoolInv, TypeOK
<1>8. ASSUME NEW c \in Clients, Free(c) PROVE PoolInv'
  <2>1. /\ ~Live(c)' /\ Live(c)
        /\ \A d \in Clients \ {c} : Live(d)' <=> Live(d)
        /\ \A d \in Clients : Fresh(d)' <=> Fresh(d)
        /\ UNCHANGED <<mainVars, thread, conn>>
    BY <1>8 DEF Free, Live, Fresh, PoolInv, TypeOK
  <2>2. TypeOK'
    BY <1>8 DEF Free, PoolInv, TypeOK
  <2>3. \A s \in Slots : /\ is_free[s] => is_free'[s]
                         /\ is_free'[s] => is_free[s] \/ thread[s] = c
    BY <1>8 DEF Free, PoolInv, TypeOK
  <2>4. SlotKept'
    BY <2>1 DEF PoolInv, SlotKept
  <2>5. FreeSlotIsIdle'
    BY <2>1, <2>3 DEF PoolInv, FreeSlotIsIdle, TypeOK
  <2> QED BY <2>1, <2>2, <2>3, <2>4, <2>5 DEF PoolInv, TypeOK
<1>9. CASE UNCHANGED vars
  BY <1>9 DEF vars, PoolInv, TypeOK, SlotKept, FreeSlotIsIdle, Live, Fresh
<1> QED BY <1>1, <1>2, <1>3, <1>4, <1>5, <1>6, <1>7, <1>8, <1>9
        DEF Next, MainStep, ThreadStep

\* Every reachable state of the pool server is well typed; in particular the
\* scan never leaves the array of slots.
THEOREM PoolTyped == SafeSpec => []TypeOK
<1>1. PoolInv => TypeOK
  BY DEF PoolInv
<1> QED BY <1>1, PoolInit, PoolNext, PTL DEF SafeSpec

\* For any number of slots and clients, main never gives away the slot of a
\* running thread, although it takes the slot only after starting the thread.
THEOREM SlotsKept == SafeSpec => []SlotKept
<1>1. PoolInv => SlotKept
  BY DEF PoolInv
<1> QED BY <1>1, PoolInit, PoolNext, PTL DEF SafeSpec

\* A slot that reads free has no running thread, except in the window between
\* pthread_create and the assignment behind it.
THEOREM FreeSlotsIdle == SafeSpec => []FreeSlotIsIdle
<1>1. PoolInv => FreeSlotIsIdle
  BY DEF PoolInv
<1> QED BY <1>1, PoolInit, PoolNext, PTL DEF SafeSpec
=============================================================================
