-------------------------------- MODULE Shop --------------------------------
(***************************************************************************)
(* The shop, 11_threads/p5.c: a consumer takes goods out of rooms picked   *)
(* at random until it needs no more, a producer brings goods until the     *)
(* consumer is satisfied.  One mutex guards the rooms and the need.  In    *)
(* the critical section the rooms and the need change one after the other. *)
(***************************************************************************)
EXTENDS Integers, FiniteSetsExt

CONSTANTS
    Rooms,     \* 0..ROOMS_COUNT-1
    Need,      \* what consumer_need starts with
    Goods,     \* the amounts rand() gives: at the start and to add
    MaxStock   \* bound: the goods in all rooms when the producer comes

Both == {"consumer", "producer"}
Free == "nobody"

ShopAssumption ==
    /\ IsFiniteSet(Rooms)
    /\ Rooms # {}
    /\ Need \in Nat
    /\ Goods \subseteq Nat \ {0}
    /\ Goods # {}
    /\ MaxStock \in Nat

VARIABLES
    shop_rooms,
    consumer_need,
    holder,  \* who holds the mutex
    at,      \* where the threads are
    taken,   \* the consumer's variable
    brought  \* history: all goods that ever came into the shop

vars == <<shop_rooms, consumer_need, holder, at, taken, brought>>

Stock == MapThenSumSet(LAMBDA r : shop_rooms[r], Rooms)

Init ==
    /\ shop_rooms \in [Rooms -> Goods]
    /\ consumer_need = Need
    /\ holder = Free
    /\ at = [t \in Both |-> "lock"]
    /\ taken = 0
    /\ brought = Stock

Goes(t, to) == at' = [at EXCEPT ![t] = to]

\* With the bound, which stands for the producer's slower pace.
lock(t) ==
    /\ at[t] = "lock"
    /\ holder = Free
    /\ t = "producer" /\ consumer_need > 0 => Stock <= MaxStock
    /\ holder' = t
    /\ Goes(t, "check")
    /\ UNCHANGED <<shop_rooms, consumer_need, taken, brought>>

\* Mutant: the thread leaves with the mutex locked.
break_locked(t) ==
    /\ at[t] = "check"
    /\ consumer_need <= 0
    /\ Goes(t, "finished")
    /\ UNCHANGED <<shop_rooms, consumer_need, holder, taken, brought>>

\* unlock and break: nothing more is needed.
break(t) ==
    /\ at[t] = "check"
    /\ consumer_need <= 0
    /\ holder' = Free
    /\ Goes(t, "finished")
    /\ UNCHANGED <<shop_rooms, consumer_need, taken, brought>>

unlock(t) ==
    /\ at[t] = "unlock"
    /\ holder' = Free
    /\ Goes(t, "lock")
    /\ UNCHANGED <<shop_rooms, consumer_need, taken, brought>>

\* Mutant: all the goods of the room are taken.
takes_all(room) ==
    /\ at["consumer"] = "check"
    /\ consumer_need > 0
    /\ taken' = shop_rooms[room]
    /\ shop_rooms' = [shop_rooms EXCEPT ![room] = @ - taken']
    /\ Goes("consumer", IF taken' > 0 THEN "need" ELSE "unlock")
    /\ UNCHANGED <<consumer_need, holder, brought>>

\* As much of the room's goods as is needed; nothing if the room is empty.
takes(room) ==
    /\ at["consumer"] = "check"
    /\ consumer_need > 0
    /\ taken' = IF shop_rooms[room] > consumer_need THEN consumer_need ELSE shop_rooms[room]
    /\ shop_rooms' = [shop_rooms EXCEPT ![room] = @ - taken']
    /\ Goes("consumer", IF taken' > 0 THEN "need" ELSE "unlock")
    /\ UNCHANGED <<consumer_need, holder, brought>>

needs_less ==
    /\ at["consumer"] = "need"
    /\ consumer_need' = consumer_need - taken
    /\ Goes("consumer", "unlock")
    /\ UNCHANGED <<shop_rooms, holder, taken, brought>>

adds(room, add) ==
    /\ at["producer"] = "check"
    /\ consumer_need > 0
    /\ shop_rooms' = [shop_rooms EXCEPT ![room] = @ + add]
    /\ brought' = brought + add
    /\ Goes("producer", "unlock")
    /\ UNCHANGED <<consumer_need, holder, taken>>

consumer ==
    \/ lock("consumer") \/ break("consumer") \/ unlock("consumer")
    \/ \E room \in Rooms : takes(room)
    \/ needs_less

producer ==
    \/ lock("producer") \/ break("producer") \/ unlock("producer")
    \/ \E room \in Rooms, add \in Goods : adds(room, add)

Next == consumer \/ producer

\* Both threads run and, since they sleep with the mutex unlocked, get it; and
\* rand() draws every room again and again.
Fairness ==
    /\ SF_vars(consumer)
    /\ SF_vars(producer)
    /\ \A room \in Rooms : SF_vars(takes(room))

Spec == Init /\ [][Next]_vars /\ Fairness

-----------------------------------------------------------------------------
(* Properties *)

TypeOK ==
    /\ shop_rooms \in [Rooms -> Nat]
    /\ consumer_need \in 0..Need
    /\ holder \in Both \cup {Free}
    /\ at \in [Both -> {"lock", "check", "need", "unlock", "finished"}]
    /\ taken \in 0..Need
    /\ brought \in Nat

\* Whenever nobody holds the mutex the books are right: what came in is in the
\* rooms or was needed, the consumer never takes more than it needs, and no
\* room owes anything.
BooksBalance ==
    holder = Free =>
        /\ Stock + (Need - consumer_need) = brought
        /\ consumer_need >= 0
        /\ \A room \in Rooms : shop_rooms[room] >= 0

\* The consumer gets all it needs, and both threads notice and can be joined,
\* whichever of them holds the mutex at the end.
BothFinish == <>(\A t \in Both : at[t] = "finished")
=============================================================================
