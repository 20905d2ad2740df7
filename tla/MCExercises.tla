---------------------------- MODULE MCExercises ----------------------------
(***************************************************************************)
(* The exercises for TLC.  They are programs of their own: one of the      *)
(* exchanges of greetings, one of the counters, the shop or one of the     *)
(* kernel modules is run, and the state of the others stays what it is at  *)
(* the beginning.                                                          *)
(***************************************************************************)
EXTENDS Integers, FiniteSetsExt

CONSTANTS Clients, Nobody, Threads, Increments, NoThread, Rooms, Need, Goods, MaxStock,
    Users, NoUser, Size, Chars, Nul, Behind, MaxCalls

VARIABLES
    exercise,
    pair, call, exists, mail, asleep, mem, line, peer, owner, ready, pending, heard,
    program, counter, counter_holder, rounds, loaded, counter_at, printed,
    shop_rooms, consumer_need, shop_holder, shop_at, taken, brought,
    module, string, readers, writer, user_at, off, size, bytes, buff, calls, whole, asked

greetings == <<pair, call, exists, mail, asleep, mem, line, peer, owner, ready, pending, heard>>
counting == <<program, counter, counter_holder, rounds, loaded, counter_at, printed>>
shopping == <<shop_rooms, consumer_need, shop_holder, shop_at, taken, brought>>
reading == <<module, string, readers, writer, user_at, off, size, bytes, buff, calls, whole, asked>>

Greetings == INSTANCE Exchanges WITH pc <- call
Counters == INSTANCE Counter WITH holder <- counter_holder, i <- rounds, at <- counter_at
Shops == INSTANCE Shop WITH holder <- shop_holder, at <- shop_at
Strings == INSTANCE KernelString WITH at <- user_at

ASSUME ExercisesAssumption ==
    /\ Greetings!ExchangesAssumption
    /\ Counters!CounterAssumption
    /\ Shops!ShopAssumption
    /\ Strings!StringAssumption

ExercisesInit ==
    /\ exercise \in {"greeting", "counting", "shopping", "reading"}
    /\ Greetings!Init
    /\ Counters!Init
    /\ Shops!Init
    /\ Strings!Init
    /\ exercise # "greeting" => pair = "udp"
    /\ exercise # "counting" => program = "p2"
    /\ exercise # "shopping" => \A r \in Rooms : shop_rooms[r] = Min(Goods)
    /\ exercise # "reading" => module = "sys" /\ string[1] = CHOOSE c \in Chars : TRUE

ExercisesNext ==
    \/ /\ exercise = "greeting"
       /\ Greetings!Next
       /\ UNCHANGED <<exercise, counting, shopping, reading>>
    \/ /\ exercise = "counting"
       /\ Counters!Next
       /\ UNCHANGED <<exercise, greetings, shopping, reading>>
    \/ /\ exercise = "shopping"
       /\ Shops!Next
       /\ UNCHANGED <<exercise, greetings, counting, reading>>
    \/ /\ exercise = "reading"
       /\ Strings!Next
       /\ UNCHANGED <<exercise, greetings, counting, shopping>>

ExercisesFairness ==
    /\ exercise = "greeting" => Greetings!Fairness
    /\ exercise = "shopping" => Shops!Fairness

ExercisesSpec ==
    /\ ExercisesInit
    /\ [][ExercisesNext]_<<exercise, greetings, counting, shopping, reading>>
    /\ ExercisesFairness

-----------------------------------------------------------------------------
\* The promises of Exchanges.
HeardRight == Greetings!HeardRight
Answered == exercise = "greeting" => Greetings!Answered

\* Counter's promise.
Counted == Counters!Counted

\* KernelString's promise.
WholeReads == Strings!WholeReads

\* Shop's two promises, the second one for the run of the shop.
BooksBalance == Shops!BooksBalance
BothFinish == exercise = "shopping" => Shops!BothFinish
=============================================================================
