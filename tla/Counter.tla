------------------------------ MODULE Counter ------------------------------
(***************************************************************************)
(* The counters of 11_threads: five threads increment shared_counter with  *)
(* no lock (p2.c), with a mutex (p3.c) and with a spinlock (p4.c), and     *)
(* main prints what they have counted.  The programs are built without     *)
(* optimisation: shared_counter++ loads the variable and stores it later.  *)
(***************************************************************************)
EXTENDS Integers, FiniteSets

CONSTANTS
    Threads,    \* threads[0..NUM_THREADS-1]
    Increments, \* INCREMENT_PER_THREAD
    NoThread    \* the lock is free

VARIABLES
    program, \* which of the three runs
    counter, \* shared_counter
    holder,  \* who holds the lock
    i,       \* of each thread
    loaded,  \* what each thread has loaded
    at,      \* where each thread is
    printed  \* the number main printed, -1 before

vars == <<program, counter, holder, i, loaded, at, printed>>

CounterAssumption ==
    /\ IsFiniteSet(Threads)
    /\ Threads # {}
    /\ Increments \in Nat \ {0}
    /\ NoThread \notin Threads

Top(p) == IF p = "p2" THEN "load" ELSE "lock"

Init ==
    /\ program \in {"p2", "p3", "p4"}
    /\ counter = 0
    /\ holder = NoThread
    /\ i = [t \in Threads |-> 0]
    /\ loaded = [t \in Threads |-> 0]
    /\ at = [t \in Threads |-> Top(program)]
    /\ printed = -1

\* Mutant: nobody waits for the lock.
lock_passes(t) ==
    /\ at[t] = "lock"
    /\ holder' = t
    /\ at' = [at EXCEPT ![t] = "load"]
    /\ UNCHANGED <<program, counter, i, loaded, printed>>

\* pthread_mutex_lock and pthread_spin_lock.
lock(t) ==
    /\ at[t] = "lock"
    /\ holder = NoThread
    /\ holder' = t
    /\ at' = [at EXCEPT ![t] = "load"]
    /\ UNCHANGED <<program, counter, i, loaded, printed>>

load(t) ==
    /\ at[t] = "load"
    /\ loaded' = [loaded EXCEPT ![t] = counter]
    /\ at' = [at EXCEPT ![t] = "store"]
    /\ UNCHANGED <<program, counter, holder, i, printed>>

\* With the end of the round where there is no lock to give back.
store(t) ==
    /\ at[t] = "store"
    /\ counter' = loaded[t] + 1
    /\ i' = [i EXCEPT ![t] = @ + 1]
    /\ at' = [at EXCEPT ![t] = IF program # "p2" THEN "unlock"
                               ELSE IF i'[t] < Increments THEN Top(program) ELSE "exited"]
    /\ UNCHANGED <<program, holder, loaded, printed>>

unlock(t) ==
    /\ at[t] = "unlock"
    /\ holder' = NoThread
    /\ at' = [at EXCEPT ![t] = IF i[t] < Increments THEN Top(program) ELSE "exited"]
    /\ UNCHANGED <<program, counter, i, loaded, printed>>

\* Mutant: main does not join its threads.
print_early ==
    /\ printed = -1
    /\ printed' = counter
    /\ UNCHANGED <<program, counter, holder, i, loaded, at>>

\* main has joined them all.
print ==
    /\ printed = -1
    /\ \A t \in Threads : at[t] = "exited"
    /\ printed' = counter
    /\ UNCHANGED <<program, counter, holder, i, loaded, at>>

increment_counter(t) == lock(t) \/ load(t) \/ store(t) \/ unlock(t)

Next == print \/ \E t \in Threads : increment_counter(t)

Fairness == WF_vars(print) /\ \A t \in Threads : WF_vars(increment_counter(t))

Spec == Init /\ [][Next]_vars /\ Fairness

-----------------------------------------------------------------------------
(* Properties *)

TypeOK ==
    /\ program \in {"p2", "p3", "p4"}
    /\ counter \in Nat
    /\ holder \in Threads \cup {NoThread}
    /\ i \in [Threads -> 0..Increments]
    /\ loaded \in [Threads -> Nat]
    /\ at \in [Threads -> {"lock", "load", "store", "unlock", "exited"}]
    /\ printed \in Nat \cup {-1}

Expected == Cardinality(Threads) * Increments

\* With either lock main prints what it expects.  Without one any number of
\* increments may be lost, but never all: two are left even if each thread
\* spoils the work of the others, or one if each thread increments once.
Counted ==
    printed # -1 =>
        /\ printed <= Expected
        /\ program # "p2" => printed = Expected
        /\ printed >= IF Increments = 1 THEN 1 ELSE 2
=============================================================================
