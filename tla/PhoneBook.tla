----------------------------- MODULE PhoneBook -----------------------------
(***************************************************************************)
(* What the phone book of 04_structures promises to its user: the entries  *)
(* are shown in the order of their names, the newest first among entries   *)
(* of one name, and deleting a name takes away the first entry that has    *)
(* it.  PhoneList implements this with a doubly linked list.               *)
(***************************************************************************)
EXTENDS Integers, Sequences, FiniteSets, SequencesExt

CONSTANTS
    Names,    \* the names, as numbers in strcmp's order
    Tels,     \* what else is in an entry
    MaxNodes  \* entries for which there is memory

VARIABLE book

Insert(e) ==
    /\ Len(book) < MaxNodes
    /\ book' = InsertAt(book, Cardinality({i \in 1..Len(book) : book[i].name < e.name}) + 1, e)

Delete(n) ==
    \E i \in 1..Len(book) :
        /\ book[i].name = n
        /\ \A j \in 1..(i - 1) : book[j].name # n
        /\ book' = RemoveAt(book, i)

Close == book' = <<>>

Init == book = <<>>

Next ==
    \/ \E e \in [name : Names, tel : Tels] : Insert(e)
    \/ \E n \in Names : Delete(n)
    \/ Close

Spec == Init /\ [][Next]_book
=============================================================================
