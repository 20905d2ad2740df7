----------------------------- MODULE PhoneList -----------------------------
(***************************************************************************)
(* The doubly linked list behind the phone book, 04_structures/list.c, and *)
(* the commands of main.c that change it (06_dynamic_memory holds the same *)
(* files).  A node is a place on the heap; malloc returns any place that   *)
(* is not in use, or NULL when there is none, and then insert does nothing. *)
(* So do a deletion of an unknown name and the commands that only print.   *)
(***************************************************************************)
EXTENDS Integers, Sequences, FiniteSetsExt, SequencesExt

CONSTANTS
    Names,    \* the names, as numbers in strcmp's order
    Tels,     \* what else is in an entry
    MaxNodes, \* bound: nodes for which there is memory
    NoData    \* the contents of memory that is not in use

ListAssumption ==
    /\ Names \subseteq Int
    /\ MaxNodes \in Nat \ {0}
    /\ NoData \notin [name : Names, tel : Tels]

Nodes == 1..MaxNodes
NULL == 0
abonent == [name : Names, tel : Tels]

VARIABLES
    head,  \* main's pointer to the first node
    data,  \* of each node
    prev,
    next,
    open   \* has main not returned yet?

vars == <<head, data, prev, next, open>>

InUse == {n \in Nodes : data[n] # NoData}

Init ==
    /\ head = NULL
    /\ data = [n \in Nodes |-> NoData]
    /\ prev = [n \in Nodes |-> NULL]
    /\ next = [n \in Nodes |-> NULL]
    /\ open = TRUE

\* The nodes one meets on the way from head along next, as all the loops do.
Walk ==
    LET curr[k \in Nodes] ==
            IF k = 1 THEN head
            ELSE IF curr[k - 1] = NULL THEN NULL ELSE next[curr[k - 1]]
    IN  [k \in 1..Cardinality({j \in Nodes : curr[j] # NULL}) |-> curr[k]]

-----------------------------------------------------------------------------
\* Mutant: the loop also passes entries of the same name.
StopBehindEquals(name) ==
    LET NotBefore == {k \in 1..Len(Walk) : data[Walk[k]].name > name}
    IN  Walk[IF NotBefore = {} THEN Len(Walk) ELSE Min(NotBefore)]

\* Where insert's loop stops: at the first node that is not smaller, else at
\* the last one.
Stop(name) ==
    LET NotBefore == {k \in 1..Len(Walk) : data[Walk[k]].name >= name}
    IN  Walk[IF NotBefore = {} THEN Len(Walk) ELSE Min(NotBefore)]

\* malloc's node n gets entry e.
create_node(n, e) ==
    /\ open
    /\ n \notin InUse
    /\ data' = [data EXCEPT ![n] = e]
    /\ UNCHANGED open

InsertIntoEmpty(n) ==
    /\ head = NULL
    /\ head' = n
    /\ UNCHANGED <<prev, next>>

InsertHead(n, curr, name) ==
    /\ curr = head
    /\ name < data[curr].name
    /\ next' = [next EXCEPT ![n] = head]
    /\ prev' = [prev EXCEPT ![head] = n]
    /\ head' = n

InsertTail(n, curr, name) ==
    /\ next[curr] = NULL
    /\ name > data[curr].name
    /\ next' = [next EXCEPT ![curr] = n]
    /\ prev' = [prev EXCEPT ![n] = curr]
    /\ UNCHANGED head

\* What is left: the new node goes before the one where the loop stopped.
InsertMiddle(n, curr, name) ==
    LET before == prev[curr] IN
    /\ ~(curr = head /\ name < data[curr].name)
    /\ ~(next[curr] = NULL /\ name > data[curr].name)
    /\ prev' = [prev EXCEPT ![n] = before, ![curr] = n]
    /\ next' = [k \in Nodes |-> IF k = n THEN curr ELSE IF k = before THEN n ELSE next[k]]
    /\ head' = IF curr = head THEN n ELSE head

insert(n, e) ==
    /\ create_node(n, e)
    /\ \/ InsertIntoEmpty(n)
       \/ /\ head # NULL
          /\ LET curr == Stop(e.name) IN
                \/ InsertHead(n, curr, e.name)
                \/ InsertTail(n, curr, e.name)
                \/ InsertMiddle(n, curr, e.name)

\* Mutant: the next node keeps its pointer to the one deleted.
delete_forward(name) ==
    /\ open
    /\ \E k \in 1..Len(Walk) :
          LET curr == Walk[k] IN
          /\ data[curr].name = name
          /\ \A j \in 1..(k - 1) : data[Walk[j]].name # name
          /\ head' = IF prev[curr] = NULL THEN next[curr] ELSE head
          /\ next' = [m \in Nodes |-> IF m = curr THEN NULL
                                      ELSE IF m = prev[curr] THEN next[curr] ELSE next[m]]
          /\ prev' = [prev EXCEPT ![curr] = NULL]
          /\ data' = [data EXCEPT ![curr] = NoData]
    /\ UNCHANGED open

\* The first node of that name is unlinked and freed; what it contained is
\* lost.
delete_node(name) ==
    /\ open
    /\ \E k \in 1..Len(Walk) :
          LET curr == Walk[k] IN
          /\ data[curr].name = name
          /\ \A j \in 1..(k - 1) : data[Walk[j]].name # name
          /\ head' = IF prev[curr] = NULL THEN next[curr] ELSE head
          /\ next' = [m \in Nodes |-> IF m = curr THEN NULL
                                      ELSE IF m = prev[curr] THEN next[curr] ELSE next[m]]
          /\ prev' = [m \in Nodes |-> IF m = curr THEN NULL
                                      ELSE IF m = next[curr] THEN prev[curr] ELSE prev[m]]
          /\ data' = [data EXCEPT ![curr] = NoData]
    /\ UNCHANGED open

\* "5. Exit": every node on the way is freed, and head goes out of scope.
free_list ==
    LET Freed == ToSet(Walk) IN
    /\ open
    /\ open' = FALSE
    /\ head' = NULL
    /\ data' = [n \in Nodes |-> IF n \in Freed THEN NoData ELSE data[n]]
    /\ prev' = [n \in Nodes |-> IF n \in Freed THEN NULL ELSE prev[n]]
    /\ next' = [n \in Nodes |-> IF n \in Freed THEN NULL ELSE next[n]]

Next ==
    \/ \E n \in Nodes, e \in abonent : insert(n, e)
    \/ \E name \in Names : delete_node(name)
    \/ free_list

Spec == Init /\ [][Next]_vars

-----------------------------------------------------------------------------
(* Properties *)

Links == Nodes \cup {NULL}

\* The pointers of the list have the types the code gives them, they mirror
\* each other and lead to memory in use, and no memory is in use that cannot be
\* reached: no node is lost by a deletion, none is used after it is freed, and
\* free_list leaves nothing behind.
WellLinked ==
    /\ head \in Links
    /\ data \in [Nodes -> abonent \cup {NoData}]
    /\ prev \in [Nodes -> Links]
    /\ next \in [Nodes -> Links]
    /\ open \in BOOLEAN
    /\ \A n \in InUse :
          /\ prev[n] = NULL <=> n = head
          /\ prev[n] # NULL => prev[n] \in InUse /\ next[prev[n]] = n
          /\ next[n] # NULL => next[n] \in InUse /\ prev[next[n]] = n
    /\ InUse = ToSet(Walk)

Book == INSTANCE PhoneBook WITH
    book <- [k \in 1..Len(Walk) |-> data[Walk[k]]]

\* The list implements the phone book: whichever of its branches insert takes,
\* also among equal names and at the ends, entries stay sorted, the newest of
\* a name comes first, and a deletion takes away exactly that one.
KeepsBook == Book!Spec
=============================================================================
