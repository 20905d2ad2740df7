------------------------------- MODULE MCDesk -------------------------------
(***************************************************************************)
(* The two programs with one user and no other process, for TLC: the file  *)
(* manager or the phone book is run, and the state of the other stays what *)
(* it is at the beginning.  In the file manager "/" holds two directories  *)
(* and a file, one of the directories another one, and the other is locked.*)
(***************************************************************************)
EXTENDS FilePanels

CONSTANTS Tels, MaxNodes, NoData

VARIABLES desk, head, data, prev, next, open

list == <<head, data, prev, next, open>>

Phone == INSTANCE PhoneList

ASSUME DeskAssumption == Phone!ListAssumption

MCFirstTree ==
    [p \in Paths |->
        CASE p = <<>> -> (1 :> "dir" @@ 2 :> "dir" @@ 3 :> "file")
          [] p = <<1>> -> (1 :> "file" @@ 2 :> "dir" @@ 3 :> "file")
          [] p = <<1, 2>> -> (3 :> "file")
          [] OTHER -> Gone]

DeskInit ==
    /\ desk \in {"mc", "phonebook"}
    /\ Init
    /\ Phone!Init
    /\ desk = "phonebook" => path[0] = <<>>

DeskNext ==
    \/ /\ desk = "mc"
       /\ Next
       /\ UNCHANGED <<desk, list>>
    \/ /\ desk = "phonebook"
       /\ Phone!Next
       /\ UNCHANGED <<desk, vars>>

DeskSpec == DeskInit /\ [][DeskNext]_<<desk, vars, list>>

-----------------------------------------------------------------------------
\* PhoneList's two promises.
WellLinked == Phone!WellLinked
KeepsBook == Phone!KeepsBook
=============================================================================
