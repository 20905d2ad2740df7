----------------------------- MODULE FilePanels -----------------------------
(***************************************************************************)
(* The two-panel file manager, 09_vfs/mc: main.c's loop draws both panels  *)
(* and handles a key, mc.c keeps a panel's path, the entries it has read   *)
(* from that directory, the selected entry and the first one in the window.*)
(* A panel reads a directory when it enters it and never again, while      *)
(* anybody may change the directories: what it shows may be long gone.     *)
(*                                                                         *)
(* A path is the sequence of its names, <<>> is "/".  As in the program    *)
(* indices count from 0.  Reading a directory is one step.                 *)
(***************************************************************************)
EXTENDS Integers, Sequences, FiniteSets, SequencesExt

CONSTANTS
    Names,       \* what files and directories are called, in strcmp's order
    Dotted,      \* the names that begin with "." or another character before "/"
    MaxDepth,    \* bound: how deep directories are nested
    FirstTree,   \* the directories when the program starts
    MaxChanges,  \* bound: changes to them by others
    Rows,        \* entries that fit into a window
    Gone         \* a directory that opendir cannot open

Dir(n) == [kind |-> "dir", name |-> n]
Up == [kind |-> "up", name |-> 0]

Paths == BoundedSeq(Names, MaxDepth)
Kinds(p) == IF Len(p) < MaxDepth THEN {"dir", "file"} ELSE {"file"}

\* The contents of a directory: files and directories of different names.
Contents(p) ==
    (UNION {[N -> Kinds(p)] : N \in SUBSET Names}) \cup {Gone}

ASSUME PanelsAssumption ==
    /\ Names \subseteq Nat
    /\ IsFiniteSet(Names)
    /\ Dotted \subseteq Names
    /\ {MaxDepth, MaxChanges} \subseteq Nat
    /\ Rows \in Nat \ {0}
    /\ \A p \in Paths : FirstTree[p] \in Contents(p)

Panels == {0, 1}

VARIABLES
    tree,          \* the directories as they are
    changes,       \* history: how often others have changed them
    pc,            \* where main is
    active_panel,  \* the panel that gets the keys
    path,          \* panels[].path
    entries,       \* panels[].entries[0..entry_count-1]
    selected,      \* panels[].selected
    scroll,        \* panels[].scroll
    active         \* panels[].active

panels == <<path, entries, selected, scroll, active>>
vars == <<tree, changes, pc, active_panel, panels>>

-----------------------------------------------------------------------------
(* mc.c *)

\* cmp compares what is shown, and a directory is shown with a "/" in front.
Rank(e) == IF e.kind = "dir" THEN 1 ELSE IF e.name \in Dotted THEN 0 ELSE 2
cmp(e, f) == Rank(e) < Rank(f) \/ (Rank(e) = Rank(f) /\ e.name < f.name)

\* What qsort makes of different entries.
Sorted(S) ==
    [j \in 1..Cardinality(S) |-> CHOOSE e \in S : Cardinality({f \in S : cmp(f, e)}) = j - 1]

\* ".." and the sorted entries, or nothing at all.
load_dir(p) ==
    IF p \notin Paths \/ tree[p] = Gone THEN <<>>
    ELSE <<Up>> \o Sorted({[kind |-> tree[p][n], name |-> n] : n \in DOMAIN tree[p]})

\* panel_init and load_dir on a PWD that nobody has verified.
Init ==
    /\ tree = FirstTree
    /\ changes = 0
    /\ pc = "draw"
    /\ active_panel = 0
    /\ \E p \in Paths :
          /\ path = [k \in Panels |-> p]
          /\ entries = [k \in Panels |-> load_dir(p)]
    /\ selected = [k \in Panels |-> 0]
    /\ scroll = [k \in Panels |-> 0]
    /\ active = [k \in Panels |-> k = 0]

\* Mutant: the last row of the window counts as one too many.
ScrolledShort(k) ==
    IF selected[k] < scroll[k] THEN selected[k]
    ELSE IF selected[k] > scroll[k] + Rows THEN selected[k] - Rows + 1
    ELSE scroll[k]

\* How draw_panel moves the window to the selected entry.
Scrolled(k) ==
    IF selected[k] < scroll[k] THEN selected[k]
    ELSE IF selected[k] >= scroll[k] + Rows THEN selected[k] - Rows + 1
    ELSE scroll[k]

draw_panel ==
    /\ pc = "draw"
    /\ scroll' = [k \in Panels |-> Scrolled(k)]
    /\ pc' = "key"
    /\ UNCHANGED <<tree, changes, active_panel, path, entries, selected, active>>

Key == pc = "key" /\ pc' = "draw" /\ UNCHANGED <<tree, changes, scroll>>

panel_change_active ==
    /\ Key
    /\ active' = [k \in Panels |-> ~active[k]]
    /\ active_panel' = 1 - active_panel
    /\ UNCHANGED <<path, entries, selected>>

\* Panel k goes to path p and selects entry s of it.
Enter(k, p, s) ==
    /\ path' = [path EXCEPT ![k] = p]
    /\ entries' = [entries EXCEPT ![k] = load_dir(p)]
    /\ selected' = [selected EXCEPT ![k] = s]

\* The first entry that shows directory n, else the present selection, which
\* is 0.
PositionOf(n, list, s) ==
    IF Contains(list, Dir(n)) THEN (CHOOSE j \in 1..Len(list) : list[j] = Dir(n)) - 1 ELSE s

\* Mutant: the directory is looked up by its parent's name.
change_dir_parent(k) ==
    /\ selected[k] = 0
    /\ IF path[k] = <<>> THEN Enter(k, <<>>, 0)
       ELSE LET up == Front(path[k]) IN
            Enter(k, up, IF up = <<>> THEN 0 ELSE PositionOf(Last(up), load_dir(up), 0))

\* change_dir on ".."; at the top "/" is left and entered again.
change_dir_up(k) ==
    /\ selected[k] = 0
    /\ IF path[k] = <<>> THEN Enter(k, <<>>, 0)
       ELSE LET up == Front(path[k]) IN
            Enter(k, up, PositionOf(Last(path[k]), load_dir(up), selected[k]))

\* Mutant: the selection is not reset.
change_dir_keeps(k) ==
    /\ selected[k] > 0
    /\ LET e == entries[k][selected[k] + 1] IN
          IF e.kind = "dir" THEN Enter(k, Append(path[k], e.name), selected[k])
          ELSE UNCHANGED <<path, entries, selected>>

\* change_dir on an entry; nothing happens on a file.
change_dir_down(k) ==
    /\ selected[k] > 0
    /\ LET e == entries[k][selected[k] + 1] IN
          IF e.kind = "dir" THEN Enter(k, Append(path[k], e.name), 0)
          ELSE UNCHANGED <<path, entries, selected>>

change_dir ==
    /\ Key
    /\ change_dir_up(active_panel) \/ change_dir_down(active_panel)
    /\ UNCHANGED <<active_panel, active>>

-----------------------------------------------------------------------------
(* main.c *)

\* Both arrows; at the ends of the list nothing moves.
KeyArrow ==
    /\ Key
    /\ \/ /\ selected[active_panel] > 0
          /\ selected' = [selected EXCEPT ![active_panel] = @ - 1]
       \/ /\ selected[active_panel] < Len(entries[active_panel]) - 1
          /\ selected' = [selected EXCEPT ![active_panel] = @ + 1]
    /\ UNCHANGED <<active_panel, path, entries, active>>

\* "qq" ends the program; "q" takes another key with it, and other keys do
\* nothing.
KeyQ ==
    /\ pc \in {"key", "q"}
    /\ pc' \in IF pc = "key" THEN {"q", "draw"} ELSE {"exited", "draw"}
    /\ UNCHANGED <<tree, changes, active_panel, panels>>

\* Somebody makes, removes, renames or locks something in directory p; what
\* lies below a directory that is no longer there goes with it.
Change(p) ==
    /\ changes < MaxChanges
    /\ changes' = changes + 1
    /\ \E new \in Contents(p) \ {tree[p]} :
          LET Lost(q) == /\ IsStrictPrefix(p, q)
                         /\ \/ new = Gone
                            \/ q[Len(p) + 1] \notin DOMAIN new
                            \/ new[q[Len(p) + 1]] # "dir"
          IN  tree' = [q \in Paths |-> IF q = p THEN new ELSE IF Lost(q) THEN Gone ELSE tree[q]]
    /\ UNCHANGED <<pc, active_panel, panels>>

Next ==
    \/ draw_panel
    \/ panel_change_active
    \/ change_dir
    \/ KeyArrow
    \/ KeyQ
    \/ \E p \in Paths : Change(p)

Spec == Init /\ [][Next]_vars

-----------------------------------------------------------------------------
(* Properties *)

Entry == {Up} \cup [kind : {"dir", "file"}, name : Names]

\* Every variable has the type the code gives it; a panel never asks for a
\* path below the deepest directory it was shown.
TypeOK ==
    /\ \A p \in Paths : tree[p] \in Contents(p)
    /\ changes \in 0..MaxChanges
    /\ pc \in {"draw", "key", "q", "exited"}
    /\ active_panel \in Panels
    /\ path \in [Panels -> Paths]
    /\ \A k \in Panels : entries[k] \in Seq(Entry)
    /\ selected \in [Panels -> Nat]
    /\ scroll \in [Panels -> Nat]
    /\ active \in [Panels -> BOOLEAN]

\* The selection is an entry of the list, or 0 when the list is empty because
\* the directory could not be read: change_dir never looks behind the entries,
\* and in an empty list it goes up.
SelectionInList ==
    \A k \in Panels : selected[k] = 0 \/ selected[k] < Len(entries[k])

\* While main waits for a key the selected entry is in the window, and the
\* window shows no empty row as long as entries are hidden above it.
WindowShowsSelection ==
    pc = "key" => \A k \in Panels :
        /\ scroll[k] <= selected[k] /\ selected[k] < scroll[k] + Rows
        /\ scroll[k] = 0 \/ scroll[k] + Rows <= Len(entries[k])

\* Going up leads back to the directory one has come from, if its parent still
\* lists it: entering it again restores the path.
UpIsUndone ==
    [][\A k \in Panels :
          LET up == path'[k] IN
          (path[k] # <<>> /\ up = Front(path[k])) =>
              LET n == Last(path[k]) IN
              \/ entries'[k] # <<>> /\ entries'[k][selected'[k] + 1] = Dir(n)
              \/ tree[up] = Gone
              \/ n \notin DOMAIN tree[up]
              \/ tree[up][n] # "dir"]_vars
=============================================================================
