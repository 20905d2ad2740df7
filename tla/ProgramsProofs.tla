--------------------------- MODULE ProgramsProofs ---------------------------
(***************************************************************************)
(* Proofs about the programs that run on their own and share no module     *)
(* with each other: the file manager and the phone book (MCDesk), and the  *)
(* shared counters, the shop, the kernel modules' string and the exchanges *)
(* of greetings (MCExercises).  Each theorem is about one program's own    *)
(* specification, for all values of its constants; the last two carry the  *)
(* results over to MCDesk and MCExercises as TLC runs them.                *)
(***************************************************************************)
EXTENDS MCDesk, MCExercises, FiniteSetTheorems, SequenceTheorems, WellFoundedInduction, TLAPS

\* The smallest of some natural numbers.
LEMMA Smallest ==
    ASSUME NEW N \in SUBSET Nat, N # {}
    PROVE  \E n \in N : \A m \in N : n <= m
<1> DEFINE R == {ij \in Nat \X Nat : ij[1] < ij[2]}
<1>1. IsWellFoundedOn(R, Nat)
  BY NatLessThanWellFounded DEF OpToRel
<1>2. \A x, y \in Nat : <<y, x>> \notin R => x <= y
  OBVIOUS
<1> HIDE DEF R
<1>3. PICK x \in N : \A y \in N : <<y, x>> \notin R
  BY <1>1, WFMin
<1> QED BY <1>2, <1>3

-----------------------------------------------------------------------------
(* The file manager: lists of entries *)

\* A directory read is a list of entries, and may be empty.
LEMMA Listed ==
    ASSUME NEW p, p \in Paths => tree[p] \in Contents(p)
    PROVE  Len(load_dir(p)) \in Nat
<1>1. CASE p \notin Paths \/ tree[p] = Gone
  BY <1>1, EmptySeq DEF load_dir
<1>2. CASE p \in Paths /\ tree[p] # Gone
  <2> DEFINE S == {[kind |-> tree[p][n], name |-> n] : n \in DOMAIN tree[p]}
  <2>1. IsFiniteSet(S)
    <3>1. DOMAIN tree[p] \in SUBSET Names
      BY <1>2 DEF Contents
    <3>2. IsFiniteSet(DOMAIN tree[p])
      BY <3>1, PanelsAssumption, FS_Subset
    <3> DEFINE f == [n \in DOMAIN tree[p] |-> [kind |-> tree[p][n], name |-> n]]
    <3>3. f \in Surjection(DOMAIN tree[p], S)
      BY DEF Surjection
    <3> HIDE DEF S, f
    <3> QED BY <3>2, <3>3, FS_Surjection
  <2>2. load_dir(p) = <<Up>> \o Sorted(S)
    BY <1>2 DEF load_dir
  <2> HIDE DEF S
  <2>3. Cardinality(S) \in Nat
    BY <2>1, FS_CardinalityType
  <2>4. Sorted(S) \in [1..Cardinality(S) -> {Sorted(S)[j] : j \in 1..Cardinality(S)}]
    BY DEF Sorted
  <2> DEFINE E == {Up} \cup {Sorted(S)[j] : j \in 1..Cardinality(S)}
  <2>5. Sorted(S) \in Seq(E) /\ <<Up>> \in Seq(E)
    BY <2>3, <2>4
  <2> HIDE DEF E
  <2> QED BY <2>2, <2>5, ConcatProperties, LenProperties
<1> QED BY <1>1, <1>2

\* The place of a directory in a list is one of the list's, or the default.
LEMMA Positioned ==
    ASSUME NEW listed, Len(listed) \in Nat, NEW n, NEW s
    PROVE  \/ PositionOf(n, listed, s) = s
           \/ PositionOf(n, listed, s) \in Nat /\ PositionOf(n, listed, s) < Len(listed)
<1>1. CASE Contains(listed, Dir(n))
  <2>1. \E j \in 1..Len(listed) : listed[j] = Dir(n)
    BY <1>1 DEF Contains
  <2>2. (CHOOSE j \in 1..Len(listed) : listed[j] = Dir(n)) \in 1..Len(listed)
    BY <2>1
  <2> QED BY <1>1, <2>2 DEF PositionOf
<1>2. CASE ~Contains(listed, Dir(n))
  BY <1>2 DEF PositionOf
<1> QED BY <1>1, <1>2

-----------------------------------------------------------------------------
(* The file manager: the inductive invariant *)

\* The selection and the window of panel k.  A window that has been scrolled
\* is full, unless the selection has just gone back to the first entry.
PanelFits(k) ==
    /\ Len(entries[k]) \in Nat
    /\ selected[k] \in Nat /\ scroll[k] \in Nat
    /\ selected[k] = 0 \/ selected[k] < Len(entries[k])
    /\ scroll[k] = 0 \/ selected[k] = 0 \/ scroll[k] + Rows <= Len(entries[k])
    /\ pc = "key" =>
          /\ scroll[k] <= selected[k] /\ selected[k] < scroll[k] + Rows
          /\ scroll[k] = 0 \/ scroll[k] + Rows <= Len(entries[k])

PanelInv ==
    /\ \A p \in Paths : tree[p] \in Contents(p)
    /\ active_panel \in Panels
    /\ selected = [k \in Panels |-> selected[k]]
    /\ entries = [k \in Panels |-> entries[k]]
    /\ \A k \in Panels : PanelFits(k)

LEMMA PanelInit == Init => PanelInv
<1> SUFFICES ASSUME Init PROVE PanelInv
  OBVIOUS
<1>1. \A p \in Paths : tree[p] \in Contents(p)
  BY PanelsAssumption DEF Init
<1>2. PICK p \in Paths : entries = [k \in Panels |-> load_dir(p)]
  BY DEF Init
<1>3. Len(load_dir(p)) \in Nat
  BY <1>1, Listed
<1> QED BY <1>1, <1>2, <1>3 DEF Init, PanelInv, PanelFits, Panels

\* Drawing moves the window to the selection, keeps it full and never moves
\* it further than it must.
LEMMA DrawFits == PanelInv /\ draw_panel => PanelInv'
<1> SUFFICES ASSUME PanelInv, draw_panel, NEW k \in Panels
             PROVE  PanelFits(k)'
  BY DEF PanelInv, draw_panel
<1>1. /\ scroll'[k] = Scrolled(k)
      /\ UNCHANGED <<selected, entries>> /\ Rows \in Nat \ {0}
  BY PanelsAssumption DEF draw_panel
<1>2. PanelFits(k)
  BY DEF PanelInv
<1>3. CASE selected[k] < scroll[k]
  BY <1>1, <1>2, <1>3 DEF PanelFits, Scrolled
<1>4. CASE ~(selected[k] < scroll[k]) /\ selected[k] >= scroll[k] + Rows
  BY <1>1, <1>2, <1>4 DEF PanelFits, Scrolled
<1>5. CASE ~(selected[k] < scroll[k]) /\ ~(selected[k] >= scroll[k] + Rows)
  BY <1>1, <1>2, <1>5 DEF PanelFits, Scrolled
<1> QED BY <1>3, <1>4, <1>5

\* Entering a directory from the first entry, or at its first entry.
LEMMA EnterFits ==
    ASSUME PanelInv, Key, NEW k \in Panels, NEW p, NEW s, Enter(k, p, s),
           UNCHANGED active_panel,
           s \in Nat, s = 0 \/ s < Len(load_dir(p)),
           s = 0 \/ selected[k] = 0
    PROVE  PanelInv'
<1>1. Len(load_dir(p)) \in Nat
  BY Listed DEF PanelInv
<1>2. /\ \A j \in Panels \ {k} : entries'[j] = entries[j] /\ selected'[j] = selected[j]
      /\ entries'[k] = load_dir(p) /\ selected'[k] = s
      /\ entries' = [j \in Panels |-> entries'[j]]
      /\ selected' = [j \in Panels |-> selected'[j]]
  BY DEF Enter, PanelInv
<1>3. /\ pc = "key" /\ pc' = "draw" /\ UNCHANGED <<tree, scroll>>
  BY DEF Key
<1>4. ASSUME NEW j \in Panels PROVE PanelFits(j)'
  <2>1. CASE j = k
    <3>1. PanelFits(k)
      BY DEF PanelInv
    <3>2. selected[k] = 0 => scroll[k] = 0
      BY <1>3, <3>1 DEF PanelFits
    <3> QED BY <1>1, <1>2, <1>3, <2>1, <3>1, <3>2 DEF PanelFits
  <2>2. CASE j # k
    BY <1>2, <1>3, <2>2 DEF PanelInv, PanelFits
  <2> QED BY <2>1, <2>2
<1> QED BY <1>2, <1>3, <1>4 DEF PanelInv

LEMMA ChangeDirFits == PanelInv /\ change_dir => PanelInv'
<1> SUFFICES ASSUME PanelInv, change_dir PROVE PanelInv'
  OBVIOUS
<1> DEFINE k == active_panel
<1>1. k \in Panels /\ Key /\ UNCHANGED active_panel /\ (change_dir_up(k) \/ change_dir_down(k))
  BY DEF PanelInv, change_dir
<1> HIDE DEF k
<1>2. CASE change_dir_up(k)
  <2>1. selected[k] = 0
    BY <1>2 DEF change_dir_up
  <2>2. CASE path[k] = <<>>
    <3>1. Enter(k, <<>>, 0)
      BY <1>2, <2>2 DEF change_dir_up
    <3> QED BY <1>1, <2>1, <3>1, EnterFits
  <2>3. CASE path[k] # <<>>
    <3> DEFINE up == Front(path[k])
               s == PositionOf(Last(path[k]), load_dir(up), selected[k])
    <3>1. Enter(k, up, s)
      BY <1>2, <2>3 DEF change_dir_up
    <3>2. Len(load_dir(up)) \in Nat
      BY Listed DEF PanelInv
    <3> HIDE DEF up
    <3>3. s = 0 \/ (s \in Nat /\ s < Len(load_dir(up)))
      BY <2>1, <3>2, Positioned
    <3> HIDE DEF s
    <3> QED BY <1>1, <2>1, <3>1, <3>3, EnterFits
  <2> QED BY <2>2, <2>3
<1>3. CASE change_dir_down(k)
  <2> DEFINE p == Append(path[k], entries[k][selected[k] + 1].name)
  <2>1. CASE Enter(k, p, 0)
    <3> HIDE DEF p
    <3> QED BY <1>1, <2>1, EnterFits
  <2>2. CASE UNCHANGED <<path, entries, selected>>
    BY <1>1, <2>2 DEF Key, PanelInv, PanelFits
  <2> QED BY <1>3, <2>1, <2>2 DEF change_dir_down
<1> QED BY <1>1, <1>2, <1>3

LEMMA ArrowFits == PanelInv /\ KeyArrow => PanelInv'
<1> SUFFICES ASSUME PanelInv, KeyArrow PROVE PanelInv'
  OBVIOUS
<1>0. PICK k \in Panels : k = active_panel
  BY DEF PanelInv
<1>1. /\ k \in Panels /\ pc = "key" /\ pc' = "draw"
      /\ UNCHANGED <<tree, scroll, active_panel, entries>>
      /\ \/ selected[k] > 0 /\ selected' = [selected EXCEPT ![k] = @ - 1]
         \/ /\ selected[k] < Len(entries[k]) - 1
            /\ selected' = [selected EXCEPT ![k] = @ + 1]
  BY <1>0 DEF KeyArrow, Key
<1>2. /\ \A j \in Panels \ {k} : selected'[j] = selected[j]
      /\ \/ selected[k] > 0 /\ selected'[k] = selected[k] - 1
         \/ selected[k] < Len(entries[k]) - 1 /\ selected'[k] = selected[k] + 1
      /\ selected' = [j \in Panels |-> selected'[j]]
  BY <1>1 DEF PanelInv
<1>3. PanelFits(k)'
  <2>1. PanelFits(k) /\ Rows \in Nat \ {0}
    BY <1>1, PanelsAssumption DEF PanelInv
  <2>2. /\ selected'[k] \in Nat
        /\ selected'[k] = 0 \/ selected'[k] < Len(entries[k])
    BY <1>2, <2>1 DEF PanelFits
  <2>3. scroll[k] = 0 \/ scroll[k] + Rows <= Len(entries[k])
    BY <1>1, <2>1 DEF PanelFits
  <2> QED BY <1>1, <2>1, <2>2, <2>3 DEF PanelFits
<1>4. \A j \in Panels \ {k} : PanelFits(j)'
  BY <1>1, <1>2 DEF PanelInv, PanelFits
<1>5. /\ \A p \in Paths : tree'[p] \in Contents(p)
      /\ active_panel' \in Panels
      /\ entries' = [j \in Panels |-> entries'[j]]
  BY <1>1 DEF PanelInv
<1>6. \A j \in Panels : PanelFits(j)'
  BY <1>3, <1>4
<1> QED BY <1>2, <1>5, <1>6 DEF PanelInv

LEMMA ChangeFits == ASSUME PanelInv, NEW p \in Paths, Change(p) PROVE PanelInv'
<1>1. \A q \in Paths : tree'[q] \in Contents(q)
  <2>1. \A q \in Paths : Gone \in Contents(q)
    BY DEF Contents
  <2>2. PICK new \in Contents(p) :
           \A q \in Paths : tree'[q] \in {IF q = p THEN new ELSE tree[q], Gone}
    BY DEF Change
  <2> QED BY <2>1, <2>2 DEF PanelInv
<1>2. UNCHANGED <<pc, active_panel, entries, selected, scroll>>
  BY DEF Change, panels
<1> QED BY <1>1, <1>2 DEF PanelInv, PanelFits

LEMMA PanelNext == PanelInv /\ [Next]_vars => PanelInv'
<1> SUFFICES ASSUME PanelInv, [Next]_vars PROVE PanelInv'
  OBVIOUS
<1>1. CASE panel_change_active
  BY <1>1 DEF panel_change_active, Key, PanelInv, PanelFits, Panels
<1>2. CASE KeyQ
  BY <1>2 DEF KeyQ, panels, PanelInv, PanelFits
<1>3. CASE UNCHANGED vars
  BY <1>3 DEF vars, panels, PanelInv, PanelFits
<1> QED BY <1>1, <1>2, <1>3, DrawFits, ChangeDirFits, ArrowFits, ChangeFits DEF Next

LEMMA PanelInvariant == Spec => []PanelInv
  BY PanelInit, PanelNext, PTL DEF Spec

-----------------------------------------------------------------------------
\* Whatever others do to the directories: the selection is an entry of what
\* the panel shows, or 0 where it shows nothing.
THEOREM SelectionListed == Spec => []SelectionInList
<1>1. PanelInv => SelectionInList
  BY DEF PanelInv, PanelFits, SelectionInList
<1> QED BY <1>1, PanelInvariant, PTL

\* At every key the selected entry is in the window, and a window that has
\* been scrolled is full.
THEOREM SelectionShown == Spec => []WindowShowsSelection
<1>1. PanelInv => WindowShowsSelection
  BY DEF PanelInv, PanelFits, WindowShowsSelection
<1> QED BY <1>1, PanelInvariant, PTL

-----------------------------------------------------------------------------
(* The file manager: sorted directories and the way back *)

\* What directory p holds, as entries.
Held(p) == {[kind |-> tree[p][n], name |-> n] : n \in DOMAIN tree[p]}

\* How many of the entries S come before e.
Place(S, e) == Cardinality({f \in S : cmp(f, e)})

\* Different entries have different names, so that cmp orders them.
Distinct(S) ==
    /\ IsFiniteSet(S)
    /\ S \subseteq [kind : {"dir", "file"}, name : Names]
    /\ \A e, f \in S : e.name = f.name => e = f

LEMMA HeldDistinct ==
    ASSUME NEW p \in Paths, tree[p] \in Contents(p), tree[p] # Gone
    PROVE  Distinct(Held(p)) /\ \A e \in Held(p) : e.kind = "dir" => Len(p) < MaxDepth
<1>1. PICK N \in SUBSET Names : tree[p] \in [N -> Kinds(p)]
  BY DEF Contents
<1>2. IsFiniteSet(N) /\ Kinds(p) \subseteq {"dir", "file"}
  BY PanelsAssumption, FS_Subset DEF Kinds
<1>3. Held(p) = {[kind |-> tree[p][n], name |-> n] : n \in N}
  BY <1>1 DEF Held
<1>4. IsFiniteSet(Held(p))
  <2> DEFINE f == [n \in N |-> [kind |-> tree[p][n], name |-> n]]
  <2>1. f \in Surjection(N, Held(p))
    BY <1>3 DEF Surjection
  <2> HIDE DEF f
  <2> QED BY <2>1, <1>2, FS_Surjection
<1>5. \A n \in N : tree[p][n] \in Kinds(p)
  BY <1>1
<1>6. Held(p) \subseteq [kind : {"dir", "file"}, name : Names]
  BY <1>2, <1>3, <1>5
<1>7. \A e, f \in Held(p) : e.name = f.name => e = f
  BY <1>3
<1>8. \A e \in Held(p) : e.kind = "dir" => Len(p) < MaxDepth
  BY <1>3, <1>5 DEF Kinds
<1> QED BY <1>4, <1>6, <1>7, <1>8 DEF Distinct

LEMMA cmpOrders ==
    ASSUME NEW S, Distinct(S)
    PROVE  /\ \A e \in S : ~cmp(e, e)
           /\ \A e, f \in S : e # f => cmp(e, f) \/ cmp(f, e)
           /\ \A e, f, g \in S : cmp(e, f) /\ cmp(f, g) => cmp(e, g)
<1>1. \A e \in S : e.name \in Int /\ Rank(e) \in Int
  <2>1. \A e : Rank(e) \in Int
    BY DEF Rank
  <2>2. \A e \in S : e.name \in Names
    BY DEF Distinct
  <2>3. Names \subseteq Int
    BY PanelsAssumption
  <2>4. \A e \in S : e.name \in Int
    BY <2>2, <2>3
  <2> QED BY <2>1, <2>4
<1>2. \A e, f \in S : e.name = f.name => e = f
  BY DEF Distinct
<1> QED BY <1>1, <1>2 DEF cmp

LEMMA PlaceOrders ==
    ASSUME NEW S, Distinct(S), NEW e \in S
    PROVE  /\ Place(S, e) \in Nat
           /\ Place(S, e) < Cardinality(S)
           /\ \A g \in S : cmp(e, g) => Place(S, e) < Place(S, g)
<1> DEFINE Below(g) == {f \in S : cmp(f, g)}
<1>1. IsFiniteSet(S) /\ \A g \in S : Below(g) \in SUBSET S /\ IsFiniteSet(Below(g))
  BY FS_Subset DEF Distinct
<1>2. \A g \in S : Place(S, g) = Cardinality(Below(g)) /\ Place(S, g) \in Nat
  BY <1>1, FS_CardinalityType DEF Place
<1>3. e \notin Below(e)
  BY cmpOrders
<1>4. IsFiniteSet(Below(e) \cup {e}) /\ Cardinality(Below(e) \cup {e}) = Place(S, e) + 1
  <2> HIDE DEF Below
  <2> QED BY <1>1, <1>2, <1>3, FS_AddElement
<1>5. Cardinality(S) \in Nat
  BY <1>1, FS_CardinalityType
<1>6. Place(S, e) + 1 <= Cardinality(S)
  <2>1. Below(e) \cup {e} \in SUBSET S
    OBVIOUS
  <2> HIDE DEF Below
  <2> QED BY <2>1, <1>1, <1>4, FS_Subset
<1>7. ASSUME NEW g \in S, cmp(e, g) PROVE Place(S, e) < Place(S, g)
  <2>1. Below(e) \cup {e} \in SUBSET Below(g)
    BY <1>7, cmpOrders
  <2> HIDE DEF Below
  <2>2. Place(S, e) + 1 <= Place(S, g)
    BY <2>1, <1>1, <1>2, <1>4, FS_Subset
  <2> QED BY <2>2, <1>2
<1>8. Place(S, e) \in Nat
  BY <1>2
<1>9. Place(S, e) < Cardinality(S)
  BY <1>5, <1>6, <1>8
<1> QED BY <1>7, <1>8, <1>9

\* qsort loses nothing and invents nothing.
LEMMA SortedHoldsAll ==
    ASSUME NEW S, Distinct(S)
    PROVE  /\ Cardinality(S) \in Nat
           /\ Sorted(S) \in [1..Cardinality(S) -> S]
           /\ \A e \in S : \E j \in 1..Cardinality(S) : Sorted(S)[j] = e
<1>1. IsFiniteSet(S) /\ Cardinality(S) \in Nat
  BY FS_CardinalityType DEF Distinct
<1>2. PICK n \in Nat : n = Cardinality(S)
  BY <1>1
<1> DEFINE f == [e \in S |-> Place(S, e) + 1]
<1>3. \A e, g \in S : e # g => Place(S, e) # Place(S, g)
  BY cmpOrders, PlaceOrders
<1>4. \A e \in S : f[e] \in 1..n /\ f[e] - 1 = Place(S, e)
  BY <1>2, PlaceOrders
<1>5. f \in Injection(S, 1..n)
  <2>1. \A e, g \in S : f[e] = f[g] => e = g
    BY <1>3, <1>4
  <2> QED BY <2>1, <1>4 DEF Injection, IsInjective
<1>6. IsFiniteSet(1..n) /\ Cardinality(1..n) = n
  BY <1>2, FS_Interval
<1>7. f \in Surjection(S, 1..n)
  <2> HIDE DEF f
  <2> QED BY <1>2, <1>5, <1>6, FS_Injection
<1>8. \A j \in 1..n : \E e \in S : Place(S, e) = j - 1
  <2> SUFFICES ASSUME NEW j \in 1..n PROVE \E e \in S : Place(S, e) = j - 1
    OBVIOUS
  <2>1. PICK e \in S : f[e] = j
    <3> HIDE DEF f
    <3> QED BY <1>7 DEF Surjection
  <2> QED BY <2>1, <1>4
<1>9. Sorted(S) = [j \in 1..n |-> CHOOSE e \in S : Place(S, e) = j - 1]
  BY <1>2 DEF Sorted, Place
<1>10. \A j \in 1..n : Sorted(S)[j] \in S /\ Place(S, Sorted(S)[j]) = j - 1
  BY <1>8, <1>9
<1>11. \A e \in S : f[e] \in 1..n /\ Sorted(S)[f[e]] = e
  BY <1>3, <1>4, <1>10
<1>12. Sorted(S) \in [1..n -> S]
  BY <1>9, <1>10
<1> QED BY <1>1, <1>2, <1>11, <1>12

\* What is read from a directory that can be read: "..", and what it holds.
LEMMA DirectoryRead ==
    ASSUME NEW p \in Paths, tree[p] \in Contents(p), tree[p] # Gone
    PROVE  /\ load_dir(p) \in Seq(Entry)
           /\ \A j \in 2..Len(load_dir(p)) : load_dir(p)[j] \in Held(p)
           /\ \A e \in Held(p) : \E j \in 1..Len(load_dir(p)) : load_dir(p)[j] = e
<1> DEFINE S == Held(p)
<1>1. Distinct(S)
  BY HeldDistinct
<1>2. PICK n \in Nat : /\ n = Cardinality(S)
                       /\ Sorted(S) \in [1..n -> S]
                       /\ \A e \in S : \E j \in 1..n : Sorted(S)[j] = e
  BY <1>1, SortedHoldsAll
<1>3. load_dir(p) = <<Up>> \o Sorted(S)
  BY DEF load_dir, Held
<1>4. S \subseteq Entry /\ Up \in Entry
  BY <1>1 DEF Distinct, Entry
<1> HIDE DEF S
<1>5. Sorted(S) \in Seq(Entry) /\ Len(Sorted(S)) = n /\ <<Up>> \in Seq(Entry) /\ Len(<<Up>>) = 1
  BY <1>2, <1>4
<1>6. /\ load_dir(p) \in Seq(Entry) /\ Len(load_dir(p)) = 1 + n
      /\ \A j \in 1..(1 + n) : load_dir(p)[j] = IF j <= 1 THEN <<Up>>[j] ELSE Sorted(S)[j - 1]
  BY <1>3, <1>5, ConcatProperties
<1>7. \A j \in 2..(1 + n) : j - 1 \in 1..n /\ load_dir(p)[j] = Sorted(S)[j - 1]
  BY <1>6
<1>8. \A j \in 1..n : j + 1 \in 1..(1 + n) /\ load_dir(p)[j + 1] = Sorted(S)[j]
  BY <1>6
<1>9. \A j \in 2..(1 + n) : load_dir(p)[j] \in S
  BY <1>2, <1>7
<1>10. \A e \in S : \E j \in 1..(1 + n) : load_dir(p)[j] = e
  BY <1>2, <1>8
<1> QED BY <1>6, <1>9, <1>10 DEF S

LEMMA PathsAre ==
    /\ Paths = UNION {[1..m -> Names] : m \in 0..MaxDepth}
    /\ MaxDepth \in Nat
    /\ \A p \in Paths : p \in Seq(Names) /\ Len(p) \in Nat /\ Len(p) <= MaxDepth
    /\ \A p \in Seq(Names) : Len(p) <= MaxDepth => p \in Paths
<1>1. Paths = UNION {[1..m -> Names] : m \in 0..MaxDepth} /\ MaxDepth \in Nat
  BY PanelsAssumption DEF Paths, BoundedSeq, SeqOf
<1>2. ASSUME NEW p \in Paths PROVE p \in Seq(Names) /\ Len(p) \in Nat /\ Len(p) <= MaxDepth
  <2>1. PICK m \in 0..MaxDepth : p \in [1..m -> Names]
    BY <1>1
  <2>2. m \in Nat /\ m <= MaxDepth
    BY <2>1, <1>1
  <2>3. p \in Seq(Names) /\ Len(p) = m
    BY <2>1, <2>2
  <2> QED BY <2>2, <2>3
<1>3. ASSUME NEW p \in Seq(Names), Len(p) <= MaxDepth PROVE p \in Paths
  <2>1. Len(p) \in 0..MaxDepth /\ p \in [1..Len(p) -> Names]
    BY <1>1, <1>3, LenProperties
  <2> QED BY <2>1, <1>1
<1> QED BY <1>1, <1>2, <1>3

\* A panel is at a path that may exist, and the directories it lists may too.
PanelTyped(k) ==
    /\ path[k] \in Paths
    /\ \A j \in 2..Len(entries[k]) :
          entries[k][j].kind = "dir" => Append(path[k], entries[k][j].name) \in Paths

PathInv ==
    /\ path = [k \in Panels |-> path[k]]
    /\ \A k \in Panels : PanelTyped(k)

LEMMA ListedPaths ==
    ASSUME NEW p \in Paths, tree[p] \in Contents(p), NEW j \in 2..Len(load_dir(p)),
           load_dir(p)[j].kind = "dir"
    PROVE  Append(p, load_dir(p)[j].name) \in Paths
<1>1. tree[p] # Gone
  <2>1. Len(<<>>) = 0
    OBVIOUS
  <2> QED BY <2>1 DEF load_dir
<1>2. PICK e \in Held(p) : e = load_dir(p)[j]
  BY <1>1, DirectoryRead
<1>3. Len(p) < MaxDepth /\ e.name \in Names
  BY <1>1, <1>2, HeldDistinct DEF Distinct
<1>4. p \in Seq(Names) /\ Len(p) \in Nat /\ MaxDepth \in Nat
  BY PathsAre
<1>5. Append(p, e.name) \in Seq(Names) /\ Len(Append(p, e.name)) = Len(p) + 1
  BY <1>3, <1>4, AppendProperties
<1>6. Len(Append(p, e.name)) <= MaxDepth
  BY <1>3, <1>4, <1>5
<1> QED BY <1>2, <1>5, <1>6, PathsAre

LEMMA FrontIs ==
    ASSUME NEW p \in Paths, p # <<>>
    PROVE  Front(p) \in Paths /\ Len(Front(p)) = Len(p) - 1 /\ Len(p) \in Nat
<1>1. p \in Seq(Names) /\ Len(p) \in Nat /\ Len(p) <= MaxDepth /\ MaxDepth \in Nat
  BY PathsAre
<1>2. Len(p) # 0
  BY <1>1, EmptySeq
<1>3. Front(p) \in Seq(Names) /\ Len(Front(p)) = Len(p) - 1
  <2>1. Len(p) - 1 \in Nat
    BY <1>1, <1>2
  <2>2. \A i \in 1..(Len(p) - 1) : i \in 1..Len(p) /\ p[i] \in Names
    BY <1>1, LenProperties
  <2>3. Front(p) = [i \in 1..(Len(p) - 1) |-> p[i]]
    BY <2>1, <1>1, SubSeqProperties DEF Front
  <2> QED BY <2>1, <2>2, <2>3
<1>4. Len(Front(p)) <= MaxDepth
  BY <1>1, <1>3
<1> QED BY <1>1, <1>3, <1>4, PathsAre

LEMMA PathInit == Init => PathInv
<1> SUFFICES ASSUME Init PROVE PathInv
  OBVIOUS
<1>1. PICK p \in Paths : path = [k \in Panels |-> p] /\ entries = [k \in Panels |-> load_dir(p)]
  BY DEF Init
<1>2. tree[p] \in Contents(p)
  BY PanelsAssumption DEF Init
<1>3. \A j \in 2..Len(load_dir(p)) : load_dir(p)[j].kind = "dir" => Append(p, load_dir(p)[j].name) \in Paths
  BY <1>2, ListedPaths
<1> QED BY <1>1, <1>3 DEF PathInv, PanelTyped

LEMMA EnterPath ==
    ASSUME PanelInv, PathInv, NEW k \in Panels, NEW p \in Paths, NEW s, Enter(k, p, s)
    PROVE  PathInv'
<1>1. tree[p] \in Contents(p)
  BY DEF PanelInv
<1>2. /\ \A j \in Panels \ {k} : entries'[j] = entries[j] /\ path'[j] = path[j]
      /\ entries'[k] = load_dir(p) /\ path'[k] = p
      /\ path' = [j \in Panels |-> path'[j]]
  BY DEF Enter, PanelInv, PathInv
<1>3. \A j \in 2..Len(load_dir(p)) : load_dir(p)[j].kind = "dir" => Append(p, load_dir(p)[j].name) \in Paths
  BY <1>1, ListedPaths
<1>4. PanelTyped(k)'
  BY <1>2, <1>3 DEF PanelTyped
<1>5. \A j \in Panels \ {k} : PanelTyped(j)'
  BY <1>2 DEF PathInv, PanelTyped
<1> QED BY <1>2, <1>4, <1>5 DEF PathInv

\* Where change_dir can go.
LEMMA WhereTo ==
    ASSUME PanelInv, PathInv, change_dir
    PROVE  \/ UNCHANGED <<path, entries, selected>>
           \/ /\ path[active_panel] = <<>> /\ Enter(active_panel, <<>>, 0)
              /\ <<>> \in Paths
           \/ /\ path[active_panel] # <<>>
              /\ LET up == Front(path[active_panel]) IN
                 /\ up \in Paths
                 /\ Enter(active_panel, up, PositionOf(Last(path[active_panel]), load_dir(up), 0))
           \/ \E n : LET p == Append(path[active_panel], n) IN
                 p \in Paths /\ Enter(active_panel, p, 0)
<1> DEFINE k == active_panel
<1>1. k \in Panels /\ (change_dir_up(k) \/ change_dir_down(k))
  BY DEF PanelInv, change_dir
<1>2. path[k] \in Paths /\ PanelTyped(k) /\ PanelFits(k)
  BY <1>1 DEF PathInv, PanelTyped, PanelInv
<1> HIDE DEF k
<1>3. CASE change_dir_up(k)
  <2>1. CASE path[k] = <<>>
    BY <2>1, <1>2, <1>3 DEF change_dir_up, k
  <2>2. CASE path[k] # <<>>
    <3>1. Front(path[k]) \in Paths
      BY <2>2, <1>2, FrontIs
    <3> QED BY <2>2, <3>1, <1>3 DEF change_dir_up, k
  <2> QED BY <2>1, <2>2
<1>4. CASE change_dir_down(k)
  <2> DEFINE j == selected[k] + 1
  <2>1. j \in 2..Len(entries[k])
    BY <1>2, <1>4 DEF change_dir_down, PanelFits
  <2>2. CASE UNCHANGED <<path, entries, selected>>
    BY <2>2
  <2>3. CASE /\ entries[k][j].kind = "dir"
             /\ Enter(k, Append(path[k], entries[k][j].name), 0)
    <3>1. Append(path[k], entries[k][j].name) \in Paths
      <4> HIDE DEF j
      <4> QED BY <2>1, <2>3, <1>2 DEF PanelTyped
    <3> QED BY <2>3, <3>1 DEF k
  <2> QED BY <2>2, <2>3, <1>4 DEF change_dir_down
<1> QED BY <1>1, <1>3, <1>4

LEMMA PathNext == PanelInv /\ PathInv /\ [Next]_vars => PathInv'
<1> SUFFICES ASSUME PanelInv, PathInv, [Next]_vars PROVE PathInv'
  OBVIOUS
<1>1. CASE change_dir
  <2>1. active_panel \in Panels
    BY DEF PanelInv
  <2>2. CASE UNCHANGED <<path, entries, selected>>
    BY <2>2 DEF PathInv, PanelTyped
  <2> QED BY <2>1, <2>2, <1>1, WhereTo, EnterPath
<1>2. CASE UNCHANGED <<path, entries>>
  BY <1>2 DEF PathInv, PanelTyped
<1>3. Next /\ ~change_dir => UNCHANGED <<path, entries>>
  BY DEF Next, draw_panel, panel_change_active, KeyArrow, KeyQ, Change, panels
<1> QED BY <1>1, <1>2, <1>3 DEF vars, panels

\* Where the directory n is listed, its position is.
LEMMA PositionShows ==
    ASSUME NEW listed, NEW n, NEW s, \E j \in 1..Len(listed) : listed[j] = Dir(n)
    PROVE  listed[PositionOf(n, listed, s) + 1] = Dir(n)
<1>1. PICK j \in 1..Len(listed) : j = (CHOOSE i \in 1..Len(listed) : listed[i] = Dir(n)) /\ listed[j] = Dir(n)
  OBVIOUS
<1>2. PositionOf(n, listed, s) = j - 1 /\ (j - 1) + 1 = j
  BY <1>1 DEF PositionOf, Contains
<1> QED BY <1>1, <1>2

UpReturns(k) ==
    LET up == path'[k] IN
    (path[k] # <<>> /\ up = Front(path[k])) =>
        LET n == Last(path[k]) IN
        \/ entries'[k] # <<>> /\ entries'[k][selected'[k] + 1] = Dir(n)
        \/ tree[up] = Gone
        \/ n \notin DOMAIN tree[up]
        \/ tree[up][n] # "dir"

\* Paths that are not made shorter do not go up.
LEMMA NotUp ==
    ASSUME PathInv, NEW k \in Panels,
           path'[k] # path[k] => path[k] = <<>> \/ \E n : path'[k] = Append(path[k], n) /\ path'[k] \in Paths
    PROVE  UpReturns(k)
<1> SUFFICES ASSUME path[k] # <<>>, path'[k] = Front(path[k]) PROVE FALSE
  BY DEF UpReturns
<1>1. path[k] \in Paths
  BY DEF PathInv, PanelTyped
<1>2. Len(path'[k]) = Len(path[k]) - 1 /\ Len(path[k]) \in Nat
  BY <1>1, FrontIs
<1>3. PICK n : path'[k] = Append(path[k], n)
  BY <1>2
<1>4. path[k] \in Seq(Names)
  BY <1>1, PathsAre
<1>5. Len(Append(path[k], n)) = Len(path[k]) + 1
  BY <1>4
<1> QED BY <1>2, <1>3, <1>5

LEMMA UpStep ==
    ASSUME PanelInv, PathInv, change_dir, NEW k \in Panels
    PROVE  UpReturns(k)
<1> DEFINE a == active_panel
<1>1. a \in Panels /\ path = [j \in Panels |-> path[j]] /\ selected = [j \in Panels |-> selected[j]] /\ entries = [j \in Panels |-> entries[j]]
  BY DEF PanelInv, PathInv
<1> HIDE DEF a
<1>2. CASE UNCHANGED <<path, entries, selected>>
  BY <1>2, NotUp
<1>3. CASE path[a] = <<>> /\ Enter(a, <<>>, 0)
  <2>1. path'[k] # path[k] => path[k] = <<>>
    BY <1>1, <1>3 DEF Enter
  <2> QED BY <2>1, NotUp
<1>4. ASSUME NEW n, Append(path[a], n) \in Paths, Enter(a, Append(path[a], n), 0)
      PROVE  UpReturns(k)
  <2>1. path'[k] # path[k] => path'[k] = Append(path[k], n) /\ path'[k] \in Paths
    BY <1>1, <1>4 DEF Enter
  <2> QED BY <2>1, NotUp
<1>5. ASSUME path[a] # <<>>, NEW up \in Paths, up = Front(path[a]),
             Enter(a, up, PositionOf(Last(path[a]), load_dir(up), 0))
      PROVE  UpReturns(k)
  <2>1. CASE k # a
    <3>1. path'[k] = path[k]
      BY <2>1, <1>1, <1>5 DEF Enter
    <3> QED BY <3>1, NotUp
  <2>2. CASE k = a
    <3> DEFINE n == Last(path[a])
               s == PositionOf(n, load_dir(up), 0)
    <3>1. path'[a] = up /\ entries'[a] = load_dir(up) /\ selected'[a] = s
      BY <1>1, <1>5 DEF Enter
    <3> SUFFICES ASSUME tree[up] # Gone, n \in DOMAIN tree[up], tree[up][n] = "dir"
                 PROVE  load_dir(up) # <<>> /\ load_dir(up)[s + 1] = Dir(n)
      BY <2>2, <3>1 DEF UpReturns
    <3>2. Dir(n) \in Held(up)
      BY DEF Dir, Held
    <3>3. tree[up] \in Contents(up)
      BY DEF PanelInv
    <3>4. PICK j \in 1..Len(load_dir(up)) : load_dir(up)[j] = Dir(n)
      <4> HIDE DEF n
      <4> QED BY <3>2, <3>3, DirectoryRead
    <3>5. load_dir(up)[s + 1] = Dir(n)
      <4> HIDE DEF n
      <4> QED BY <3>4, PositionShows
    <3>6. load_dir(up) # <<>>
      BY <3>4
    <3> QED BY <3>5, <3>6
  <2> QED BY <2>1, <2>2
<1> QED BY <1>2, <1>3, <1>4, <1>5, WhereTo DEF a

\* Whoever goes up sees the directory left selected, if it still exists.
THEOREM GoingUpIsUndone == Spec => UpIsUndone
<1>1. Init => PathInv
  BY PathInit
<1>2. PanelInv /\ PathInv /\ [Next]_vars => PathInv'
  BY PathNext
<1>3. PanelInv /\ PathInv /\ [Next]_vars => [\A k \in Panels : UpReturns(k)]_vars
  <2> SUFFICES ASSUME PanelInv, PathInv, Next, NEW k \in Panels PROVE UpReturns(k)
    OBVIOUS
  <2>1. CASE change_dir
    BY <2>1, UpStep
  <2>2. CASE ~change_dir
    <3>1. path'[k] = path[k]
      BY <2>2 DEF Next, draw_panel, panel_change_active, KeyArrow, KeyQ, Change, panels
    <3> QED BY <3>1, NotUp
  <2> QED BY <2>1, <2>2
<1>4. UpIsUndone <=> [][\A k \in Panels : UpReturns(k)]_vars
  BY DEF UpIsUndone, UpReturns
<1> QED BY <1>1, <1>2, <1>3, <1>4, PanelInvariant, PTL DEF Spec

-----------------------------------------------------------------------------
(* The phone book *)

Nodes == 1..MaxNodes
Links == 0..MaxNodes
Abonents == [name : Names, tel : Tels]

\* The nodes in s, and no others, are in use; next leads from head through them
\* and prev back; and their entries are sorted.
Linked(s) ==
    /\ s \in Seq(Nodes)
    /\ \A j, k \in 1..Len(s) : s[j] = s[k] => j = k
    /\ \A m \in Nodes : data[m] # NoData <=> \E k \in 1..Len(s) : s[k] = m
    /\ head = IF Len(s) = 0 THEN 0 ELSE s[1]
    /\ \A k \in 1..Len(s) :
          /\ next[s[k]] = IF k = Len(s) THEN 0 ELSE s[k + 1]
          /\ prev[s[k]] = IF k = 1 THEN 0 ELSE s[k - 1]
    /\ \A m \in Nodes : data[m] = NoData => next[m] = 0 /\ prev[m] = 0
    /\ \A j, k \in 1..Len(s) : j < k => data[s[j]].name <= data[s[k]].name

ListTyped ==
    /\ head \in Links
    /\ data \in [Nodes -> Abonents \cup {NoData}]
    /\ prev \in [Nodes -> Links]
    /\ next \in [Nodes -> Links]
    /\ open \in BOOLEAN

ListInv == ListTyped /\ \E s : Linked(s)

LEMMA ListFacts ==
    /\ Names \subseteq Int
    /\ MaxNodes \in Nat \ {0}
    /\ NoData \notin Abonents
BY DeskAssumption DEF Phone!ListAssumption, Abonents

LEMMA ListNames ==
    /\ Phone!Nodes = Nodes
    /\ Phone!Links = Links
    /\ Phone!abonent = Abonents
    /\ Phone!NULL = 0
BY ListFacts DEF Phone!Nodes, Phone!Links, Phone!abonent, Phone!NULL, Nodes, Links, Abonents

\* How Walk finds its way.
Follows(c, h, nx) ==
    c = [k \in Nodes |-> IF k = 1 THEN h
                         ELSE IF c[k - 1] = 0 THEN 0 ELSE nx[c[k - 1]]]

Way(c) == [k \in 1..Cardinality({j \in Nodes : c[j] # 0}) |-> c[k]]

LEMMA WalkIs ==
    Phone!Walk = Way(CHOOSE c : Follows(c, head, next))
BY ListNames DEF Phone!Walk, Phone!Cardinality, Cardinality, Phone!IsFiniteSet, IsFiniteSet, Follows, Way, Nodes
LEMMA WalkIsNext ==
    Phone!Walk' = Way(CHOOSE c : Follows(c, head', next'))
BY ListNames DEF Phone!Walk, Phone!Cardinality, Cardinality, Follows, Way, Nodes
Leads(s, h, nx) ==
    /\ s \in Seq(Nodes)
    /\ \A j, k \in 1..Len(s) : s[j] = s[k] => j = k
    /\ h = IF Len(s) = 0 THEN 0 ELSE s[1]
    /\ \A k \in 1..Len(s) : nx[s[k]] = IF k = Len(s) THEN 0 ELSE s[k + 1]

\* There are no more different nodes than there are nodes.
LEMMA ShortEnough ==
    ASSUME NEW s \in Seq(Nodes), \A j, k \in 1..Len(s) : s[j] = s[k] => j = k
    PROVE  Len(s) \in Nat /\ Len(s) <= MaxNodes
<1>1. Len(s) \in Nat /\ s \in [1..Len(s) -> Nodes]
  BY LenProperties
<1>2. s \in Injection(1..Len(s), Nodes)
  BY <1>1 DEF Injection, IsInjective
<1>3. IsFiniteSet(Nodes) /\ Cardinality(Nodes) = MaxNodes
  BY ListFacts, FS_Interval DEF Nodes
<1>5. Cardinality(1..Len(s)) <= Cardinality(Nodes)
  BY <1>2, <1>3, FS_Injection
<1>6. Cardinality(1..Len(s)) = Len(s)
  BY <1>1, FS_Interval
<1> QED BY <1>1, <1>3, <1>5, <1>6

\* There is one way, and it is the sequence that head and next lead along.
LEMMA OneWay ==
    ASSUME NEW h, NEW nx, NEW s, Leads(s, h, nx)
    PROVE  Way(CHOOSE c : Follows(c, h, nx)) = s
<1>1. s \in Seq(Nodes) /\ Len(s) \in Nat /\ Len(s) <= MaxNodes
  BY ShortEnough DEF Leads
<1>0. Cardinality(1..Len(s)) = Len(s)
  BY <1>1, FS_Interval
<1> USE ListFacts
<1>2. \A k \in 1..Len(s) : s[k] \in Nodes /\ s[k] # 0
  BY <1>1 DEF Nodes
<1> DEFINE w == [k \in Nodes |-> IF k <= Len(s) THEN s[k] ELSE 0]
<1>3. Follows(w, h, nx)
  <2>1. ASSUME NEW k \in Nodes
        PROVE  w[k] = IF k = 1 THEN h ELSE IF w[k - 1] = 0 THEN 0 ELSE nx[w[k - 1]]
    <3>1. CASE k = 1
      BY <3>1, <1>1 DEF Leads, Nodes
    <3>2. CASE k # 1 /\ k - 1 <= Len(s)
      <4>1. k - 1 \in 1..Len(s) /\ k - 1 \in Nodes /\ (k - 1) + 1 = k
        BY <3>2, <1>1 DEF Nodes
      <4>2. w[k - 1] = s[k - 1] /\ w[k - 1] # 0
        BY <4>1, <1>2
      <4>3. nx[s[k - 1]] = IF k - 1 = Len(s) THEN 0 ELSE s[k]
        BY <4>1 DEF Leads
      <4>4. w[k] = IF k - 1 = Len(s) THEN 0 ELSE s[k]
        BY <3>2, <4>1, <1>1 DEF Nodes
      <4> QED BY <3>2, <4>2, <4>3, <4>4
    <3>3. CASE k # 1 /\ k - 1 > Len(s)
      BY <3>3, <1>1 DEF Nodes
    <3> QED BY <3>1, <3>2, <3>3, <1>1 DEF Nodes
  <2> QED BY <2>1 DEF Follows
<1>4. PICK c : c = (CHOOSE d : Follows(d, h, nx)) /\ Follows(c, h, nx)
  BY <1>3
<1>5. \A k \in Nodes : c[k] = IF k = 1 THEN h ELSE IF c[k - 1] = 0 THEN 0 ELSE nx[c[k - 1]]
  BY <1>4 DEF Follows
<1>6. \A k \in Nodes : w[k] = IF k = 1 THEN h ELSE IF w[k - 1] = 0 THEN 0 ELSE nx[w[k - 1]]
  <2> HIDE DEF w
  <2> QED BY <1>3 DEF Follows
<1>7. \A k \in Nodes : c[k] = w[k]
  <2> HIDE DEF w
  <2> DEFINE Wrong == {k \in Nodes : c[k] # w[k]}
  <2> SUFFICES ASSUME Wrong # {} PROVE FALSE
    OBVIOUS
  <2>1. Wrong \in SUBSET Nat
    BY DEF Nodes
  <2>2. PICK k \in Wrong : \A m \in Wrong : k <= m
    <3> HIDE DEF Wrong
    <3> QED BY <2>1, Smallest
  <2>3. k # 1
    BY <2>2, <1>5, <1>6
  <2>4. k - 1 \in Nodes /\ k - 1 \notin Wrong
    BY <2>2, <2>3 DEF Nodes
  <2>5. c[k - 1] = w[k - 1]
    BY <2>4
  <2> QED BY <2>2, <2>3, <2>5, <1>5, <1>6
<1>8. \A k \in Nodes : c[k] # 0 <=> k \in 1..Len(s)
  BY <1>1, <1>2, <1>7 DEF Nodes
<1>9. {j \in Nodes : c[j] # 0} = 1..Len(s)
  BY <1>1, <1>8 DEF Nodes
<1>11. Way(c) = [k \in 1..Len(s) |-> c[k]]
  BY <1>9, <1>0 DEF Way
<1>12. \A k \in 1..Len(s) : c[k] = s[k]
  BY <1>1, <1>7 DEF Nodes
<1>13. [k \in 1..Len(s) |-> c[k]] = s
  BY <1>1, <1>12
<1> QED BY <1>4, <1>11, <1>13

LEMMA WalkLinked ==
    ASSUME NEW s, Linked(s)
    PROVE  Phone!Walk = s
<1>1. Leads(s, head, next)
  BY DEF Linked, Leads
<1> QED BY <1>1, WalkIs, OneWay

LEMMA WalkLinkedNext ==
    ASSUME NEW s, Linked(s)'
    PROVE  Phone!Walk' = s
<1>1. Leads(s, head', next')
  BY DEF Linked, Leads
<1> QED BY <1>1, WalkIsNext, OneWay
\* s with n as its q-th element, and s without its k-th element.
Spliced(s, q, n) ==
    [k \in 1..(Len(s) + 1) |-> IF k < q THEN s[k] ELSE IF k = q THEN n ELSE s[k - 1]]

Without(s, k) ==
    [j \in 1..(Len(s) - 1) |-> IF j < k THEN s[j] ELSE s[j + 1]]

\* The element before the q-th place of s, and the one there.
Before(s, q) == IF q = 1 THEN 0 ELSE s[q - 1]
After(s, q) == IF q = Len(s) + 1 THEN 0 ELSE s[q]

\* What each branch of insert comes down to.
LinksIn(n, before, after) ==
    /\ head' = IF before = 0 THEN n ELSE head
    /\ next' = [m \in Nodes |-> IF m = n THEN after ELSE IF m = before THEN n ELSE next[m]]
    /\ prev' = [m \in Nodes |-> IF m = n THEN before ELSE IF m = after THEN n ELSE prev[m]]

\* The q-th place is where entries called x go.
PlaceOf(s, q, x) ==
    /\ q \in 1..(Len(s) + 1)
    /\ \A k \in 1..Len(s) : k < q <=> data[s[k]].name < x

LEMMA LinkedLen ==
    ASSUME NEW s, Linked(s)
    PROVE  /\ Len(s) \in Nat
           /\ \A k \in 1..Len(s) : s[k] \in Nodes /\ s[k] # 0 /\ data[s[k]] # NoData
<1>1. Len(s) \in Nat /\ \A k \in 1..Len(s) : s[k] \in Nodes
  BY LenProperties DEF Linked
<1> QED BY <1>1 DEF Linked, Nodes

LEMMA EntryNames ==
    ASSUME ListTyped, NEW m \in Nodes, data[m] # NoData
    PROVE  data[m] \in Abonents /\ data[m].name \in Int
BY ListFacts DEF ListTyped, Abonents

LEMMA LinkedInserts ==
    ASSUME ListTyped, NEW s, Linked(s), NEW n \in Nodes, data[n] = NoData,
           NEW e \in Abonents, NEW q, PlaceOf(s, q, e.name),
           data' = [data EXCEPT ![n] = e], open' \in BOOLEAN,
           LinksIn(n, Before(s, q), After(s, q))
    PROVE  ListTyped' /\ Linked(Spliced(s, q, n))'
<1> DEFINE t == Spliced(s, q, n)
           l == Len(s)
<1>1. l \in Nat /\ \A k \in 1..l : s[k] \in Nodes /\ s[k] # 0 /\ data[s[k]] # NoData /\ s[k] # n
  BY LinkedLen
<1>2. q \in 1..(l + 1) /\ q \in Nat
  BY <1>1 DEF PlaceOf
<1>3. t \in Seq(Nodes) /\ Len(t) = l + 1
  <2>1. \A k \in 1..(l + 1) : k < q => k \in 1..l
    BY <1>1, <1>2
  <2>2. \A k \in 1..(l + 1) : k > q => k - 1 \in 1..l
    BY <1>1, <1>2
  <2>3. t \in [1..(l + 1) -> Nodes]
    BY <1>1, <1>2, <2>1, <2>2 DEF Spliced
  <2> QED BY <1>1, <2>3
<1>4. \A k \in 1..(l + 1) : t[k] = IF k < q THEN s[k] ELSE IF k = q THEN n ELSE s[k - 1]
  BY DEF Spliced
<1> HIDE DEF t
<1>5. n # 0 /\ Nodes \subseteq Links /\ 0 \in Links /\ 0 \notin Nodes
  BY ListFacts DEF Nodes, Links
<1>6. Before(s, q) \in Links /\ After(s, q) \in Links
  BY <1>1, <1>2, <1>5 DEF Before, After
<1>7. ListTyped'
  BY <1>5, <1>6 DEF ListTyped, LinksIn
<1>8. \A m \in Nodes : data'[m] = IF m = n THEN e ELSE data[m]
  BY DEF ListTyped
<1>9. e # NoData
  BY ListFacts
<1>10. \A j, k \in 1..(l + 1) : t[j] = t[k] => j = k
  <2> SUFFICES ASSUME NEW j \in 1..(l + 1), NEW k \in 1..(l + 1), j < k
               PROVE  t[j] # t[k]
    BY <1>1
  <2>1. CASE k < q
    BY <2>1, <1>1, <1>2, <1>4 DEF Linked
  <2>2. CASE k = q
    BY <2>2, <1>1, <1>2, <1>4
  <2>3. CASE k > q /\ j < q
    <3>1. j \in 1..l /\ k - 1 \in 1..l /\ j # k - 1
      BY <2>3, <1>1, <1>2
    <3> QED BY <2>3, <3>1, <1>1, <1>2, <1>4 DEF Linked
  <2>4. CASE k > q /\ j = q
    <3>1. k - 1 \in 1..l
      BY <2>4, <1>1, <1>2
    <3> QED BY <2>4, <3>1, <1>1, <1>2, <1>4
  <2>5. CASE k > q /\ j > q
    <3>1. j - 1 \in 1..l /\ k - 1 \in 1..l /\ j - 1 # k - 1
      BY <2>5, <1>1, <1>2
    <3>2. s[j - 1] # s[k - 1]
      BY <3>1 DEF Linked
    <3> QED BY <2>5, <3>2, <1>1, <1>2, <1>4
  <2> QED BY <2>1, <2>2, <2>3, <2>4, <2>5, <1>1, <1>2
<1>11. \A m \in Nodes : (\E k \in 1..(l + 1) : t[k] = m) <=> m = n \/ \E k \in 1..l : s[k] = m
  <2>1. t[q] = n
    BY <1>2, <1>4
  <2>2. \A k \in 1..l : k < q => t[k] = s[k] /\ k \in 1..(l + 1)
    BY <1>1, <1>2, <1>4
  <2>3. \A k \in 1..l : k >= q => t[k + 1] = s[k] /\ k + 1 \in 1..(l + 1)
    BY <1>1, <1>2, <1>4
  <2>4. \A k \in 1..(l + 1) : t[k] = n \/ (k \in 1..l /\ t[k] = s[k]) \/ (k - 1 \in 1..l /\ t[k] = s[k - 1])
    BY <1>1, <1>2, <1>4
  <2>5. q \in 1..(l + 1)
    BY <1>2
  <2>6. ASSUME NEW k \in 1..l PROVE \E j \in 1..(l + 1) : t[j] = s[k]
    <3>1. CASE k < q
      BY <3>1, <2>2
    <3>2. CASE k >= q
      BY <3>2, <2>3
    <3> QED BY <3>1, <3>2, <1>1, <1>2
  <2> QED BY <2>1, <2>4, <2>5, <2>6
<1>12. \A m \in Nodes : data'[m] # NoData <=> \E k \in 1..(l + 1) : t[k] = m
  BY <1>8, <1>9, <1>11 DEF Linked
<1>13. head' = t[1]
  <2>1. CASE q = 1
    BY <2>1, <1>1, <1>4 DEF LinksIn, Before
  <2>2. CASE q # 1
    <3>1. 1 \in 1..l /\ q - 1 \in 1..l /\ 1 < q
      BY <2>2, <1>1, <1>2
    <3>2. Before(s, q) # 0
      BY <2>2, <3>1, <1>1 DEF Before
    <3>3. t[1] = s[1]
      BY <3>1, <1>1, <1>4
    <3> QED BY <3>1, <3>2, <3>3, <1>1 DEF LinksIn, Linked
  <2> QED BY <2>1, <2>2
<1>14. ASSUME NEW k \in 1..(l + 1)
       PROVE  /\ next'[t[k]] = IF k = l + 1 THEN 0 ELSE t[k + 1]
              /\ prev'[t[k]] = IF k = 1 THEN 0 ELSE t[k - 1]
  <2>1. t[k] \in Nodes
    BY <1>1, <1>2, <1>4
  <2>2. /\ next'[t[k]] = IF t[k] = n THEN After(s, q) ELSE IF t[k] = Before(s, q) THEN n ELSE next[t[k]]
        /\ prev'[t[k]] = IF t[k] = n THEN Before(s, q) ELSE IF t[k] = After(s, q) THEN n ELSE prev[t[k]]
    BY <2>1 DEF LinksIn
  <2>3. CASE k < q
    <3>1. k \in 1..l /\ t[k] = s[k] /\ s[k] # n
      BY <2>3, <1>1, <1>2, <1>4
    <3>2. s[k] # After(s, q)
      BY <2>3, <3>1, <1>1, <1>2 DEF After, Linked
    <3>3. k # 1 => k - 1 \in 1..(l + 1) /\ k - 1 < q /\ t[k - 1] = s[k - 1]
      BY <2>3, <3>1, <1>1, <1>2, <1>4
    <3>4. prev'[t[k]] = IF k = 1 THEN 0 ELSE t[k - 1]
      BY <2>2, <3>1, <3>2, <3>3 DEF Linked
    <3>5. CASE k = q - 1
      <4>1. Before(s, q) = s[k] /\ t[k + 1] = n /\ k # l + 1
        BY <3>1, <3>5, <1>1, <1>2, <1>4 DEF Before
      <4> QED BY <2>2, <3>1, <3>4, <4>1
    <3>6. CASE k # q - 1
      <4>1. /\ k + 1 < q /\ k + 1 \in 1..(l + 1) /\ t[k + 1] = s[k + 1]
            /\ k # l + 1 /\ k # l
        BY <2>3, <3>1, <3>6, <1>1, <1>2, <1>4
      <4>2. s[k] # Before(s, q)
        <5>1. q # 1 /\ q - 1 \in 1..l /\ q - 1 # k
          BY <2>3, <3>1, <3>6, <1>1, <1>2
        <5> QED BY <5>1, <3>1 DEF Before, Linked
      <4>3. next[s[k]] = s[k + 1]
        BY <3>1, <4>1 DEF Linked
      <4> QED BY <2>2, <3>1, <3>4, <4>1, <4>2, <4>3
    <3> QED BY <3>5, <3>6
  <2>4. CASE k = q
    <3>1. t[k] = n
      BY <2>4, <1>2, <1>4
    <3>2. After(s, q) = IF k = l + 1 THEN 0 ELSE t[k + 1]
      BY <2>4, <1>1, <1>2, <1>4 DEF After
    <3>3. Before(s, q) = IF k = 1 THEN 0 ELSE t[k - 1]
      BY <2>4, <1>1, <1>2, <1>4 DEF Before
    <3> QED BY <2>2, <3>1, <3>2, <3>3
  <2>5. CASE k > q
    <3>1. k - 1 \in 1..l /\ t[k] = s[k - 1] /\ s[k - 1] # n /\ k # 1
      BY <2>5, <1>1, <1>2, <1>4
    <3>2. s[k - 1] # Before(s, q)
      <4>1. CASE q = 1
        BY <3>1, <4>1, <1>1 DEF Before
      <4>2. CASE q # 1
        <5>1. q - 1 \in 1..l /\ q - 1 # k - 1
          BY <2>5, <4>2, <1>1, <1>2
        <5> QED BY <4>2, <5>1, <3>1 DEF Before, Linked
      <4> QED BY <4>1, <4>2
    <3>3. next[s[k - 1]] = IF k - 1 = l THEN 0 ELSE s[(k - 1) + 1]
      BY <3>1 DEF Linked
    <3>4. (k - 1) + 1 = k /\ (k - 1 = l <=> k = l + 1)
      BY <3>1, <1>1
    <3>5. k # l + 1 => t[k + 1] = s[k]
      BY <2>5, <3>1, <1>1, <1>2, <1>4
    <3>6. next'[t[k]] = IF k = l + 1 THEN 0 ELSE t[k + 1]
      BY <2>2, <3>1, <3>2, <3>3, <3>4, <3>5
    <3>7. CASE k - 1 = q
      <4>1. After(s, q) = s[k - 1] /\ t[k - 1] = n
        BY <3>1, <3>7, <1>1, <1>2, <1>4 DEF After
      <4> QED BY <2>2, <3>1, <3>6, <4>1
    <3>8. CASE k - 1 # q
      <4>1. k - 1 > q /\ k - 2 \in 1..l /\ t[k - 1] = s[k - 2] /\ k - 1 # 1
        BY <2>5, <3>1, <3>8, <1>1, <1>2, <1>4
      <4>2. s[k - 1] # After(s, q)
        <5>1. q \in 1..l /\ q # k - 1
          BY <2>5, <3>1, <3>8, <1>1, <1>2
        <5> QED BY <5>1, <3>1, <1>1 DEF After, Linked
      <4>3. prev[s[k - 1]] = s[(k - 1) - 1]
        BY <3>1, <4>1 DEF Linked
      <4>4. (k - 1) - 1 = k - 2
        BY <3>1
      <4> QED BY <2>2, <3>1, <3>6, <4>1, <4>2, <4>3, <4>4
    <3> QED BY <3>7, <3>8
  <2> QED BY <2>3, <2>4, <2>5, <1>1, <1>2
<1>15. \A m \in Nodes : data'[m] = NoData => next'[m] = 0 /\ prev'[m] = 0
  <2> SUFFICES ASSUME NEW m \in Nodes, data'[m] = NoData PROVE next'[m] = 0 /\ prev'[m] = 0
    OBVIOUS
  <2>1. m # n /\ data[m] = NoData
    BY <1>8, <1>9
  <2>2. m # Before(s, q)
    BY <2>1, <1>1, <1>2, <1>5 DEF Before
  <2>3. m # After(s, q)
    BY <2>1, <1>1, <1>2, <1>5 DEF After
  <2> QED BY <2>1, <2>2, <2>3 DEF LinksIn, Linked
<1>16. ASSUME NEW j \in 1..(l + 1), NEW k \in 1..(l + 1), j < k
       PROVE  data'[t[j]].name <= data'[t[k]].name
  <2>1. \A i \in 1..l : data'[s[i]] = data[s[i]] /\ data[s[i]].name \in Int
    BY <1>1, <1>8, EntryNames
  <2>2. data'[n] = e /\ e.name \in Int
    BY <1>8, ListFacts DEF Abonents
  <2>3. \A i \in 1..l : i < q <=> data[s[i]].name < e.name
    BY DEF PlaceOf
  <2>4. \A a, b \in 1..l : a < b => data[s[a]].name <= data[s[b]].name
    BY DEF Linked
  <2>5. CASE k < q
    <3>1. j \in 1..l /\ k \in 1..l /\ t[j] = s[j] /\ t[k] = s[k]
      BY <1>16, <2>5, <1>1, <1>2, <1>4
    <3> QED BY <1>16, <2>1, <2>4, <3>1
  <2>6. CASE k = q
    <3>1. j \in 1..l /\ t[j] = s[j] /\ t[k] = n /\ j < q
      BY <1>16, <2>6, <1>1, <1>2, <1>4
    <3> QED BY <2>1, <2>2, <2>3, <3>1
  <2>7. CASE k > q /\ j < q
    <3>1. j \in 1..l /\ k - 1 \in 1..l /\ j < k - 1 /\ t[j] = s[j] /\ t[k] = s[k - 1]
      BY <2>7, <1>1, <1>2, <1>4
    <3> QED BY <2>1, <2>4, <3>1
  <2>8. CASE k > q /\ j = q
    <3>1. k - 1 \in 1..l /\ t[j] = n /\ t[k] = s[k - 1] /\ ~(k - 1 < q)
      BY <2>8, <1>1, <1>2, <1>4
    <3> QED BY <2>1, <2>2, <2>3, <3>1
  <2>9. CASE k > q /\ j > q
    <3>1. j - 1 \in 1..l /\ k - 1 \in 1..l /\ j - 1 < k - 1 /\ t[j] = s[j - 1] /\ t[k] = s[k - 1]
      BY <1>16, <2>9, <1>1, <1>2, <1>4
    <3> QED BY <2>1, <2>4, <3>1
  <2> QED BY <2>5, <2>6, <2>7, <2>8, <2>9, <1>1, <1>2, <1>16
<1>17. l + 1 # 0
  BY <1>1
<1> QED BY <1>3, <1>7, <1>10, <1>12, <1>13, <1>14, <1>15, <1>16, <1>17 DEF Linked, t
\* What delete_node does to the links around node n.
LinksOut(n) ==
    /\ head' = IF prev[n] = 0 THEN next[n] ELSE head
    /\ next' = [m \in Nodes |-> IF m = n THEN 0 ELSE IF m = prev[n] THEN next[n] ELSE next[m]]
    /\ prev' = [m \in Nodes |-> IF m = n THEN 0 ELSE IF m = next[n] THEN prev[n] ELSE prev[m]]

LEMMA LinkedDeletes ==
    ASSUME ListTyped, NEW s, Linked(s), NEW i \in 1..Len(s),
           LinksOut(s[i]), data' = [data EXCEPT ![s[i]] = NoData], open' \in BOOLEAN
    PROVE  ListTyped' /\ Linked(Without(s, i))'
<1> DEFINE t == Without(s, i)
           l == Len(s)
           before == prev[s[i]]
           after == next[s[i]]
<1>1. l \in Nat /\ \A k \in 1..l : s[k] \in Nodes /\ s[k] # 0 /\ data[s[k]] # NoData
  BY LinkedLen
<1>2. i \in 1..l /\ l - 1 \in Nat
  BY <1>1
<1>3. \A j, k \in 1..l : s[j] = s[k] => j = k
  BY DEF Linked
<1>4. before = (IF i = 1 THEN 0 ELSE s[i - 1]) /\ after = (IF i = l THEN 0 ELSE s[i + 1])
  BY <1>2 DEF Linked
<1>5. ListTyped'
  <2>1. before \in Links /\ after \in Links /\ 0 \in Links /\ s[i] \in Nodes
    BY <1>1, ListFacts DEF ListTyped, Links
  <2> HIDE DEF before, after
  <2>2. next' \in [Nodes -> Links] /\ prev' \in [Nodes -> Links] /\ head' \in Links
    BY <2>1 DEF ListTyped, LinksOut, before, after
  <2>3. data' \in [Nodes -> Abonents \cup {NoData}]
    BY <2>1 DEF ListTyped
  <2> QED BY <2>2, <2>3 DEF ListTyped
<1>6. \A m \in Nodes : data'[m] = IF m = s[i] THEN NoData ELSE data[m]
  BY DEF ListTyped
<1>7. t \in Seq(Nodes) /\ Len(t) = l - 1
  <2>1. \A k \in 1..(l - 1) : k \in 1..l /\ k + 1 \in 1..l
    BY <1>1, <1>2
  <2>2. t \in [1..(l - 1) -> Nodes]
    BY <1>1, <2>1 DEF Without
  <2> QED BY <1>2, <2>2
<1>8. \A k \in 1..(l - 1) : t[k] = IF k < i THEN s[k] ELSE s[k + 1]
  BY DEF Without
<1> HIDE DEF t, before, after
<1>9. ASSUME NEW k \in 1..(l - 1)
      PROVE  \/ k < i /\ k \in 1..l /\ k + 1 \in 1..l /\ t[k] = s[k]
             \/ k >= i /\ k \in 1..l /\ k + 1 \in 1..l /\ t[k] = s[k + 1]
  BY <1>1, <1>2, <1>8
<1>10. ASSUME NEW j \in 1..(l - 1), NEW k \in 1..(l - 1), j < k
       PROVE  \E a, b \in 1..l : a < b /\ a # i /\ b # i /\ t[j] = s[a] /\ t[k] = s[b]
  <2>1. CASE k < i
    <3>1. j \in 1..l /\ k \in 1..l /\ j # i /\ k # i /\ j < i
      BY <1>10, <2>1, <1>1, <1>2
    <3>2. t[j] = s[j] /\ t[k] = s[k]
      BY <2>1, <3>1, <1>8
    <3> QED BY <1>10, <3>1, <3>2
  <2>2. CASE k >= i /\ j < i
    <3>1. j \in 1..l /\ k + 1 \in 1..l /\ j < k + 1 /\ j # i /\ k + 1 # i
      BY <2>2, <1>1, <1>2
    <3> QED BY <2>2, <3>1, <1>2, <1>8
  <2>3. CASE k >= i /\ j >= i
    <3>1. j + 1 \in 1..l /\ k + 1 \in 1..l /\ j + 1 < k + 1 /\ j + 1 # i /\ k + 1 # i
      BY <1>10, <2>3, <1>1, <1>2
    <3>2. t[j] = s[j + 1] /\ t[k] = s[k + 1]
      BY <2>3, <1>2, <1>8
    <3> QED BY <3>1, <3>2
  <2> QED BY <2>1, <2>2, <2>3, <1>2
<1>11. \A j, k \in 1..(l - 1) : t[j] = t[k] => j = k
  <2> SUFFICES ASSUME NEW j \in 1..(l - 1), NEW k \in 1..(l - 1), j < k
               PROVE  t[j] # t[k]
    BY <1>1
  <2> QED BY <1>3, <1>10
<1>12. \A m \in Nodes : (\E k \in 1..(l - 1) : t[k] = m) <=> m # s[i] /\ \E k \in 1..l : s[k] = m
  <2>1. ASSUME NEW k \in 1..(l - 1) PROVE \E a \in 1..l : t[k] = s[a] /\ s[a] # s[i]
    <3>1. CASE k < i
      BY <3>1, <1>1, <1>2, <1>3, <1>9
    <3>2. CASE k >= i
      <4>1. k + 1 \in 1..l /\ k + 1 # i /\ t[k] = s[k + 1]
        BY <3>2, <1>2, <1>9
      <4> QED BY <4>1, <1>2, <1>3
    <3> QED BY <3>1, <3>2, <1>2
  <2>2. ASSUME NEW a \in 1..l, s[a] # s[i] PROVE \E k \in 1..(l - 1) : t[k] = s[a]
    <3>1. CASE a < i
      <4>1. a \in 1..(l - 1) /\ t[a] = s[a]
        BY <3>1, <1>1, <1>2, <1>8
      <4> QED BY <4>1
    <3>2. CASE a > i
      <4>1. a - 1 \in 1..(l - 1) /\ a - 1 >= i /\ (a - 1) + 1 = a
        BY <3>2, <1>1, <1>2
      <4>2. t[a - 1] = s[a]
        BY <4>1, <1>2, <1>8
      <4> QED BY <4>1, <4>2
    <3> QED BY <2>2, <3>1, <3>2, <1>1, <1>2
  <2> QED BY <2>1, <2>2
<1>13. \A m \in Nodes : data'[m] # NoData <=> \E k \in 1..(l - 1) : t[k] = m
  <2>1. \A m \in Nodes : data[m] # NoData <=> \E k \in 1..l : s[k] = m
    BY DEF Linked
  <2> QED BY <2>1, <1>6, <1>12
<1>14. head' = IF l - 1 = 0 THEN 0 ELSE t[1]
  <2>1. head = s[1]
    BY <1>1, <1>2 DEF Linked
  <2>2. head' = IF before = 0 THEN after ELSE head
    BY DEF LinksOut, before, after
  <2>3. CASE i = 1
    <3>1. before = 0 /\ after = IF l = 1 THEN 0 ELSE s[2]
      BY <2>3, <1>4
    <3>2. l # 1 => t[1] = s[2]
      <4> SUFFICES ASSUME l # 1 PROVE t[1] = s[2]
        OBVIOUS
      <4>1. 1 \in 1..(l - 1) /\ ~(1 < i) /\ 1 + 1 = 2
        <5>1. l \in Nat /\ l >= 1 /\ l # 1
          BY <1>1, <1>2
        <5>2. 1 \in 1..(l - 1)
          <6> HIDE DEF l
          <6> QED BY <5>1
        <5> QED BY <2>3, <5>2
      <4>2. t[1] = s[1 + 1]
        BY <4>1, <1>8
      <4> QED BY <4>1, <4>2
    <3> QED BY <2>2, <3>1, <3>2, <1>1
  <2>4. CASE i # 1
    <3>1. before # 0 /\ l - 1 # 0 /\ t[1] = s[1]
      BY <2>4, <1>1, <1>2, <1>4, <1>8
    <3> QED BY <2>1, <2>2, <3>1
  <2> QED BY <2>3, <2>4
<1>15. ASSUME NEW k \in 1..(l - 1)
       PROVE  /\ next'[t[k]] = IF k = l - 1 THEN 0 ELSE t[k + 1]
              /\ prev'[t[k]] = IF k = 1 THEN 0 ELSE t[k - 1]
  <2>1. t[k] \in Nodes /\ t[k] # s[i]
    <3>1. CASE k < i
      <4>1. k \in 1..l /\ k # i /\ t[k] = s[k]
        BY <3>1, <1>2, <1>9
      <4> QED BY <4>1, <1>1, <1>2, <1>3
    <3>2. CASE k >= i
      <4>1. k + 1 \in 1..l /\ k + 1 # i /\ t[k] = s[k + 1]
        BY <3>2, <1>2, <1>9
      <4> QED BY <4>1, <1>1, <1>2, <1>3
    <3> QED BY <3>1, <3>2, <1>2
  <2>2. /\ next'[t[k]] = IF t[k] = before THEN after ELSE next[t[k]]
        /\ prev'[t[k]] = IF t[k] = after THEN before ELSE prev[t[k]]
    BY <2>1 DEF LinksOut, before, after
  <2>3. CASE k < i
    <3>1. k \in 1..l /\ t[k] = s[k] /\ k # l
      BY <2>3, <1>1, <1>2, <1>9
    <3>2. s[k] # after
      <4>1. i # l => i + 1 \in 1..l /\ i + 1 # k
        BY <2>3, <1>1, <1>2
      <4> QED BY <3>1, <4>1, <1>1, <1>3, <1>4
    <3>3. prev[s[k]] = IF k = 1 THEN 0 ELSE s[k - 1]
      BY <3>1 DEF Linked
    <3>4. k # 1 => t[k - 1] = s[k - 1]
      BY <2>3, <1>1, <1>2, <1>8
    <3>5. prev'[t[k]] = IF k = 1 THEN 0 ELSE t[k - 1]
      BY <2>2, <3>1, <3>2, <3>3, <3>4
    <3>6. CASE k = i - 1
      <4>1. before = s[k] /\ i # 1
        BY <3>1, <3>6, <1>1, <1>2, <1>4
      <4>2. i = l <=> k = l - 1
        BY <3>6, <1>1, <1>2
      <4>3. i # l => t[k + 1] = s[i + 1]
        <5> SUFFICES ASSUME i # l PROVE t[k + 1] = s[i + 1]
          OBVIOUS
        <5>1. k + 1 = i /\ i \in 1..(l - 1)
          BY <3>6, <1>1, <1>2
        <5> QED BY <5>1, <1>2, <1>8
      <4> QED BY <2>2, <3>1, <3>5, <4>1, <4>2, <4>3, <1>4
    <3>7. CASE k # i - 1
      <4>1. i # 1 => i - 1 \in 1..l /\ i - 1 # k
        BY <3>7, <1>1, <1>2
      <4>2. s[k] # before
        BY <3>1, <4>1, <1>1, <1>3, <1>4
      <4>3. k + 1 < i /\ k + 1 \in 1..(l - 1) /\ k # l - 1
        BY <2>3, <3>7, <1>1, <1>2
      <4>4. t[k + 1] = s[k + 1]
        BY <4>3, <1>8
      <4>5. next[s[k]] = s[k + 1]
        BY <3>1 DEF Linked
      <4> QED BY <2>2, <3>1, <3>5, <4>2, <4>3, <4>4, <4>5
    <3> QED BY <3>6, <3>7
  <2>4. CASE k >= i
    <3>1. k + 1 \in 1..l /\ t[k] = s[k + 1] /\ (k + 1) + 1 = k + 2 /\ (k + 1) - 1 = k /\ k + 1 # 1
      BY <2>4, <1>1, <1>2, <1>9
    <3>2. s[k + 1] # before
      <4>1. i # 1 => i - 1 \in 1..l /\ i - 1 # k + 1
        BY <2>4, <1>1, <1>2
      <4> QED BY <3>1, <4>1, <1>1, <1>3, <1>4
    <3>3. next[s[k + 1]] = IF k + 1 = l THEN 0 ELSE s[k + 2]
      BY <3>1 DEF Linked
    <3>4. k + 1 # l => t[k + 1] = s[k + 2]
      <4> SUFFICES ASSUME k + 1 # l PROVE t[k + 1] = s[k + 2]
        OBVIOUS
      <4>1. k + 1 \in 1..(l - 1) /\ ~(k + 1 < i)
        BY <2>4, <1>1, <1>2
      <4> QED BY <3>1, <4>1, <1>8
    <3>5. k + 1 = l <=> k = l - 1
      BY <1>1
    <3>6. next'[t[k]] = IF k = l - 1 THEN 0 ELSE t[k + 1]
      BY <2>2, <3>1, <3>2, <3>3, <3>4, <3>5
    <3>7. CASE k = i
      <4>1. after = s[k + 1]
        BY <3>1, <3>7, <1>1, <1>2, <1>4
      <4>2. k # 1 => t[k - 1] = s[k - 1]
        BY <3>7, <1>1, <1>2, <1>8
      <4> QED BY <2>2, <3>1, <3>6, <3>7, <4>1, <4>2, <1>4
    <3>8. CASE k # i
      <4>1. k > i /\ k # 1 /\ k \in 1..l /\ k - 1 \in 1..(l - 1) /\ k - 1 >= i /\ (k - 1) + 1 = k
        BY <2>4, <3>8, <1>1, <1>2
      <4>2. t[k - 1] = s[k]
        BY <4>1, <1>2, <1>8
      <4>3. s[k + 1] # after
        <5>1. i # l => i + 1 \in 1..l /\ i + 1 # k + 1
          BY <4>1, <1>1, <1>2
        <5> QED BY <3>1, <5>1, <1>1, <1>3, <1>4
      <4>4. prev[s[k + 1]] = s[k]
        BY <3>1 DEF Linked
      <4> QED BY <2>2, <3>1, <3>6, <4>1, <4>2, <4>3, <4>4
    <3> QED BY <3>7, <3>8
  <2> QED BY <2>3, <2>4, <1>2
<1>16. \A m \in Nodes : data'[m] = NoData => next'[m] = 0 /\ prev'[m] = 0
  <2> SUFFICES ASSUME NEW m \in Nodes, data'[m] = NoData, m # s[i]
               PROVE  next'[m] = 0 /\ prev'[m] = 0
    BY DEF LinksOut
  <2>1. data[m] = NoData
    BY <1>6
  <2>2. m # before /\ m # after
    <3>1. i # 1 => i - 1 \in 1..l
      BY <1>1, <1>2
    <3>2. i # l => i + 1 \in 1..l
      BY <1>1, <1>2
    <3>3. m # 0
      BY DEF Nodes
    <3> QED BY <2>1, <3>1, <3>2, <3>3, <1>1, <1>4
  <2>3. next[m] = 0 /\ prev[m] = 0
    BY <2>1 DEF Linked
  <2> QED BY <2>2, <2>3 DEF LinksOut, before, after
<1>17. ASSUME NEW j \in 1..(l - 1), NEW k \in 1..(l - 1), j < k
       PROVE  data'[t[j]].name <= data'[t[k]].name
  <2>1. PICK a \in 1..l, b \in 1..l : a < b /\ a # i /\ b # i /\ t[j] = s[a] /\ t[k] = s[b]
    BY <1>10, <1>17
  <2>2. s[a] # s[i] /\ s[b] # s[i]
    BY <2>1, <1>2, <1>3
  <2>3. data'[t[j]] = data[s[a]] /\ data'[t[k]] = data[s[b]]
    BY <2>1, <2>2, <1>1, <1>6
  <2> QED BY <2>1, <2>3 DEF Linked
<1>18. Linked(t)'
  <2> HIDE DEF l
  <2> QED BY <1>7, <1>11, <1>13, <1>14, <1>15, <1>16, <1>17 DEF Linked
<1> QED BY <1>5, <1>18 DEF t
\* Where insert's loop stops: everything before is smaller, and the entry there
\* is not, unless it is the last one.
LEMMA StopsAt ==
    ASSUME ListTyped, NEW s, Linked(s), Len(s) # 0, NEW x \in Int
    PROVE  \E k \in 1..Len(s) :
              /\ Phone!Stop(x) = s[k]
              /\ \A j \in 1..Len(s) : j < k => data[s[j]].name < x
              /\ data[s[k]].name >= x \/ k = Len(s)
<1> DEFINE N == {k \in 1..Len(s) : data[s[k]].name >= x}
<1>1. Len(s) \in Nat /\ \A k \in 1..Len(s) : data[s[k]].name \in Int
  BY LinkedLen, EntryNames
<1>2. Phone!Stop(x) = s[IF N = {} THEN Len(s) ELSE Phone!Min(N)]
  BY WalkLinked DEF Phone!Stop
<1>3. CASE N = {}
  BY <1>1, <1>2, <1>3
<1>4. CASE N # {}
  <2>1. N \in SUBSET Nat
    BY <1>1
  <2>2. PICK k \in N : \A m \in N : k <= m
    <3> HIDE DEF N
    <3> QED BY <1>4, <2>1, Smallest
  <2>3. Phone!Min(N) \in N /\ \A m \in N : Phone!Min(N) <= m
    <3> HIDE DEF N
    <3> QED BY <2>2 DEF Phone!Min
  <2>4. PICK p \in N : p = Phone!Min(N) /\ \A m \in N : p <= m
    <3> HIDE DEF N
    <3> QED BY <2>3
  <2>5. \A j \in 1..Len(s) : j < p => data[s[j]].name < x
    BY <2>4, <1>1
  <2> QED BY <1>2, <1>4, <2>4, <2>5
<1> QED BY <1>3, <1>4

\* All the branches of insert put the new entry where it goes.
LEMMA PhoneInserts ==
    ASSUME ListTyped, NEW s, Linked(s), NEW n \in Nodes, NEW e \in Abonents,
           Phone!insert(n, e)
    PROVE  \E q : PlaceOf(s, q, e.name) /\ ListTyped' /\ Linked(Spliced(s, q, n))'
<1> DEFINE x == e.name
           l == Len(s)
<1>1. /\ data[n] = NoData /\ data' = [data EXCEPT ![n] = e] /\ open' \in BOOLEAN
      /\ x \in Int
  BY ListFacts, ListNames DEF Phone!insert, Phone!create_node, Phone!InUse, ListTyped, Abonents
<1>2. SUFFICES \E q : PlaceOf(s, q, x) /\ LinksIn(n, Before(s, q), After(s, q))
  BY <1>1, LinkedInserts
<1>3. l \in Nat /\ \A k \in 1..l : /\ s[k] \in Nodes /\ s[k] # 0 /\ s[k] # n
                              /\ data[s[k]].name \in Int
  BY <1>1, LinkedLen, EntryNames
<1>4. next[n] = 0 /\ prev[n] = 0 /\ n # 0
  BY <1>1 DEF Linked, Nodes
<1>5. next \in [Nodes -> Links] /\ prev \in [Nodes -> Links]
  BY DEF ListTyped
<1>13. \A m \in Nodes : m # 0
  BY DEF Nodes
<1>6. CASE Phone!InsertIntoEmpty(n)
  <2>1. l = 0 /\ head' = n /\ prev' = prev /\ next' = next
    BY <1>3, <1>6, ListNames DEF Phone!InsertIntoEmpty, Linked
  <2>2. PlaceOf(s, 1, x) /\ Before(s, 1) = 0 /\ After(s, 1) = 0
    BY <2>1 DEF PlaceOf, Before, After
  <2>3. LinksIn(n, 0, 0)
    BY <2>1, <1>4, <1>5 DEF LinksIn, Nodes
  <2> QED BY <2>2, <2>3
<1>7. ASSUME head # 0 PROVE l # 0 /\ head = s[1]
  BY <1>7 DEF Linked
<1>8. ASSUME head # 0, NEW k \in 1..l,
             \A j \in 1..l : j < k => data[s[j]].name < x,
             data[s[k]].name >= x
      PROVE  PlaceOf(s, k, x)
  <2>1. ASSUME NEW j \in 1..l, j >= k PROVE ~(data[s[j]].name < x)
    <3>1. k < j \/ k = j
      BY <2>1, <1>3
    <3>2. k < j => data[s[k]].name <= data[s[j]].name
      BY DEF Linked
    <3>3. data[s[k]].name \in Int /\ data[s[j]].name \in Int
      BY <1>3
    <3> QED BY <3>1, <3>2, <3>3, <1>8, <1>1
  <2>2. \A j \in 1..l : j < k \/ j >= k
    BY <1>3
  <2>3. k \in 1..(l + 1)
    BY <1>3
  <2> QED BY <1>8, <2>1, <2>2, <2>3 DEF PlaceOf
<1>9. CASE head # 0 /\ Phone!InsertHead(n, Phone!Stop(x), x)
  <2>1. PICK k \in 1..l : Phone!Stop(x) = s[k]
    BY <1>1, <1>7, <1>9, StopsAt
  <2>2. s[k] = s[1] /\ x < data[s[k]].name
    BY <2>1, <1>7, <1>9 DEF Phone!InsertHead
  <2>3. k = 1
    BY <2>2, <1>3 DEF Linked
  <2>4. PlaceOf(s, 1, x)
    <3>1. \A j \in 1..l : j < k => data[s[j]].name < x
      BY <2>3, <1>3
    <3>2. data[s[k]].name >= x
      BY <2>2, <1>1, <1>3
    <3> QED BY <2>3, <3>1, <3>2, <1>8, <1>9
  <2>5. Before(s, 1) = 0 /\ After(s, 1) = head
    BY <1>3, <1>7, <1>9 DEF Before, After
  <2>6. /\ next' = [next EXCEPT ![n] = head]
        /\ prev' = [prev EXCEPT ![head] = n]
        /\ head' = n
    BY <1>9 DEF Phone!InsertHead
  <2>7. LinksIn(n, 0, head)
    <3>1. head # n /\ head \in Nodes
      BY <1>3, <1>7, <1>9
    <3>2. next' = [m \in Nodes |-> IF m = n THEN head ELSE IF m = 0 THEN n ELSE next[m]]
      BY <2>6, <1>4, <1>5, <1>13
    <3>3. prev' = [m \in Nodes |-> IF m = n THEN 0 ELSE IF m = head THEN n ELSE prev[m]]
      BY <2>6, <3>1, <1>4, <1>5
    <3> QED BY <2>6, <3>2, <3>3 DEF LinksIn
  <2> QED BY <2>4, <2>5, <2>7
<1>10. CASE head # 0 /\ Phone!InsertTail(n, Phone!Stop(x), x)
  <2>1. PICK k \in 1..l :
            /\ Phone!Stop(x) = s[k]
            /\ \A j \in 1..l : j < k => data[s[j]].name < x
    BY <1>1, <1>7, <1>10, StopsAt
  <2>2. next[s[k]] = 0 /\ x > data[s[k]].name
    BY <2>1, <1>10, ListNames DEF Phone!InsertTail
  <2>3. k = l
    <3>1. k # l => k + 1 \in 1..l
      BY <1>3
    <3> QED BY <2>2, <3>1, <1>3 DEF Linked
  <2>4. PlaceOf(s, l + 1, x)
    BY <2>1, <2>2, <2>3, <1>3 DEF PlaceOf
  <2>5. Before(s, l + 1) = s[k] /\ After(s, l + 1) = 0
    BY <2>3, <1>3, <1>7, <1>10 DEF Before, After
  <2>6. /\ next' = [next EXCEPT ![s[k]] = n]
        /\ prev' = [prev EXCEPT ![n] = s[k]]
        /\ head' = head
    BY <1>10, <2>1 DEF Phone!InsertTail
  <2>7. LinksIn(n, s[k], 0)
    <3>1. s[k] \in Nodes /\ s[k] # n /\ s[k] # 0
      BY <1>3
    <3>2. next' = [m \in Nodes |-> IF m = n THEN 0 ELSE IF m = s[k] THEN n ELSE next[m]]
      BY <2>6, <3>1, <1>4, <1>5
    <3>3. prev' = [m \in Nodes |-> IF m = n THEN s[k] ELSE IF m = 0 THEN n ELSE prev[m]]
      BY <2>6, <1>4, <1>5, <1>13
    <3> QED BY <2>6, <3>1, <3>2, <3>3 DEF LinksIn
  <2> QED BY <2>4, <2>5, <2>7
<1>11. CASE head # 0 /\ Phone!InsertMiddle(n, Phone!Stop(x), x)
  <2>1. PICK k \in 1..l :
            /\ Phone!Stop(x) = s[k]
            /\ \A j \in 1..l : j < k => data[s[j]].name < x
            /\ data[s[k]].name >= x \/ k = l
    BY <1>1, <1>7, <1>11, StopsAt
  <2>2. ~(next[s[k]] = 0 /\ x > data[s[k]].name)
    BY <2>1, <1>11, ListNames DEF Phone!InsertMiddle
  <2>3. next[s[k]] = (IF k = l THEN 0 ELSE s[k + 1]) /\ prev[s[k]] = (IF k = 1 THEN 0 ELSE s[k - 1])
    BY DEF Linked
  <2>4. data[s[k]].name >= x
    BY <1>1, <1>3, <2>1, <2>2, <2>3
  <2>5. PlaceOf(s, k, x)
    BY <2>1, <2>4, <1>8, <1>11
  <2>6. Before(s, k) = prev[s[k]] /\ After(s, k) = s[k]
    BY <2>3, <1>3 DEF Before, After
  <2>7. /\ prev' = [prev EXCEPT ![n] = prev[s[k]], ![s[k]] = n]
        /\ next' = [m \in Nodes |-> IF m = n THEN s[k] ELSE IF m = prev[s[k]] THEN n ELSE next[m]]
        /\ head' = IF s[k] = head THEN n ELSE head
    BY <1>11, <2>1, ListNames DEF Phone!InsertMiddle
  <2>8. s[k] = head <=> prev[s[k]] = 0
    <3>1. k # 1 => k - 1 \in 1..l
      BY <1>3
    <3>2. s[k] = s[1] <=> k = 1
      BY <1>3 DEF Linked
    <3> QED BY <2>3, <3>1, <3>2, <1>3, <1>7, <1>11
  <2>9. LinksIn(n, prev[s[k]], s[k])
    BY <2>7, <2>8, <1>3, <1>5 DEF LinksIn
  <2> QED BY <2>5, <2>6, <2>9
<1>12. \/ Phone!InsertIntoEmpty(n)
       \/ head # 0 /\ \/ Phone!InsertHead(n, Phone!Stop(x), x)
                       \/ Phone!InsertTail(n, Phone!Stop(x), x)
                       \/ Phone!InsertMiddle(n, Phone!Stop(x), x)
  BY ListNames DEF Phone!insert
<1> QED BY <1>6, <1>9, <1>10, <1>11, <1>12

LEMMA PhoneDeletes ==
    ASSUME ListTyped, NEW s, Linked(s), NEW x \in Names, Phone!delete_node(x)
    PROVE  \E i \in 1..Len(s) :
              /\ data[s[i]].name = x
              /\ \A j \in 1..(i - 1) : data[s[j]].name # x
              /\ data' = [data EXCEPT ![s[i]] = NoData]
              /\ ListTyped'
              /\ Linked(Without(s, i))'
<1>1. PICK i \in 1..Len(s) :
          /\ data[s[i]].name = x
          /\ \A j \in 1..(i - 1) : data[s[j]].name # x
          /\ LinksOut(s[i])
          /\ data' = [data EXCEPT ![s[i]] = NoData]
  <2>1. Phone!Walk = s
    BY WalkLinked
  <2>2. PICK i \in 1..Len(Phone!Walk) :
          LET curr == Phone!Walk[i] IN
          /\ data[curr].name = x
          /\ \A j \in 1..(i - 1) : data[Phone!Walk[j]].name # x
          /\ head' = IF prev[curr] = 0 THEN next[curr] ELSE head
          /\ next' = [m \in Nodes |-> IF m = curr THEN 0
                                      ELSE IF m = prev[curr] THEN next[curr] ELSE next[m]]
          /\ prev' = [m \in Nodes |-> IF m = curr THEN 0
                                      ELSE IF m = next[curr] THEN prev[curr] ELSE prev[m]]
          /\ data' = [data EXCEPT ![curr] = NoData]
    BY ListNames DEF Phone!delete_node
  <2> QED BY <2>1, <2>2 DEF LinksOut
<1>2. open' \in BOOLEAN
  BY DEF Phone!delete_node, ListTyped
<1> QED BY <1>1, <1>2, LinkedDeletes

LEMMA PhoneFrees ==
    ASSUME ListTyped, NEW s, Linked(s), Phone!free_list
    PROVE  ListTyped' /\ Linked(<<>>)'
<1>1. \A m \in Nodes : data[m] # NoData <=> m \in Phone!ToSet(s)
  BY DEF Linked, Phone!ToSet
<1>2. /\ head' = 0 /\ open' = FALSE
      /\ \A m \in Nodes : data'[m] = NoData /\ prev'[m] = 0 /\ next'[m] = 0
      /\ DOMAIN data' = Nodes /\ DOMAIN prev' = Nodes /\ DOMAIN next' = Nodes
  <2>1. Phone!Walk = s
    BY WalkLinked
  <2>2. /\ head' = 0 /\ open' = FALSE
        /\ data' = [m \in Nodes |-> IF m \in Phone!ToSet(s) THEN NoData ELSE data[m]]
        /\ prev' = [m \in Nodes |-> IF m \in Phone!ToSet(s) THEN 0 ELSE prev[m]]
        /\ next' = [m \in Nodes |-> IF m \in Phone!ToSet(s) THEN 0 ELSE next[m]]
    BY <2>1, ListNames DEF Phone!free_list
  <2>3. \A m \in Nodes : m \notin Phone!ToSet(s) => data[m] = NoData /\ next[m] = 0 /\ prev[m] = 0
    BY <1>1 DEF Linked
  <2> QED BY <2>2, <2>3
<1>3. /\ data' = [m \in Nodes |-> data'[m]]
      /\ prev' = [m \in Nodes |-> prev'[m]]
      /\ next' = [m \in Nodes |-> next'[m]]
  BY ListNames DEF Phone!free_list
<1>4. 0 \in Links
  BY ListFacts DEF Links
<1>5. ListTyped'
  BY <1>2, <1>3, <1>4 DEF ListTyped
<1>6. Linked(<<>>)'
  BY <1>2 DEF Linked
<1> QED BY <1>5, <1>6

LEMMA PhoneStarts == Phone!Init => ListTyped /\ Linked(<<>>)
<1> SUFFICES ASSUME Phone!Init PROVE ListTyped /\ Linked(<<>>)
  OBVIOUS
<1>1. 0 \in Links
  BY ListFacts DEF Links
<1>2. ListTyped
  BY <1>1, ListNames DEF Phone!Init, ListTyped
<1>3. Linked(<<>>)
  BY ListNames DEF Phone!Init, Linked
<1> QED BY <1>2, <1>3

\* What the user sees of the list s.
Shown(s) == [k \in 1..Len(s) |-> data[s[k]]]

LEMMA PhoneStep ==
    ASSUME ListInv, Phone!Next
    PROVE  ListInv'
<1>1. PICK s : ListTyped /\ Linked(s)
  BY DEF ListInv
<1>2. ASSUME NEW n \in Nodes, NEW e \in Abonents, Phone!insert(n, e) PROVE ListInv'
  BY <1>1, <1>2, PhoneInserts DEF ListInv
<1>3. ASSUME NEW x \in Names, Phone!delete_node(x) PROVE ListInv'
  BY <1>1, <1>3, PhoneDeletes DEF ListInv
<1>4. CASE Phone!free_list
  BY <1>1, <1>4, PhoneFrees DEF ListInv
<1> QED BY <1>2, <1>3, <1>4, ListNames DEF Phone!Next

LEMMA PhoneStutters ==
    ASSUME ListInv, UNCHANGED list
    PROVE  ListInv'
BY DEF ListInv, ListTyped, Linked, list

LEMMA LinksAgree == ListInv => WellLinked
<1> SUFFICES ASSUME ListTyped, NEW s, Linked(s) PROVE WellLinked
  BY DEF ListInv
<1> DEFINE l == Len(s)
<1>1. l \in Nat /\ \A k \in 1..l : s[k] \in Nodes /\ s[k] # 0 /\ data[s[k]] # NoData
  BY LinkedLen
<1>2. Phone!Walk = s
  BY WalkLinked
<1>3. \A m : m \in Phone!InUse <=> m \in Nodes /\ \E k \in 1..l : s[k] = m
  BY ListNames DEF Phone!InUse, Linked
<1>4. Phone!InUse = Phone!ToSet(Phone!Walk)
  <2>1. DOMAIN s = 1..l
    BY <1>1 DEF Linked
  <2>2. Phone!ToSet(s) = {s[k] : k \in 1..l}
    BY <2>1 DEF Phone!ToSet
  <2>3. \A m : m \in Phone!InUse <=> m \in {s[k] : k \in 1..l}
    BY <1>1, <1>3
  <2>4. Phone!InUse = Phone!ToSet(s)
    BY <2>2, <2>3
  <2> QED BY <2>4, <1>2
<1>5. ASSUME NEW m \in Phone!InUse
      PROVE  /\ prev[m] = 0 <=> m = head
             /\ prev[m] # 0 => prev[m] \in Phone!InUse /\ next[prev[m]] = m
             /\ next[m] # 0 => next[m] \in Phone!InUse /\ prev[next[m]] = m
  <2>1. PICK k \in 1..l : s[k] = m
    BY <1>3
  <2>2. next[m] = (IF k = l THEN 0 ELSE s[k + 1]) /\ prev[m] = (IF k = 1 THEN 0 ELSE s[k - 1])
    BY <2>1 DEF Linked
  <2>3. k # 1 => k - 1 \in 1..l /\ k - 1 # l /\ (k - 1) + 1 = k
    BY <1>1
  <2>4. k # l => k + 1 \in 1..l /\ k + 1 # 1 /\ (k + 1) - 1 = k
    BY <1>1
  <2>5. 1 \in 1..l /\ head = s[1] /\ (s[k] = s[1] <=> k = 1)
    BY <1>1 DEF Linked
  <2>6. k # 1 => next[s[k - 1]] = s[k]
    BY <2>3 DEF Linked
  <2>7. k # l => prev[s[k + 1]] = s[k]
    BY <2>4 DEF Linked
  <2>8. prev[m] = 0 <=> m = head
    BY <2>1, <2>2, <2>3, <2>5, <1>1
  <2>9. k # 1 => s[k - 1] \in Phone!InUse
    BY <2>3, <1>1, <1>3
  <2>10. k # l => s[k + 1] \in Phone!InUse
    BY <2>4, <1>1, <1>3
  <2> QED BY <2>1, <2>2, <2>6, <2>7, <2>8, <2>9, <2>10
<1>6. /\ head \in Phone!Links /\ data \in [Phone!Nodes -> Phone!abonent \cup {NoData}]
      /\ prev \in [Phone!Nodes -> Phone!Links] /\ next \in [Phone!Nodes -> Phone!Links]
      /\ open \in BOOLEAN
  BY ListNames DEF ListTyped
<1> QED BY <1>4, <1>5, <1>6, ListNames DEF WellLinked, Phone!WellLinked

\* Whatever is inserted and deleted, the two directions of the list agree, and
\* exactly the nodes in use are on it.
THEOREM PhoneListIsLinked == Phone!Spec => []WellLinked
<1>1. Phone!Init => ListInv
  BY PhoneStarts DEF ListInv
<1>2. ListInv /\ [Phone!Next]_(Phone!vars) => ListInv'
  BY PhoneStep, PhoneStutters DEF Phone!vars, list
<1>3. ListInv => WellLinked
  BY LinksAgree
<1> QED BY <1>1, <1>2, <1>3, PTL DEF Phone!Spec

-----------------------------------------------------------------------------
\* The steps of the abstract book b to c.
LEMMA BookInserts ==
    ASSUME NEW b, b = [k \in 1..Len(Phone!Walk) |-> data[Phone!Walk[k]]],
           NEW c, c = [k \in 1..Len(Phone!Walk) |-> data[Phone!Walk[k]]]',
           NEW e \in Abonents, Len(b) < MaxNodes,
           c = Phone!Book!InsertAt(b, Phone!Book!Cardinality({i \in 1..Len(b) : b[i].name < e.name}) + 1, e)
    PROVE  Phone!Book!Next
<1>1. Phone!Book!Insert(e)
  BY DEF Phone!Book!Insert
<1> QED BY <1>1 DEF Phone!Book!Next, Abonents

LEMMA BookCloses ==
    ASSUME NEW c, c = [k \in 1..Len(Phone!Walk) |-> data[Phone!Walk[k]]]',
           c = <<>>
    PROVE  Phone!Book!Next
BY DEF Phone!Book!Next, Phone!Book!Close

LEMMA ShownIs ==
    ASSUME NEW s, Phone!Walk = s
    PROVE  Shown(s) = [k \in 1..Len(Phone!Walk) |-> data[Phone!Walk[k]]]
BY DEF Shown

LEMMA ShownIsNext ==
    ASSUME NEW s, Phone!Walk' = s
    PROVE  Shown(s)' = [k \in 1..Len(Phone!Walk) |-> data[Phone!Walk[k]]]'
BY DEF Shown

LEMMA ShownLen ==
    ASSUME ListTyped, NEW s, Linked(s)
    PROVE  /\ Shown(s) \in Seq(Abonents)
           /\ Len(Shown(s)) = Len(s)
           /\ \A k \in 1..Len(s) : Shown(s)[k] = data[s[k]] /\ data[s[k]].name \in Int
<1>1. Len(s) \in Nat /\ \A k \in 1..Len(s) : data[s[k]] \in Abonents /\ data[s[k]].name \in Int
  BY LinkedLen, EntryNames
<1>2. Shown(s) \in [1..Len(s) -> Abonents]
  BY <1>1 DEF Shown
<1> QED BY <1>1, <1>2 DEF Shown

\* What the abstract book's insertions and deletions do to a sequence.
LEMMA InsertAtIs ==
    ASSUME NEW b \in Seq(Abonents), NEW e \in Abonents, NEW q \in 1..(Len(b) + 1)
    PROVE  Phone!Book!InsertAt(b, q, e)
             = [k \in 1..(Len(b) + 1) |-> IF k < q THEN b[k] ELSE IF k = q THEN e ELSE b[k - 1]]
<1>1. Len(b) \in Nat /\ q \in Int /\ q >= 1 /\ q <= Len(b) + 1
  BY LenProperties
<1> DEFINE x == SubSeq(b, 1, q - 1)
           y == SubSeq(b, q, Len(b))
           z == x \o <<e>>
<1>2. /\ x \in Seq(Abonents) /\ Len(x) = q - 1
      /\ \A k \in 1..(q - 1) : x[k] = b[k]
  BY <1>1
<1>3. /\ y \in Seq(Abonents) /\ Len(y) = Len(b) - q + 1
      /\ \A k \in 1..(Len(b) - q + 1) : y[k] = b[q + k - 1]
  BY <1>1
<1>4. /\ z \in Seq(Abonents) /\ Len(z) = q
      /\ \A k \in 1..q : z[k] = IF k < q THEN b[k] ELSE e
  <2> HIDE DEF x
  <2> QED BY <1>1, <1>2
<1> HIDE DEF x, y, z
<1>5. /\ z \o y \in Seq(Abonents) /\ Len(z \o y) = Len(b) + 1
      /\ \A k \in 1..(Len(b) + 1) : (z \o y)[k] = IF k <= q THEN z[k] ELSE y[k - q]
  <2>1. q + (Len(b) - q + 1) = Len(b) + 1
    BY <1>1
  <2>2. /\ z \o y \in Seq(Abonents) /\ Len(z \o y) = Len(z) + Len(y)
        /\ \A k \in 1..(Len(z) + Len(y)) : (z \o y)[k] = IF k <= Len(z) THEN z[k] ELSE y[k - Len(z)]
    BY <1>3, <1>4, ConcatProperties
  <2> QED BY <2>1, <2>2, <1>3, <1>4
<1>6. \A k \in 1..(Len(b) + 1) :
          (z \o y)[k] = IF k < q THEN b[k] ELSE IF k = q THEN e ELSE b[k - 1]
  <2> SUFFICES ASSUME NEW k \in 1..(Len(b) + 1)
               PROVE  (z \o y)[k] = IF k < q THEN b[k] ELSE IF k = q THEN e ELSE b[k - 1]
    OBVIOUS
  <2>1. CASE k <= q
    BY <2>1, <1>1, <1>4, <1>5
  <2>2. CASE k > q
    <3>1. k - q \in 1..(Len(b) - q + 1) /\ q + (k - q) - 1 = k - 1
      BY <2>2, <1>1
    <3> QED BY <2>2, <3>1, <1>1, <1>3, <1>5
  <2>3. k <= q \/ k > q
    BY <1>1
  <2> QED BY <2>1, <2>2, <2>3
<1>7. z \o y = [k \in 1..(Len(b) + 1) |-> (z \o y)[k]]
  <2>1. DOMAIN (z \o y) = 1..(Len(b) + 1) /\ z \o y = [k \in DOMAIN (z \o y) |-> (z \o y)[k]]
    BY <1>5, LenProperties
  <2> QED BY <2>1
<1>8. Phone!Book!InsertAt(b, q, e) = z \o y
  BY DEF Phone!Book!InsertAt, x, y, z
<1> QED BY <1>6, <1>7, <1>8

LEMMA RemoveAtIs ==
    ASSUME NEW b \in Seq(Abonents), NEW i \in 1..Len(b)
    PROVE  Phone!Book!RemoveAt(b, i)
             = [k \in 1..(Len(b) - 1) |-> IF k < i THEN b[k] ELSE b[k + 1]]
<1>1. Len(b) \in Nat /\ i \in Int /\ i >= 1 /\ i <= Len(b)
  BY LenProperties
<1> DEFINE x == SubSeq(b, 1, i - 1)
           y == SubSeq(b, i + 1, Len(b))
<1>2. /\ x \in Seq(Abonents) /\ Len(x) = i - 1
      /\ \A k \in 1..(i - 1) : x[k] = b[k]
  BY <1>1
<1>3. /\ y \in Seq(Abonents) /\ Len(y) = Len(b) - i
      /\ \A k \in 1..(Len(b) - i) : y[k] = b[i + k]
  BY <1>1
<1> HIDE DEF x, y
<1>4. /\ x \o y \in Seq(Abonents) /\ Len(x \o y) = Len(b) - 1
      /\ \A k \in 1..(Len(b) - 1) : (x \o y)[k] = IF k <= i - 1 THEN x[k] ELSE y[k - (i - 1)]
  <2>1. (i - 1) + (Len(b) - i) = Len(b) - 1
    BY <1>1
  <2>2. /\ x \o y \in Seq(Abonents) /\ Len(x \o y) = Len(x) + Len(y)
        /\ \A k \in 1..(Len(x) + Len(y)) : (x \o y)[k] = IF k <= Len(x) THEN x[k] ELSE y[k - Len(x)]
    BY <1>2, <1>3, ConcatProperties
  <2> QED BY <2>1, <2>2, <1>2, <1>3
<1>5. ASSUME NEW k \in 1..(Len(b) - 1)
      PROVE  (x \o y)[k] = IF k < i THEN b[k] ELSE b[k + 1]
  <2>1. CASE k < i
    <3>1. k <= i - 1 /\ k \in 1..(i - 1)
      BY <2>1, <1>1
    <3> QED BY <2>1, <3>1, <1>2, <1>4
  <2>2. CASE k >= i
    <3>1. ~(k <= i - 1) /\ k - (i - 1) \in 1..(Len(b) - i) /\ i + (k - (i - 1)) = k + 1
      BY <2>2, <1>1
    <3>2. (x \o y)[k] = y[k - (i - 1)]
      BY <3>1, <1>4
    <3>3. y[k - (i - 1)] = b[i + (k - (i - 1))]
      BY <3>1, <1>3
    <3>4. ~(k < i)
      BY <2>2, <1>1
    <3> QED BY <3>1, <3>2, <3>3, <3>4
  <2>3. k < i \/ k >= i
    BY <1>1
  <2> QED BY <2>1, <2>2, <2>3
<1>6. x \o y = [k \in 1..(Len(b) - 1) |-> (x \o y)[k]]
  <2>1. DOMAIN (x \o y) = 1..(Len(b) - 1) /\ x \o y = [k \in DOMAIN (x \o y) |-> (x \o y)[k]]
    BY <1>4, LenProperties
  <2> QED BY <2>1
<1>7. Phone!Book!RemoveAt(b, i) = x \o y
  BY DEF Phone!Book!RemoveAt, x, y
<1> QED BY <1>5, <1>6, <1>7

\* An insertion into the list is one into the book.
LEMMA InsertIsInsert ==
    ASSUME ListTyped, NEW s, Linked(s), NEW n \in Nodes, NEW e \in Abonents,
           Phone!insert(n, e)
    PROVE  Phone!Book!Next
<1>1. PICK q : PlaceOf(s, q, e.name) /\ ListTyped' /\ Linked(Spliced(s, q, n))'
  BY PhoneInserts
<1>2. PICK t : t = Spliced(s, q, n)
  OBVIOUS
<1>3. Linked(t)'
  BY <1>1, <1>2
<1>4. PICK b : b = Shown(s)
  OBVIOUS
<1>5. PICK c : c = Shown(t)'
  OBVIOUS
<1>6. b = [k \in 1..Len(Phone!Walk) |-> data[Phone!Walk[k]]] /\ c = [k \in 1..Len(Phone!Walk) |-> data[Phone!Walk[k]]]'
  BY <1>3, <1>4, <1>5, WalkLinked, WalkLinkedNext, ShownIs, ShownIsNext
<1>7. /\ b \in Seq(Abonents) /\ Len(b) = Len(s) /\ Len(s) \in Nat
      /\ \A k \in 1..Len(s) : b[k] = data[s[k]] /\ b[k].name \in Int /\ s[k] \in Nodes
  BY <1>4, ShownLen, LinkedLen
<1>8. /\ data[n] = NoData
      /\ data' = [data EXCEPT ![n] = e]
      /\ \A k \in 1..Len(s) : s[k] # n
  BY ListNames DEF Phone!insert, Phone!create_node, Phone!InUse, Linked
<1>9. q \in 1..(Len(s) + 1) /\ \A k \in 1..Len(s) : k < q <=> data[s[k]].name < e.name
  BY <1>1 DEF PlaceOf
<1>10. Len(t) = Len(s) + 1 /\ \A k \in 1..(Len(s) + 1) : t[k] = IF k < q THEN s[k] ELSE IF k = q THEN n ELSE s[k - 1]
  BY <1>2, <1>7 DEF Spliced
<1>11. \A k \in 1..Len(s) : data'[s[k]] = b[k]
  BY <1>7, <1>8 DEF ListTyped
<1>12. data'[n] = e
  BY <1>8 DEF ListTyped
<1>13. c = [k \in 1..(Len(s) + 1) |-> IF k < q THEN b[k] ELSE IF k = q THEN e ELSE b[k - 1]]
  <2>1. c = [k \in 1..(Len(s) + 1) |-> data'[t[k]]]
    BY <1>5, <1>10 DEF Shown
  <2>2. ASSUME NEW k \in 1..(Len(s) + 1)
        PROVE  data'[t[k]] = IF k < q THEN b[k] ELSE IF k = q THEN e ELSE b[k - 1]
    <3>1. CASE k < q
      BY <3>1, <1>7, <1>9, <1>10, <1>11
    <3>2. CASE k = q
      BY <3>2, <1>9, <1>10, <1>12
    <3>3. CASE k > q
      <4>1. k - 1 \in 1..Len(s)
        BY <3>3, <1>7, <1>9
      <4> QED BY <3>3, <4>1, <1>9, <1>10, <1>11
    <3> QED BY <3>1, <3>2, <3>3, <1>7, <1>9
  <2> QED BY <2>1, <2>2
<1>14. {i \in 1..Len(b) : b[i].name < e.name} = 1..(q - 1)
  BY <1>7, <1>9
<1>15. Phone!Book!Cardinality(1..(q - 1)) = q - 1
  <2>1. q - 1 \in Int /\ q - 1 >= 0
    BY <1>7, <1>9
  <2>2. Cardinality(1..(q - 1)) = IF 1 > q - 1 THEN 0 ELSE (q - 1) - 1 + 1
    BY <2>1, FS_Interval
  <2>3. Cardinality(1..(q - 1)) = q - 1
    BY <2>1, <2>2
  <2> QED BY <2>3 DEF Phone!Book!Cardinality, Cardinality, Phone!Book!IsFiniteSet, IsFiniteSet
<1>16. Len(b) < MaxNodes
  <2>1. t \in Seq(Nodes) /\ \A j, k \in 1..Len(t) : t[j] = t[k] => j = k
    BY <1>3 DEF Linked
  <2>2. Len(t) <= MaxNodes
    BY <2>1, ShortEnough
  <2> QED BY <2>2, <1>7, <1>10, ListFacts
<1>17. c = Phone!Book!InsertAt(b, q, e)
  BY <1>7, <1>9, <1>13, InsertAtIs
<1>18. c = Phone!Book!InsertAt(b, Phone!Book!Cardinality({i \in 1..Len(b) : b[i].name < e.name}) + 1, e)
  <2>1. (q - 1) + 1 = q
    BY <1>7, <1>9
  <2> QED BY <2>1, <1>14, <1>15, <1>17
<1> QED BY <1>6, <1>16, <1>18, BookInserts

\* A deletion is one.
LEMMA DeleteIsDelete ==
    ASSUME ListTyped, NEW s, Linked(s), NEW x \in Names, Phone!delete_node(x)
    PROVE  Phone!Book!Next
<1>1. PICK i \in 1..Len(s) :
          /\ data[s[i]].name = x
          /\ \A j \in 1..(i - 1) : data[s[j]].name # x
          /\ data' = [data EXCEPT ![s[i]] = NoData]
          /\ ListTyped'
          /\ Linked(Without(s, i))'
  BY PhoneDeletes
<1>2. PICK t : t = Without(s, i)
  OBVIOUS
<1>3. Linked(t)'
  BY <1>1, <1>2
<1>4. PICK b : b = Shown(s)
  OBVIOUS
<1>5. PICK c : c = Shown(t)'
  OBVIOUS
<1>6. b = [k \in 1..Len(Phone!Walk) |-> data[Phone!Walk[k]]] /\ c = [k \in 1..Len(Phone!Walk) |-> data[Phone!Walk[k]]]'
  BY <1>3, <1>4, <1>5, WalkLinked, WalkLinkedNext, ShownIs, ShownIsNext
<1>7. /\ b \in Seq(Abonents) /\ Len(b) = Len(s) /\ Len(s) \in Nat
      /\ \A k \in 1..Len(s) : b[k] = data[s[k]] /\ b[k].name \in Int /\ s[k] \in Nodes
  BY <1>4, ShownLen, LinkedLen
<1>8. Len(t) = Len(s) - 1 /\ \A k \in 1..(Len(s) - 1) : t[k] = IF k < i THEN s[k] ELSE s[k + 1]
  BY <1>2, <1>7 DEF Without
<1>9. \A k \in 1..Len(s) : k # i => data'[s[k]] = b[k]
  BY <1>1, <1>7 DEF ListTyped, Linked
<1>10. c = [k \in 1..(Len(s) - 1) |-> IF k < i THEN b[k] ELSE b[k + 1]]
  <2>1. c = [k \in 1..(Len(s) - 1) |-> data'[t[k]]]
    BY <1>5, <1>8 DEF Shown
  <2>2. ASSUME NEW k \in 1..(Len(s) - 1)
        PROVE  data'[t[k]] = IF k < i THEN b[k] ELSE b[k + 1]
    <3>1. k \in 1..Len(s) /\ k + 1 \in 1..Len(s) /\ (k < i => k # i) /\ (~(k < i) => k + 1 # i)
      BY <1>7
    <3> QED BY <3>1, <1>8, <1>9
  <2> QED BY <2>1, <2>2
<1>11. Phone!Book!RemoveAt(b, i) = [k \in 1..(Len(s) - 1) |-> IF k < i THEN b[k] ELSE b[k + 1]]
  BY <1>7, RemoveAtIs
<1>12. \A j \in 1..(i - 1) : b[j].name # x
  <2>1. \A j \in 1..(i - 1) : j \in 1..Len(s)
    BY <1>7
  <2> QED BY <2>1, <1>1, <1>7
<1>13. i \in 1..Len(b) /\ b[i].name = x
  BY <1>1, <1>7
<1>14. c = Phone!Book!RemoveAt(b, i)
  BY <1>10, <1>11
<1>15. Phone!Book!Delete(x)
  BY <1>6, <1>12, <1>13, <1>14 DEF Phone!Book!Delete
<1> QED BY <1>15 DEF Phone!Book!Next

LEMMA FreeIsClose ==
    ASSUME ListTyped, NEW s, Linked(s), Phone!free_list
    PROVE  Phone!Book!Next
<1>1. Linked(<<>>)'
  BY PhoneFrees
<1>2. PICK c : c = Shown(<<>>)'
  OBVIOUS
<1>3. Shown(s) = [k \in 1..Len(Phone!Walk) |-> data[Phone!Walk[k]]] /\ c = [k \in 1..Len(Phone!Walk) |-> data[Phone!Walk[k]]]'
  BY <1>1, <1>2, WalkLinked, WalkLinkedNext, ShownIs, ShownIsNext
<1>4. c = <<>>
  BY <1>2 DEF Shown
<1> QED BY <1>3, <1>4, BookCloses

\* The doubly linked list implements the book of entries: each of its steps is
\* one of the book, or leaves what the user sees as it is.
THEOREM PhoneListKeepsBook == Phone!Spec => KeepsBook
<1> DEFINE b == [k \in 1..Len(Phone!Walk) |-> data[Phone!Walk[k]]]
<1>1. Phone!Init => ListInv /\ Phone!Book!Init
  <2> SUFFICES ASSUME Phone!Init PROVE ListInv /\ Phone!Book!Init
    OBVIOUS
  <2>1. ListTyped /\ Linked(<<>>)
    BY PhoneStarts
  <2>2. Shown(<<>>) = [k \in 1..Len(Phone!Walk) |-> data[Phone!Walk[k]]]
    BY <2>1, WalkLinked, ShownIs
  <2>3. Shown(<<>>) = <<>>
    BY DEF Shown
  <2>4. Phone!Book!Init
    BY <2>2, <2>3 DEF Phone!Book!Init
  <2> QED BY <2>1, <2>4 DEF ListInv
<1>2. ListInv /\ [Phone!Next]_(Phone!vars) => ListInv'
  BY PhoneStep, PhoneStutters DEF Phone!vars, list
<1>3. ListInv /\ [Phone!Next]_(Phone!vars) => [Phone!Book!Next]_b
  <2>1. ASSUME ListInv, Phone!Next PROVE Phone!Book!Next
    <3>1. PICK s : ListTyped /\ Linked(s)
      BY <2>1 DEF ListInv
    <3> QED BY <2>1, <3>1, InsertIsInsert, DeleteIsDelete, FreeIsClose, ListNames DEF Phone!Next
  <2>2. ASSUME UNCHANGED Phone!vars PROVE b' = b
    BY <2>2 DEF Phone!vars, Phone!Walk
  <2> QED BY <2>1, <2>2
<1>4. KeepsBook <=> Phone!Book!Init /\ [][Phone!Book!Next]_b
  BY DEF KeepsBook, Phone!KeepsBook, Phone!Book!Spec
<1> HIDE DEF b
<1> QED BY <1>1, <1>2, <1>3, <1>4, PTL DEF Phone!Spec

-----------------------------------------------------------------------------
(* The shared counters *)

\* The increments that were made.
Done == {d \in Threads \X (1..Increments) : d[2] <= rounds[d[1]]}

\* Where a thread is tells how many rounds it has made, and with a lock who
\* holds it.
PlacesInv ==
    /\ program = "p2" =>
          /\ counter_holder = NoThread
          /\ \A t \in Threads : counter_at[t] \in {"load", "store", "exited"}
    /\ program # "p2" => \A t \in Threads :
          counter_at[t] \in {"load", "store", "unlock"} <=> counter_holder = t
    /\ \A t \in Threads :
          /\ counter_at[t] \in {"lock", "load", "store"} => rounds[t] < Increments
          /\ counter_at[t] = "exited" => rounds[t] = Increments

\* No more was counted than was done, with a lock no less.
UpperInv ==
    /\ counter <= Cardinality(Done)
    /\ program # "p2" => counter = Cardinality(Done)
    /\ \A t \in Threads : counter_at[t] = "store" =>
          /\ loaded[t] <= Cardinality(Done)
          /\ program # "p2" => loaded[t] = counter

\* Nobody who stores for the second time loaded 0, and the one who stores
\* last stores for the second time, unless each thread increments only once.
LowerInv ==
    /\ \A t \in Threads : rounds[t] >= 1 => counter >= 1
    /\ \A t \in Threads : counter_at[t] = "store" /\ rounds[t] >= 1 => loaded[t] >= 1
    /\ (\A t \in Threads : rounds[t] = Increments) /\ Increments # 1 => counter >= 2

PrintedInv ==
    printed # -1 => printed = counter /\ \A t \in Threads : counter_at[t] = "exited"

CounterInv == Counters!TypeOK /\ PlacesInv /\ UpperInv /\ LowerInv /\ PrintedInv

LEMMA CounterFacts ==
    /\ IsFiniteSet(Threads)
    /\ Threads # {}
    /\ Increments \in Nat \ {0}
    /\ NoThread \notin Threads
BY ExercisesAssumption DEF Counters!CounterAssumption, Counters!IsFiniteSet, IsFiniteSet

LEMMA DoneFinite ==
    /\ IsFiniteSet(Done)
    /\ Cardinality(Done) \in Nat
<1>1. IsFiniteSet(1..Increments)
  BY CounterFacts, FS_Interval
<1>2. IsFiniteSet(Threads \X (1..Increments))
  BY <1>1, CounterFacts, FS_Product
<1>3. Done \subseteq Threads \X (1..Increments)
  BY DEF Done
<1> QED BY <1>2, <1>3, FS_Subset, FS_CardinalityType

\* A round is one element of the set.
LEMMA OneRound ==
    ASSUME Counters!TypeOK, NEW t \in Threads, rounds[t] < Increments,
           rounds' = [rounds EXCEPT ![t] = @ + 1]
    PROVE  Cardinality(Done') = Cardinality(Done) + 1
<1> DEFINE d == <<t, rounds[t] + 1>>
<1>1. rounds \in [Threads -> 0..Increments]
  BY DEF Counters!TypeOK
<1>2. d \in Threads \X (1..Increments)
  BY <1>1, CounterFacts
<1>3. d \notin Done
  BY <1>1 DEF Done
<1>4. Done' = Done \cup {d}
  <2>1. ASSUME NEW u \in Threads, NEW k \in 1..Increments
        PROVE  k <= rounds'[u] <=> k <= rounds[u] \/ <<u, k>> = d
    BY <1>1, CounterFacts
  <2> HIDE DEF d
  <2>2. ASSUME NEW x \in Threads \X (1..Increments)
        PROVE  x[2] <= rounds'[x[1]] <=> x[2] <= rounds[x[1]] \/ x = d
    BY <2>1
  <2> QED BY <2>2, <1>2 DEF Done
<1> HIDE DEF d
<1> QED BY <1>3, <1>4, DoneFinite, FS_AddElement

LEMMA AllDone ==
    ASSUME \A t \in Threads : rounds[t] = Increments
    PROVE  Cardinality(Done) = Counters!Expected
<1>1. Done = Threads \X (1..Increments)
  BY CounterFacts DEF Done
<1>2. IsFiniteSet(1..Increments) /\ Cardinality(1..Increments) = Increments
  BY CounterFacts, FS_Interval
<1>3. Cardinality(Threads \X (1..Increments)) = Cardinality(Threads) * Cardinality(1..Increments)
  BY <1>2, CounterFacts, FS_Product
<1>4. Counters!Cardinality(Threads) = Cardinality(Threads)
  BY DEF Counters!Cardinality, Cardinality, Counters!IsFiniteSet, IsFiniteSet
<1> QED BY <1>1, <1>2, <1>3, <1>4 DEF Counters!Expected

LEMMA CounterInit == Counters!Init => CounterInv
<1> SUFFICES ASSUME Counters!Init PROVE CounterInv
  OBVIOUS
<1> USE CounterFacts
<1>1. Counters!TypeOK
  BY DEF Counters!Init, Counters!TypeOK, Counters!Top
<1>2. PlacesInv
  BY DEF Counters!Init, PlacesInv, Counters!Top
<1>3. UpperInv
  <2>1. Done = {}
    BY DEF Counters!Init, Done
  <2>2. Cardinality(Done) = 0
    BY <2>1, FS_EmptySet
  <2> QED BY <2>2 DEF Counters!Init, UpperInv, Counters!Top
<1>4. LowerInv /\ PrintedInv
  BY DEF Counters!Init, LowerInv, PrintedInv
<1> QED BY <1>1, <1>2, <1>3, <1>4 DEF CounterInv

LEMMA CounterTyped ==
    CounterInv /\ [Counters!Next]_Counters!vars => Counters!TypeOK'
<1> SUFFICES ASSUME CounterInv, [Counters!Next]_Counters!vars PROVE Counters!TypeOK'
  OBVIOUS
<1> USE CounterFacts DEF Counters!TypeOK
<1>1. ASSUME NEW t \in Threads, Counters!lock(t) PROVE Counters!TypeOK'
  BY <1>1 DEF CounterInv, Counters!lock
<1>2. ASSUME NEW t \in Threads, Counters!load(t) PROVE Counters!TypeOK'
  BY <1>2 DEF CounterInv, Counters!load
<1>3. ASSUME NEW t \in Threads, Counters!store(t) PROVE Counters!TypeOK'
  <2>1. rounds[t] < Increments
    BY <1>3 DEF CounterInv, PlacesInv, Counters!store
  <2>2. rounds' \in [Threads -> 0..Increments] /\ counter' \in Nat
    BY <2>1, <1>3 DEF CounterInv, Counters!store
  <2>3. counter_at' \in [Threads -> {"lock", "load", "store", "unlock", "exited"}]
    BY <1>3 DEF CounterInv, Counters!store, Counters!Top
  <2> QED BY <2>2, <2>3, <1>3 DEF CounterInv, Counters!store
<1>4. ASSUME NEW t \in Threads, Counters!unlock(t) PROVE Counters!TypeOK'
  BY <1>4 DEF CounterInv, Counters!unlock, Counters!Top
<1>5. CASE Counters!print
  BY <1>5 DEF CounterInv, Counters!print
<1>6. CASE UNCHANGED Counters!vars
  BY <1>6 DEF CounterInv, Counters!vars
<1> QED BY <1>1, <1>2, <1>3, <1>4, <1>5, <1>6 DEF Counters!Next, Counters!increment_counter

LEMMA CounterStep ==
    CounterInv /\ [Counters!Next]_Counters!vars => CounterInv'
<1> SUFFICES ASSUME CounterInv, [Counters!Next]_Counters!vars PROVE CounterInv'
  OBVIOUS
<1>0. Counters!TypeOK'
  BY CounterTyped
<1> USE CounterFacts
<1>d. Cardinality(Done) \in Nat
  BY DoneFinite
<1>1. ASSUME NEW t \in Threads, Counters!lock(t) PROVE CounterInv'
  <2>1. Cardinality(Done)' = Cardinality(Done)
    BY <1>1 DEF Counters!lock, Done
  <2>2. PlacesInv'
    BY <1>1 DEF CounterInv, Counters!lock, PlacesInv, Counters!TypeOK
  <2>3. UpperInv' /\ LowerInv' /\ PrintedInv'
    BY <2>1, <1>1 DEF CounterInv, Counters!lock, UpperInv, LowerInv, PrintedInv, Counters!TypeOK
  <2> QED BY <1>0, <2>2, <2>3 DEF CounterInv
<1>2. ASSUME NEW t \in Threads, Counters!load(t) PROVE CounterInv'
  <2>1. Cardinality(Done)' = Cardinality(Done)
    BY <1>2 DEF Counters!load, Done
  <2>2. PlacesInv'
    BY <1>2 DEF CounterInv, Counters!load, PlacesInv, Counters!TypeOK
  <2>3. UpperInv'
    BY <2>1, <1>2, <1>d DEF CounterInv, Counters!load, UpperInv, Counters!TypeOK
  <2>4. LowerInv' /\ PrintedInv'
    BY <1>2 DEF CounterInv, Counters!load, LowerInv, PrintedInv, Counters!TypeOK
  <2> QED BY <1>0, <2>2, <2>3, <2>4 DEF CounterInv
<1>3. ASSUME NEW t \in Threads, Counters!store(t) PROVE CounterInv'
  <2>1. rounds[t] < Increments /\ rounds' = [rounds EXCEPT ![t] = @ + 1]
    BY <1>3 DEF CounterInv, PlacesInv, Counters!store
  <2>2. Cardinality(Done') = Cardinality(Done) + 1
    BY <2>1, OneRound DEF CounterInv
  <2>3. PlacesInv'
    BY <2>1, <1>3 DEF CounterInv, Counters!store, PlacesInv, Counters!TypeOK, Counters!Top
  <2>4. UpperInv'
    <3>1. counter' <= Cardinality(Done')
      BY <2>2, <1>3, <1>d DEF CounterInv, Counters!store, UpperInv, Counters!TypeOK
    <3>2. program' # "p2" => counter' = Cardinality(Done')
      BY <2>2, <1>3, <1>d DEF CounterInv, Counters!store, UpperInv, Counters!TypeOK
    <3>3. ASSUME NEW u \in Threads, counter_at'[u] = "store"
          PROVE  loaded'[u] <= Cardinality(Done') /\ program' = "p2"
      <4>1. u # t /\ counter_at[u] = "store"
        BY <3>3, <1>3 DEF CounterInv, Counters!store, Counters!TypeOK, Counters!Top
      <4>2. program = "p2"
        BY <4>1, <1>3 DEF CounterInv, Counters!store, PlacesInv
      <4> QED BY <4>1, <4>2, <2>2, <1>3, <1>d DEF CounterInv, Counters!store, UpperInv, Counters!TypeOK
    <3> QED BY <3>1, <3>2, <3>3 DEF UpperInv
  <2>5. LowerInv'
    <3>1. counter' >= 1
      BY <1>3 DEF CounterInv, Counters!store, Counters!TypeOK
    <3>2. ASSUME NEW u \in Threads, counter_at'[u] = "store", rounds'[u] >= 1
          PROVE  loaded'[u] >= 1
      <4>1. u # t /\ counter_at[u] = "store" /\ rounds[u] >= 1 /\ loaded' = loaded
        BY <3>2, <1>3, <2>1 DEF CounterInv, Counters!store, Counters!TypeOK, Counters!Top
      <4> QED BY <4>1 DEF CounterInv, LowerInv
    <3>3. ASSUME \A u \in Threads : rounds'[u] = Increments, Increments # 1
          PROVE  counter' >= 2
      <4>1. rounds[t] >= 1
        BY <3>3, <2>1 DEF CounterInv, Counters!TypeOK
      <4>2. loaded[t] >= 1
        BY <4>1, <1>3 DEF CounterInv, LowerInv, Counters!store
      <4> QED BY <4>2, <1>3 DEF CounterInv, Counters!store, Counters!TypeOK
    <3> QED BY <3>1, <3>2, <3>3 DEF LowerInv
  <2>6. PrintedInv'
    BY <1>3 DEF CounterInv, Counters!store, PrintedInv
  <2> QED BY <1>0, <2>3, <2>4, <2>5, <2>6 DEF CounterInv
<1>4. ASSUME NEW t \in Threads, Counters!unlock(t) PROVE CounterInv'
  <2>1. Cardinality(Done)' = Cardinality(Done)
    BY <1>4 DEF Counters!unlock, Done
  <2>2. PlacesInv'
    BY <1>4 DEF CounterInv, Counters!unlock, PlacesInv, Counters!TypeOK, Counters!Top
  <2>3. UpperInv'
    BY <2>1, <1>4, <1>d DEF CounterInv, Counters!unlock, UpperInv, Counters!TypeOK, Counters!Top
  <2>4. LowerInv' /\ PrintedInv'
    BY <1>4 DEF CounterInv, Counters!unlock, LowerInv, PrintedInv, Counters!TypeOK, Counters!Top
  <2> QED BY <1>0, <2>2, <2>3, <2>4 DEF CounterInv
<1>5. CASE Counters!print
  <2>1. Cardinality(Done)' = Cardinality(Done)
    BY <1>5 DEF Counters!print, Done
  <2> QED BY <1>0, <2>1, <1>5 DEF CounterInv, Counters!print, PlacesInv, UpperInv, LowerInv, PrintedInv
<1>6. CASE UNCHANGED Counters!vars
  <2>1. Cardinality(Done)' = Cardinality(Done)
    BY <1>6 DEF Counters!vars, Done
  <2> QED BY <1>0, <2>1, <1>6 DEF CounterInv, Counters!vars, PlacesInv, UpperInv, LowerInv, PrintedInv
<1> QED BY <1>1, <1>2, <1>3, <1>4, <1>5, <1>6 DEF Counters!Next, Counters!increment_counter

LEMMA CounterCounts == CounterInv => Counted
<1> SUFFICES ASSUME CounterInv, printed # -1
             PROVE  /\ printed <= Counters!Expected
                    /\ program # "p2" => printed = Counters!Expected
                    /\ printed >= IF Increments = 1 THEN 1 ELSE 2
  BY DEF Counted, Counters!Counted
<1>1. \A t \in Threads : rounds[t] = Increments
  BY DEF CounterInv, PrintedInv, PlacesInv
<1>2. Cardinality(Done) = Counters!Expected
  BY <1>1, AllDone
<1>3. printed = counter
  BY DEF CounterInv, PrintedInv
<1>4. printed <= Counters!Expected /\ (program # "p2" => printed = Counters!Expected)
  BY <1>2, <1>3 DEF CounterInv, UpperInv
<1>5. printed >= IF Increments = 1 THEN 1 ELSE 2
  BY <1>1, <1>3, CounterFacts DEF CounterInv, LowerInv, Counters!TypeOK
<1> QED BY <1>4, <1>5

\* With a mutex or a spinlock every increment counts, and without a lock as many
\* are lost as increment_counter's loads and stores allow, but never all.
THEOREM ThreadsCount == Counters!Spec => []Counted
<1>1. Counters!Init => CounterInv
  BY CounterInit
<1>2. CounterInv /\ [Counters!Next]_Counters!vars => CounterInv'
  BY CounterStep
<1>3. CounterInv => Counted
  BY CounterCounts
<1> QED BY <1>1, <1>2, <1>3, PTL DEF Counters!Spec

-----------------------------------------------------------------------------
(* The shop *)

\* The goods in a set of rooms, one by one.
Units(F, S) == {d \in S \X Nat : d[2] \in 1..F[d[1]]}

\* How MapThenSumSet adds up F over Rooms.
AddsUp(h, F) ==
    h = [S \in SUBSET Rooms |-> IF S = {} THEN 0
                                ELSE LET x == CHOOSE x \in S : TRUE IN F[x] + h[S \ {x}]]

LEMMA ShopFacts ==
    /\ IsFiniteSet(Rooms)
    /\ Rooms # {}
    /\ Need \in Nat
    /\ Goods \subseteq Nat \ {0}
    /\ MaxStock \in Nat
BY ExercisesAssumption DEF Shops!ShopAssumption, Shops!IsFiniteSet, IsFiniteSet

LEMMA OneRoom ==
    ASSUME NEW r, NEW n \in Nat
    PROVE  /\ IsFiniteSet({r} \X (1..n))
           /\ Cardinality({r} \X (1..n)) = n
<1>1. IsFiniteSet(1..n) /\ Cardinality(1..n) = n
  BY FS_Interval
<1>2. IsFiniteSet({r}) /\ Cardinality({r}) = 1
  BY FS_Singleton
<1>3. /\ IsFiniteSet({r} \X (1..n))
      /\ Cardinality({r} \X (1..n)) = Cardinality({r}) * Cardinality(1..n)
  BY <1>1, <1>2, FS_Product
<1> QED BY <1>1, <1>2, <1>3

LEMMA UnitsFinite ==
    ASSUME NEW F \in [Rooms -> Nat], NEW S \in SUBSET Rooms
    PROVE  IsFiniteSet(Units(F, S)) /\ Cardinality(Units(F, S)) \in Nat
<1> DEFINE G == [r \in S |-> {r} \X (1..F[r])]
           T == {G[r] : r \in S}
<1>1. IsFiniteSet(S)
  BY ShopFacts, FS_Subset
<1>2. IsFiniteSet(T)
  <2>1. G \in Surjection(S, T)
    BY DEF Surjection
  <2> HIDE DEF G, T
  <2> QED BY <1>1, <2>1, FS_Surjection
<1>3. \A t \in T : IsFiniteSet(t)
  <2>1. \A r \in S : F[r] \in Nat
    OBVIOUS
  <2>2. \A r \in S : IsFiniteSet({r} \X (1..F[r]))
    BY <2>1, OneRoom
  <2> QED BY <2>2
<1>4. Units(F, S) = UNION T
  <2>1. \A d \in Units(F, S) : d \in G[d[1]] /\ d[1] \in S
    BY DEF Units
  <2>2. \A r \in S : G[r] \subseteq Units(F, S)
    BY DEF Units
  <2> QED BY <2>1, <2>2
<1> HIDE DEF T
<1> QED BY <1>2, <1>3, <1>4, FS_UNION, FS_CardinalityType

LEMMA RoomCounts ==
    ASSUME NEW F \in [Rooms -> Nat], NEW S \in SUBSET Rooms, NEW r \in S
    PROVE  Cardinality(Units(F, S)) = F[r] + Cardinality(Units(F, S \ {r}))
<1> DEFINE A == {r} \X (1..F[r])
           B == Units(F, S \ {r})
<1>1. IsFiniteSet(A) /\ Cardinality(A) = F[r]
  BY OneRoom
<1>2. IsFiniteSet(B) /\ Cardinality(B) \in Nat
  BY UnitsFinite
<1>3. Units(F, S) = A \cup B
  BY DEF Units
<1>4. A \cap B = {}
  BY DEF Units
<1>5. Cardinality(A \cap B) = 0
  BY <1>4, FS_EmptySet
<1> HIDE DEF A, B
<1>6. Cardinality(A \cup B) = Cardinality(A) + Cardinality(B) - Cardinality(A \cap B)
  BY <1>1, <1>2, FS_Union
<1>7. Cardinality(A \cup B) = F[r] + Cardinality(B)
  BY <1>1, <1>2, <1>5, <1>6
<1> QED BY <1>3, <1>7 DEF B

\* There is a function that adds up, and all of them add up the goods.
LEMMA Summed ==
    ASSUME NEW F \in [Rooms -> Nat]
    PROVE  (CHOOSE h : AddsUp(h, F))[Rooms] = Cardinality(Units(F, Rooms))
<1> DEFINE first(S) == CHOOSE x \in S : TRUE
           g == [S \in SUBSET Rooms |-> Cardinality(Units(F, S))]
<1>1. \A S \in SUBSET Rooms : S # {} => first(S) \in S
  OBVIOUS
<1>2. Cardinality(Units(F, {})) = 0
  BY FS_EmptySet DEF Units
<1>3. \A S \in SUBSET Rooms :
          S # {} => Cardinality(Units(F, S)) = F[first(S)] + Cardinality(Units(F, S \ {first(S)}))
  <2> SUFFICES ASSUME NEW S \in SUBSET Rooms, S # {}, NEW x \in S
               PROVE  Cardinality(Units(F, S)) = F[x] + Cardinality(Units(F, S \ {x}))
    BY <1>1
  <2> QED BY RoomCounts
<1>4. AddsUp(g, F)
  <2>1. \A S \in SUBSET Rooms :
            g[S] = IF S = {} THEN 0 ELSE F[first(S)] + g[S \ {first(S)}]
    BY <1>2, <1>3
  <2> QED BY <2>1 DEF AddsUp
<1> HIDE DEF g
<1>5. PICK h : h = (CHOOSE f : AddsUp(f, F)) /\ AddsUp(h, F)
  BY <1>4
<1>6. \A S \in SUBSET Rooms : h[S] = IF S = {} THEN 0 ELSE F[first(S)] + h[S \ {first(S)}]
  BY <1>5 DEF AddsUp
<1> DEFINE Wrong == {S \in SUBSET Rooms : h[S] # Cardinality(Units(F, S))}
<1>7. ASSUME Wrong # {} PROVE FALSE
  <2> DEFINE N == {Cardinality(S) : S \in Wrong}
  <2>1. \A S \in SUBSET Rooms : IsFiniteSet(S) /\ Cardinality(S) \in Nat
    BY ShopFacts, FS_Subset, FS_CardinalityType
  <2>2. N \in SUBSET Nat /\ N # {}
    BY <1>7, <2>1
  <2>3. PICK n \in N : \A m \in N : n <= m
    <3> HIDE DEF N
    <3> QED BY <2>2, Smallest
  <2>4. PICK S \in Wrong : \A T \in Wrong : Cardinality(S) <= Cardinality(T)
    BY <2>3
  <2>5. S # {}
    BY <2>4, <1>2, <1>6
  <2>6. S \ {first(S)} \in SUBSET Rooms /\ first(S) \in S
    BY <1>1, <2>5
  <2>7. Cardinality(S \ {first(S)}) = Cardinality(S) - 1
    BY <2>1, <2>6, FS_RemoveElement
  <2>8. S \ {first(S)} \notin Wrong
    BY <2>1, <2>4, <2>7
  <2>9. h[S \ {first(S)}] = Cardinality(Units(F, S \ {first(S)}))
    BY <2>6, <2>8
  <2> QED BY <1>3, <1>6, <2>5, <2>9
<1> QED BY <1>5, <1>7

LEMMA StockIs ==
    Shops!Stock = (CHOOSE h : AddsUp(h, shop_rooms))[Rooms]
BY DEF Shops!Stock, Shops!MapThenSumSet, Shops!MapThenFoldSet, AddsUp

LEMMA StockIsNext ==
    Shops!Stock' = (CHOOSE h : AddsUp(h, shop_rooms'))[Rooms]
BY DEF Shops!Stock, Shops!MapThenSumSet, Shops!MapThenFoldSet, AddsUp

LEMMA StockIsNat ==
    ASSUME shop_rooms \in [Rooms -> Nat]
    PROVE  Shops!Stock \in Nat
BY StockIs, Summed, UnitsFinite

LEMMA ShopCounts ==
    ASSUME NEW F, F \in [Rooms -> Nat], NEW r \in Rooms
    PROVE  Cardinality(Units(F, Rooms)) = F[r] + Cardinality(Units(F, Rooms \ {r}))
<1>1. Rooms \in SUBSET Rooms
  OBVIOUS
<1> QED BY <1>1, RoomCounts

\* What happens to one room happens to the stock.
LEMMA StockFollows ==
    ASSUME shop_rooms \in [Rooms -> Nat], NEW r \in Rooms, NEW n \in Nat,
           shop_rooms' = [shop_rooms EXCEPT ![r] = n]
    PROVE  Shops!Stock' = Shops!Stock - shop_rooms[r] + n
<1>1. shop_rooms' \in [Rooms -> Nat] /\ shop_rooms'[r] = n
  OBVIOUS
<1>2. Units(shop_rooms', Rooms \ {r}) = Units(shop_rooms, Rooms \ {r})
  BY DEF Units
<1>3. Cardinality(Units(shop_rooms, Rooms)) =
          shop_rooms[r] + Cardinality(Units(shop_rooms, Rooms \ {r}))
  BY ShopCounts
<1>4. Cardinality(Units(shop_rooms', Rooms)) =
          n + Cardinality(Units(shop_rooms, Rooms \ {r}))
  BY <1>1, <1>2, ShopCounts
<1>5. Shops!Stock = Cardinality(Units(shop_rooms, Rooms))
  BY StockIs, Summed
<1>6. Shops!Stock' = Cardinality(Units(shop_rooms', Rooms))
  BY <1>1, StockIsNext, Summed
<1>7. Cardinality(Units(shop_rooms, Rooms \ {r})) \in Nat
  BY UnitsFinite
<1>8. shop_rooms[r] \in Nat
  OBVIOUS
<1> QED BY <1>3, <1>4, <1>5, <1>6, <1>7, <1>8

\* Who is in the critical section, and what the consumer has taken there but
\* not yet subtracted from its need.
ShopInv ==
    /\ Shops!TypeOK
    /\ \A t \in Shops!Both :
          shop_at[t] \in {"check", "need", "unlock"} <=> shop_holder = t
    /\ shop_at["producer"] # "need"
    /\ shop_at["consumer"] = "need" => taken <= consumer_need
    /\ Shops!Stock + (Need - consumer_need)
          + (IF shop_at["consumer"] = "need" THEN taken ELSE 0) = brought

LEMMA ShopStarts == Shops!Init => ShopInv
<1> SUFFICES ASSUME Shops!Init PROVE ShopInv
  OBVIOUS
<1> USE ShopFacts
<1>1. shop_rooms \in [Rooms -> Nat]
  BY DEF Shops!Init
<1>2. Shops!Stock \in Nat
  BY <1>1, StockIsNat
<1>3. Shops!TypeOK
  BY <1>1, <1>2 DEF Shops!Init, Shops!TypeOK
<1> QED BY <1>2, <1>3 DEF Shops!Init, ShopInv, Shops!Both, Shops!Free

\* Locking and unlocking leave the books alone.
LEMMA ShopWaits ==
    ASSUME ShopInv, NEW t \in Shops!Both, Shops!lock(t) \/ Shops!break(t) \/ Shops!unlock(t)
    PROVE  ShopInv'
<1> USE DEF Shops!Both, Shops!Free, Shops!Goes
<1>1. Shops!TypeOK'
  BY DEF ShopInv, Shops!TypeOK, Shops!lock, Shops!break, Shops!unlock
<1>2. Shops!Stock' = Shops!Stock
  BY StockIs, StockIsNext DEF Shops!lock, Shops!break, Shops!unlock
<1>3. \A u \in Shops!Both :
          shop_at'[u] \in {"check", "need", "unlock"} <=> shop_holder' = u
  BY DEF ShopInv, Shops!TypeOK, Shops!lock, Shops!break, Shops!unlock
<1>4. \A u \in Shops!Both : shop_at'[u] = "need" <=> shop_at[u] = "need"
  BY DEF ShopInv, Shops!TypeOK, Shops!lock, Shops!break, Shops!unlock
<1> QED
  BY <1>1, <1>2, <1>3, <1>4 DEF ShopInv, Shops!lock, Shops!break, Shops!unlock

LEMMA ShopTakes ==
    ASSUME ShopInv, NEW room \in Rooms, Shops!takes(room)
    PROVE  ShopInv'
<1> USE ShopFacts DEF Shops!Both, Shops!Free, Shops!Goes
<1> DEFINE n == shop_rooms[room] - taken'
<1>1. /\ shop_rooms[room] \in Nat
      /\ consumer_need \in 0..Need
      /\ taken' \in 0..Need
      /\ taken' <= consumer_need
      /\ n \in Nat
  BY DEF ShopInv, Shops!TypeOK, Shops!takes
<1>2. shop_rooms \in [Rooms -> Nat] /\ shop_rooms' = [shop_rooms EXCEPT ![room] = n]
  BY DEF ShopInv, Shops!TypeOK, Shops!takes
<1>3. Shops!Stock \in Nat
  BY <1>2, StockIsNat
<1>4. Shops!Stock' = Shops!Stock - shop_rooms[room] + n
  <2> HIDE DEF n
  <2> QED BY <1>1, <1>2, StockFollows
<1>5. Shops!Stock' = Shops!Stock - taken'
  BY <1>1, <1>3, <1>4
<1>6. Shops!TypeOK'
  <2>1. shop_rooms' \in [Rooms -> Nat]
    <3> HIDE DEF n
    <3> QED BY <1>1, <1>2
  <2> QED BY <1>1, <2>1 DEF ShopInv, Shops!TypeOK, Shops!takes
<1>7. shop_at' \in [Shops!Both -> {"lock", "check", "need", "unlock", "finished"}]
  BY <1>6 DEF Shops!TypeOK
<1>8. shop_at'["consumer"] = IF taken' > 0 THEN "need" ELSE "unlock"
  BY DEF ShopInv, Shops!TypeOK, Shops!takes
<1>9. /\ shop_at["consumer"] = "check"
      /\ shop_at'["producer"] = shop_at["producer"]
      /\ shop_holder' = shop_holder
      /\ consumer_need' = consumer_need
      /\ brought' = brought
  BY DEF ShopInv, Shops!TypeOK, Shops!takes
<1>10. Shops!Stock' + (Need - consumer_need')
          + (IF shop_at'["consumer"] = "need" THEN taken' ELSE 0) = brought'
  <2>1. Shops!Stock + (Need - consumer_need) = brought
    BY <1>1, <1>3, <1>9 DEF ShopInv
  <2>2. (IF shop_at'["consumer"] = "need" THEN taken' ELSE 0) = taken'
    BY <1>1, <1>8
  <2> QED BY <2>1, <2>2, <1>1, <1>3, <1>5, <1>9
<1>11. \A t \in Shops!Both :
          shop_at'[t] \in {"check", "need", "unlock"} <=> shop_holder' = t
  BY <1>8, <1>9 DEF ShopInv
<1> QED BY <1>1, <1>6, <1>9, <1>10, <1>11 DEF ShopInv

LEMMA ShopNeedsLess ==
    ASSUME ShopInv, Shops!needs_less
    PROVE  ShopInv'
<1> USE ShopFacts DEF Shops!Both, Shops!Free, Shops!Goes
<1>1. Shops!TypeOK'
  BY DEF ShopInv, Shops!TypeOK, Shops!needs_less
<1>2. Shops!Stock' = Shops!Stock
  BY StockIs, StockIsNext DEF Shops!needs_less
<1>3. Shops!Stock \in Nat
  BY StockIsNat DEF ShopInv, Shops!TypeOK
<1>4. \A u \in Shops!Both :
          shop_at'[u] \in {"check", "need", "unlock"} <=> shop_holder' = u
  BY DEF ShopInv, Shops!TypeOK, Shops!needs_less
<1>5. shop_at'["consumer"] = "unlock" /\ shop_at'["producer"] = shop_at["producer"]
  BY DEF ShopInv, Shops!TypeOK, Shops!needs_less
<1>6. Shops!Stock' + (Need - consumer_need') = brought'
  BY <1>2, <1>3 DEF ShopInv, Shops!TypeOK, Shops!needs_less
<1> QED
  BY <1>1, <1>3, <1>2, <1>4, <1>5, <1>6 DEF ShopInv, Shops!needs_less, Shops!TypeOK

LEMMA ShopAdds ==
    ASSUME ShopInv, NEW room \in Rooms, NEW add \in Goods, Shops!adds(room, add)
    PROVE  ShopInv'
<1> USE ShopFacts DEF Shops!Both, Shops!Free, Shops!Goes
<1> DEFINE n == shop_rooms[room] + add
<1>1. shop_rooms[room] \in Nat /\ add \in Nat /\ n \in Nat
  BY DEF ShopInv, Shops!TypeOK
<1>2. shop_rooms \in [Rooms -> Nat] /\ shop_rooms' = [shop_rooms EXCEPT ![room] = n]
  BY DEF ShopInv, Shops!TypeOK, Shops!adds
<1>3. Shops!Stock \in Nat
  BY <1>2, StockIsNat
<1>4. Shops!Stock' = Shops!Stock - shop_rooms[room] + n
  <2> HIDE DEF n
  <2> QED BY <1>1, <1>2, StockFollows
<1>5. Shops!Stock' = Shops!Stock + add
  BY <1>1, <1>3, <1>4
<1>6. Shops!TypeOK'
  <2>1. shop_rooms' \in [Rooms -> Nat]
    <3> HIDE DEF n
    <3> QED BY <1>1, <1>2
  <2> QED BY <1>1, <2>1 DEF ShopInv, Shops!TypeOK, Shops!adds
<1>7. \A t \in Shops!Both :
          shop_at'[t] \in {"check", "need", "unlock"} <=> shop_holder' = t
  BY DEF ShopInv, Shops!TypeOK, Shops!adds
<1>8. /\ shop_at["consumer"] # "need"
      /\ shop_at'["consumer"] = shop_at["consumer"]
      /\ shop_at'["producer"] = "unlock"
      /\ consumer_need' = consumer_need
      /\ consumer_need \in 0..Need
      /\ brought \in Nat
      /\ brought' = brought + add
  BY DEF ShopInv, Shops!TypeOK, Shops!adds
<1>9. Shops!Stock + (Need - consumer_need) = brought
  BY <1>3, <1>8 DEF ShopInv
<1>10. Shops!Stock' + (Need - consumer_need') = brought'
  BY <1>1, <1>3, <1>5, <1>8, <1>9
<1>11. Shops!Stock' + (Need - consumer_need')
          + (IF shop_at'["consumer"] = "need" THEN taken' ELSE 0) = brought'
  BY <1>1, <1>3, <1>5, <1>8, <1>10
<1> QED BY <1>6, <1>7, <1>8, <1>11 DEF ShopInv

LEMMA ShopStep == ShopInv /\ [Shops!Next]_Shops!vars => ShopInv'
<1> SUFFICES ASSUME ShopInv, [Shops!Next]_Shops!vars PROVE ShopInv'
  OBVIOUS
<1>1. CASE UNCHANGED Shops!vars
  <2>1. Shops!Stock' = Shops!Stock
    BY <1>1, StockIs, StockIsNext DEF Shops!vars
  <2> QED BY <1>1, <2>1 DEF ShopInv, Shops!TypeOK, Shops!vars
<1>2. CASE Shops!Next
  BY <1>2, ShopWaits, ShopTakes, ShopNeedsLess, ShopAdds
     DEF Shops!Next, Shops!consumer, Shops!producer, Shops!Both
<1> QED BY <1>1, <1>2

LEMMA ShopBalances == ShopInv => BooksBalance
<1> SUFFICES ASSUME ShopInv, shop_holder = Shops!Free
             PROVE  /\ Shops!Stock + (Need - consumer_need) = brought
                    /\ consumer_need >= 0
                    /\ \A room \in Rooms : shop_rooms[room] >= 0
  BY DEF BooksBalance, Shops!BooksBalance
<1>1. shop_at["consumer"] # "need"
  BY DEF ShopInv, Shops!Both, Shops!Free
<1>2. Shops!Stock \in Nat
  BY StockIsNat DEF ShopInv, Shops!TypeOK
<1>3. consumer_need \in 0..Need /\ \A room \in Rooms : shop_rooms[room] \in Nat
  BY DEF ShopInv, Shops!TypeOK
<1> QED BY <1>1, <1>2, <1>3, ShopFacts DEF ShopInv

\* Whoever unlocks the shop leaves books that are right, although the consumer
\* and the producer change them one store at a time.
THEOREM ShopKeepsBooks == Shops!Spec => []BooksBalance
<1> QED BY ShopStarts, ShopStep, ShopBalances, PTL DEF Shops!Spec

-----------------------------------------------------------------------------
(* The string of the kernel modules *)

Byte == Chars \cup {Nul}

StringTyped ==
    /\ module \in {"dev", "proc", "sys"}
    /\ string \in [1..Size -> Byte]
    /\ whole \in [1..Size -> Byte]
    /\ writer \in Users \cup {NoUser}
    /\ user_at \in [Users -> {"user", "strlen", "reads", "writes"}]
    /\ off \in [Users -> Nat]
    /\ size \in [Users -> Nat]
    /\ bytes \in [Users -> Seq(Byte)]
    /\ buff \in [Users -> Seq(Byte \cup {Behind})]
    /\ asked \in [Users -> [whole : [1..Size -> Byte], off : Nat, size : Nat]]

\* The lock is held for writing by one or for reading by any number.
LockInv ==
    /\ readers = {u \in Users : user_at[u] \in {"strlen", "reads"}}
    /\ \A u \in Users : user_at[u] = "writes" <=> writer = u
    /\ writer # NoUser => readers = {}

\* What a writer has still to copy makes the string whole.
WriteInv ==
    /\ writer = NoUser => string = whole
    /\ \A u \in Users : user_at[u] = "writes" =>
          /\ bytes[u] # <<>> => off[u] + Len(bytes[u]) <= Size
          /\ \A j \in 1..Size :
                whole[j] = IF j - off[u] \in 1..Len(bytes[u]) THEN bytes[u][j - off[u]] ELSE string[j]

\* In /sys calls begin at the first byte, and the whole string is terminated.
SysInv ==
    module = "sys" =>
        /\ \E j \in 1..Size : whole[j] = Nul
        /\ \A u \in Users :
              /\ user_at[u] = "user" => off[u] = 0
              /\ \E j \in 1..Size : asked[u].whole[j] = Nul

\* t is what a call to read is to give.
Asked(u, t) ==
    \E s \in Strings!CStrings(asked[u].whole) :
        t = Strings!Piece(s, asked[u].off, asked[u].size)

\* How far a reader has come.
Reading(u) ==
    /\ user_at[u] \in {"strlen", "reads"} => asked[u].whole = whole
    /\ user_at[u] = "strlen" =>
          asked[u].off = off[u] /\ asked[u].size = size[u] /\ buff[u] = <<>>
    /\ user_at[u] = "reads" => \E t :
          /\ Asked(u, t)
          /\ off[u] = asked[u].off + Len(buff[u])
          /\ Len(buff[u]) + size[u] = Len(t)
          /\ \A k \in 1..Len(buff[u]) : buff[u][k] = t[k]
    /\ user_at[u] \in {"user", "writes"} => Asked(u, buff[u])

ReadInv == \A u \in Users : Reading(u)

StringInv == StringTyped /\ LockInv /\ WriteInv /\ SysInv /\ ReadInv
LEMMA StringFacts ==
    /\ NoUser \notin Users
    /\ Size \in Nat \ {0}
    /\ Nul # Behind
    /\ Behind \notin Byte
    /\ Nul \notin Chars
BY ExercisesAssumption DEF Strings!StringAssumption, Byte

LEMMA Least ==
    ASSUME NEW a \in Int, NEW b \in Int
    PROVE  /\ Strings!Min({a, b}) = IF a <= b THEN a ELSE b
           /\ Strings!Max({a, b}) = IF a <= b THEN b ELSE a
<1>1. \E x \in {a, b} : \A y \in {a, b} : x <= y
  OBVIOUS
<1>2. Strings!Min({a, b}) \in {a, b} /\ \A y \in {a, b} : Strings!Min({a, b}) <= y
  BY <1>1 DEF Strings!Min
<1>3. \E x \in {a, b} : \A y \in {a, b} : x >= y
  OBVIOUS
<1>4. Strings!Max({a, b}) \in {a, b} /\ \A y \in {a, b} : Strings!Max({a, b}) >= y
  BY <1>3 DEF Strings!Max
<1> QED BY <1>2, <1>4

\* A piece of a text: how long it is, and what is in it.
LEMMA Pieces ==
    ASSUME NEW S, NEW t \in Seq(S), NEW o \in Nat, NEW n \in Nat
    PROVE  /\ Strings!Piece(t, o, n) \in Seq(S)
           /\ Len(Strings!Piece(t, o, n)) =
                 IF o >= Len(t) THEN 0 ELSE IF o + n <= Len(t) THEN n ELSE Len(t) - o
           /\ \A k \in 1..Len(Strings!Piece(t, o, n)) :
                 Strings!Piece(t, o, n)[k] = t[o + k]
<1> DEFINE m == IF o + n <= Len(t) THEN o + n ELSE Len(t)
<1>1. Len(t) \in Nat
  BY LenProperties
<1>2. Strings!Piece(t, o, n) = SubSeq(t, o + 1, m)
  BY <1>1, Least DEF Strings!Piece
<1>3. m \in Nat /\ m <= Len(t)
  BY <1>1
<1>4. o + 1 \in Nat \ {0}
  OBVIOUS
<1>5. CASE o + 1 <= m
  <2> HIDE DEF m
  <2>1. /\ SubSeq(t, o + 1, m) \in Seq(S)
        /\ Len(SubSeq(t, o + 1, m)) = m - o
        /\ \A k \in 1..(m - o) : SubSeq(t, o + 1, m)[k] = t[o + k]
    BY <1>1, <1>3, <1>5
  <2>2. m - o = IF o >= Len(t) THEN 0 ELSE IF o + n <= Len(t) THEN n ELSE Len(t) - o
    BY <1>1, <1>5 DEF m
  <2> QED BY <1>2, <2>1, <2>2
<1>6. CASE o + 1 > m
  <2> HIDE DEF m
  <2>1. SubSeq(t, o + 1, m) = <<>>
    BY <1>1, <1>3, <1>6
  <2> QED BY <1>1, <1>2, <1>6, <2>1 DEF m
<1> QED BY <1>3, <1>5, <1>6

\* What a string may be taken for: a beginning of it, and no more than one byte
\* too many.
LEMMA Taken ==
    ASSUME NEW str \in [1..Size -> Byte], NEW t \in Strings!CStrings(str)
    PROVE  /\ t \in Seq(Byte \cup {Behind})
           /\ \A k \in 1..Len(t) : t[k] = IF k > Size THEN Behind ELSE str[k]
           /\ (\E j \in 1..Size : str[j] = Nul) => t \in Seq(Byte)
<1> DEFINE I == {i \in 1..Len(str) : str[i] = Nul}
           End == Strings!SelectInSeq(str, LAMBDA c : c = Nul)
<1>1. str \in Seq(Byte) /\ Len(str) = Size
  BY StringFacts
<1>2. End = IF I # {} THEN Strings!Min(I) ELSE 0
  BY DEF Strings!SelectInSeq
<1>3. I # {} => End \in 1..Size
  <2> SUFFICES ASSUME I # {} PROVE End \in 1..Size
    OBVIOUS
  <2>1. I \in SUBSET Nat
    OBVIOUS
  <2>2. \E n \in I : \A m \in I : n <= m
    <3> HIDE DEF I
    <3> QED BY <2>1, Smallest
  <2>3. Strings!Min(I) \in I
    <3> HIDE DEF I
    <3> QED BY <2>2 DEF Strings!Min
  <2> HIDE DEF End
  <2> QED BY <1>1, <1>2, <2>3
<1> HIDE DEF End
<1>4. Strings!CStrings(str) =
          IF End > 0 THEN {SubSeq(str, 1, End - 1)} ELSE {str, Append(str, Behind)}
  BY DEF Strings!CStrings, End
<1>5. CASE I # {}
  <2>1. t = SubSeq(str, 1, End - 1) /\ End \in 1..Size
    BY <1>3, <1>4, <1>5
  <2>2. /\ t \in Seq(Byte) /\ Len(t) = End - 1
        /\ \A k \in 1..Len(t) : t[k] = str[k]
    BY <1>1, <2>1, StringFacts
  <2>3. t \in Seq(Byte \cup {Behind})
    BY <2>2
  <2> QED BY <2>1, <2>2, <2>3, StringFacts
<1>6. CASE I = {}
  <2>1. t \in {str, Append(str, Behind)}
    BY <1>2, <1>4, <1>6
  <2>2. ~ \E j \in 1..Size : str[j] = Nul
    BY <1>1, <1>6
  <2>3. CASE t = str
    BY <2>2, <2>3, <1>1, StringFacts
  <2>4. CASE t = Append(str, Behind)
    <3>1. str \in Seq(Byte \cup {Behind})
      BY <1>1
    <3> QED BY <3>1, <2>2, <2>4, <1>1, StringFacts
  <2> QED BY <2>1, <2>3, <2>4
<1> QED BY <1>5, <1>6

\* Every string may be taken for something.
LEMMA SomethingTaken ==
    ASSUME NEW str
    PROVE  Strings!CStrings(str) # {}
BY DEF Strings!CStrings

\* What a write puts into the string fits.
LEMMA Fits ==
    ASSUME NEW t \in Strings!Texts, NEW o \in Nat, module = "sys" => o = 0
    PROVE  LET b == Strings!Fitting(t, o) IN
           /\ b \in Seq(Byte)
           /\ b # <<>> => o + Len(b) <= Size
           /\ module = "sys" => b # <<>> /\ b[Len(b)] = Nul
<1>1. t \in Seq(Byte)
  BY StringFacts DEF Strings!Texts, Byte
<1>2. CASE module = "sys"
  <2>1. Size - 1 \in Nat
    BY StringFacts
  <2> DEFINE p == Strings!Piece(t, 0, Size - 1)
  <2>2. p \in Seq(Byte) /\ Len(p) <= Size - 1 /\ Len(p) \in Nat
    <3>1. Len(t) \in Nat /\ 0 \in Nat
      BY <1>1, LenProperties
    <3>2. p \in Seq(Byte)
      BY <1>1, <2>1, <3>1, Pieces
    <3>3. Len(p) = IF 0 >= Len(t) THEN 0 ELSE IF 0 + (Size - 1) <= Len(t) THEN Size - 1 ELSE Len(t) - 0
      BY <1>1, <2>1, <3>1, Pieces
    <3> HIDE DEF p
    <3> QED BY <2>1, <3>1, <3>2, <3>3
  <2> HIDE DEF p
  <2>3. Strings!Fitting(t, o) = Append(p, Nul)
    BY <1>2 DEF Strings!Fitting, p
  <2>4. Nul \in Byte
    BY DEF Byte
  <2> QED BY <2>2, <2>3, <2>4, <1>2, StringFacts
<1>3. CASE module # "sys"
  <2> DEFINE m == Strings!Max({0, Size - o})
  <2>1. m = (IF 0 <= Size - o THEN Size - o ELSE 0) /\ m \in Nat
    <3>1. 0 \in Int /\ Size - o \in Int
      BY StringFacts
    <3>2. m = IF 0 <= Size - o THEN Size - o ELSE 0
      BY <3>1, Least
    <3> HIDE DEF m
    <3> QED BY <3>1, <3>2
  <2> DEFINE p == Strings!Piece(t, 0, m)
  <2>2. p \in Seq(Byte) /\ Len(p) <= m /\ Len(p) \in Nat
    <3> HIDE DEF m
    <3>1. Len(t) \in Nat /\ 0 \in Nat /\ m \in Nat
      BY <1>1, <2>1, LenProperties
    <3>2. p \in Seq(Byte)
      BY <1>1, <3>1, Pieces
    <3>3. Len(p) = IF 0 >= Len(t) THEN 0 ELSE IF 0 + m <= Len(t) THEN m ELSE Len(t) - 0
      BY <1>1, <3>1, Pieces
    <3> HIDE DEF p
    <3> QED BY <3>1, <3>2, <3>3
  <2>3. Strings!Fitting(t, o) = p
    BY <1>3 DEF Strings!Fitting
  <2> HIDE DEF p
  <2>4. p # <<>> => Len(p) > 0
    BY <2>2
  <2> QED BY <1>3, <2>1, <2>2, <2>3, <2>4, StringFacts
<1> QED BY <1>2, <1>3
LEMMA StringStarts == Strings!Init => StringInv
<1> SUFFICES ASSUME Strings!Init PROVE StringInv
  OBVIOUS
<1> USE StringFacts
<1>1. StringTyped
  <2>1. string \in [1..Size -> Byte]
    BY DEF Strings!Init, Byte
  <2>2. [whole |-> string, off |-> 0, size |-> 0]
            \in [whole : [1..Size -> Byte], off : Nat, size : Nat]
    BY <2>1
  <2>3. asked \in [Users -> [whole : [1..Size -> Byte], off : Nat, size : Nat]]
    BY <2>2 DEF Strings!Init
  <2>4. <<>> \in Seq(Byte) /\ <<>> \in Seq(Byte \cup {Behind})
    OBVIOUS
  <2>5. bytes \in [Users -> Seq(Byte)] /\ buff \in [Users -> Seq(Byte \cup {Behind})]
    BY <2>4 DEF Strings!Init
  <2> QED BY <2>1, <2>3, <2>5 DEF Strings!Init, StringTyped
<1>2. LockInv /\ WriteInv
  BY DEF Strings!Init, LockInv, WriteInv
<1>3. string[Size] = Nul
  BY DEF Strings!Init
<1>4. SysInv
  <2>1. whole[Size] = Nul /\ Size \in 1..Size
    BY <1>3 DEF Strings!Init
  <2>2. ASSUME NEW u \in Users PROVE asked[u].whole[Size] = Nul /\ off[u] = 0
    BY <1>3 DEF Strings!Init
  <2> QED BY <2>1, <2>2 DEF SysInv
<1>5. ASSUME NEW u \in Users PROVE Reading(u)
  <2>1. asked[u] = [whole |-> string, off |-> 0, size |-> 0] /\ buff[u] = <<>>
    BY DEF Strings!Init
  <2>2. PICK t \in Strings!CStrings(string) : TRUE
    BY SomethingTaken
  <2>3. t \in Seq(Byte \cup {Behind})
    BY <1>1, <2>2, Taken DEF StringTyped
  <2>4. Strings!Piece(t, 0, 0) = <<>>
    <3>1. Len(t) \in Nat /\ 0 \in Nat
      BY <2>3, LenProperties
    <3>2. /\ Strings!Piece(t, 0, 0) \in Seq(Byte \cup {Behind})
          /\ Len(Strings!Piece(t, 0, 0)) =
                IF 0 >= Len(t) THEN 0 ELSE IF 0 + 0 <= Len(t) THEN 0 ELSE Len(t) - 0
      BY <2>3, <3>1, Pieces
    <3> QED BY <3>1, <3>2, EmptySeq
  <2>5. Asked(u, buff[u])
    BY <2>1, <2>2, <2>4 DEF Asked
  <2> QED BY <2>5 DEF Strings!Init, Reading
<1> QED BY <1>1, <1>2, <1>4, <1>5 DEF StringInv, ReadInv

\* Nothing happens to a reader unless it does something itself.
LEMMA ReadsOn ==
    ASSUME NEW u, Reading(u),
           user_at'[u] = user_at[u] \/ {user_at[u], user_at'[u]} \subseteq {"user", "writes"},
           user_at[u] \in {"strlen", "reads"} => whole' = whole /\ off'[u] = off[u],
           asked'[u] = asked[u], size'[u] = size[u], buff'[u] = buff[u]
    PROVE  Reading(u)'
<1>1. \A t : Asked(u, t)' <=> Asked(u, t)
  BY DEF Asked
<1>2. CASE user_at'[u] = user_at[u] /\ user_at[u] \in {"strlen", "reads"}
  BY <1>1, <1>2 DEF Reading
<1>3. CASE ~(user_at'[u] = user_at[u] /\ user_at[u] \in {"strlen", "reads"})
  BY <1>1, <1>3 DEF Reading
<1> QED BY <1>2, <1>3

LEMMA StringReadLock ==
    ASSUME StringInv, NEW u \in Users, NEW n \in 1..(Size + 1), Strings!read_lock(u, n)
    PROVE  StringInv'
<1> USE StringFacts
<1>1. StringTyped'
  BY DEF StringInv, StringTyped, Strings!read_lock
<1>2. LockInv'
  BY DEF StringInv, StringTyped, LockInv, Strings!read_lock
<1>3. WriteInv'
  BY DEF StringInv, StringTyped, LockInv, WriteInv, Strings!read_lock
<1>4. SysInv'
  BY DEF StringInv, StringTyped, SysInv, Strings!read_lock
<1>5. ASSUME NEW v \in Users, v # u PROVE Reading(v)'
  BY <1>5, ReadsOn DEF StringInv, StringTyped, ReadInv, Strings!read_lock
<1>6. Reading(u)'
  BY DEF StringInv, StringTyped, Reading, Strings!read_lock
<1> QED BY <1>1, <1>2, <1>3, <1>4, <1>5, <1>6 DEF StringInv, ReadInv

LEMMA StringStrlen ==
    ASSUME StringInv, NEW u \in Users, Strings!strlen(u)
    PROVE  StringInv'
<1> USE StringFacts
<1>1. PICK s \in Strings!CStrings(string) :
          size' = [size EXCEPT ![u] = Strings!Max({0, Strings!Min({@, Len(s) - off[u]})})]
  BY DEF Strings!strlen
<1>2. s \in Seq(Byte \cup {Behind}) /\ Len(s) \in Nat
  BY Taken, LenProperties DEF StringInv, StringTyped
<1>3. off[u] \in Nat /\ size[u] \in Nat
  BY DEF StringInv, StringTyped
<1>0. PICK t : t = Strings!Piece(s, off[u], size[u])
  OBVIOUS
<1>4. /\ t \in Seq(Byte \cup {Behind})
      /\ Len(t) = IF off[u] >= Len(s) THEN 0
                  ELSE IF off[u] + size[u] <= Len(s) THEN size[u] ELSE Len(s) - off[u]
  <2>1. PICK o \in Nat, n \in Nat : o = off[u] /\ n = size[u]
    BY <1>3
  <2>2. t = Strings!Piece(s, o, n)
    BY <1>0, <2>1
  <2>3. Strings!Piece(s, o, n) \in Seq(Byte \cup {Behind})
    BY <1>2, Pieces
  <2>4. Len(Strings!Piece(s, o, n)) =
           IF o >= Len(s) THEN 0 ELSE IF o + n <= Len(s) THEN n ELSE Len(s) - o
    BY <1>2, Pieces
  <2> QED BY <2>1, <2>2, <2>3, <2>4
<1>5. size'[u] = Len(t)
  <2> DEFINE m == Strings!Min({size[u], Len(s) - off[u]})
  <2>1. size[u] \in Int /\ Len(s) - off[u] \in Int
    BY <1>2, <1>3
  <2>2. m = IF size[u] <= Len(s) - off[u] THEN size[u] ELSE Len(s) - off[u]
    BY <2>1, Least
  <2>3. m \in Int /\ 0 \in Int
    BY <2>1, <2>2
  <2>4. size'[u] = Strings!Max({0, m})
    BY <1>1 DEF StringInv, StringTyped
  <2> HIDE DEF m
  <2>5. size'[u] = IF 0 <= m THEN m ELSE 0
    BY <2>3, <2>4, Least
  <2> QED BY <1>2, <1>3, <1>4, <2>2, <2>5
<1>6. size' \in [Users -> Nat] /\ \A v \in Users : v # u => size'[v] = size[v]
  BY <1>1, <1>4, <1>5, LenProperties DEF StringInv, StringTyped
<1>7. StringTyped'
  BY <1>6 DEF StringInv, StringTyped, Strings!strlen
<1>8. LockInv'
  BY DEF StringInv, StringTyped, LockInv, Strings!strlen
<1>9. WriteInv' /\ SysInv'
  BY DEF StringInv, StringTyped, WriteInv, SysInv, Strings!strlen
<1>10. ASSUME NEW v \in Users, v # u PROVE Reading(v)'
  BY <1>6, <1>10, ReadsOn DEF StringInv, StringTyped, ReadInv, Strings!strlen
<1>11. Reading(u)'
  <2>1. string = whole
    BY DEF StringInv, LockInv, WriteInv, Strings!strlen
  <2>2. Asked(u, t)'
    <3>1. asked[u].whole = string /\ asked[u].off = off[u] /\ asked[u].size = size[u]
      BY <2>1 DEF StringInv, ReadInv, Reading, Strings!strlen
    <3>2. asked' = asked
      BY DEF Strings!strlen
    <3>3. s \in Strings!CStrings(asked[u].whole)
      BY <1>1, <3>1
    <3> QED BY <1>0, <3>1, <3>2, <3>3 DEF Asked
  <2>3. buff'[u] = <<>> /\ off'[u] = asked'[u].off /\ asked'[u].whole = whole'
    BY DEF StringInv, ReadInv, Reading, Strings!strlen
  <2>4. user_at'[u] = "reads"
    BY DEF StringInv, StringTyped, Strings!strlen
  <2>5. asked'[u].off \in Nat /\ Len(t) \in Nat
    BY <1>4, <1>7, LenProperties DEF StringTyped
  <2>6. Len(buff'[u]) = 0
    BY <2>3
  <2>7. /\ off'[u] = asked'[u].off + Len(buff'[u])
        /\ Len(buff'[u]) + size'[u] = Len(t)
        /\ \A k \in 1..Len(buff'[u]) : buff'[u][k] = t[k]
    BY <1>5, <2>3, <2>5, <2>6
  <2> QED BY <2>2, <2>3, <2>4, <2>7 DEF Reading
<1> QED BY <1>7, <1>8, <1>9, <1>10, <1>11 DEF StringInv, ReadInv

\* What is copied is the next byte of what was asked for.
LEMMA StringCopyToUser ==
    ASSUME StringInv, NEW u \in Users, Strings!copy_to_user(u)
    PROVE  StringInv'
<1> USE StringFacts
<1> DEFINE c == IF off'[u] > Size THEN Behind ELSE string[off'[u]]
           k == Len(buff[u]) + 1
<1>1. buff[u] \in Seq(Byte \cup {Behind}) /\ Len(buff[u]) \in Nat
  BY LenProperties DEF StringInv, StringTyped
<1>2. /\ off[u] \in Nat /\ off'[u] = off[u] + 1
      /\ size[u] \in Nat /\ size[u] > 0 /\ size'[u] = size[u] - 1
      /\ user_at[u] = "reads" /\ user_at' = user_at
      /\ asked' = asked /\ whole' = whole
      /\ buff' = [buff EXCEPT ![u] = Append(@, c)]
  BY DEF StringInv, StringTyped, Strings!copy_to_user
<1>3. c \in Byte \cup {Behind}
  BY <1>2 DEF StringInv, StringTyped
<1> HIDE DEF c
<1>4. buff'[u] = Append(buff[u], c)
  BY <1>2 DEF StringInv, StringTyped
<1>5. /\ buff'[u] \in Seq(Byte \cup {Behind})
      /\ Len(buff'[u]) = k
      /\ buff'[u][k] = c
      /\ \A j \in 1..Len(buff[u]) : buff'[u][j] = buff[u][j]
  BY <1>1, <1>3, <1>4
<1>6. StringTyped'
  <2>1. buff' \in [Users -> Seq(Byte \cup {Behind})]
    BY <1>2, <1>4, <1>5 DEF StringInv, StringTyped
  <2>2. off' \in [Users -> Nat] /\ size' \in [Users -> Nat]
    BY <1>2 DEF StringInv, StringTyped, Strings!copy_to_user
  <2>3. UNCHANGED <<module, string, writer, user_at, bytes, whole, asked>>
    BY DEF Strings!copy_to_user
  <2>4. StringTyped
    BY DEF StringInv
  <2> QED BY <2>1, <2>2, <2>3, <2>4 DEF StringTyped
<1>7. LockInv' /\ WriteInv' /\ SysInv'
  <2>1. UNCHANGED <<module, string, readers, writer, user_at, bytes, whole, asked>>
    BY DEF Strings!copy_to_user
  <2>2. \A v \in Users : v # u => off'[v] = off[v]
    BY DEF StringInv, StringTyped, Strings!copy_to_user
  <2>3. LockInv'
    BY <2>1 DEF StringInv, LockInv
  <2>4. WriteInv'
    BY <1>2, <2>1, <2>2 DEF StringInv, WriteInv
  <2>5. SysInv'
    BY <1>2, <2>1, <2>2 DEF StringInv, SysInv
  <2> QED BY <2>3, <2>4, <2>5
<1>8. ASSUME NEW v \in Users, v # u PROVE Reading(v)'
  BY <1>8, ReadsOn DEF StringInv, StringTyped, ReadInv, Strings!copy_to_user
<1>9. Reading(u)'
  <2>1. PICK t :
          /\ Asked(u, t)
          /\ off[u] = asked[u].off + Len(buff[u])
          /\ Len(buff[u]) + size[u] = Len(t)
          /\ \A j \in 1..Len(buff[u]) : buff[u][j] = t[j]
    BY <1>2 DEF StringInv, ReadInv, Reading
  <2>2. asked[u].whole = string /\ asked[u].off \in Nat /\ asked[u].size \in Nat
    BY <1>2 DEF StringInv, StringTyped, LockInv, WriteInv, ReadInv, Reading
  <2>3. PICK s \in Strings!CStrings(string) :
            t = Strings!Piece(s, asked[u].off, asked[u].size)
    BY <2>1, <2>2 DEF Asked
  <2>4. /\ s \in Seq(Byte \cup {Behind}) /\ Len(s) \in Nat
        /\ \A j \in 1..Len(s) : s[j] = IF j > Size THEN Behind ELSE string[j]
    BY Taken, LenProperties DEF StringInv, StringTyped
  <2>5. /\ Len(t) = IF asked[u].off >= Len(s) THEN 0
                    ELSE IF asked[u].off + asked[u].size <= Len(s) THEN asked[u].size
                    ELSE Len(s) - asked[u].off
        /\ \A j \in 1..Len(t) : t[j] = s[asked[u].off + j]
    <3> DEFINE ao == asked[u].off
               an == asked[u].size
               p == Strings!Piece(s, ao, an)
    <3>1. ao \in Nat /\ an \in Nat /\ t = p
      BY <2>2, <2>3
    <3>3. s \in Seq(Byte \cup {Behind})
      BY <2>4
    <3> HIDE DEF ao, an
    <3>4. ao \in Nat /\ an \in Nat
      BY <3>1
    <3>2. Len(p) = IF ao >= Len(s) THEN 0 ELSE IF ao + an <= Len(s) THEN an ELSE Len(s) - ao
      BY <3>3, <3>4, Pieces
    <3>5. \A j \in 1..Len(p) : p[j] = s[ao + j]
      BY <3>3, <3>4, Pieces
    <3> HIDE DEF p
    <3> QED BY <3>1, <3>2, <3>5 DEF ao, an
  <2>6. k \in 1..Len(t) /\ asked[u].off + k \in 1..Len(s) /\ asked[u].off + k = off'[u]
    <3> DEFINE ao == asked[u].off
               an == asked[u].size
               l == Len(s)
               m == Len(buff[u])
    <3>1. /\ ao \in Nat /\ an \in Nat /\ l \in Nat /\ m \in Nat
          /\ m + size[u] = Len(t) /\ size[u] \in Nat /\ size[u] > 0
          /\ off[u] = ao + m /\ off'[u] = off[u] + 1
          /\ Len(t) = IF ao >= l THEN 0 ELSE IF ao + an <= l THEN an ELSE l - ao
      BY <1>1, <1>2, <2>1, <2>2, <2>4, <2>5
    <3> HIDE DEF ao, an, l, m
    <3>2. m + 1 \in 1..Len(t) /\ ao + (m + 1) \in 1..l /\ ao + (m + 1) = off'[u]
      BY <3>1
    <3> QED BY <3>2 DEF ao, l, m
  <2>7. t[k] = c
    BY <2>4, <2>5, <2>6 DEF c
  <2> HIDE DEF k
  <2>8. \A j \in 1..Len(buff'[u]) : j = k \/ j \in 1..Len(buff[u])
    BY <1>1, <1>5 DEF k
  <2>9. \A j \in 1..Len(buff'[u]) : buff'[u][j] = t[j]
    BY <1>5, <2>1, <2>7, <2>8
  <2>10. off'[u] = asked'[u].off + Len(buff'[u]) /\ Len(buff'[u]) + size'[u] = Len(t)
    BY <1>1, <1>2, <1>5, <2>1, <2>2, <2>6 DEF k
  <2>11. Asked(u, t)'
    BY <1>2, <2>1 DEF Asked
  <2>12. asked'[u].whole = whole'
    BY <1>2 DEF StringInv, ReadInv, Reading
  <2> QED BY <1>2, <2>9, <2>10, <2>11, <2>12 DEF Reading
<1> QED BY <1>6, <1>7, <1>8, <1>9 DEF StringInv, ReadInv

LEMMA StringReadUnlock ==
    ASSUME StringInv, NEW u \in Users, Strings!read_unlock(u)
    PROVE  StringInv'
<1> USE StringFacts DEF Strings!Returns
<1>1. StringTyped'
  BY DEF StringInv, StringTyped, Strings!read_unlock
<1>2. LockInv'
  BY DEF StringInv, StringTyped, LockInv, Strings!read_unlock
<1>3. WriteInv'
  <2>1. \A v \in Users : user_at'[v] # "writes"
    BY DEF StringInv, StringTyped, LockInv, Strings!read_unlock
  <2> QED BY <2>1 DEF StringInv, WriteInv, Strings!read_unlock
<1>4. SysInv'
  BY DEF StringInv, StringTyped, SysInv, Strings!read_unlock
<1>5. ASSUME NEW v \in Users, v # u PROVE Reading(v)'
  <2>1. off'[v] = off[v]
    BY <1>5 DEF StringInv, StringTyped, Strings!read_unlock
  <2> QED BY <1>5, <2>1, ReadsOn DEF StringInv, StringTyped, ReadInv, Strings!read_unlock
<1>6. Reading(u)'
  <2>1. PICK t :
          /\ Asked(u, t)
          /\ Len(buff[u]) + size[u] = Len(t)
          /\ \A j \in 1..Len(buff[u]) : buff[u][j] = t[j]
    BY DEF StringInv, ReadInv, Reading, Strings!read_unlock
  <2>2. PICK s \in Strings!CStrings(asked[u].whole) :
            t = Strings!Piece(s, asked[u].off, asked[u].size)
    BY <2>1 DEF Asked
  <2>3. asked[u] \in [whole : [1..Size -> Byte], off : Nat, size : Nat]
    BY DEF StringInv, StringTyped
  <2>4. s \in Seq(Byte \cup {Behind})
    BY <2>2, <2>3, Taken
  <2>5. t \in Seq(Byte \cup {Behind})
    BY <2>2, <2>3, <2>4, Pieces
  <2>6. buff[u] \in Seq(Byte \cup {Behind}) /\ Len(buff[u]) = Len(t)
    <3>1. buff[u] \in Seq(Byte \cup {Behind}) /\ size[u] = 0
      BY DEF StringInv, StringTyped, Strings!read_unlock
    <3> QED BY <2>1, <3>1, LenProperties
  <2>7. buff[u] = t
    BY <2>1, <2>5, <2>6, SeqEqual
  <2>8. Asked(u, buff[u])'
    BY <2>1, <2>7 DEF Asked, Strings!read_unlock
  <2>9. user_at'[u] = "user"
    BY DEF StringInv, StringTyped, Strings!read_unlock
  <2> QED BY <2>8, <2>9 DEF Reading
<1> QED BY <1>1, <1>2, <1>3, <1>4, <1>5, <1>6 DEF StringInv, ReadInv

LEMMA StringWriteLock ==
    ASSUME StringInv, NEW u \in Users, NEW t \in Strings!Texts, Strings!write_lock(u, t)
    PROVE  StringInv'
<1> USE StringFacts
<1> DEFINE b == Strings!Fitting(t, off[u])
           o == off[u]
<1>1. o \in Nat /\ (module = "sys" => o = 0)
  BY DEF StringInv, StringTyped, SysInv, Strings!write_lock
<1>2. /\ b \in Seq(Byte)
      /\ b # <<>> => o + Len(b) <= Size
      /\ module = "sys" => b # <<>> /\ b[Len(b)] = Nul
  BY <1>1, Fits
<1>3. bytes'[u] = b
  BY DEF StringInv, StringTyped, Strings!write_lock
<1>4. whole' = [i \in 1..Size |-> IF i - o \in DOMAIN bytes'[u] THEN bytes'[u][i - o] ELSE whole[i]]
  BY DEF Strings!write_lock
<1>5. bytes' \in [Users -> Seq(Byte)] /\ off' = off
  BY <1>2 DEF StringInv, StringTyped, Strings!write_lock
<1> HIDE DEF b, o
<1>6. DOMAIN b = 1..Len(b) /\ Len(b) \in Nat
  BY <1>2, LenProperties
<1>7. \A j \in 1..Size : whole'[j] = IF j - o \in 1..Len(b) THEN b[j - o] ELSE whole[j]
  BY <1>3, <1>4, <1>6
<1>8. whole' \in [1..Size -> Byte]
  <2>1. \A j \in 1..Size : whole'[j] \in Byte
    <3> SUFFICES ASSUME NEW j \in 1..Size PROVE whole'[j] \in Byte
      OBVIOUS
    <3>1. CASE j - o \in 1..Len(b)
      <4>1. b[j - o] \in Byte
        BY <1>2, <1>6, <3>1
      <4> QED BY <1>7, <3>1, <4>1
    <3>2. CASE j - o \notin 1..Len(b)
      BY <1>7, <3>2 DEF StringInv, StringTyped
    <3> QED BY <3>1, <3>2
  <2> QED BY <1>4, <2>1
<1>9. StringTyped'
  BY <1>5, <1>8 DEF StringInv, StringTyped, Strings!write_lock
<1>10. LockInv'
  BY DEF StringInv, StringTyped, LockInv, Strings!write_lock
<1>11. \A v \in Users : user_at'[v] = "writes" <=> v = u
  BY DEF StringInv, StringTyped, LockInv, Strings!write_lock
<1>12. WriteInv'
  <2>1. string' = string /\ string = whole /\ writer' # NoUser
    BY DEF StringInv, WriteInv, Strings!write_lock
  <2>2. bytes'[u] # <<>> => off'[u] + Len(bytes'[u]) <= Size
    BY <1>2, <1>3, <1>5 DEF o
  <2>3. \A j \in 1..Size :
            whole'[j] = IF j - off'[u] \in 1..Len(bytes'[u]) THEN bytes'[u][j - off'[u]] ELSE string'[j]
    BY <1>3, <1>5, <1>7, <2>1 DEF o
  <2> QED BY <1>11, <2>1, <2>2, <2>3 DEF WriteInv
<1>13. SysInv'
  <2>1. CASE module = "sys"
    <3>1. Len(b) \in 1..Size /\ o = 0
      BY <1>1, <1>2, <1>6, <2>1, EmptySeq
    <3>2. whole'[Len(b)] = Nul
      BY <1>2, <1>7, <2>1, <3>1
    <3> QED BY <3>1, <3>2, <1>5, <1>11 DEF StringInv, StringTyped, SysInv, Strings!write_lock
  <2>2. CASE module # "sys"
    BY <2>2 DEF SysInv, Strings!write_lock
  <2> QED BY <2>1, <2>2
<1>14. ASSUME NEW v \in Users PROVE Reading(v)'
  <2>1. user_at[v] \in {"user", "writes"} /\ user_at'[v] \in {"user", "writes"}
    BY DEF StringInv, StringTyped, LockInv, Strings!write_lock
  <2> QED BY <2>1, ReadsOn DEF StringInv, ReadInv, Strings!write_lock
<1> QED BY <1>9, <1>10, <1>12, <1>13, <1>14 DEF StringInv, ReadInv

LEMMA StringCopyFromUser ==
    ASSUME StringInv, NEW u \in Users, Strings!copy_from_user(u)
    PROVE  StringInv'
<1> USE StringFacts
<1> DEFINE b == bytes[u]
           o == off[u]
<1>1. /\ user_at[u] = "writes" /\ user_at' = user_at
      /\ off'[u] = o + 1 /\ o \in Nat
      /\ bytes'[u] = Tail(b) /\ b # <<>> /\ b \in Seq(Byte)
      /\ string' = [string EXCEPT ![o + 1] = Head(b)]
  BY DEF StringInv, StringTyped, Strings!copy_from_user
<1>2. /\ o + Len(b) <= Size
      /\ \A j \in 1..Size : whole[j] = IF j - o \in 1..Len(b) THEN b[j - o] ELSE string[j]
  BY <1>1 DEF StringInv, WriteInv
<1>3. bytes' \in [Users -> Seq(Byte)] /\ off' \in [Users -> Nat]
  BY <1>1 DEF StringInv, StringTyped, Strings!copy_from_user
<1> HIDE DEF b, o
<1>4. /\ Len(b) \in Nat /\ Len(b) > 0
      /\ Head(b) = b[1] /\ b[1] \in Byte
      /\ Tail(b) \in Seq(Byte) /\ Len(Tail(b)) = Len(b) - 1
      /\ \A j \in 1..(Len(b) - 1) : Tail(b)[j] = b[j + 1]
  BY <1>1
<1>5. o + 1 \in 1..Size
  BY <1>1, <1>2, <1>4
<1>6. string' \in [1..Size -> Byte] /\ \A j \in 1..Size : string'[j] = IF j = o + 1 THEN b[1] ELSE string[j]
  BY <1>1, <1>4, <1>5 DEF StringInv, StringTyped
<1>7. StringTyped'
  BY <1>3, <1>6 DEF StringInv, StringTyped, Strings!copy_from_user
<1>8. LockInv' /\ SysInv'
  BY <1>1 DEF StringInv, StringTyped, LockInv, SysInv, Strings!copy_from_user
<1>9. WriteInv'
  <2>1. writer' = u /\ \A v \in Users : user_at'[v] = "writes" <=> v = u
    BY <1>1 DEF StringInv, LockInv, Strings!copy_from_user
  <2>2. off'[u] + Len(bytes'[u]) <= Size
    BY <1>1, <1>2, <1>4
  <2>3. ASSUME NEW j \in 1..Size
        PROVE  whole'[j] = IF j - off'[u] \in 1..Len(bytes'[u]) THEN bytes'[u][j - off'[u]] ELSE string'[j]
    <3>1. whole'[j] = whole[j]
      BY DEF Strings!copy_from_user
    <3>2. CASE j = o + 1
      <4>1. j - o = 1 /\ ~(j - (o + 1) \in 1..(Len(b) - 1))
        BY <3>2, <1>1, <1>4
      <4>2. whole[j] = b[1]
        BY <4>1, <1>2, <1>4
      <4> QED BY <3>1, <3>2, <4>1, <4>2, <1>1, <1>4, <1>6
    <3>3. CASE j # o + 1 /\ j - o \in 1..Len(b)
      <4>1. j - (o + 1) \in 1..(Len(b) - 1) /\ (j - (o + 1)) + 1 = j - o
        BY <3>3, <1>1, <1>4
      <4>2. Tail(b)[j - (o + 1)] = b[j - o]
        BY <4>1, <1>4
      <4> QED BY <3>1, <3>3, <4>1, <4>2, <1>1, <1>2, <1>4
    <3>4. CASE j # o + 1 /\ j - o \notin 1..Len(b)
      <4>1. j - (o + 1) \notin 1..(Len(b) - 1)
        BY <3>4, <1>1, <1>4
      <4> QED BY <3>1, <3>4, <4>1, <1>1, <1>2, <1>4, <1>6
    <3> QED BY <3>2, <3>3, <3>4
  <2>4. writer' # NoUser
    BY <2>1
  <2> QED BY <2>1, <2>2, <2>3, <2>4 DEF WriteInv
<1>10. ASSUME NEW v \in Users PROVE Reading(v)'
  <2>1. v # u => off'[v] = off[v]
    BY DEF StringInv, StringTyped, Strings!copy_from_user
  <2> QED BY <1>1, <2>1, ReadsOn DEF StringInv, ReadInv, Strings!copy_from_user
<1> QED BY <1>7, <1>8, <1>9, <1>10 DEF StringInv, ReadInv

LEMMA StringWriteUnlock ==
    ASSUME StringInv, NEW u \in Users, Strings!write_unlock(u)
    PROVE  StringInv'
<1> USE StringFacts DEF Strings!Returns
<1>1. StringTyped'
  BY DEF StringInv, StringTyped, Strings!write_unlock
<1>2. LockInv'
  BY DEF StringInv, StringTyped, LockInv, Strings!write_unlock
<1>3. WriteInv'
  <2>1. \A v \in Users : user_at'[v] # "writes"
    BY DEF StringInv, StringTyped, LockInv, Strings!write_unlock
  <2>2. string = whole
    <3>1. bytes[u] = <<>> /\ user_at[u] = "writes"
      BY DEF Strings!write_unlock
    <3>2. \A j \in 1..Size : whole[j] = string[j]
      BY <3>1, EmptySeq DEF StringInv, StringTyped, WriteInv
    <3> QED BY <3>2 DEF StringInv, StringTyped
  <2> QED BY <2>1, <2>2 DEF WriteInv, Strings!write_unlock
<1>4. SysInv'
  BY DEF StringInv, StringTyped, SysInv, Strings!write_unlock
<1>5. ASSUME NEW v \in Users PROVE Reading(v)'
  <2>1. v # u => off'[v] = off[v] /\ user_at'[v] = user_at[v]
    BY DEF StringInv, StringTyped, Strings!write_unlock
  <2>2. user_at[u] = "writes" /\ user_at'[u] = "user"
    BY DEF StringInv, StringTyped, Strings!write_unlock
  <2> QED BY <2>1, <2>2, ReadsOn DEF StringInv, ReadInv, Strings!write_unlock
<1> QED BY <1>1, <1>2, <1>3, <1>4, <1>5 DEF StringInv, ReadInv

LEMMA StringStep == StringInv /\ [Strings!Next]_Strings!vars => StringInv'
<1> SUFFICES ASSUME StringInv, [Strings!Next]_Strings!vars PROVE StringInv'
  OBVIOUS
<1>1. CASE UNCHANGED Strings!vars
  <2>1. \A u \in Users : Reading(u)'
    BY <1>1, ReadsOn DEF StringInv, ReadInv, Strings!vars
  <2> QED BY <1>1, <2>1
          DEF StringInv, StringTyped, LockInv, WriteInv, SysInv, ReadInv, Strings!vars
<1>2. CASE Strings!Next
  BY <1>2, StringReadLock, StringStrlen, StringCopyToUser, StringReadUnlock,
     StringWriteLock, StringCopyFromUser, StringWriteUnlock
     DEF Strings!Next, Strings!read_string, Strings!write_string
<1> QED BY <1>1, <1>2

LEMMA StringReads == StringInv => WholeReads
<1> SUFFICES ASSUME StringInv
             PROVE  /\ writer = NoUser => string = whole
                    /\ \A u \in Users : user_at[u] = "user" =>
                          /\ Asked(u, buff[u])
                          /\ Behind \in Strings!ToSet(buff[u]) => module # "sys"
  BY DEF WholeReads, Strings!WholeReads, Asked
<1>1. writer = NoUser => string = whole
  BY DEF StringInv, WriteInv
<1>2. ASSUME NEW u \in Users, user_at[u] = "user"
      PROVE  /\ Asked(u, buff[u])
             /\ Behind \in Strings!ToSet(buff[u]) => module # "sys"
  <2>1. Asked(u, buff[u])
    BY <1>2 DEF StringInv, ReadInv, Reading
  <2>2. ASSUME module = "sys" PROVE Behind \notin Strings!ToSet(buff[u])
    <3>1. PICK s \in Strings!CStrings(asked[u].whole) :
              buff[u] = Strings!Piece(s, asked[u].off, asked[u].size)
      BY <2>1 DEF Asked
    <3>2. asked[u] \in [whole : [1..Size -> Byte], off : Nat, size : Nat]
      BY DEF StringInv, StringTyped
    <3>3. s \in Seq(Byte)
      BY <2>2, <3>2, Taken DEF StringInv, SysInv
    <3>4. buff[u] \in Seq(Byte)
      <4> DEFINE ao == asked[u].off
                 an == asked[u].size
      <4>1. ao \in Nat /\ an \in Nat
        BY <3>2
      <4> HIDE DEF ao, an
      <4>2. Strings!Piece(s, ao, an) \in Seq(Byte)
        BY <3>3, <4>1, Pieces
      <4> QED BY <3>1, <4>2 DEF ao, an
    <3>5. \A k \in DOMAIN buff[u] : buff[u][k] \in Byte
      BY <3>4
    <3> QED BY <3>5, StringFacts DEF Strings!ToSet
  <2> QED BY <2>1, <2>2
<1> QED BY <1>1, <1>2

\* The lock makes the modules' byte by byte reads and writes whole.
THEOREM ReadsAreWhole == Strings!Spec => []WholeReads
<1> QED BY StringStarts, StringStep, StringReads, PTL DEF Strings!Spec

-----------------------------------------------------------------------------
(* The exchanges of greetings *)

Server == Greetings!Server
First == Greetings!First
Procs == {Server} \cup Clients

LEMMA GreetingFacts ==
    /\ First \in Clients
    /\ Server \notin Clients
    /\ Nobody \notin Procs
    /\ IsFiniteSet(Clients)
    /\ Greetings!Processes = Procs
    /\ Greetings!Present \subseteq Clients
    /\ pair \in Greetings!OneClient => Greetings!Present = {First}
<1>1. Clients # {} /\ {Nobody, Server} \cap Clients = {} /\ Nobody # Server /\ Greetings!IsFiniteSet(Clients)
  BY ExercisesAssumption DEF Greetings!ExchangesAssumption, Server
<1>2. IsFiniteSet(Clients)
  BY <1>1 DEF Greetings!IsFiniteSet, IsFiniteSet
<1>3. First \in Clients
  BY <1>1 DEF First, Greetings!First
<1> QED BY <1>1, <1>2, <1>3 DEF Procs, Greetings!Processes, Greetings!Present, Server, First

\* The calls that programs of exercise x are made of.
CallsOf(x) ==
    IF x \in Greetings!Mqs THEN {"create", "open", "send", "receive", "remove"}
    ELSE IF x \in Greetings!Shms THEN
       {"create", "open", "ftruncate", "greet", "watch", "print", "strcpy", "strcpy_end", "remove"}
    ELSE IF x \in Greetings!Signals \cup {"masked"} THEN
       {"sigaction", "sigprocmask", "pause", "sleep", "again", "kill"}
    ELSE IF x = "poll" THEN
       {"create", "poll", "handle_tcp", "handle_udp", "again", "connect", "sendto", "receive"}
    ELSE {"create", "open", "meet", "send", "receive", "remove", "waitpid", "unlink", "bind",
          "sendto", "connect", "accept", "join", "reply", "shout", "close", "again"}

MadeOf(s, C) == \A k \in DOMAIN s : s[k] \in C

LEMMA ProgramCalls ==
    ASSUME pair \in Greetings!Pairs, NEW p \in {Server} \cup Greetings!Present
    PROVE  MadeOf(Greetings!Script(p), CallsOf(pair))
<1>1. p # Server /\ pair \in Greetings!OneClient => p = First
  BY GreetingFacts
<1>2. CASE pair = "posix_mq"
  <2>1. Greetings!Programs[pair] = <<Greetings!posix_mq_server, Greetings!posix_mq_client>>
    BY <1>2 DEF Greetings!Programs
  <2>2. Greetings!Script(p) \in {Greetings!posix_mq_server, Greetings!posix_mq_client}
    BY <1>1, <1>2, <2>1 DEF Greetings!Script, Greetings!OneClient, Greetings!Mqs, Greetings!Shms, Server, First
  <2>3. MadeOf(Greetings!posix_mq_server, CallsOf("posix_mq"))
    BY DEF MadeOf, CallsOf, Greetings!posix_mq_server, Greetings!Mqs, Greetings!Shms, Greetings!Signals
  <2>4. MadeOf(Greetings!posix_mq_client, CallsOf("posix_mq"))
    BY DEF MadeOf, CallsOf, Greetings!posix_mq_client, Greetings!Mqs, Greetings!Shms, Greetings!Signals
  <2> QED BY <1>2, <2>2, <2>3, <2>4
<1>3. CASE pair = "sysv_mq"
  <2>1. Greetings!Programs[pair] = <<Greetings!sysv_mq_server, Greetings!sysv_mq_client>>
    BY <1>3 DEF Greetings!Programs
  <2>2. Greetings!Script(p) \in {Greetings!sysv_mq_server, Greetings!sysv_mq_client}
    BY <1>1, <1>3, <2>1 DEF Greetings!Script, Greetings!OneClient, Greetings!Mqs, Greetings!Shms, Server, First
  <2>3. MadeOf(Greetings!sysv_mq_server, CallsOf("sysv_mq"))
    BY DEF MadeOf, CallsOf, Greetings!sysv_mq_server, Greetings!Mqs, Greetings!Shms, Greetings!Signals
  <2>4. MadeOf(Greetings!sysv_mq_client, CallsOf("sysv_mq"))
    BY DEF MadeOf, CallsOf, Greetings!sysv_mq_client, Greetings!Mqs, Greetings!Shms, Greetings!Signals
  <2> QED BY <1>3, <2>2, <2>3, <2>4
<1>4. CASE pair = "posix_shm"
  <2>1. Greetings!Programs[pair] = <<Greetings!posix_shm_server, Greetings!posix_shm_client>>
    BY <1>4 DEF Greetings!Programs
  <2>2. Greetings!Script(p) \in {Greetings!posix_shm_server, Greetings!posix_shm_client}
    BY <1>1, <1>4, <2>1 DEF Greetings!Script, Greetings!OneClient, Greetings!Mqs, Greetings!Shms, Server, First
  <2>3. MadeOf(Greetings!posix_shm_server, CallsOf("posix_shm"))
    BY DEF MadeOf, CallsOf, Greetings!posix_shm_server, Greetings!Mqs, Greetings!Shms, Greetings!Signals
  <2>4. MadeOf(Greetings!posix_shm_client, CallsOf("posix_shm"))
    BY DEF MadeOf, CallsOf, Greetings!posix_shm_client, Greetings!Mqs, Greetings!Shms, Greetings!Signals
  <2> QED BY <1>4, <2>2, <2>3, <2>4
<1>5. CASE pair = "sysv_shm"
  <2>1. Greetings!Programs[pair] = <<Greetings!sysv_shm_server, Greetings!sysv_shm_client>>
    BY <1>5 DEF Greetings!Programs
  <2>2. Greetings!Script(p) \in {Greetings!sysv_shm_server, Greetings!sysv_shm_client}
    BY <1>1, <1>5, <2>1 DEF Greetings!Script, Greetings!OneClient, Greetings!Mqs, Greetings!Shms, Server, First
  <2>3. MadeOf(Greetings!sysv_shm_server, CallsOf("sysv_shm"))
    BY DEF MadeOf, CallsOf, Greetings!sysv_shm_server, Greetings!Mqs, Greetings!Shms, Greetings!Signals
  <2>4. MadeOf(Greetings!sysv_shm_client, CallsOf("sysv_shm"))
    BY DEF MadeOf, CallsOf, Greetings!sysv_shm_client, Greetings!Mqs, Greetings!Shms, Greetings!Signals
  <2> QED BY <1>5, <2>2, <2>3, <2>4
<1>6. CASE pair = "pipe"
  <2>1. Greetings!Programs[pair] = <<Greetings!pipe_parent, Greetings!pipe_child>>
    BY <1>6 DEF Greetings!Programs
  <2>2. Greetings!Script(p) \in {Greetings!pipe_parent, Greetings!pipe_child}
    BY <1>1, <1>6, <2>1 DEF Greetings!Script, Greetings!OneClient, Greetings!Mqs, Greetings!Shms, Server, First
  <2>3. MadeOf(Greetings!pipe_parent, CallsOf("pipe"))
    BY DEF MadeOf, CallsOf, Greetings!pipe_parent, Greetings!Mqs, Greetings!Shms, Greetings!Signals
  <2>4. MadeOf(Greetings!pipe_child, CallsOf("pipe"))
    BY DEF MadeOf, CallsOf, Greetings!pipe_child, Greetings!Mqs, Greetings!Shms, Greetings!Signals
  <2> QED BY <1>6, <2>2, <2>3, <2>4
<1>7. CASE pair = "fifo"
  <2>1. Greetings!Programs[pair] = <<Greetings!fifo_server, Greetings!fifo_client>>
    BY <1>7 DEF Greetings!Programs
  <2>2. Greetings!Script(p) \in {Greetings!fifo_server, Greetings!fifo_client}
    BY <1>1, <1>7, <2>1 DEF Greetings!Script, Greetings!OneClient, Greetings!Mqs, Greetings!Shms, Server, First
  <2>3. MadeOf(Greetings!fifo_server, CallsOf("fifo"))
    BY DEF MadeOf, CallsOf, Greetings!fifo_server, Greetings!Mqs, Greetings!Shms, Greetings!Signals
  <2>4. MadeOf(Greetings!fifo_client, CallsOf("fifo"))
    BY DEF MadeOf, CallsOf, Greetings!fifo_client, Greetings!Mqs, Greetings!Shms, Greetings!Signals
  <2> QED BY <1>7, <2>2, <2>3, <2>4
<1>8. CASE pair = "unix_dgram"
  <2>1. Greetings!Programs[pair] = <<Greetings!unix_dgram_server, Greetings!unix_dgram_client, Greetings!unix_dgram_client>>
    BY <1>8 DEF Greetings!Programs
  <2>2. Greetings!Script(p) \in {Greetings!unix_dgram_server, Greetings!unix_dgram_client}
    BY <1>1, <1>8, <2>1 DEF Greetings!Script, Greetings!OneClient, Greetings!Mqs, Greetings!Shms, Server, First
  <2>3. MadeOf(Greetings!unix_dgram_server, CallsOf("unix_dgram"))
    BY DEF MadeOf, CallsOf, Greetings!unix_dgram_server, Greetings!Mqs, Greetings!Shms, Greetings!Signals
  <2>4. MadeOf(Greetings!unix_dgram_client, CallsOf("unix_dgram"))
    BY DEF MadeOf, CallsOf, Greetings!unix_dgram_client, Greetings!Mqs, Greetings!Shms, Greetings!Signals
  <2> QED BY <1>8, <2>2, <2>3, <2>4
<1>9. CASE pair = "unix_stream"
  <2>1. Greetings!Programs[pair] = <<Greetings!unix_stream_server, Greetings!unix_stream_client, Greetings!unix_stream_client>>
    BY <1>9 DEF Greetings!Programs
  <2>2. Greetings!Script(p) \in {Greetings!unix_stream_server, Greetings!unix_stream_client}
    BY <1>1, <1>9, <2>1 DEF Greetings!Script, Greetings!OneClient, Greetings!Mqs, Greetings!Shms, Server, First
  <2>3. MadeOf(Greetings!unix_stream_server, CallsOf("unix_stream"))
    BY DEF MadeOf, CallsOf, Greetings!unix_stream_server, Greetings!Mqs, Greetings!Shms, Greetings!Signals
  <2>4. MadeOf(Greetings!unix_stream_client, CallsOf("unix_stream"))
    BY DEF MadeOf, CallsOf, Greetings!unix_stream_client, Greetings!Mqs, Greetings!Shms, Greetings!Signals
  <2> QED BY <1>9, <2>2, <2>3, <2>4
<1>10. CASE pair = "udp"
  <2>1. Greetings!Programs[pair] = <<Greetings!udp_server, Greetings!udp_client, Greetings!udp_client>>
    BY <1>10 DEF Greetings!Programs
  <2>2. Greetings!Script(p) \in {Greetings!udp_server, Greetings!udp_client}
    BY <1>1, <1>10, <2>1 DEF Greetings!Script, Greetings!OneClient, Greetings!Mqs, Greetings!Shms, Server, First
  <2>3. MadeOf(Greetings!udp_server, CallsOf("udp"))
    BY DEF MadeOf, CallsOf, Greetings!udp_server, Greetings!Mqs, Greetings!Shms, Greetings!Signals
  <2>4. MadeOf(Greetings!udp_client, CallsOf("udp"))
    BY DEF MadeOf, CallsOf, Greetings!udp_client, Greetings!Mqs, Greetings!Shms, Greetings!Signals
  <2> QED BY <1>10, <2>2, <2>3, <2>4
<1>11. CASE pair = "tcp"
  <2>1. Greetings!Programs[pair] = <<Greetings!tcp_server, Greetings!tcp_client, Greetings!tcp_client>>
    BY <1>11 DEF Greetings!Programs
  <2>2. Greetings!Script(p) \in {Greetings!tcp_server, Greetings!tcp_client}
    BY <1>1, <1>11, <2>1 DEF Greetings!Script, Greetings!OneClient, Greetings!Mqs, Greetings!Shms, Server, First
  <2>3. MadeOf(Greetings!tcp_server, CallsOf("tcp"))
    BY DEF MadeOf, CallsOf, Greetings!tcp_server, Greetings!Mqs, Greetings!Shms, Greetings!Signals
  <2>4. MadeOf(Greetings!tcp_client, CallsOf("tcp"))
    BY DEF MadeOf, CallsOf, Greetings!tcp_client, Greetings!Mqs, Greetings!Shms, Greetings!Signals
  <2> QED BY <1>11, <2>2, <2>3, <2>4
<1>12. CASE pair = "raw_udp"
  <2>1. Greetings!Programs[pair] = <<Greetings!raw_server, Greetings!raw_client, Greetings!raw_client>>
    BY <1>12 DEF Greetings!Programs
  <2>2. Greetings!Script(p) \in {Greetings!raw_server, Greetings!raw_client}
    BY <1>1, <1>12, <2>1 DEF Greetings!Script, Greetings!OneClient, Greetings!Mqs, Greetings!Shms, Server, First
  <2>3. MadeOf(Greetings!raw_server, CallsOf("raw_udp"))
    BY DEF MadeOf, CallsOf, Greetings!raw_server, Greetings!Mqs, Greetings!Shms, Greetings!Signals
  <2>4. MadeOf(Greetings!raw_client, CallsOf("raw_udp"))
    BY DEF MadeOf, CallsOf, Greetings!raw_client, Greetings!Mqs, Greetings!Shms, Greetings!Signals
  <2> QED BY <1>12, <2>2, <2>3, <2>4
<1>13. CASE pair = "raw_udp_ip"
  <2>1. Greetings!Programs[pair] = <<Greetings!raw_udp_ip_server, Greetings!raw_udp_ip_client, Greetings!raw_udp_ip_client>>
    BY <1>13 DEF Greetings!Programs
  <2>2. Greetings!Script(p) \in {Greetings!raw_udp_ip_server, Greetings!raw_udp_ip_client}
    BY <1>1, <1>13, <2>1 DEF Greetings!Script, Greetings!OneClient, Greetings!Mqs, Greetings!Shms, Server, First
  <2>3. MadeOf(Greetings!raw_udp_ip_server, CallsOf("raw_udp_ip"))
    BY DEF MadeOf, CallsOf, Greetings!raw_udp_ip_server, Greetings!raw_server, Greetings!Mqs, Greetings!Shms, Greetings!Signals
  <2>4. MadeOf(Greetings!raw_udp_ip_client, CallsOf("raw_udp_ip"))
    BY DEF MadeOf, CallsOf, Greetings!raw_udp_ip_client, Greetings!raw_client, Greetings!Mqs, Greetings!Shms, Greetings!Signals
  <2> QED BY <1>13, <2>2, <2>3, <2>4
<1>14. CASE pair = "raw_udp_ip_mac"
  <2>1. Greetings!Programs[pair] = <<Greetings!raw_udp_ip_mac_server, Greetings!raw_udp_ip_mac_client, Greetings!raw_udp_ip_mac_client>>
    BY <1>14 DEF Greetings!Programs
  <2>2. Greetings!Script(p) \in {Greetings!raw_udp_ip_mac_server, Greetings!raw_udp_ip_mac_client}
    BY <1>1, <1>14, <2>1 DEF Greetings!Script, Greetings!OneClient, Greetings!Mqs, Greetings!Shms, Server, First
  <2>3. MadeOf(Greetings!raw_udp_ip_mac_server, CallsOf("raw_udp_ip_mac"))
    BY DEF MadeOf, CallsOf, Greetings!raw_udp_ip_mac_server, Greetings!raw_server, Greetings!Mqs, Greetings!Shms, Greetings!Signals
  <2>4. MadeOf(Greetings!raw_udp_ip_mac_client, CallsOf("raw_udp_ip_mac"))
    BY DEF MadeOf, CallsOf, Greetings!raw_udp_ip_mac_client, Greetings!raw_client, Greetings!Mqs, Greetings!Shms, Greetings!Signals
  <2> QED BY <1>14, <2>2, <2>3, <2>4
<1>15. CASE pair = "broadcast"
  <2>1. Greetings!Programs[pair] = <<Greetings!broadcast_server, Greetings!broadcast_client, Greetings!broadcast_client>>
    BY <1>15 DEF Greetings!Programs
  <2>2. Greetings!Script(p) \in {Greetings!broadcast_server, Greetings!broadcast_client}
    BY <1>1, <1>15, <2>1 DEF Greetings!Script, Greetings!OneClient, Greetings!Mqs, Greetings!Shms, Server, First
  <2>3. MadeOf(Greetings!broadcast_server, CallsOf("broadcast"))
    BY DEF MadeOf, CallsOf, Greetings!broadcast_server, Greetings!Mqs, Greetings!Shms, Greetings!Signals
  <2>4. MadeOf(Greetings!broadcast_client, CallsOf("broadcast"))
    BY DEF MadeOf, CallsOf, Greetings!broadcast_client, Greetings!Mqs, Greetings!Shms, Greetings!Signals
  <2> QED BY <1>15, <2>2, <2>3, <2>4
<1>16. CASE pair = "multicast"
  <2>1. Greetings!Programs[pair] = <<Greetings!multicast_server, Greetings!multicast_client, Greetings!multicast_client>>
    BY <1>16 DEF Greetings!Programs
  <2>2. Greetings!Script(p) \in {Greetings!multicast_server, Greetings!multicast_client}
    BY <1>1, <1>16, <2>1 DEF Greetings!Script, Greetings!OneClient, Greetings!Mqs, Greetings!Shms, Server, First
  <2>3. MadeOf(Greetings!multicast_server, CallsOf("multicast"))
    BY DEF MadeOf, CallsOf, Greetings!multicast_server, Greetings!Mqs, Greetings!Shms, Greetings!Signals
  <2>4. MadeOf(Greetings!multicast_client, CallsOf("multicast"))
    BY DEF MadeOf, CallsOf, Greetings!multicast_client, Greetings!Mqs, Greetings!Shms, Greetings!Signals
  <2> QED BY <1>16, <2>2, <2>3, <2>4
<1>17. CASE pair = "pthread"
  <2>1. Greetings!Programs[pair] = <<Greetings!pthread_server, Greetings!pthread_client, Greetings!pthread_client>>
    BY <1>17 DEF Greetings!Programs
  <2>2. Greetings!Script(p) \in {Greetings!pthread_server, Greetings!pthread_client}
    BY <1>1, <1>17, <2>1 DEF Greetings!Script, Greetings!OneClient, Greetings!Mqs, Greetings!Shms, Server, First
  <2>3. MadeOf(Greetings!pthread_server, CallsOf("pthread"))
    BY DEF MadeOf, CallsOf, Greetings!pthread_server, Greetings!Mqs, Greetings!Shms, Greetings!Signals
  <2>4. MadeOf(Greetings!pthread_client, CallsOf("pthread"))
    BY DEF MadeOf, CallsOf, Greetings!pthread_client, Greetings!Mqs, Greetings!Shms, Greetings!Signals
  <2> QED BY <1>17, <2>2, <2>3, <2>4
<1>18. CASE pair = "poll"
  <2>1. Greetings!Programs[pair] = <<Greetings!poll_server, Greetings!poll_client_tcp, Greetings!poll_client_udp>>
    BY <1>18 DEF Greetings!Programs
  <2>2. Greetings!Script(p) \in {Greetings!poll_server, Greetings!poll_client_tcp, Greetings!poll_client_udp}
    BY <1>1, <1>18, <2>1 DEF Greetings!Script, Greetings!OneClient, Greetings!Mqs, Greetings!Shms, Server, First
  <2>3. MadeOf(Greetings!poll_server, CallsOf("poll"))
    BY DEF MadeOf, CallsOf, Greetings!poll_server, Greetings!Mqs, Greetings!Shms, Greetings!Signals
  <2>4. MadeOf(Greetings!poll_client_tcp, CallsOf("poll"))
    BY DEF MadeOf, CallsOf, Greetings!poll_client_tcp, Greetings!Mqs, Greetings!Shms, Greetings!Signals
  <2>5. MadeOf(Greetings!poll_client_udp, CallsOf("poll"))
    BY DEF MadeOf, CallsOf, Greetings!poll_client_udp, Greetings!Mqs, Greetings!Shms, Greetings!Signals
  <2> QED BY <1>18, <2>2, <2>3, <2>4, <2>5
<1>19. CASE pair = "handler"
  <2>1. Greetings!Programs[pair] = <<Greetings!handler_recv, Greetings!handler_send, Greetings!handler_send>>
    BY <1>19 DEF Greetings!Programs
  <2>2. Greetings!Script(p) \in {Greetings!handler_recv, Greetings!handler_send}
    BY <1>1, <1>19, <2>1 DEF Greetings!Script, Greetings!OneClient, Greetings!Mqs, Greetings!Shms, Server, First
  <2>3. MadeOf(Greetings!handler_recv, CallsOf("handler"))
    BY DEF MadeOf, CallsOf, Greetings!handler_recv, Greetings!Mqs, Greetings!Shms, Greetings!Signals
  <2>4. MadeOf(Greetings!handler_send, CallsOf("handler"))
    BY DEF MadeOf, CallsOf, Greetings!handler_send, Greetings!Mqs, Greetings!Shms, Greetings!Signals
  <2> QED BY <1>19, <2>2, <2>3, <2>4
<1>20. CASE pair = "masked"
  <2>1. Greetings!Programs[pair] = <<Greetings!masked_recv, Greetings!masked_send, Greetings!masked_send>>
    BY <1>20 DEF Greetings!Programs
  <2>2. Greetings!Script(p) \in {Greetings!masked_recv, Greetings!masked_send}
    BY <1>1, <1>20, <2>1 DEF Greetings!Script, Greetings!OneClient, Greetings!Mqs, Greetings!Shms, Server, First
  <2>3. MadeOf(Greetings!masked_recv, CallsOf("masked"))
    BY DEF MadeOf, CallsOf, Greetings!masked_recv, Greetings!Mqs, Greetings!Shms, Greetings!Signals
  <2>4. MadeOf(Greetings!masked_send, CallsOf("masked"))
    BY DEF MadeOf, CallsOf, Greetings!masked_send, Greetings!Mqs, Greetings!Shms, Greetings!Signals
  <2> QED BY <1>20, <2>2, <2>3, <2>4
<1>21. CASE pair = "sigwait"
  <2>1. Greetings!Programs[pair] = <<Greetings!sigwait_recv, Greetings!sigwait_send, Greetings!sigwait_send>>
    BY <1>21 DEF Greetings!Programs
  <2>2. Greetings!Script(p) \in {Greetings!sigwait_recv, Greetings!sigwait_send}
    BY <1>1, <1>21, <2>1 DEF Greetings!Script, Greetings!OneClient, Greetings!Mqs, Greetings!Shms, Server, First
  <2>3. MadeOf(Greetings!sigwait_recv, CallsOf("sigwait"))
    BY DEF MadeOf, CallsOf, Greetings!sigwait_recv, Greetings!Mqs, Greetings!Shms, Greetings!Signals
  <2>4. MadeOf(Greetings!sigwait_send, CallsOf("sigwait"))
    BY DEF MadeOf, CallsOf, Greetings!sigwait_send, Greetings!Mqs, Greetings!Shms, Greetings!Signals
  <2> QED BY <1>21, <2>2, <2>3, <2>4
<1> QED BY <1>2, <1>3, <1>4, <1>5, <1>6, <1>7, <1>8, <1>9, <1>10, <1>11, <1>12, <1>13, <1>14, <1>15, <1>16, <1>17, <1>18, <1>19, <1>20, <1>21 DEF Greetings!Pairs, Greetings!Mqs, Greetings!Shms, Greetings!Streams, Greetings!Raws, Greetings!Groups, Greetings!Signals

LEMMA Calls ==
    ASSUME pair \in Greetings!Pairs, NEW p, NEW c, Greetings!At(p, c)
    PROVE  c \in CallsOf(pair) /\ p \in {Server} \cup Greetings!Present /\ p \in Procs
<1>1. p \in {Server} \cup Greetings!Present /\ call[p] \in DOMAIN Greetings!Script(p) /\ Greetings!Script(p)[call[p]] = c
  BY DEF Greetings!At, Server
<1>2. MadeOf(Greetings!Script(p), CallsOf(pair))
  BY <1>1, ProgramCalls
<1> QED BY <1>1, <1>2, GreetingFacts DEF MadeOf, Procs

-----------------------------------------------------------------------------
(* The mail *)

Letters == [from : Procs, to : Procs \cup {Nobody}]

\* Letters to the server come from clients P, and the others from the server.
Right(b, P) ==
    /\ b \in Seq(Letters)
    /\ \A k \in 1..Len(b) : IF b[k].to = Server THEN b[k].from \in P ELSE b[k].from = Server

LEMMA LetterIs ==
    ASSUME NEW p \in Procs, NEW q \in Procs \cup {Nobody}
    PROVE  /\ Greetings!Letter(p, q) \in Letters
           /\ Greetings!Letter(p, q).from = p
           /\ Greetings!Letter(p, q).to = q
BY DEF Greetings!Letter, Letters

LEMMA Appended ==
    ASSUME NEW P, NEW b, Right(b, P), NEW m \in Letters,
           IF m.to = Server THEN m.from \in P ELSE m.from = Server
    PROVE  /\ Right(Append(b, m), P)
           /\ Len(Append(b, m)) = Len(b) + 1
           /\ \A k \in 1..(Len(b) + 1) : Append(b, m)[k] = IF k <= Len(b) THEN b[k] ELSE m
<1>1. b \in Seq(Letters) /\ Len(b) \in Nat
  BY LenProperties DEF Right
<1>2. /\ Append(b, m) \in Seq(Letters) /\ Len(Append(b, m)) = Len(b) + 1
      /\ \A k \in 1..(Len(b) + 1) : Append(b, m)[k] = IF k <= Len(b) THEN b[k] ELSE m
  BY <1>1, AppendProperties
<1>3. \A k \in 1..(Len(b) + 1) : k <= Len(b) => k \in 1..Len(b)
  BY <1>1
<1> QED BY <1>1, <1>2, <1>3 DEF Right

\* A letter taken out of the mail.
LEMMA TakenOut ==
    ASSUME NEW P, NEW b, Right(b, P), NEW i \in 1..Len(b)
    PROVE  /\ Right(Greetings!RemoveAt(b, i), P)
           /\ Len(Greetings!RemoveAt(b, i)) = Len(b) - 1
           /\ \A k \in 1..(Len(b) - 1) :
                 Greetings!RemoveAt(b, i)[k] = IF k < i THEN b[k] ELSE b[k + 1]
<1>1. b \in Seq(Letters) /\ Len(b) \in Nat /\ i \in Int /\ i >= 1 /\ i <= Len(b)
  BY LenProperties DEF Right
<1> DEFINE x == SubSeq(b, 1, i - 1)
           y == SubSeq(b, i + 1, Len(b))
<1>2. /\ x \in Seq(Letters) /\ Len(x) = i - 1
      /\ \A k \in 1..(i - 1) : x[k] = b[k]
  BY <1>1
<1>3. /\ y \in Seq(Letters) /\ Len(y) = Len(b) - i
      /\ \A k \in 1..(Len(b) - i) : y[k] = b[i + k]
  BY <1>1
<1> HIDE DEF x, y
<1>4. /\ x \o y \in Seq(Letters) /\ Len(x \o y) = Len(b) - 1
      /\ \A k \in 1..(Len(b) - 1) : (x \o y)[k] = IF k <= i - 1 THEN x[k] ELSE y[k - (i - 1)]
  <2>1. (i - 1) + (Len(b) - i) = Len(b) - 1
    BY <1>1
  <2>2. /\ x \o y \in Seq(Letters) /\ Len(x \o y) = Len(x) + Len(y)
        /\ \A k \in 1..(Len(x) + Len(y)) : (x \o y)[k] = IF k <= Len(x) THEN x[k] ELSE y[k - Len(x)]
    BY <1>2, <1>3, ConcatProperties
  <2> QED BY <2>1, <2>2, <1>2, <1>3
<1>5. ASSUME NEW k \in 1..(Len(b) - 1)
      PROVE  (x \o y)[k] = IF k < i THEN b[k] ELSE b[k + 1]
  <2>1. CASE k < i
    <3>1. k <= i - 1 /\ k \in 1..(i - 1)
      BY <2>1, <1>1
    <3> QED BY <2>1, <3>1, <1>2, <1>4
  <2>2. CASE k >= i
    <3>1. ~(k <= i - 1) /\ k - (i - 1) \in 1..(Len(b) - i) /\ i + (k - (i - 1)) = k + 1
      BY <2>2, <1>1
    <3>2. (x \o y)[k] = y[k - (i - 1)]
      BY <3>1, <1>4
    <3>3. y[k - (i - 1)] = b[i + (k - (i - 1))]
      BY <3>1, <1>3
    <3>4. ~(k < i)
      BY <2>2, <1>1
    <3> QED BY <3>1, <3>2, <3>3, <3>4
  <2>3. k < i \/ k >= i
    BY <1>1
  <2> QED BY <2>1, <2>2, <2>3
<1>6. \A k \in 1..(Len(b) - 1) : k \in 1..Len(b) /\ k + 1 \in 1..Len(b)
  BY <1>1
<1>7. Right(x \o y, P)
  BY <1>4, <1>5, <1>6 DEF Right
<1>8. Greetings!RemoveAt(b, i) = x \o y
  BY DEF Greetings!RemoveAt, x, y
<1> QED BY <1>4, <1>5, <1>7, <1>8

\* The server's letters to all of T.
LEMMA Posted ==
    ASSUME NEW P, NEW b, Right(b, P), NEW T, IsFiniteSet(T),
           T \subseteq Clients \cup {Nobody}
    PROVE  /\ Right(Greetings!Post(b, T), P)
           /\ Len(Greetings!Post(b, T)) >= Len(b)
           /\ \A k \in 1..Len(b) : Greetings!Post(b, T)[k] = b[k]
<1> DEFINE S == {Greetings!Letter(Server, c) : c \in T}
<1>1. \A m \in S : m \in Letters /\ m.from = Server /\ m.to # Server
  BY LetterIs, GreetingFacts DEF Procs
<1>2. IsFiniteSet(S)
  <2> DEFINE f == [c \in T |-> Greetings!Letter(Server, c)]
  <2>1. f \in Surjection(T, S)
    BY DEF Surjection
  <2> HIDE DEF f, S
  <2> QED BY <2>1, FS_Surjection
<1>3. Greetings!Post(b, T) = b \o Greetings!SetToSeq(S)
  BY DEF Greetings!Post, Server
<1> HIDE DEF S
<1>4. Cardinality(S) \in Nat /\ ExistsBijection(1..Cardinality(S), S)
  BY <1>2, FS_CardinalityType
<1>5. Greetings!Cardinality(S) = Cardinality(S)
  BY DEF Greetings!Cardinality, Cardinality, Greetings!IsFiniteSet, IsFiniteSet
<1>6. PICK n \in Nat : n = Cardinality(S)
  BY <1>4
<1>7. PICK t : t = Greetings!SetToSeq(S)
  OBVIOUS
<1>8. t \in [1..n -> S]
  <2>1. \E f \in [1..n -> S] : Greetings!IsInjective(f)
    BY <1>4, <1>6 DEF ExistsBijection, Bijection, Injection, IsInjective, Greetings!IsInjective
  <2>2. t = CHOOSE f \in [1..n -> S] : Greetings!IsInjective(f)
    BY <1>5, <1>6, <1>7 DEF Greetings!SetToSeq
  <2> QED BY <2>1, <2>2
<1>9. t \in Seq(Letters) /\ Len(t) = n /\ \A k \in 1..n : t[k] \in S
  BY <1>1, <1>8
<1>10. b \in Seq(Letters) /\ Len(b) \in Nat
  BY LenProperties DEF Right
<1>11. /\ b \o t \in Seq(Letters) /\ Len(b \o t) = Len(b) + n
       /\ \A k \in 1..(Len(b) + n) : (b \o t)[k] = IF k <= Len(b) THEN b[k] ELSE t[k - Len(b)]
  BY <1>9, <1>10, ConcatProperties
<1>12. ASSUME NEW k \in 1..(Len(b) + n)
       PROVE  IF (b \o t)[k].to = Server THEN (b \o t)[k].from \in P ELSE (b \o t)[k].from = Server
  <2>1. CASE k <= Len(b)
    <3>1. k \in 1..Len(b)
      BY <2>1, <1>10
    <3> QED BY <2>1, <3>1, <1>11 DEF Right
  <2>2. CASE ~(k <= Len(b))
    <3>1. k - Len(b) \in 1..n
      BY <2>2, <1>10
    <3> QED BY <2>2, <3>1, <1>1, <1>9, <1>11
  <2> QED BY <2>1, <2>2
<1>13. \A k \in 1..Len(b) : k \in 1..(Len(b) + n) /\ k <= Len(b)
  BY <1>10
<1>14. Right(b \o t, P)
  BY <1>11, <1>12 DEF Right
<1>15. Len(b \o t) >= Len(b)
  BY <1>10, <1>11
<1>16. \A k \in 1..Len(b) : (b \o t)[k] = b[k]
  BY <1>11, <1>13
<1> QED BY <1>3, <1>7, <1>14, <1>15, <1>16

\* The first letter of some.
LEMMA FirstOf ==
    ASSUME NEW S, S # {}, S \subseteq Nat
    PROVE  Greetings!Min(S) \in S
<1>1. PICK n \in S : \A m \in S : n <= m
  BY Smallest
<1> QED BY <1>1 DEF Greetings!Min

-----------------------------------------------------------------------------
(* What holds of all the exchanges *)

Mqs == Greetings!Mqs
Shms == Greetings!Shms
Present == Greetings!Present

\* What the polling server found stays there until it is handled.
PollInv ==
    pair = "poll" =>
        /\ call[Server] = 3 /\ "tcp" \in ready => line # <<>>
        /\ call[Server] \in {3, 4} /\ "udp" \in ready => Greetings!Datagrams # {}

GreetInv ==
    /\ pair \in Greetings!Pairs
    /\ call \in [Procs -> Nat]
    /\ heard = [p \in Procs |-> heard[p]]
    /\ asleep \subseteq Procs
    /\ Right(mail, Present)
    /\ line \in Seq(Clients)
    /\ peer \in Procs \cup {Nobody}
    /\ pair \notin Mqs => asleep = {} /\ peer # Server
    /\ PollInv

LEMMA PollCalls ==
    ASSUME pair = "poll", NEW c, Greetings!At(Server, c)
    PROVE  /\ call[Server] \in 1..5
           /\ c = <<"create", "poll", "handle_tcp", "handle_udp", "again">>[call[Server]]
<1>1. Greetings!Script(Server) = Greetings!poll_server
  BY DEF Greetings!Script, Greetings!Programs, Server
<1> QED BY <1>1 DEF Greetings!At, Greetings!poll_server

\* Steps that leave the mail alone.
LEMMA QuietStep ==
    ASSUME GreetInv, UNCHANGED <<pair, mail, peer>>,
           asleep' \subseteq Procs, pair \notin Mqs => asleep' = {},
           line' \in Seq(Clients),
           call' \in [Procs -> Nat],
           heard' = [p \in Procs |-> heard'[p]],
           pair = "poll" => \/ call'[Server] \notin {3, 4}
                            \/ call'[Server] = call[Server] /\ ready' = ready /\ (line # <<>> => line' # <<>>)
    PROVE  GreetInv'
<1>1. Present' = Present
  BY DEF Present, Greetings!Present
<1>2. Right(mail, Present)'
  BY <1>1 DEF GreetInv, Right
<1>3. (Greetings!Datagrams)' = Greetings!Datagrams
  BY DEF Greetings!Datagrams
<1>4. PollInv'
  BY <1>3 DEF GreetInv, PollInv
<1> QED BY <1>2, <1>4 DEF GreetInv

LEMMA GreetingPasses ==
    ASSUME GreetInv, NEW p \in Procs, Greetings!Passes(p)
    PROVE  /\ call' \in [Procs -> Nat]
           /\ call'[p] = call[p] + 1
           /\ \A q \in Procs \ {p} : call'[q] = call[q]
BY DEF GreetInv, Greetings!Passes

LEMMA GreetingFails ==
    ASSUME GreetInv, NEW p \in Procs, Greetings!Fails(p)
    PROVE  /\ call' \in [Procs -> Nat]
           /\ call'[p] = 0
           /\ \A q \in Procs \ {p} : call'[q] = call[q]
BY DEF GreetInv, Greetings!Fails

LEMMA GreetingHears ==
    ASSUME GreetInv, NEW p \in Procs, NEW x, Greetings!Hears(p, x)
    PROVE  /\ heard' = [q \in Procs |-> heard'[q]]
           /\ heard'[p] = x
           /\ \A q \in Procs \ {p} : heard'[q] = heard[q]
BY DEF GreetInv, Greetings!Hears

\* Steps of p, and of the server unless it polls, that only take it further.
LEMMA OwnStep ==
    ASSUME GreetInv, NEW p \in Procs, Greetings!Passes(p) \/ Greetings!Fails(p),
           UNCHANGED <<pair, mail, peer, asleep, ready>>,
           line' \in Seq(Clients), line # <<>> => line' # <<>>,
           heard' = [q \in Procs |-> heard'[q]],
           p = Server /\ pair = "poll" => call[Server] = 1
    PROVE  GreetInv'
<1>1. /\ call' \in [Procs -> Nat]
      /\ call'[p] \in {0, call[p] + 1}
      /\ \A q \in Procs \ {p} : call'[q] = call[q]
  BY GreetingPasses, GreetingFails
<1>2. asleep' \subseteq Procs /\ (pair \notin Mqs => asleep' = {})
  BY DEF GreetInv
<1>3. Server \in Procs
  BY DEF Procs
<1>4. pair = "poll" => call'[Server] \notin {3, 4} \/ call'[Server] = call[Server]
  BY <1>1, <1>3
<1> QED BY <1>1, <1>2, <1>4, QuietStep

LEMMA QuietCalls ==
    ASSUME GreetInv, NEW p \in Procs,
           \/ Greetings!create(p) \/ Greetings!open(p) \/ Greetings!meet(p)
           \/ Greetings!receive_reset(p) \/ Greetings!print(p)
           \/ p = Server /\ \/ Greetings!ftruncate \/ Greetings!greet \/ Greetings!watch
                            \/ Greetings!waitpid \/ Greetings!prepare \/ Greetings!pause
           \/ Greetings!strcpy(p, "strcpy", 1) \/ Greetings!strcpy(p, "strcpy_end", 2)
           \/ Greetings!unlink(p) \/ Greetings!bind(p) \/ Greetings!join(p)
           \/ p \in Clients /\ Greetings!connect(p)
    PROVE  GreetInv'
<1>0. Greetings!Server = Server /\ pair \in Greetings!Pairs /\ line \in Seq(Clients)
      /\ heard = [q \in Procs |-> heard[q]]
  BY DEF Server, GreetInv
<1> USE <1>0
<1>1. UNCHANGED <<pair, mail, peer, asleep, ready>>
  BY DEF Greetings!create, Greetings!open, Greetings!meet, Greetings!receive_reset, Greetings!print,
         Greetings!ftruncate, Greetings!greet, Greetings!watch, Greetings!waitpid, Greetings!prepare, Greetings!pause,
         Greetings!strcpy, Greetings!unlink, Greetings!bind, Greetings!join, Greetings!connect, Greetings!media
<1>2. Greetings!Passes(p) \/ Greetings!Fails(p)
  BY DEF Greetings!create, Greetings!open, Greetings!meet, Greetings!receive_reset, Greetings!print,
         Greetings!ftruncate, Greetings!greet, Greetings!watch, Greetings!waitpid, Greetings!prepare, Greetings!pause,
         Greetings!strcpy, Greetings!unlink, Greetings!bind, Greetings!join, Greetings!connect
<1>3. line' \in Seq(Clients) /\ (line # <<>> => line' # <<>>)
  <2>1. CASE Greetings!connect(p) /\ p \in Clients
    <3>1. Append(line, p) \in Seq(Clients) /\ Append(line, p) # <<>>
      BY <2>1
    <3> QED BY <2>1, <3>1 DEF Greetings!connect
  <2>2. CASE line' = line
    BY <2>2
  <2> QED BY <2>1, <2>2 DEF Greetings!create, Greetings!open, Greetings!meet, Greetings!receive_reset, Greetings!print,
         Greetings!ftruncate, Greetings!greet, Greetings!watch, Greetings!waitpid, Greetings!prepare, Greetings!pause,
         Greetings!strcpy, Greetings!unlink, Greetings!bind, Greetings!join, Greetings!media
<1>4. heard' = [q \in Procs |-> heard'[q]]
  <2>1. CASE Greetings!print(p)
    BY <2>1, GreetingHears DEF Greetings!print
  <2>2. CASE p = Server /\ Greetings!pause
    BY <2>2, GreetingHears DEF Greetings!pause
  <2>3. CASE heard' = heard
    BY <2>3
  <2> QED BY <2>1, <2>2, <2>3 DEF Greetings!create, Greetings!open, Greetings!meet, Greetings!receive_reset,
         Greetings!ftruncate, Greetings!greet, Greetings!watch, Greetings!waitpid, Greetings!prepare,
         Greetings!strcpy, Greetings!unlink, Greetings!bind, Greetings!join, Greetings!connect
<1>5. p = Server /\ pair = "poll" => call[Server] = 1
  <2> SUFFICES ASSUME p = Server, pair = "poll" PROVE call[Server] = 1
    OBVIOUS
  <2>1. \E c \in {"create", "open", "meet", "receive", "print", "ftruncate", "greet", "watch", "waitpid",
                  "sigaction", "sigprocmask", "pause", "strcpy", "strcpy_end", "unlink", "bind", "join", "connect"} :
           Greetings!At(Server, c)
    BY DEF Greetings!create, Greetings!open, Greetings!meet, Greetings!receive_reset, Greetings!print,
         Greetings!ftruncate, Greetings!greet, Greetings!watch, Greetings!waitpid, Greetings!prepare, Greetings!pause,
         Greetings!strcpy, Greetings!unlink, Greetings!bind, Greetings!join, Greetings!connect
  <2> QED BY <2>1, PollCalls
<1> QED BY <1>1, <1>2, <1>3, <1>4, <1>5, OwnStep

LEMMA MailStep ==
    ASSUME GreetInv, UNCHANGED pair, Right(mail', Present),
           asleep' \subseteq Procs, pair \notin Mqs => asleep' = {} /\ peer' # Server,
           line' \in Seq(Clients), peer' \in Procs \cup {Nobody},
           call' \in [Procs -> Nat],
           heard' = [p \in Procs |-> heard'[p]],
           PollInv'
    PROVE  GreetInv'
<1>1. Present' = Present
  BY DEF Present, Greetings!Present
<1>2. Right(mail, Present)'
  BY <1>1
<1> QED BY <1>2 DEF GreetInv

LEMMA PollKeeps ==
    ASSUME GreetInv, UNCHANGED pair,
           pair = "poll" => \/ call'[Server] \notin {3, 4}
                            \/ /\ call'[Server] = call[Server] /\ ready' = ready
                               /\ line # <<>> => line' # <<>>
                               /\ Greetings!Datagrams # {} => (Greetings!Datagrams)' # {}
    PROVE  PollInv'
BY DEF GreetInv, PollInv

LEMMA DatagramsAre ==
    ASSUME GreetInv
    PROVE  /\ Len(mail) \in Nat
           /\ Greetings!Datagrams = {k \in 1..Len(mail) : mail[k].to = Server}
<1>1. DOMAIN mail = 1..Len(mail) /\ Len(mail) \in Nat
  BY LenProperties DEF GreetInv, Right
<1> QED BY <1>1 DEF Greetings!Datagrams, Server

LEMMA DatagramsGrow ==
    ASSUME GreetInv, NEW b, mail' = b, b \in Seq(Letters), Len(b) >= Len(mail),
           \A k \in 1..Len(mail) : b[k] = mail[k]
    PROVE  Greetings!Datagrams # {} => (Greetings!Datagrams)' # {}
<1>1. DOMAIN b = 1..Len(b) /\ Len(b) \in Nat
  BY LenProperties
<1>2. Greetings!Datagrams = {k \in 1..Len(mail) : mail[k].to = Server} /\ Len(mail) \in Nat
  BY DatagramsAre
<1>3. (Greetings!Datagrams)' = {k \in 1..Len(b) : b[k].to = Server}
  BY <1>1 DEF Greetings!Datagrams, Server
<1>4. \A k \in 1..Len(mail) : k \in 1..Len(b)
  BY <1>1, <1>2
<1> QED BY <1>2, <1>3, <1>4

LEMMA GreetSend ==
    ASSUME GreetInv, NEW p \in {Server} \cup Present, Greetings!send(p)
    PROVE  GreetInv'
<1> DEFINE q == IF p = Server THEN First ELSE Server
           m == Greetings!Letter(p, q)
<1>0. p \in Procs /\ q \in Procs /\ Server \in Procs /\ Greetings!Server = Server
  BY GreetingFacts DEF Procs, Present, Server
<1>1. m \in Letters /\ m.from = p /\ m.to = q
  BY <1>0, LetterIs
<1>2. IF m.to = Server THEN m.from \in Present ELSE m.from = Server
  BY <1>0, <1>1, GreetingFacts
<1> HIDE DEF m, q
<1>3. UNCHANGED <<pair, line, ready>>
  BY DEF Greetings!send
<1>4. pair = "poll" => p # Server
  BY PollCalls DEF Greetings!send
<1>5. ASSUME NEW r \in asleep,
             asleep' = asleep \ {r}, call' = [call EXCEPT ![p] = @ + 1, ![r] = @ + 1],
             Greetings!Hears(r, p), peer' = (IF r = Server THEN p ELSE peer), mail' = mail
      PROVE  GreetInv'
  <2>1. pair \in Mqs /\ r \in Procs
    BY <1>5 DEF GreetInv
  <2>2. call' \in [Procs -> Nat]
    BY <1>0, <1>5, <2>1 DEF GreetInv
  <2>3. heard' = [o \in Procs |-> heard'[o]]
    BY <1>5, <2>1, GreetingHears
  <2>4. pair # "poll"
    BY <2>1 DEF Mqs, Greetings!Mqs
  <2>5. PollInv'
    BY <1>3, <2>4 DEF PollInv
  <2> QED BY <1>0, <1>3, <1>5, <2>1, <2>2, <2>3, <2>5, MailStep DEF GreetInv
<1>6. ASSUME mail' \in {mail, Append(mail, m)},
             Greetings!Fails(p) \/ Greetings!Passes(p),
             UNCHANGED <<asleep, heard, peer>>
      PROVE  GreetInv'
  <2>1. /\ Right(mail', Present) /\ Len(mail') >= Len(mail)
        /\ \A k \in 1..Len(mail) : mail'[k] = mail[k]
    <3>1. Right(mail, Present) /\ Len(mail) \in Nat
      BY DatagramsAre DEF GreetInv
    <3>2. CASE mail' = mail
      BY <3>1, <3>2
    <3>3. CASE mail' = Append(mail, m)
      <4>1. /\ Right(Append(mail, m), Present)
            /\ Len(Append(mail, m)) = Len(mail) + 1
            /\ \A k \in 1..(Len(mail) + 1) : Append(mail, m)[k] = IF k <= Len(mail) THEN mail[k] ELSE m
        BY <3>1, <1>1, <1>2, Appended
      <4> QED BY <3>1, <3>3, <4>1
    <3> QED BY <1>6, <3>2, <3>3
  <2>2. /\ call' \in [Procs -> Nat]
        /\ \A o \in Procs \ {p} : call'[o] = call[o]
    BY <1>0, <1>6, GreetingFails, GreetingPasses
  <2>3. Greetings!Datagrams # {} => (Greetings!Datagrams)' # {}
    BY <2>1, DatagramsGrow DEF Right
  <2>4. PollInv'
    BY <1>0, <1>3, <1>4, <2>2, <2>3, PollKeeps
  <2> QED BY <1>3, <1>6, <2>1, <2>2, <2>4, MailStep DEF GreetInv
<1> QED BY <1>0, <1>5, <1>6 DEF Greetings!send, m, q, First

LEMMA ReceiveIs ==
    ASSUME GreetInv, NEW p \in {Server} \cup Present, Greetings!receive(p)
    PROVE  \E i \in 1..Len(mail) :
              /\ Greetings!Accepts(p, mail[i])
              /\ mail[i].from \in Procs
              /\ mail' = Greetings!RemoveAt(mail, i)
              /\ Greetings!Hears(p, mail[i].from)
              /\ peer' = IF p = Server THEN mail[i].from ELSE peer
<1>1. PICK i : /\ i = Greetings!Min(Greetings!Acceptable(p))
               /\ mail' = Greetings!RemoveAt(mail, i)
               /\ Greetings!Hears(p, mail[i].from)
               /\ peer' = IF p = Server THEN mail[i].from ELSE peer
               /\ Greetings!Acceptable(p) # {}
  BY DEF Greetings!receive, Server
<1>2. mail \in Seq(Letters) /\ DOMAIN mail = 1..Len(mail) /\ Len(mail) \in Nat
  BY LenProperties DEF GreetInv, Right
<1>3. Greetings!Acceptable(p) \subseteq Nat
  BY <1>2 DEF Greetings!Acceptable
<1>4. i \in Greetings!Acceptable(p)
  BY <1>1, <1>3, FirstOf
<1>5. i \in 1..Len(mail) /\ Greetings!Accepts(p, mail[i])
  BY <1>2, <1>4 DEF Greetings!Acceptable
<1>6. mail[i].from \in Procs
  <2>1. mail[i] \in Letters
    BY <1>2, <1>5
  <2> QED BY <2>1 DEF Letters
<1> QED BY <1>1, <1>5, <1>6

\* Outside POSIX queues, what the server accepts is from a client, and what a
\* client accepts is from the server.
LEMMA AcceptedIs ==
    ASSUME GreetInv, NEW p \in {Server} \cup Present, NEW i \in 1..Len(mail),
           Greetings!Accepts(p, mail[i]), pair # "posix_mq"
    PROVE  IF p = Server THEN mail[i].from \in Present ELSE mail[i].from = Server
<1>1. mail[i].to = p
  BY DEF Greetings!Accepts
<1> QED BY <1>1 DEF GreetInv, Right

LEMMA GreetReceive ==
    ASSUME GreetInv, NEW p \in {Server} \cup Present, Greetings!receive(p)
    PROVE  GreetInv'
<1>0. p \in Procs /\ Server \in Procs
  BY GreetingFacts DEF Procs, Present
<1>1. PICK i \in 1..Len(mail) :
         /\ Greetings!Accepts(p, mail[i])
         /\ mail[i].from \in Procs
         /\ mail' = Greetings!RemoveAt(mail, i)
         /\ Greetings!Hears(p, mail[i].from)
         /\ peer' = IF p = Server THEN mail[i].from ELSE peer
  BY ReceiveIs
<1>2. UNCHANGED <<pair, line, ready, asleep>> /\ Greetings!Passes(p)
  BY DEF Greetings!receive
<1>3. pair = "poll" => p # Server
  BY PollCalls DEF Greetings!receive
<1>4. /\ Right(Greetings!RemoveAt(mail, i), Present)
      /\ Len(Greetings!RemoveAt(mail, i)) = Len(mail) - 1
      /\ \A k \in 1..(Len(mail) - 1) : Greetings!RemoveAt(mail, i)[k] = IF k < i THEN mail[k] ELSE mail[k + 1]
  BY TakenOut DEF GreetInv
<1>5. /\ call' \in [Procs -> Nat]
      /\ \A o \in Procs \ {p} : call'[o] = call[o]
  BY <1>0, <1>2, GreetingPasses
<1>6. heard' = [o \in Procs |-> heard'[o]]
  BY <1>0, <1>1, GreetingHears
<1>7. pair = "poll" /\ Greetings!Datagrams # {} => (Greetings!Datagrams)' # {}
  <2> SUFFICES ASSUME pair = "poll", Greetings!Datagrams # {} PROVE (Greetings!Datagrams)' # {}
    OBVIOUS
  <2>1. PICK k \in 1..Len(mail) : mail[k].to = Server
    BY DatagramsAre
  <2>2. mail[i].to = p /\ p # Server
    BY <1>1, <1>3 DEF Greetings!Accepts
  <2>3. k # i /\ Len(mail) \in Nat
    BY <2>1, <2>2, DatagramsAre
  <2>4. PICK j \in 1..(Len(mail) - 1) : mail'[j] = mail[k]
    <3>1. CASE k < i
      <4>1. k \in 1..(Len(mail) - 1)
        BY <2>3, <3>1
      <4> QED BY <3>1, <4>1, <1>1, <1>4
    <3>2. CASE k > i
      <4>1. k - 1 \in 1..(Len(mail) - 1) /\ ~(k - 1 < i) /\ (k - 1) + 1 = k
        BY <2>3, <3>2
      <4> QED BY <4>1, <1>1, <1>4
    <3> QED BY <2>3, <3>1, <3>2
  <2>5. DOMAIN mail' = 1..(Len(mail) - 1)
    BY <1>1, <1>4, LenProperties DEF Right
  <2> QED BY <2>1, <2>4, <2>5 DEF Greetings!Datagrams, Server
<1>8. PollInv'
  BY <1>0, <1>2, <1>3, <1>5, <1>7, PollKeeps
<1>9. pair \notin Mqs => peer' # Server
  <2> SUFFICES ASSUME pair \notin Mqs PROVE peer' # Server
    OBVIOUS
  <2>1. pair # "posix_mq"
    BY DEF Mqs, Greetings!Mqs
  <2>2. p = Server => mail[i].from \in Present
    BY <1>1, <2>1, AcceptedIs
  <2> QED BY <1>1, <2>2, GreetingFacts DEF GreetInv, Present
<1>10. peer' \in Procs \cup {Nobody}
  BY <1>1 DEF GreetInv
<1> QED BY <1>1, <1>2, <1>4, <1>5, <1>6, <1>8, <1>9, <1>10, MailStep DEF GreetInv

LEMMA GreetSleeps ==
    ASSUME GreetInv, NEW p \in Procs,
           \/ Greetings!receive_sleeps(p) \/ Greetings!receive_removed(p) \/ Greetings!remove(p)
    PROVE  GreetInv'
<1>0. Greetings!Processes = Procs /\ Server \in Procs
  BY GreetingFacts DEF Procs
<1>1. CASE Greetings!receive_sleeps(p)
  <2>1. UNCHANGED <<pair, mail, peer, line, call, heard, ready>> /\ pair \in Mqs /\ asleep' = asleep \cup {p}
    BY <1>1 DEF Greetings!receive_sleeps, Mqs
  <2> QED BY <2>1, QuietStep DEF GreetInv
<1>2. CASE Greetings!receive_removed(p)
  <2>1. /\ UNCHANGED <<pair, mail, peer, line, asleep, ready>> /\ pair = "sysv_mq"
        /\ Greetings!Passes(p) /\ Greetings!Hears(p, p)
    BY <1>2 DEF Greetings!receive_removed, Greetings!media
  <2>2. call' \in [Procs -> Nat] /\ heard' = [o \in Procs |-> heard'[o]]
    BY <2>1, GreetingPasses, GreetingHears
  <2> QED BY <2>1, <2>2, QuietStep DEF GreetInv
<1>3. CASE Greetings!remove(p)
  <2>1. /\ UNCHANGED <<pair, peer, line, ready>>
        /\ mail' = IF pair = "sysv_mq" THEN <<>> ELSE mail
        /\ asleep' = asleep \ (IF pair = "sysv_mq" THEN asleep ELSE {})
        /\ heard' = [q \in Procs |-> IF q \in (IF pair = "sysv_mq" THEN asleep ELSE {}) THEN q ELSE heard[q]]
        /\ call' = [q \in Procs |-> IF q = p \/ q \in (IF pair = "sysv_mq" THEN asleep ELSE {})
                                    THEN call[q] + 1 ELSE call[q]]
    BY <1>0, <1>3 DEF Greetings!remove
  <2>2. call' \in [Procs -> Nat] /\ heard' = [o \in Procs |-> heard'[o]]
    BY <2>1 DEF GreetInv
  <2>3. asleep' \subseteq Procs /\ (pair \notin Mqs => asleep' = {} /\ peer' # Server)
    BY <2>1 DEF GreetInv
  <2>4. Right(mail', Present)
    <3>1. Right(<<>>, Present)
      BY DEF Right
    <3> QED BY <3>1, <2>1 DEF GreetInv
  <2>5. PollInv'
    <3>1. pair = "poll" => p # Server
      BY <1>3, PollCalls DEF Greetings!remove
    <3>2. pair = "poll" => mail' = mail /\ call'[Server] = call[Server] /\ line' = line
      BY <1>0, <2>1, <3>1
    <3>3. mail' = mail => (Greetings!Datagrams)' = Greetings!Datagrams
      BY DEF Greetings!Datagrams
    <3> QED BY <2>1, <3>2, <3>3, PollKeeps
  <2> QED BY <2>1, <2>2, <2>3, <2>4, <2>5, MailStep DEF GreetInv
<1> QED BY <1>1, <1>2, <1>3

LEMMA GreetSendto ==
    ASSUME GreetInv, NEW c \in Clients, Greetings!sendto(c)
    PROVE  GreetInv'
<1> DEFINE m == Greetings!Letter(c, Server)
<1>1. /\ UNCHANGED <<pair, asleep, line, peer, ready, heard>>
      /\ Greetings!Passes(c) \/ Greetings!Fails(c)
      /\ mail' \in {mail, Append(mail, m)}
      /\ c \in Present
  BY GreetingFacts DEF Greetings!sendto, Server, Greetings!At, Present
<1>2. m \in Letters /\ m.from = c /\ m.to = Server
  BY LetterIs DEF Procs
<1> HIDE DEF m
<1>3. Right(mail, Present) /\ Len(mail) \in Nat /\ c \in Procs /\ Server \in Procs /\ c # Server
  BY DatagramsAre, GreetingFacts DEF GreetInv, Procs
<1>4. /\ Right(mail', Present) /\ Len(mail') >= Len(mail)
      /\ \A k \in 1..Len(mail) : mail'[k] = mail[k]
  <2>1. CASE mail' = mail
    BY <2>1, <1>3
  <2>2. CASE mail' = Append(mail, m)
    <3>1. /\ Right(Append(mail, m), Present)
          /\ Len(Append(mail, m)) = Len(mail) + 1
          /\ \A k \in 1..(Len(mail) + 1) : Append(mail, m)[k] = IF k <= Len(mail) THEN mail[k] ELSE m
      BY <1>1, <1>2, <1>3, Appended
    <3> QED BY <1>3, <2>2, <3>1
  <2> QED BY <2>1, <2>2, <1>1
<1>5. call' \in [Procs -> Nat] /\ call'[Server] = call[Server]
  BY <1>1, <1>3, GreetingPasses, GreetingFails
<1>6. Greetings!Datagrams # {} => (Greetings!Datagrams)' # {}
  BY <1>4, DatagramsGrow DEF Right
<1>7. PollInv'
  BY <1>1, <1>5, <1>6, PollKeeps
<1> QED BY <1>1, <1>4, <1>5, <1>7, MailStep DEF GreetInv

\* What the server answers.
LEMMA GreetReplies ==
    ASSUME GreetInv, Greetings!reply \/ Greetings!shout
    PROVE  GreetInv'
<1> DEFINE T == IF Greetings!reply THEN Greetings!Addressees ELSE Greetings!Joined
<1>0. Server \in Procs /\ Greetings!Server = Server
  BY DEF Procs, Server
<1>1. /\ UNCHANGED <<pair, asleep, line, peer, ready, heard>>
      /\ Greetings!Passes(Server)
      /\ mail' = Greetings!Post(mail, T)
      /\ Greetings!At(Server, "reply") \/ Greetings!At(Server, "shout")
  BY <1>0 DEF Greetings!reply, Greetings!shout
<1>2. pair \notin Mqs
  BY <1>1, Calls DEF GreetInv, CallsOf, Mqs
<1>3. Greetings!Joined \subseteq Clients
  BY GreetingFacts DEF Greetings!Joined
<1>4. peer \in Clients \cup {Nobody}
  BY <1>2, GreetingFacts DEF GreetInv, Procs
<1>5. T \in {{owner} \cap Clients, Greetings!Joined, {peer}}
  BY DEF Greetings!Addressees
<1> HIDE DEF T
<1>6. IsFiniteSet(T) /\ T \subseteq Clients \cup {Nobody}
  <2>1. IsFiniteSet(Greetings!Joined) /\ IsFiniteSet({owner} \cap Clients)
    BY <1>3, GreetingFacts, FS_Subset
  <2>2. IsFiniteSet({peer})
    BY FS_Singleton
  <2> QED BY <1>3, <1>4, <1>5, <2>1, <2>2
<1>7. /\ Right(Greetings!Post(mail, T), Present)
  BY <1>6, Posted DEF GreetInv
<1>8. pair # "poll"
  BY <1>1, PollCalls
<1>9. PollInv'
  BY <1>1, <1>8 DEF PollInv
<1>10. call' \in [Procs -> Nat]
  BY <1>0, <1>1, GreetingPasses
<1> QED BY <1>1, <1>2, <1>7, <1>9, <1>10, MailStep DEF GreetInv

\* The polling server's steps.
LEMMA GreetPolls ==
    ASSUME GreetInv, Greetings!poll \/ Greetings!handle_tcp \/ Greetings!handle_udp
    PROVE  GreetInv'
<1>0. Server \in Procs /\ Greetings!Server = Server
  BY DEF Procs, Server
<1>1. /\ Greetings!At(Server, "poll") \/ Greetings!At(Server, "handle_tcp") \/ Greetings!At(Server, "handle_udp")
      /\ Greetings!Passes(Server) /\ UNCHANGED <<pair, asleep, peer, heard>>
  BY <1>0 DEF Greetings!poll, Greetings!handle_tcp, Greetings!handle_udp, Greetings!media
<1>2. pair = "poll" /\ pair \notin Mqs
  BY <1>1, Calls DEF GreetInv, CallsOf, Mqs, Greetings!Mqs, Greetings!Shms, Greetings!Signals
<1>3. call' \in [Procs -> Nat] /\ call'[Server] = call[Server] + 1 /\ call[Server] \in Nat
  BY <1>0, <1>1, GreetingPasses DEF GreetInv
<1>4. mail \in Seq(Letters) /\ Len(mail) \in Nat /\ Right(mail, Present)
  BY DatagramsAre DEF GreetInv, Right
<1>5. CASE Greetings!poll
  <2>1. UNCHANGED <<mail, line>> /\ call[Server] = 2
    BY <1>2, <1>5, <1>0, PollCalls DEF Greetings!poll, Greetings!media
  <2>2. ready' = (IF line # <<>> THEN {"tcp"} ELSE {}) \cup (IF Greetings!Datagrams # {} THEN {"udp"} ELSE {})
    BY <1>5 DEF Greetings!poll
  <2>3. (Greetings!Datagrams)' = Greetings!Datagrams
    BY <2>1 DEF Greetings!Datagrams
  <2>4. PollInv'
    BY <2>1, <2>2, <2>3 DEF PollInv
  <2> QED BY <2>1, <2>4, <1>1, <1>3, <1>4, MailStep DEF GreetInv
<1>6. CASE Greetings!handle_tcp
  <2>1. call[Server] = 3 /\ ready' = ready
    BY <1>0, <1>2, <1>6, PollCalls DEF Greetings!handle_tcp
  <2>2. /\ Right(mail', Present) /\ Len(mail') >= Len(mail) /\ line' \in Seq(Clients)
        /\ \A k \in 1..Len(mail) : mail'[k] = mail[k]
    <3>1. CASE "tcp" \in ready
      <4>1. line \in Seq(Clients) /\ line # <<>>
        BY <1>2, <2>1, <3>1 DEF GreetInv, PollInv
      <4>2. Head(line) \in Clients /\ Tail(line) \in Seq(Clients)
        BY <4>1
      <4>3. IsFiniteSet({Head(line)})
        BY FS_Singleton
      <4>4. mail' = Greetings!Post(mail, {Head(line)}) /\ line' = Tail(line)
        BY <1>6, <3>1 DEF Greetings!handle_tcp
      <4> QED BY <4>2, <4>3, <4>4, <1>4, Posted
    <3>2. CASE "tcp" \notin ready
      BY <1>4, <1>6, <3>2 DEF Greetings!handle_tcp, GreetInv
    <3> QED BY <3>1, <3>2
  <2>3. Greetings!Datagrams # {} => (Greetings!Datagrams)' # {}
    BY <2>2, DatagramsGrow DEF Right
  <2>4. PollInv'
    BY <1>2, <1>3, <2>1, <2>3 DEF GreetInv, PollInv
  <2> QED BY <2>2, <2>4, <1>1, <1>3, MailStep DEF GreetInv
<1>7. CASE Greetings!handle_udp
  <2>1. call[Server] = 4 /\ UNCHANGED <<line, ready>>
    BY <1>0, <1>2, <1>7, PollCalls DEF Greetings!handle_udp
  <2>2. Right(mail', Present)
    <3>1. CASE "udp" \in ready
      <4>1. Greetings!Datagrams # {}
        BY <1>2, <2>1, <3>1 DEF GreetInv, PollInv
      <4>2. PICK i : i = Greetings!Min(Greetings!Datagrams)
        OBVIOUS
      <4>3. i \in 1..Len(mail) /\ mail[i].to = Server
        <5>1. i \in Greetings!Datagrams
          BY <4>1, <4>2, <1>4, DatagramsAre, FirstOf
        <5> QED BY <5>1, DatagramsAre
      <4>4. mail[i].from \in Clients
        BY <4>3, <1>4, GreetingFacts DEF Right, Present
      <4>5. PICK b : b = Greetings!RemoveAt(mail, i)
        OBVIOUS
      <4>6. Right(b, Present)
        BY <4>3, <4>5, <1>4, TakenOut
      <4>7. IsFiniteSet({mail[i].from})
        BY FS_Singleton
      <4>8. mail' = Greetings!Post(b, {mail[i].from})
        BY <1>7, <3>1, <4>2, <4>5 DEF Greetings!handle_udp
      <4> QED BY <4>4, <4>6, <4>7, <4>8, Posted
    <3>2. CASE "udp" \notin ready
      BY <1>4, <1>7, <3>2 DEF Greetings!handle_udp
    <3> QED BY <3>1, <3>2
  <2>3. PollInv'
    BY <1>3, <2>1 DEF PollInv
  <2> QED BY <2>1, <2>2, <2>3, <1>1, <1>3, MailStep DEF GreetInv
<1> QED BY <1>5, <1>6, <1>7

LEMMA GreetRest ==
    ASSUME GreetInv, \/ Greetings!accept \/ Greetings!close \/ Greetings!again
                     \/ \E c \in Clients : Greetings!kill(c)
    PROVE  GreetInv'
<1>0. Server \in Procs /\ Greetings!Server = Server /\ line \in Seq(Clients)
  BY DEF Procs, Server, GreetInv
<1>1. CASE Greetings!accept
  <2>1. /\ UNCHANGED <<pair, mail, asleep, heard, ready>> /\ Greetings!Passes(Server)
        /\ line # <<>> /\ peer' = Head(line) /\ line' = Tail(line)
        /\ Greetings!At(Server, "accept")
    BY <1>0, <1>1 DEF Greetings!accept
  <2>2. peer' \in Clients /\ line' \in Seq(Clients)
    BY <1>0, <2>1
  <2>3. call' \in [Procs -> Nat]
    BY <1>0, <2>1, GreetingPasses
  <2>4. pair # "poll"
    BY <2>1, PollCalls
  <2>5. PollInv'
    BY <2>1, <2>4 DEF PollInv
  <2> QED BY <2>1, <2>2, <2>3, <2>5, GreetingFacts, MailStep DEF GreetInv, Procs
<1>2. CASE Greetings!close
  <2>1. /\ UNCHANGED <<pair, mail, asleep, heard, ready, peer>> /\ Greetings!Passes(Server)
        /\ line' = <<>> /\ Greetings!At(Server, "close")
    BY <1>0, <1>2 DEF Greetings!close
  <2>2. call' \in [Procs -> Nat]
    BY <1>0, <2>1, GreetingPasses
  <2>3. pair # "poll"
    BY <2>1, PollCalls
  <2>4. line' \in Seq(Clients)
    BY <2>1
  <2> QED BY <2>1, <2>2, <2>3, <2>4, QuietStep DEF GreetInv
<1>3. CASE Greetings!again
  <2>1. /\ UNCHANGED <<pair, mail, asleep, heard, ready, peer, line>>
        /\ call' = [call EXCEPT ![Server] = 2]
    BY <1>0, <1>3 DEF Greetings!again, Greetings!media
  <2>2. call' \in [Procs -> Nat] /\ call'[Server] = 2
    BY <1>0, <2>1 DEF GreetInv
  <2> QED BY <2>1, <2>2, QuietStep DEF GreetInv
<1>4. ASSUME NEW c \in Clients, Greetings!kill(c) PROVE GreetInv'
  <2>1. UNCHANGED <<pair, mail, asleep, heard, ready, peer, line>>
    BY <1>4 DEF Greetings!kill
  <2>2. call' \in [Procs -> Nat] /\ (call'[Server] = call[Server] \/ call'[Server] = 0)
    <3>1. c \in Procs /\ c # Server
      BY GreetingFacts DEF Procs
    <3>2. CASE call' = [call EXCEPT ![c] = @ + 1, ![Server] = 0]
      BY <1>0, <3>1, <3>2 DEF GreetInv
    <3>3. CASE Greetings!Passes(c) \/ Greetings!Fails(c)
      BY <1>0, <3>1, <3>3, GreetingPasses, GreetingFails
    <3> QED BY <1>0, <1>4, <3>2, <3>3 DEF Greetings!kill
  <2> QED BY <1>0, <2>1, <2>2, QuietStep DEF GreetInv
<1> QED BY <1>1, <1>2, <1>3, <1>4

LEMMA AtIs ==
    ASSUME NEW p, NEW c, Greetings!At(p, c)
    PROVE  p \in {Server} \cup Present
BY DEF Greetings!At, Present, Server

LEMMA GreetNext == GreetInv /\ Greetings!Next => GreetInv'
<1> SUFFICES ASSUME GreetInv, Greetings!Next PROVE GreetInv'
  OBVIOUS
<1>0. Greetings!Server = Server /\ Server \in Procs /\ Clients \subseteq Procs
  BY DEF Server, Procs
<1>1. ASSUME NEW p \in Procs, Greetings!Both(p) PROVE GreetInv'
  <2>1. CASE Greetings!send(p)
    <3>1. p \in {Server} \cup Present
      BY <2>1, AtIs DEF Greetings!send
    <3> QED BY <2>1, <3>1, GreetSend
  <2>2. CASE Greetings!receive(p)
    <3>1. p \in {Server} \cup Present
      BY <2>2, AtIs DEF Greetings!receive
    <3> QED BY <2>2, <3>1, GreetReceive
  <2> QED BY <1>1, <2>1, <2>2, QuietCalls, GreetSleeps DEF Greetings!Both
<1>2. CASE Greetings!ServerStep
  <2>1. CASE Greetings!Both(Server)
    BY <1>0, <1>1, <2>1
  <2>2. CASE \/ Greetings!ftruncate \/ Greetings!greet \/ Greetings!watch
             \/ Greetings!waitpid \/ Greetings!prepare \/ Greetings!pause
    BY <1>0, <2>2, QuietCalls
  <2> QED BY <1>0, <1>2, <2>1, <2>2, GreetReplies, GreetPolls, GreetRest DEF Greetings!ServerStep
<1>3. ASSUME NEW c \in Clients, Greetings!ClientStep(c) PROVE GreetInv'
  <2>1. c \in Procs
    BY <1>0
  <2> QED BY <1>1, <1>3, <2>1, QuietCalls, GreetSendto, GreetRest DEF Greetings!ClientStep
<1> QED BY <1>2, <1>3 DEF Greetings!Next

LEMMA GreetInit == Greetings!Init => GreetInv
<1> SUFFICES ASSUME Greetings!Init PROVE GreetInv
  OBVIOUS
<1>1. Greetings!Processes = Procs
  BY GreetingFacts
<1>2. Right(mail, Present) /\ line \in Seq(Clients)
  BY DEF Greetings!Init, Right
<1>3. Nobody # Server
  BY GreetingFacts DEF Procs
<1>4. PollInv
  BY DEF Greetings!Init, PollInv
<1> QED BY <1>1, <1>2, <1>3, <1>4 DEF Greetings!Init, GreetInv

-----------------------------------------------------------------------------
(* Who hears whom: neither queues nor shared memory *)

OthersHear ==
    pair \notin Mqs \cup Shms =>
        /\ \A c \in Present : heard[c] \in {Nobody, Server}
        /\ heard[Server] \in IF pair \in Greetings!Signals THEN {Nobody, "SIGUSR1"} ELSE Present \cup {Nobody}

\* Only receiving and pausing change what one has heard.
LEMMA OthersUnheard ==
    ASSUME GreetInv, pair \notin Mqs \cup Shms, Greetings!Next,
           \A p \in {Server} \cup Present : ~Greetings!receive(p),
           ~Greetings!pause
    PROVE  heard' = heard
<1>0. Greetings!Processes = Procs /\ asleep = {} /\ pair # "sysv_mq" /\ heard = [p \in Procs |-> heard[p]] /\ pair \in Greetings!Pairs
  BY GreetingFacts DEF GreetInv, Mqs, Greetings!Mqs
<1>1. ASSUME NEW p, Greetings!Both(p) PROVE heard' = heard
  <2>1. ~Greetings!print(p)
    BY <1>0, Calls DEF Greetings!print, CallsOf, Mqs, Shms
  <2>2. Greetings!send(p) => heard' = heard
    BY <1>0 DEF Greetings!send
  <2>3. ~Greetings!receive(p)
    BY AtIs DEF Greetings!receive
  <2>4. ~Greetings!receive_removed(p)
    BY <1>0 DEF Greetings!receive_removed
  <2>5. Greetings!remove(p) => heard' = heard
    BY <1>0 DEF Greetings!remove
  <2> QED BY <1>1, <2>1, <2>2, <2>3, <2>4, <2>5
          DEF Greetings!Both, Greetings!create, Greetings!open, Greetings!meet, Greetings!receive_sleeps, Greetings!receive_reset
<1>2. CASE Greetings!ServerStep
  BY <1>1, <1>2 DEF Greetings!ServerStep, Greetings!ftruncate, Greetings!greet, Greetings!watch,
        Greetings!waitpid, Greetings!accept, Greetings!reply, Greetings!shout, Greetings!close,
        Greetings!poll, Greetings!handle_tcp, Greetings!handle_udp, Greetings!again, Greetings!prepare
<1>3. ASSUME NEW c, Greetings!ClientStep(c) PROVE heard' = heard
  BY <1>1, <1>3 DEF Greetings!ClientStep, Greetings!strcpy, Greetings!unlink, Greetings!bind,
        Greetings!sendto, Greetings!connect, Greetings!join, Greetings!kill
<1> QED BY <1>2, <1>3 DEF Greetings!Next

LEMMA PairStays ==
    ASSUME Greetings!Next
    PROVE  pair' = pair /\ Present' = Present
<1>1. pair' = pair
  BY DEF Greetings!Next, Greetings!ServerStep, Greetings!ClientStep, Greetings!Both, Greetings!create,
         Greetings!open, Greetings!meet, Greetings!send, Greetings!receive, Greetings!receive_sleeps,
         Greetings!receive_removed, Greetings!receive_reset, Greetings!remove, Greetings!print,
         Greetings!ftruncate, Greetings!greet, Greetings!watch,
         Greetings!waitpid, Greetings!accept, Greetings!reply, Greetings!shout, Greetings!close,
         Greetings!poll, Greetings!handle_tcp, Greetings!handle_udp, Greetings!again, Greetings!prepare,
         Greetings!pause, Greetings!strcpy, Greetings!unlink, Greetings!bind,
         Greetings!sendto, Greetings!connect, Greetings!join, Greetings!kill
<1> QED BY <1>1 DEF Present, Greetings!Present

LEMMA OthersNext == GreetInv /\ OthersHear /\ Greetings!Next => OthersHear'
<1> SUFFICES ASSUME GreetInv, OthersHear, Greetings!Next, pair \notin Mqs \cup Shms
             PROVE  /\ \A c \in Present : heard'[c] \in {Nobody, Server}
                    /\ heard'[Server] \in IF pair \in Greetings!Signals THEN {Nobody, "SIGUSR1"} ELSE Present \cup {Nobody}
  BY PairStays DEF OthersHear, Mqs, Shms
<1>0. /\ Server \in Procs /\ Present \subseteq Procs /\ Server \notin Present /\ pair \in Greetings!Pairs
      /\ \A c \in Present : heard[c] \in {Nobody, Server}
      /\ heard[Server] \in IF pair \in Greetings!Signals THEN {Nobody, "SIGUSR1"} ELSE Present \cup {Nobody}
  BY GreetingFacts DEF Procs, Present, OthersHear, GreetInv
<1>1. ASSUME NEW p \in {Server} \cup Present, Greetings!receive(p)
      PROVE  /\ \A c \in Present : heard'[c] \in {Nobody, Server}
             /\ heard'[Server] \in IF pair \in Greetings!Signals THEN {Nobody, "SIGUSR1"} ELSE Present \cup {Nobody}
  <2>1. PICK i \in 1..Len(mail) : Greetings!Accepts(p, mail[i]) /\ Greetings!Hears(p, mail[i].from)
    BY <1>1, ReceiveIs
  <2>2. IF p = Server THEN mail[i].from \in Present ELSE mail[i].from = Server
    BY <2>1, AcceptedIs DEF Mqs, Greetings!Mqs
  <2>3. heard'[p] = mail[i].from /\ \A q \in Procs \ {p} : heard'[q] = heard[q]
    BY <2>1, <1>0, GreetingHears
  <2>4. pair \notin Greetings!Signals
    BY <1>0, <1>1, Calls DEF Greetings!receive, CallsOf, Mqs, Shms
  <2> QED BY <1>0, <2>2, <2>3, <2>4
<1>2. CASE Greetings!pause
  <2>1. Greetings!At(Server, "pause") /\ Greetings!Hears(Server, "SIGUSR1")
    BY <1>2 DEF Greetings!pause, Server
  <2>2. pair \in Greetings!Signals \cup {"masked"}
    BY <1>0, <2>1, Calls DEF CallsOf, Mqs, Shms
  <2>3. pair # "masked"
    <3> SUFFICES ASSUME pair = "masked" PROVE FALSE
      OBVIOUS
    <3>1. Greetings!Script(Server) = Greetings!masked_recv
      BY DEF Greetings!Script, Greetings!Programs, Server
    <3> QED BY <2>1, <3>1 DEF Greetings!At, Greetings!masked_recv
  <2>4. heard'[Server] = "SIGUSR1" /\ \A q \in Procs \ {Server} : heard'[q] = heard[q]
    BY <2>1, <1>0, GreetingHears
  <2> QED BY <1>0, <2>2, <2>3, <2>4
<1>3. CASE heard' = heard
  BY <1>0, <1>3
<1> QED BY <1>1, <1>2, <1>3, OthersUnheard

-----------------------------------------------------------------------------
(* Shared memory *)

\* The server's call that gives the memory its size, and the one that greets.
Sized == IF pair = "posix_shm" THEN 2 ELSE 1

ShmInv ==
    pair \in Shms =>
        /\ call[First] <= 2 =>
              /\ call[Server] \in 1..(Sized + 2)
              /\ mem = IF call[Server] <= Sized THEN <<"none", "none">>
                       ELSE <<IF call[Server] = Sized + 1 THEN "zero" ELSE Server, "zero">>
        /\ call[First] > 2 => call[Server] = 0 \/ call[Server] > Sized
        /\ call[Server] > Sized + 1 => mem[1] \in {Server, First}
        /\ call[Server] > Sized + 2 => mem[1] = First
        /\ mem = <<mem[1], mem[2]>>
        /\ heard[First] \in {Nobody, Server, "zero"}
        /\ heard[Server] \in Clients \cup {Nobody, "mixed"}

LEMMA ShmCalls ==
    ASSUME pair \in Shms, NEW p, NEW c, Greetings!At(p, c)
    PROVE  \/ /\ p = Server
              /\ \/ c = "create" /\ call[p] = 1
                 \/ c = "ftruncate" /\ pair = "posix_shm" /\ call[p] = Sized
                 \/ c = "greet" /\ call[p] = Sized + 1
                 \/ c = "watch" /\ call[p] = Sized + 2
                 \/ c = "print" /\ call[p] = Sized + 3
                 \/ c = "remove" /\ call[p] = Sized + 4
           \/ /\ p = First
              /\ \/ c = "open" /\ call[p] = 1
                 \/ c = "print" /\ call[p] = 2
                 \/ c = "strcpy" /\ call[p] = 3
                 \/ c = "strcpy_end" /\ call[p] = 4
<1>1. p = Server \/ p = First
  BY GreetingFacts, AtIs DEF Present, Greetings!OneClient, Shms
<1>2. First # Server
  BY GreetingFacts
<1>3. CASE pair = "posix_shm"
  <2>1. Greetings!Script(Server) = Greetings!posix_shm_server /\ Greetings!Script(First) = Greetings!posix_shm_client
    BY <1>2, <1>3 DEF Greetings!Script, Greetings!Programs, Server, First
  <2> QED BY <1>1, <1>3, <2>1 DEF Greetings!At, Greetings!posix_shm_server, Greetings!posix_shm_client, Sized
<1>4. CASE pair = "sysv_shm"
  <2>1. Greetings!Script(Server) = Greetings!sysv_shm_server /\ Greetings!Script(First) = Greetings!sysv_shm_client
    BY <1>2, <1>4 DEF Greetings!Script, Greetings!Programs, Server, First
  <2> QED BY <1>1, <1>4, <2>1 DEF Greetings!At, Greetings!sysv_shm_server, Greetings!sysv_shm_client, Sized
<1> QED BY <1>3, <1>4 DEF Shms, Greetings!Shms

LEMMA ShmStep ==
    ASSUME pair \in Shms, Greetings!Next
    PROVE  \/ Greetings!create(Server) \/ Greetings!ftruncate \/ Greetings!greet
           \/ Greetings!watch \/ Greetings!print(Server) \/ Greetings!remove(Server)
           \/ Greetings!open(First) \/ Greetings!print(First)
           \/ Greetings!strcpy(First, "strcpy", 1) \/ Greetings!strcpy(First, "strcpy_end", 2)
<1>0. Server # First /\ Greetings!Server = Server /\ Server \notin Clients
  BY GreetingFacts DEF Server
<1>1. ASSUME NEW p, Greetings!Both(p)
      PROVE  \/ p = Server /\ (Greetings!create(p) \/ Greetings!print(p) \/ Greetings!remove(p))
             \/ p = First /\ (Greetings!open(p) \/ Greetings!print(p))
  <2>1. ~Greetings!meet(p) /\ ~Greetings!send(p)
    BY ShmCalls DEF Greetings!meet, Greetings!send
  <2>2. /\ ~Greetings!receive(p) /\ ~Greetings!receive_sleeps(p)
        /\ ~Greetings!receive_removed(p) /\ ~Greetings!receive_reset(p)
    BY ShmCalls DEF Greetings!receive, Greetings!receive_sleeps, Greetings!receive_removed, Greetings!receive_reset
  <2>3. /\ Greetings!create(p) \/ Greetings!remove(p) => p = Server
        /\ Greetings!open(p) => p = First
        /\ Greetings!print(p) => p \in {Server, First}
    BY ShmCalls DEF Greetings!create, Greetings!remove, Greetings!open, Greetings!print
  <2> QED BY <1>1, <2>1, <2>2, <2>3 DEF Greetings!Both
<1>2. ASSUME Greetings!ServerStep
      PROVE  \/ Greetings!Both(Server) \/ Greetings!ftruncate \/ Greetings!greet \/ Greetings!watch
  <2>1. ~Greetings!waitpid /\ ~Greetings!accept /\ ~Greetings!reply /\ ~Greetings!shout /\ ~Greetings!close
    BY ShmCalls DEF Greetings!waitpid, Greetings!accept, Greetings!reply, Greetings!shout, Greetings!close
  <2>2. ~Greetings!poll /\ ~Greetings!handle_tcp /\ ~Greetings!handle_udp /\ ~Greetings!again
    BY ShmCalls DEF Greetings!poll, Greetings!handle_tcp, Greetings!handle_udp, Greetings!again
  <2>3. ~Greetings!prepare /\ ~Greetings!pause
    BY ShmCalls DEF Greetings!prepare, Greetings!pause
  <2> QED BY <1>0, <1>2, <2>1, <2>2, <2>3 DEF Greetings!ServerStep
<1>3. ASSUME NEW c \in Clients, Greetings!ClientStep(c)
      PROVE  \/ Greetings!Both(c)
             \/ c = First /\ (Greetings!strcpy(c, "strcpy", 1) \/ Greetings!strcpy(c, "strcpy_end", 2))
  <2>1. /\ ~Greetings!unlink(c) /\ ~Greetings!bind(c) /\ ~Greetings!sendto(c)
        /\ ~Greetings!connect(c) /\ ~Greetings!join(c) /\ ~Greetings!kill(c)
    BY ShmCalls DEF Greetings!unlink, Greetings!bind, Greetings!sendto, Greetings!connect, Greetings!join, Greetings!kill
  <2>2. Greetings!strcpy(c, "strcpy", 1) \/ Greetings!strcpy(c, "strcpy_end", 2) => c = First
    BY <1>0, ShmCalls DEF Greetings!strcpy
  <2> QED BY <1>3, <2>1, <2>2 DEF Greetings!ClientStep
<1>4. CASE Greetings!ServerStep
  BY <1>0, <1>1, <1>2, <1>4
<1>5. CASE \E c \in Clients : Greetings!ClientStep(c)
  BY <1>0, <1>1, <1>3, <1>5
<1> QED BY <1>4, <1>5 DEF Greetings!Next

LEMMA ShmNext == GreetInv /\ ShmInv /\ Greetings!Next => ShmInv'
<1> SUFFICES ASSUME GreetInv, ShmInv, Greetings!Next, pair \in Shms PROVE ShmInv'
  BY PairStays DEF ShmInv, Shms
<1>0. /\ Server \in Procs /\ First \in Procs /\ First # Server /\ First \in Clients
      /\ Greetings!Server = Server /\ call \in [Procs -> Nat] /\ Sized \in {1, 2}
      /\ pair # "sysv_mq" /\ pair' = pair /\ Greetings!Processes = Procs
      /\ Server = "server" /\ Sized' = Sized
  BY PairStays, GreetingFacts DEF GreetInv, Procs, Server, Greetings!Server, Sized, Shms, Greetings!Shms
<1> USE <1>0
<1>1. CASE Greetings!create(Server)
  <2>1. call[Server] = 1 /\ Greetings!Passes(Server)
    BY <1>1, ShmCalls DEF Greetings!create
  <2>2. heard' = heard /\ mem' = IF pair = "sysv_shm" THEN <<"zero", "zero">> ELSE mem
    BY <1>1 DEF Greetings!create
  <2>3. call'[Server] = 2 /\ call'[First] = call[First]
    BY <2>1, GreetingPasses
  <2>4. pair = "sysv_shm" <=> Sized = 1
    BY DEF Sized, Shms, Greetings!Shms
  <2>5. call[First] <= 2 /\ mem = <<"none", "none">>
    BY <2>1 DEF ShmInv
  <2>6. CASE pair = "sysv_shm"
    BY <2>1, <2>2, <2>3, <2>4, <2>5, <2>6 DEF ShmInv
  <2>7. CASE pair # "sysv_shm"
    BY <2>1, <2>2, <2>3, <2>4, <2>5, <2>7 DEF ShmInv
  <2> QED BY <2>6, <2>7
<1>2. CASE Greetings!ftruncate
  <2>1. call[Server] = Sized /\ Greetings!Passes(Server)
    BY <1>2, ShmCalls DEF Greetings!ftruncate
  <2>2. heard' = heard /\ mem' = <<"zero", "zero">>
    BY <1>2 DEF Greetings!ftruncate
  <2>3. call'[Server] = Sized + 1 /\ call'[First] = call[First]
    BY <2>1, GreetingPasses
  <2>4. call[First] <= 2
    BY <2>1 DEF ShmInv
  <2> QED BY <2>2, <2>3, <2>4 DEF ShmInv
<1>3. CASE Greetings!greet
  <2>1. call[Server] = Sized + 1 /\ Greetings!Passes(Server)
    BY <1>3, ShmCalls DEF Greetings!greet
  <2>2. heard' = heard /\ mem' = [mem EXCEPT ![1] = Server]
    BY <1>3 DEF Greetings!greet
  <2>3. call'[Server] = Sized + 2 /\ call'[First] = call[First]
    BY <2>1, GreetingPasses
  <2>4. mem' = <<Server, mem[2]>>
    BY <2>2 DEF ShmInv
  <2>5. call[First] <= 2 => mem' = <<Server, "zero">>
    BY <2>1, <2>4 DEF ShmInv
  <2>6. mem'[1] = Server /\ mem' = <<mem'[1], mem'[2]>>
    BY <2>4
  <2>7. heard[First] \in {Nobody, Server, "zero"} /\ heard[Server] \in Clients \cup {Nobody, "mixed"}
    BY DEF ShmInv
  <2>8. /\ call'[Server] \in 1..(Sized + 2) /\ ~(call'[Server] <= Sized)
        /\ call'[Server] # Sized + 1 /\ call'[Server] > Sized /\ ~(call'[Server] > Sized + 2)
    BY <2>3
  <2>9. call'[First] <= 2 =>
              /\ call'[Server] \in 1..(Sized + 2)
              /\ mem' = IF call'[Server] <= Sized THEN <<"none", "none">>
                        ELSE <<IF call'[Server] = Sized + 1 THEN "zero" ELSE Server, "zero">>
    BY <2>3, <2>5, <2>8
  <2> QED BY <2>2, <2>3, <2>6, <2>7, <2>8, <2>9 DEF ShmInv
<1>4. CASE Greetings!watch
  <2>1. call[Server] = Sized + 2 /\ Greetings!Passes(Server)
    BY <1>4, ShmCalls DEF Greetings!watch
  <2>2. heard' = heard /\ mem' = mem /\ mem[1] # Server
    BY <1>4 DEF Greetings!watch, Greetings!media
  <2>3. call'[Server] = Sized + 3 /\ call'[First] = call[First]
    BY <2>1, GreetingPasses
  <2>4. call[First] > 2 /\ mem[1] = First
    BY <2>1, <2>2 DEF ShmInv
  <2> QED BY <2>1, <2>2, <2>3, <2>4 DEF ShmInv
<1>5. CASE Greetings!print(Server)
  <2>1. call[Server] = Sized + 3 /\ (Greetings!Passes(Server) \/ Greetings!Fails(Server)) /\ mem' = mem
    BY <1>5, ShmCalls DEF Greetings!print, Greetings!media
  <2>2. heard' = heard \/ Greetings!Hears(Server, mem[1]) \/ Greetings!Hears(Server, "mixed")
    BY <1>5 DEF Greetings!print
  <2>3. call'[Server] \in {0, Sized + 4} /\ call'[First] = call[First]
    <3>1. CASE Greetings!Passes(Server)
      BY <2>1, <3>1, GreetingPasses
    <3>2. CASE Greetings!Fails(Server)
      BY <3>2, GreetingFails
    <3> QED BY <2>1, <3>1, <3>2
  <2>4. heard'[First] = heard[First] /\ heard'[Server] \in {heard[Server], mem[1], "mixed"}
    BY <2>2, GreetingHears
  <2>5. call[First] > 2 /\ mem[1] = First
    BY <2>1 DEF ShmInv
  <2> QED BY <2>1, <2>3, <2>4, <2>5 DEF ShmInv
<1>6. CASE Greetings!remove(Server)
  <2>1. call[Server] = Sized + 4 /\ mem' = mem
    BY <1>6, ShmCalls DEF Greetings!remove
  <2>2. /\ call'[Server] = call[Server] + 1 /\ call'[First] = call[First]
        /\ heard'[First] = heard[First] /\ heard'[Server] = heard[Server]
    BY <1>6 DEF Greetings!remove
  <2>3. call[First] > 2
    BY <2>1 DEF ShmInv
  <2> QED BY <2>1, <2>2, <2>3 DEF ShmInv
<1>7. CASE Greetings!open(First)
  <2>1. call[First] = 1 /\ (Greetings!Passes(First) \/ Greetings!Fails(First)) /\ mem' = mem /\ heard' = heard
    BY <1>7, ShmCalls DEF Greetings!open, Greetings!media
  <2>2. call'[First] \in {0, 2} /\ call'[Server] = call[Server]
    <3>1. CASE Greetings!Passes(First)
      BY <2>1, <3>1, GreetingPasses
    <3>2. CASE Greetings!Fails(First)
      BY <3>2, GreetingFails
    <3> QED BY <2>1, <3>1, <3>2
  <2> QED BY <2>1, <2>2 DEF ShmInv
<1>8. CASE Greetings!print(First)
  <2>1. call[First] = 2 /\ (Greetings!Passes(First) \/ Greetings!Fails(First)) /\ mem' = mem
    BY <1>8, ShmCalls DEF Greetings!print, Greetings!media
  <2>2. call'[Server] = call[Server]
    <3>1. CASE Greetings!Passes(First)
      BY <3>1, GreetingPasses
    <3>2. CASE Greetings!Fails(First)
      BY <3>2, GreetingFails
    <3> QED BY <2>1, <3>1, <3>2
  <2>3. CASE mem[1] = "none"
    <3>1. heard' = heard /\ Greetings!Fails(First)
      BY <1>8, <2>3 DEF Greetings!print
    <3>2. call'[First] = 0
      BY <3>1, GreetingFails
    <3> QED BY <2>1, <2>2, <3>1, <3>2 DEF ShmInv
  <2>4. CASE mem[1] # "none"
    <3>1. call[Server] > Sized /\ mem \in {<<Server, "zero">>, <<"zero", "zero">>}
      BY <2>1, <2>4 DEF ShmInv
    <3>2. Greetings!Passes(First) /\ Greetings!Hears(First, mem[1])
      BY <1>8, <2>4, <3>1 DEF Greetings!print
    <3>3. call'[First] = 3
      BY <2>1, <3>2, GreetingPasses
    <3>4. heard'[First] = mem[1] /\ heard'[Server] = heard[Server]
      BY <3>2, GreetingHears
    <3> QED BY <2>1, <2>2, <3>1, <3>3, <3>4 DEF ShmInv
  <2> QED BY <2>3, <2>4
<1>9. CASE Greetings!strcpy(First, "strcpy", 1) \/ Greetings!strcpy(First, "strcpy_end", 2)
  <2>1. /\ Greetings!At(First, "strcpy") \/ Greetings!At(First, "strcpy_end")
        /\ Greetings!Passes(First) /\ heard' = heard
        /\ mem' = [mem EXCEPT ![1] = First] \/ mem' = [mem EXCEPT ![2] = First]
    BY <1>9 DEF Greetings!strcpy
  <2>2. call[First] > 2
    BY <2>1, ShmCalls
  <2>3. call'[First] = call[First] + 1 /\ call'[Server] = call[Server]
    BY <2>1, GreetingPasses
  <2>4. mem' = <<First, mem[2]>> \/ mem' = <<mem[1], First>>
    BY <2>1 DEF ShmInv
  <2>5. mem'[1] \in {mem[1], First} /\ mem' = <<mem'[1], mem'[2]>>
    BY <2>4
  <2>6. /\ call[Server] = 0 \/ call[Server] > Sized
        /\ call[Server] > Sized + 1 => mem'[1] \in {Server, First}
        /\ call[Server] > Sized + 2 => mem'[1] = First
    BY <2>2, <2>5 DEF ShmInv
  <2>7. ~(call'[First] <= 2)
    <3>1. call[First] \in Nat
      OBVIOUS
    <3> QED BY <2>2, <2>3, <3>1
  <2>8. heard[First] \in {Nobody, Server, "zero"} /\ heard[Server] \in Clients \cup {Nobody, "mixed"}
    BY DEF ShmInv
  <2> QED BY <2>1, <2>3, <2>5, <2>6, <2>7, <2>8 DEF ShmInv
<1> QED BY <1>1, <1>2, <1>3, <1>4, <1>5, <1>6, <1>7, <1>8, <1>9, ShmStep

-----------------------------------------------------------------------------
(* Message queues *)

LEMMA MqCalls ==
    ASSUME pair \in Mqs, NEW p, NEW c, Greetings!At(p, c)
    PROVE  \/ /\ p = Server
              /\ \/ c = "create" /\ call[p] = 1
                 \/ c = "send" /\ call[p] = 2
                 \/ c = "receive" /\ call[p] = 3
                 \/ c = "remove" /\ call[p] = 4
           \/ /\ p = First /\ pair = "posix_mq"
              /\ \/ c = "open" /\ call[p] \in {1, 3}
                 \/ c = "receive" /\ call[p] = 2
                 \/ c = "send" /\ call[p] = 4
           \/ /\ p = First /\ pair = "sysv_mq"
              /\ \/ c = "create" /\ call[p] = 1
                 \/ c = "receive" /\ call[p] = 2
                 \/ c = "send" /\ call[p] = 3
                 \/ c = "remove" /\ call[p] = 4
<1>1. p = Server \/ p = First
  BY GreetingFacts, AtIs DEF Present, Greetings!OneClient, Mqs
<1>2. First # Server
  BY GreetingFacts
<1>3. CASE pair = "posix_mq"
  <2>1. Greetings!Script(Server) = Greetings!posix_mq_server /\ Greetings!Script(First) = Greetings!posix_mq_client
    BY <1>2, <1>3 DEF Greetings!Script, Greetings!Programs, Server, First
  <2> QED BY <1>1, <1>3, <2>1 DEF Greetings!At, Greetings!posix_mq_server, Greetings!posix_mq_client
<1>4. CASE pair = "sysv_mq"
  <2>1. Greetings!Script(Server) = Greetings!sysv_mq_server /\ Greetings!Script(First) = Greetings!sysv_mq_client
    BY <1>2, <1>4 DEF Greetings!Script, Greetings!Programs, Server, First
  <2> QED BY <1>1, <1>4, <2>1 DEF Greetings!At, Greetings!sysv_mq_server, Greetings!sysv_mq_client
<1> QED BY <1>3, <1>4 DEF Mqs, Greetings!Mqs

LEMMA MqStep ==
    ASSUME pair \in Mqs, Greetings!Next
    PROVE  \E p \in {Server, First} :
              \/ Greetings!create(p) \/ Greetings!open(p) \/ Greetings!send(p)
              \/ Greetings!receive(p) \/ Greetings!receive_sleeps(p)
              \/ Greetings!receive_removed(p) \/ Greetings!remove(p)
<1>0. Server # First /\ Greetings!Server = Server /\ Server \notin Clients
  BY GreetingFacts DEF Server
<1>1. ASSUME NEW p, Greetings!Both(p)
      PROVE  /\ p \in {Server, First}
             /\ \/ Greetings!create(p) \/ Greetings!open(p) \/ Greetings!send(p)
                \/ Greetings!receive(p) \/ Greetings!receive_sleeps(p)
                \/ Greetings!receive_removed(p) \/ Greetings!remove(p)
  <2>1. ~Greetings!meet(p) /\ ~Greetings!print(p)
    BY MqCalls DEF Greetings!meet, Greetings!print
  <2>2. ~Greetings!receive_reset(p)
    BY DEF Greetings!receive_reset, Mqs, Greetings!Mqs, Greetings!Streams
  <2>3. \E c : Greetings!At(p, c)
    BY <1>1, <2>1, <2>2 DEF Greetings!Both, Greetings!create, Greetings!open, Greetings!send, Greetings!receive,
           Greetings!receive_sleeps, Greetings!receive_removed, Greetings!remove
  <2>4. p \in {Server, First}
    BY <2>3, MqCalls
  <2> QED BY <1>1, <2>1, <2>2, <2>4 DEF Greetings!Both
<1>2. ASSUME Greetings!ServerStep
      PROVE  Greetings!Both(Server)
  <2>1. ~Greetings!waitpid /\ ~Greetings!accept /\ ~Greetings!reply /\ ~Greetings!shout /\ ~Greetings!close
    BY MqCalls DEF Greetings!waitpid, Greetings!accept, Greetings!reply, Greetings!shout, Greetings!close
  <2>2. ~Greetings!poll /\ ~Greetings!handle_tcp /\ ~Greetings!handle_udp /\ ~Greetings!again
    BY MqCalls DEF Greetings!poll, Greetings!handle_tcp, Greetings!handle_udp, Greetings!again
  <2>3. ~Greetings!prepare /\ ~Greetings!pause
    BY MqCalls DEF Greetings!prepare, Greetings!pause
  <2>4. ~Greetings!ftruncate /\ ~Greetings!greet /\ ~Greetings!watch
    BY MqCalls DEF Greetings!ftruncate, Greetings!greet, Greetings!watch
  <2> QED BY <1>0, <1>2, <2>1, <2>2, <2>3, <2>4 DEF Greetings!ServerStep
<1>3. ASSUME NEW c \in Clients, Greetings!ClientStep(c)
      PROVE  Greetings!Both(c)
  <2>1. /\ ~Greetings!unlink(c) /\ ~Greetings!bind(c) /\ ~Greetings!sendto(c)
        /\ ~Greetings!connect(c) /\ ~Greetings!join(c) /\ ~Greetings!kill(c)
    BY MqCalls DEF Greetings!unlink, Greetings!bind, Greetings!sendto, Greetings!connect, Greetings!join, Greetings!kill
  <2>2. ~Greetings!strcpy(c, "strcpy", 1) /\ ~Greetings!strcpy(c, "strcpy_end", 2)
    BY MqCalls DEF Greetings!strcpy
  <2> QED BY <1>3, <2>1, <2>2 DEF Greetings!ClientStep
<1>4. CASE Greetings!ServerStep
  BY <1>0, <1>1, <1>2, <1>4
<1>5. CASE \E c \in Clients : Greetings!ClientStep(c)
  BY <1>0, <1>1, <1>3, <1>5
<1> QED BY <1>4, <1>5 DEF Greetings!Next

\* Sending either hands the message to a sleeper or leaves it in the queue.
LEMMA MqSend ==
    ASSUME GreetInv, pair \in Mqs, NEW p \in {Server, First}, Greetings!send(p)
    PROVE  \E q \in {Server, First} : \E m \in Letters :
              /\ q # p /\ m.from = p /\ m.to = q
              /\ \/ \E r \in asleep :
                       /\ pair = "posix_mq" \/ r = q
                       /\ asleep' = asleep \ {r}
                       /\ call' = [call EXCEPT ![p] = @ + 1, ![r] = @ + 1]
                       /\ Greetings!Hears(r, p)
                       /\ mail' = mail
                 \/ /\ \A r \in asleep : pair # "posix_mq" /\ r # q
                    /\ mail' \in {mail, Append(mail, m)}
                    /\ Greetings!Passes(p)
                    /\ asleep' = asleep /\ heard' = heard
<1> DEFINE q == IF p = Server THEN First ELSE Server
           m == Greetings!Letter(p, q)
<1>1. q \in {Server, First} /\ q # p /\ q \in Procs /\ p \in Procs
  BY GreetingFacts DEF Procs
<1>2. m \in Letters /\ m.from = p /\ m.to = q
  BY <1>1, LetterIs
<1>3. \A r : Greetings!Accepts(r, m) <=> pair = "posix_mq" \/ r = q
  BY <1>2 DEF Greetings!Accepts, Mqs, Greetings!Mqs, Greetings!Streams
<1>4. pair \notin Greetings!Streams
  BY DEF Mqs, Greetings!Mqs, Greetings!Streams
<1>5. m = Greetings!Letter(p, IF p = Greetings!Server THEN Greetings!First ELSE Greetings!Server)
  BY DEF Server, First
<1> HIDE DEF m, q
<1>6. \/ \E r \in asleep :
            /\ Greetings!Accepts(r, m)
            /\ asleep' = asleep \ {r}
            /\ call' = [call EXCEPT ![p] = @ + 1, ![r] = @ + 1]
            /\ Greetings!Hears(r, p)
            /\ mail' = mail
      \/ /\ \A r \in asleep : ~Greetings!Accepts(r, m)
         /\ mail' \in {mail, Append(mail, m)}
         /\ Greetings!Passes(p)
         /\ asleep' = asleep /\ heard' = heard
  BY <1>4, <1>5 DEF Greetings!send
<1> QED BY <1>1, <1>2, <1>3, <1>6

\* What lies in the queue after a message has been put in or taken out.
LEMMA MqAdded ==
    ASSUME GreetInv, NEW m \in Letters, mail' = Append(mail, m)
    PROVE  \A k \in 1..Len(mail') : \/ k \in 1..Len(mail) /\ mail'[k] = mail[k]
                                    \/ k = Len(mail) + 1 /\ mail'[k] = m
<1>1. Len(mail) \in Nat /\ mail \in Seq(Letters)
  BY DatagramsAre DEF GreetInv, Right
<1>2. /\ Len(mail') = Len(mail) + 1
      /\ \A k \in 1..(Len(mail) + 1) : mail'[k] = IF k <= Len(mail) THEN mail[k] ELSE m
  BY <1>1, AppendProperties
<1> QED BY <1>1, <1>2

LEMMA MqTaken ==
    ASSUME GreetInv, NEW i \in 1..Len(mail), mail' = Greetings!RemoveAt(mail, i)
    PROVE  \A k \in 1..Len(mail') : \/ k < i /\ k \in 1..Len(mail) /\ mail'[k] = mail[k]
                                    \/ k >= i /\ k + 1 \in 1..Len(mail) /\ mail'[k] = mail[k + 1]
<1>1. Len(mail) \in Nat /\ Right(mail, Present)
  BY DatagramsAre DEF GreetInv
<1>2. /\ Len(mail') = Len(mail) - 1
      /\ \A k \in 1..(Len(mail) - 1) : mail'[k] = IF k < i THEN mail[k] ELSE mail[k + 1]
  BY <1>1, TakenOut
<1> QED BY <1>1, <1>2

\* Someone sleeps where he receives, and nothing for him is in the queue.
SysvInv ==
    pair = "sysv_mq" =>
        /\ exists \/ call[Server] > 4 \/ call[First] > 4 \/ (call[Server] = 1 /\ call[First] = 1)
        /\ call[Server] > 3 => call[First] > 3
        /\ asleep \subseteq {Server, First}
        /\ Server \in asleep => call[Server] = 3
        /\ First \in asleep => call[First] = 2
        /\ asleep # {} => exists
        /\ \A k \in 1..Len(mail) : mail[k].to \notin asleep /\ (mail[k].to = Server => call[First] > 3)
        /\ heard[First] \in {Nobody, Server}
        /\ heard[Server] = Server => call[First] > 4

LEMMA SysvNext == GreetInv /\ SysvInv /\ Greetings!Next => SysvInv'
<1> SUFFICES ASSUME GreetInv, SysvInv, Greetings!Next, pair = "sysv_mq" PROVE SysvInv'
  BY PairStays DEF SysvInv
<1>0. /\ Server \in Procs /\ First \in Procs /\ First # Server /\ pair' = pair /\ pair \in Mqs
      /\ call \in [Procs -> Nat] /\ Greetings!Processes = Procs /\ Present = {First}
      /\ Nobody # Server /\ Nobody # First /\ heard = [q \in Procs |-> heard[q]]
  BY PairStays, GreetingFacts DEF GreetInv, Procs, Mqs, Greetings!Mqs, Present, Greetings!OneClient
<1>1. PICK p \in {Server, First} :
              \/ Greetings!create(p) \/ Greetings!open(p) \/ Greetings!send(p)
              \/ Greetings!receive(p) \/ Greetings!receive_sleeps(p)
              \/ Greetings!receive_removed(p) \/ Greetings!remove(p)
  BY <1>0, MqStep
<1>2. p \in Procs
  BY <1>0
<1>3. CASE Greetings!create(p)
  <2>1. call[p] = 1 /\ exists' /\ UNCHANGED <<mail, asleep, heard>>
    BY <1>0, <1>3, MqCalls DEF Greetings!create
  <2>2. \A q \in Procs : call'[q] = IF q = p THEN 2 ELSE call[q]
    BY <1>2, <1>3, <2>1, GreetingPasses DEF Greetings!create
  <2> QED BY <1>0, <2>1, <2>2 DEF SysvInv
<1>4. ~Greetings!open(p)
  BY <1>0, MqCalls DEF Greetings!open
<1>5. CASE Greetings!send(p)
  <2>1. PICK q \in {Server, First}, m \in Letters :
              /\ q # p /\ m.from = p /\ m.to = q
              /\ \/ \E r \in asleep :
                       /\ pair = "posix_mq" \/ r = q
                       /\ asleep' = asleep \ {r}
                       /\ call' = [call EXCEPT ![p] = @ + 1, ![r] = @ + 1]
                       /\ Greetings!Hears(r, p)
                       /\ mail' = mail
                 \/ /\ \A r \in asleep : pair # "posix_mq" /\ r # q
                    /\ mail' \in {mail, Append(mail, m)}
                    /\ Greetings!Passes(p)
                    /\ asleep' = asleep /\ heard' = heard
    BY <1>0, <1>5, MqSend
  <2>2. exists' = exists /\ (p = Server => call[p] = 2) /\ (p = First => call[p] = 3)
    BY <1>0, <1>5, MqCalls DEF Greetings!send
  <2>3. ASSUME q \in asleep, asleep' = asleep \ {q}, call' = [call EXCEPT ![p] = @ + 1, ![q] = @ + 1],
               Greetings!Hears(q, p), mail' = mail
        PROVE  SysvInv'
    <3>1. \A o \in Procs : call'[o] = IF o \in {p, q} THEN call[o] + 1 ELSE call[o]
      BY <1>0, <2>1, <2>3
    <3>2. heard'[q] = p /\ heard'[p] = heard[p]
      BY <1>0, <1>2, <2>1, <2>3, GreetingHears
    <3> QED BY <1>0, <2>1, <2>2, <2>3, <3>1, <3>2 DEF SysvInv
  <2>4. ASSUME q \notin asleep, mail' \in {mail, Append(mail, m)}, Greetings!Passes(p),
               asleep' = asleep, heard' = heard
        PROVE  SysvInv'
    <3>1. \A o \in Procs : call'[o] = IF o = p THEN call[o] + 1 ELSE call[o]
      BY <1>2, <2>4, GreetingPasses
    <3>2. \A k \in 1..Len(mail') : \/ k \in 1..Len(mail) /\ mail'[k] = mail[k]
                                   \/ mail'[k] = m
      BY <2>4, MqAdded
    <3>3. \A k \in 1..Len(mail') : mail'[k].to \notin asleep' /\ (mail'[k].to = Server => call'[First] > 3)
      BY <1>0, <2>1, <2>2, <2>4, <3>1, <3>2 DEF SysvInv
    <3> QED BY <1>0, <2>1, <2>2, <2>4, <3>1, <3>3 DEF SysvInv
  <2> QED BY <2>1, <2>3, <2>4
<1>6. CASE Greetings!receive(p)
  <2>1. PICK i \in 1..Len(mail) :
              /\ Greetings!Accepts(p, mail[i])
              /\ mail' = Greetings!RemoveAt(mail, i)
              /\ Greetings!Hears(p, mail[i].from)
    BY <1>0, <1>6, ReceiveIs
  <2>2. mail[i].to = p
    BY <2>1 DEF Greetings!Accepts
  <2>3. mail[i].from = IF p = Server THEN First ELSE Server
    BY <1>0, <2>1, AcceptedIs
  <2>4. heard'[p] = mail[i].from /\ \A q \in Procs \ {p} : heard'[q] = heard[q]
    BY <1>2, <2>1, GreetingHears
  <2>5. /\ UNCHANGED <<exists, asleep>>
        /\ \A o \in Procs : call'[o] = IF o = p THEN call[o] + 1 ELSE call[o]
    BY <1>2, <1>6, GreetingPasses DEF Greetings!receive
  <2>6. (p = Server => call[p] = 3) /\ (p = First => call[p] = 2)
    BY <1>0, <1>6, MqCalls DEF Greetings!receive
  <2>7. \A k \in 1..Len(mail') : \E j \in 1..Len(mail) : mail'[k] = mail[j]
    BY <2>1, MqTaken
  <2>8. p \notin asleep /\ (p = Server => call[First] > 3)
    BY <2>2 DEF SysvInv
  <2>9. \A k \in 1..Len(mail') : mail'[k].to \notin asleep' /\ (mail'[k].to = Server => call'[First] > 3)
    BY <1>0, <2>5, <2>7 DEF SysvInv
  <2> QED BY <1>0, <2>3, <2>4, <2>5, <2>6, <2>8, <2>9 DEF SysvInv
<1>7. CASE Greetings!receive_sleeps(p)
  <2>1. /\ UNCHANGED <<exists, mail, call, heard>> /\ asleep' = asleep \cup {p} /\ exists
        /\ Greetings!Acceptable(p) = {}
    BY <1>7 DEF Greetings!receive_sleeps
  <2>2. (p = Server => call[p] = 3) /\ (p = First => call[p] = 2)
    BY <1>0, <1>7, MqCalls DEF Greetings!receive_sleeps
  <2>3. \A k \in 1..Len(mail) : mail[k].to # p
    <3>1. DOMAIN mail = 1..Len(mail)
      BY LenProperties DEF GreetInv, Right
    <3> QED BY <2>1, <3>1 DEF Greetings!Acceptable, Greetings!Accepts, Greetings!Streams
  <2> QED BY <1>0, <2>1, <2>2, <2>3 DEF SysvInv
<1>8. CASE Greetings!receive_removed(p)
  <2>1. UNCHANGED <<exists, mail, asleep>> /\ ~exists
    BY <1>8 DEF Greetings!receive_removed, Greetings!media
  <2>2. (p = Server => call[p] = 3) /\ (p = First => call[p] = 2)
    BY <1>0, <1>8, MqCalls DEF Greetings!receive_removed
  <2>3. p = Server /\ call[First] > 4 /\ asleep = {}
    BY <1>0, <2>1, <2>2 DEF SysvInv
  <2>4. heard'[First] = heard[First] /\ \A o \in Procs : call'[o] = IF o = p THEN call[o] + 1 ELSE call[o]
    BY <1>0, <1>2, <1>8, <2>3, GreetingHears, GreetingPasses DEF Greetings!receive_removed
  <2> QED BY <1>0, <2>1, <2>2, <2>3, <2>4 DEF SysvInv
<1>9. CASE Greetings!remove(p)
  <2>1. /\ mail' = <<>> /\ asleep' = {}
        /\ heard' = [q \in Procs |-> IF q \in asleep THEN q ELSE heard[q]]
        /\ call' = [q \in Procs |-> IF q = p \/ q \in asleep THEN call[q] + 1 ELSE call[q]]
    BY <1>0, <1>9 DEF Greetings!remove
  <2>2. call[p] = 4
    BY <1>0, <1>9, MqCalls DEF Greetings!remove
  <2>3. First \notin asleep /\ (p = Server => asleep = {})
    BY <1>0, <2>2 DEF SysvInv
  <2>4. \A k \in 1..Len(mail') : FALSE
    BY <2>1
  <2> QED BY <1>0, <2>1, <2>2, <2>3, <2>4 DEF SysvInv
<1> QED BY <1>1, <1>3, <1>4, <1>5, <1>6, <1>7, <1>8, <1>9

\* The server's greeting is in the queue, or one of the two has read it.
PosixInv ==
    pair = "posix_mq" =>
        /\ asleep \subseteq {Server, First}
        /\ Server \in asleep => call[Server] = 3
        /\ First \in asleep => call[First] = 2
        /\ asleep # {} => Len(mail) = 0
        /\ \A k \in 1..Len(mail) :
              IF mail[k].from = Server
              THEN /\ call[Server] > 2
                   /\ heard[Server] # Server /\ heard[First] # Server
                   /\ \A j \in 1..Len(mail) : mail[j].from = Server => j = k
              ELSE mail[k].from = First /\ call[First] > 4
        /\ call[Server] <= 2 => heard[Server] # Server /\ heard[First] # Server
        /\ heard[Server] = Server => heard[First] # Server
        /\ heard[First] \in {Nobody, Server}

LEMMA PosixNext == GreetInv /\ PosixInv /\ Greetings!Next => PosixInv'
<1> SUFFICES ASSUME GreetInv, PosixInv, Greetings!Next, pair = "posix_mq" PROVE PosixInv'
  BY PairStays DEF PosixInv
<1>0. /\ Server \in Procs /\ First \in Procs /\ First # Server /\ pair' = pair /\ pair \in Mqs
      /\ call \in [Procs -> Nat] /\ Greetings!Processes = Procs /\ Present = {First}
      /\ Nobody # Server /\ Nobody # First /\ heard = [q \in Procs |-> heard[q]] /\ Len(mail) \in Nat
  BY PairStays, GreetingFacts, DatagramsAre DEF GreetInv, Procs, Mqs, Greetings!Mqs, Present, Greetings!OneClient
<1>1. PICK p \in {Server, First} :
              \/ Greetings!create(p) \/ Greetings!open(p) \/ Greetings!send(p)
              \/ Greetings!receive(p) \/ Greetings!receive_sleeps(p)
              \/ Greetings!receive_removed(p) \/ Greetings!remove(p)
  BY <1>0, MqStep
<1>2. p \in Procs
  BY <1>0
<1>3. CASE Greetings!create(p) \/ Greetings!open(p)
  <2>1. UNCHANGED <<mail, asleep, heard>>
    BY <1>3 DEF Greetings!create, Greetings!open, Greetings!media
  <2>2. p = First => call[First] \in {1, 3}
    BY <1>0, <1>3, MqCalls DEF Greetings!create, Greetings!open
  <2>3. p = Server => call[Server] = 1 /\ Greetings!Passes(p)
    BY <1>0, <1>3, MqCalls DEF Greetings!create, Greetings!open
  <2>4. \A q \in Procs \ {p} : call'[q] = call[q]
    BY <1>2, <1>3, GreetingPasses, GreetingFails DEF Greetings!create, Greetings!open
  <2>5. CASE p = First
    <3>1. call'[Server] = call[Server] /\ First \notin asleep
      BY <1>0, <2>2, <2>4, <2>5 DEF PosixInv
    <3>2. \A k \in 1..Len(mail) : mail[k].from = Server
      BY <1>0, <2>2, <2>5 DEF PosixInv
    <3> QED BY <1>0, <2>1, <3>1, <3>2 DEF PosixInv
  <2>6. CASE p = Server
    <3>1. call'[Server] = 2 /\ call'[First] = call[First] /\ Server \notin asleep
      BY <1>0, <2>3, <2>4, <2>6, GreetingPasses DEF PosixInv
    <3>2. \A k \in 1..Len(mail) : mail[k].from # Server
      BY <1>0, <2>3, <2>6 DEF PosixInv
    <3> QED BY <1>0, <2>1, <2>3, <2>6, <3>1, <3>2 DEF PosixInv
  <2> QED BY <2>5, <2>6
<1>4. CASE Greetings!send(p)
  <2>1. PICK q \in {Server, First}, m \in Letters :
              /\ q # p /\ m.from = p /\ m.to = q
              /\ \/ \E r \in asleep :
                       /\ pair = "posix_mq" \/ r = q
                       /\ asleep' = asleep \ {r}
                       /\ call' = [call EXCEPT ![p] = @ + 1, ![r] = @ + 1]
                       /\ Greetings!Hears(r, p)
                       /\ mail' = mail
                 \/ /\ \A r \in asleep : pair # "posix_mq" /\ r # q
                    /\ mail' \in {mail, Append(mail, m)}
                    /\ Greetings!Passes(p)
                    /\ asleep' = asleep /\ heard' = heard
    BY <1>0, <1>4, MqSend
  <2>2. (p = Server => call[p] = 2) /\ (p = First => call[p] = 4)
    BY <1>0, <1>4, MqCalls DEF Greetings!send
  <2>3. ASSUME NEW r \in asleep, asleep' = asleep \ {r}, call' = [call EXCEPT ![p] = @ + 1, ![r] = @ + 1],
               Greetings!Hears(r, p), mail' = mail
        PROVE  PosixInv'
    <3>1. r \in {Server, First} /\ r # p /\ Len(mail) = 0
      BY <2>2, <2>3 DEF PosixInv
    <3>2. \A o \in Procs : call'[o] = IF o \in {p, r} THEN call[o] + 1 ELSE call[o]
      BY <1>0, <2>3, <3>1
    <3>3. heard'[r] = p /\ heard'[p] = heard[p]
      BY <1>0, <1>2, <2>3, <3>1, GreetingHears
    <3> QED BY <1>0, <2>2, <2>3, <3>1, <3>2, <3>3 DEF PosixInv
  <2>4. ASSUME asleep = {}, mail' \in {mail, Append(mail, m)}, Greetings!Passes(p),
               asleep' = asleep, heard' = heard
        PROVE  PosixInv'
    <3>1. \A o \in Procs : call'[o] = IF o = p THEN call[o] + 1 ELSE call[o]
      BY <1>2, <2>4, GreetingPasses
    <3>2. \A k \in 1..Len(mail') : \/ k \in 1..Len(mail) /\ mail'[k] = mail[k]
                                   \/ k = Len(mail) + 1 /\ mail'[k] = m
      BY <2>1, <2>4, MqAdded
    <3>3. ASSUME NEW k \in 1..Len(mail')
          PROVE  IF mail'[k].from = Server
                 THEN /\ call'[Server] > 2
                      /\ heard[Server] # Server /\ heard[First] # Server
                      /\ \A j \in 1..Len(mail') : mail'[j].from = Server => j = k
                 ELSE mail'[k].from = First /\ call'[First] > 4
      <4>1. CASE p = Server
        <5>1. \A j \in 1..Len(mail) : mail[j].from = First /\ call[First] > 4
          BY <1>0, <2>2, <4>1 DEF PosixInv
        <5>2. heard[Server] # Server /\ heard[First] # Server /\ call'[Server] = 3 /\ call'[First] = call[First]
          BY <1>0, <2>2, <3>1, <4>1 DEF PosixInv
        <5> QED BY <1>0, <2>1, <3>2, <4>1, <5>1, <5>2
      <4>2. CASE p = First
        <5>1. \A j \in 1..Len(mail) : mail[j].from = Server
          BY <1>0, <2>2, <4>2 DEF PosixInv
        <5>2. call'[Server] = call[Server] /\ call'[First] = 5
          BY <1>0, <2>2, <3>1, <4>2
        <5>3. CASE k \in 1..Len(mail) /\ mail'[k] = mail[k]
          <6>1. /\ mail[k].from = Server /\ call[Server] > 2 /\ heard[Server] # Server /\ heard[First] # Server
                /\ \A j \in 1..Len(mail) : mail[j].from = Server => j = k
            BY <5>1, <5>3 DEF PosixInv
          <6>2. \A j \in 1..Len(mail') : mail'[j].from = Server => j = k
            BY <1>0, <2>1, <3>2, <4>2, <6>1
          <6> QED BY <5>2, <5>3, <6>1, <6>2
        <5>4. CASE mail'[k] = m
          BY <1>0, <2>1, <4>2, <5>2, <5>4
        <5> QED BY <3>2, <5>3, <5>4
      <4> QED BY <4>1, <4>2
    <3>4. call'[Server] <= 2 => heard[Server] # Server /\ heard[First] # Server
      BY <1>0, <2>2, <3>1 DEF PosixInv
    <3> QED BY <1>0, <2>4, <3>3, <3>4 DEF PosixInv
  <2> QED BY <2>1, <2>3, <2>4
<1>5. CASE Greetings!receive(p)
  <2>1. PICK i \in 1..Len(mail) :
              /\ mail' = Greetings!RemoveAt(mail, i)
              /\ Greetings!Hears(p, mail[i].from)
    BY <1>0, <1>5, ReceiveIs
  <2>2. heard'[p] = mail[i].from /\ \A q \in Procs \ {p} : heard'[q] = heard[q]
    BY <1>2, <2>1, GreetingHears
  <2>3. /\ asleep' = asleep /\ asleep = {}
        /\ \A o \in Procs : call'[o] = IF o = p THEN call[o] + 1 ELSE call[o]
    BY <1>0, <1>2, <1>5, GreetingPasses DEF Greetings!receive, PosixInv
  <2>4. (p = Server => call[p] = 3) /\ (p = First => call[p] = 2)
    BY <1>0, <1>5, MqCalls DEF Greetings!receive
  <2>5. \A k \in 1..Len(mail') : \/ k < i /\ k \in 1..Len(mail) /\ mail'[k] = mail[k]
                                 \/ k >= i /\ k + 1 \in 1..Len(mail) /\ mail'[k] = mail[k + 1]
    BY <2>1, MqTaken
  <2>6. \A k \in 1..Len(mail') : \E j \in 1..Len(mail) : mail'[k] = mail[j] /\ j # i
    BY <1>0, <2>5
  <2>7. CASE mail[i].from = Server
    <3>1. heard[Server] # Server /\ heard[First] # Server /\ call[Server] > 2
      BY <2>7 DEF PosixInv
    <3>2. \A k \in 1..Len(mail') : mail'[k].from = First /\ call[First] > 4
      BY <1>0, <2>6, <2>7 DEF PosixInv
    <3>3. (heard'[Server] = Server => heard'[First] # Server) /\ heard'[First] \in {Nobody, Server}
      BY <1>0, <2>2, <2>7, <3>1 DEF PosixInv
    <3> QED BY <1>0, <2>3, <2>4, <3>1, <3>2, <3>3 DEF PosixInv
  <2>8. CASE mail[i].from # Server
    <3>1. mail[i].from = First /\ call[First] > 4 /\ p = Server
      BY <1>0, <2>4, <2>8 DEF PosixInv
    <3>2. heard'[Server] = First /\ heard'[First] = heard[First] /\ call'[First] = call[First] /\ call'[Server] = 4
      BY <1>0, <2>2, <2>3, <2>4, <3>1
    <3>3. ASSUME NEW k \in 1..Len(mail'), mail'[k].from = Server
          PROVE  heard[First] # Server /\ \A j \in 1..Len(mail') : mail'[j].from = Server => j = k
      <4>1. \A x, y \in 1..Len(mail) : mail[x].from = Server /\ mail[y].from = Server => x = y /\ heard[First] # Server
        BY DEF PosixInv
      <4>2. ASSUME NEW j \in 1..Len(mail'), mail'[j].from = Server PROVE j = k
        <5>1. PICK x \in 1..Len(mail) : mail'[k] = mail[x] /\ x = IF k < i THEN k ELSE k + 1
          BY <1>0, <2>5
        <5>2. PICK y \in 1..Len(mail) : mail'[j] = mail[y] /\ y = IF j < i THEN j ELSE j + 1
          BY <1>0, <2>5
        <5>3. x = y
          BY <3>3, <4>1, <4>2, <5>1, <5>2
        <5> QED BY <5>1, <5>2, <5>3
      <4>3. heard[First] # Server
        BY <2>6, <3>3 DEF PosixInv
      <4> QED BY <4>2, <4>3
    <3>4. \A k \in 1..Len(mail') : mail'[k].from \in {Server, First}
      BY <2>6 DEF PosixInv
    <3>5. \A k \in 1..Len(mail') : IF mail'[k].from = Server
              THEN /\ call'[Server] > 2
                   /\ heard'[Server] # Server /\ heard'[First] # Server
                   /\ \A j \in 1..Len(mail') : mail'[j].from = Server => j = k
              ELSE mail'[k].from = First /\ call'[First] > 4
      BY <1>0, <3>1, <3>2, <3>3, <3>4
    <3> QED BY <1>0, <2>3, <3>2, <3>5 DEF PosixInv
  <2> QED BY <2>7, <2>8
<1>6. CASE Greetings!receive_sleeps(p)
  <2>1. /\ UNCHANGED <<mail, call, heard>> /\ asleep' = asleep \cup {p}
        /\ Greetings!Acceptable(p) = {}
    BY <1>6 DEF Greetings!receive_sleeps
  <2>2. (p = Server => call[p] = 3) /\ (p = First => call[p] = 2)
    BY <1>0, <1>6, MqCalls DEF Greetings!receive_sleeps
  <2>3. Len(mail) = 0
    <3>1. DOMAIN mail = 1..Len(mail)
      BY LenProperties DEF GreetInv, Right
    <3>2. \A k \in 1..Len(mail) : FALSE
      BY <2>1, <3>1 DEF Greetings!Acceptable, Greetings!Accepts, Greetings!Streams
    <3>3. 1 \in 1..Len(mail) \/ Len(mail) = 0
      BY <1>0
    <3> QED BY <3>2, <3>3
  <2> QED BY <1>0, <2>1, <2>2, <2>3 DEF PosixInv
<1>7. ~Greetings!receive_removed(p)
  BY DEF Greetings!receive_removed
<1>8. CASE Greetings!remove(p)
  <2>1. /\ mail' = mail /\ asleep' = asleep
        /\ heard' = [q \in Procs |-> heard[q]]
        /\ call' = [q \in Procs |-> IF q = p THEN call[q] + 1 ELSE call[q]]
    BY <1>0, <1>8 DEF Greetings!remove
  <2>2. call[p] = 4 /\ p = Server
    BY <1>0, <1>8, MqCalls DEF Greetings!remove
  <2>3. call'[Server] = 5 /\ call'[First] = call[First] /\ heard' = heard /\ Server \notin asleep
    BY <1>0, <2>1, <2>2 DEF PosixInv
  <2> QED BY <1>0, <2>1, <2>2, <2>3 DEF PosixInv
<1> QED BY <1>1, <1>3, <1>4, <1>5, <1>6, <1>7, <1>8

-----------------------------------------------------------------------------
(* The exchanges: the theorem *)

\* Everything that the proof needs to know of the greetings at once.
GreetingInv == GreetInv /\ OthersHear /\ ShmInv /\ SysvInv /\ PosixInv

LEMMA GreetingStarts == Greetings!Init => GreetingInv
<1> SUFFICES ASSUME Greetings!Init PROVE GreetingInv
  OBVIOUS
<1>1. GreetInv
  BY GreetInit
<1>2. /\ Server \in Procs /\ First \in Procs /\ Present \subseteq Procs /\ Nobody # Server
      /\ Greetings!Processes = Procs
  BY GreetingFacts DEF Procs, Present
<1>3. /\ \A p \in Procs : call[p] = 1 /\ heard[p] = Nobody
      /\ mail = <<>> /\ asleep = {} /\ mem = <<"none", "none">>
  BY <1>2 DEF Greetings!Init
<1>4. OthersHear /\ SysvInv /\ PosixInv
  BY <1>2, <1>3 DEF OthersHear, SysvInv, PosixInv
<1>5. Sized \in {1, 2}
  BY DEF Sized
<1>6. ShmInv
  BY <1>2, <1>3, <1>5 DEF ShmInv
<1> QED BY <1>1, <1>4, <1>6 DEF GreetingInv

LEMMA GreetingGoesOn == GreetingInv /\ [Greetings!Next]_(Greetings!vars) => GreetingInv'
<1> SUFFICES ASSUME GreetingInv, [Greetings!Next]_(Greetings!vars) PROVE GreetingInv'
  OBVIOUS
<1>1. CASE Greetings!Next
  BY <1>1, GreetNext, OthersNext, ShmNext, SysvNext, PosixNext DEF GreetingInv
<1>2. CASE UNCHANGED Greetings!vars
  <2>1. UNCHANGED <<pair, call, exists, mail, asleep, mem, line, peer, ready, heard>>
    BY <1>2 DEF Greetings!vars, Greetings!media
  <2>2. GreetInv'
    BY <2>1, QuietStep DEF GreetingInv, GreetInv
  <2>3. Present' = Present /\ Sized' = Sized
    BY <2>1 DEF Present, Greetings!Present, Sized
  <2>4. OthersHear'
    BY <2>1, <2>3 DEF GreetingInv, OthersHear
  <2>5. ShmInv'
    BY <2>1, <2>3 DEF GreetingInv, ShmInv
  <2>6. SysvInv' /\ PosixInv'
    BY <2>1 DEF GreetingInv, SysvInv, PosixInv
  <2> QED BY <2>2, <2>4, <2>5, <2>6 DEF GreetingInv
<1> QED BY <1>1, <1>2

LEMMA GreetingShows == GreetingInv => HeardRight
<1> SUFFICES ASSUME GreetingInv PROVE HeardRight
  OBVIOUS
<1>1. /\ Greetings!Server = Server /\ Greetings!First = First
      /\ Greetings!Present = Present /\ Mqs = Greetings!Mqs /\ Shms = Greetings!Shms
      /\ First # Server /\ First \in Clients
  BY GreetingFacts DEF Server, First, Present, Mqs, Shms
<1>2. /\ Present = {First} \/ pair \notin Mqs \cup Shms
      /\ "posix_mq" \in Mqs /\ "sysv_mq" \in Mqs
      /\ pair \in Mqs => pair \in {"posix_mq", "sysv_mq"}
      /\ Mqs \cap Shms = {} /\ Mqs \cap Greetings!Signals = {} /\ Shms \cap Greetings!Signals = {}
  BY GreetingFacts DEF Present, Greetings!OneClient, Mqs, Shms, Greetings!Mqs, Greetings!Shms, Greetings!Signals
<1>3. \A c \in Present : heard[c] \in {Nobody, Server} \cup (IF pair \in Shms THEN {"zero"} ELSE {})
  BY <1>2 DEF GreetingInv, OthersHear, ShmInv, SysvInv, PosixInv
<1>4. pair = "posix_mq" => (heard[Server] = Server => heard[First] # Server)
  BY DEF GreetingInv, PosixInv
<1>5. pair = "sysv_mq" => (heard[Server] = Server => Greetings!Finished(First))
  <2> SUFFICES ASSUME pair = "sysv_mq", heard[Server] = Server PROVE Greetings!Finished(First)
    OBVIOUS
  <2>1. call[First] > 4
    BY DEF GreetingInv, SysvInv
  <2>2. Greetings!Script(First) = Greetings!sysv_mq_client
    BY <1>1 DEF Greetings!Script, Greetings!Programs
  <2>3. Len(Greetings!sysv_mq_client) = 4
    BY DEF Greetings!sysv_mq_client
  <2> QED BY <2>1, <2>2, <2>3 DEF Greetings!Finished
<1>6. pair \in Shms => heard[Server] \in Clients \cup {Nobody, "mixed"}
  BY DEF GreetingInv, ShmInv
<1>7. pair \notin Mqs \cup Shms =>
         heard[Server] \in IF pair \in Greetings!Signals THEN {Nobody, "SIGUSR1"} ELSE Present \cup {Nobody}
  BY DEF GreetingInv, OthersHear
<1> HIDE DEF Server, First
<1> QED BY <1>1, <1>2, <1>3, <1>4, <1>5, <1>6, <1>7 DEF HeardRight, Greetings!HeardRight

\* In every exchange, whatever the order in which the two sides come, each side
\* prints what the other has sent; HeardRight says which exceptions the shared
\* queues and the shared memory allow.
THEOREM GreetingsHeardRight == Greetings!Spec => []HeardRight
<1>1. GreetingInv => HeardRight
  BY GreetingShows
<1>2. Greetings!Init => GreetingInv
  BY GreetingStarts
<1>3. GreetingInv /\ [Greetings!Next]_(Greetings!vars) => GreetingInv'
  BY GreetingGoesOn
<1> QED BY <1>1, <1>2, <1>3, PTL DEF Greetings!Spec

-----------------------------------------------------------------------------
(* The runs *)

\* The file manager and the phone book do not disturb each other.
THEOREM DeskIsBoth == DeskSpec => Spec /\ Phone!Spec
<1>1. DeskInit => Init /\ Phone!Init
  BY DEF DeskInit
<1>2. [DeskNext]_<<desk, vars, list>> => [Next]_vars
  BY DEF DeskNext
<1>3. [DeskNext]_<<desk, vars, list>> => [Phone!Next]_(Phone!vars)
  BY DEF DeskNext, list, Phone!vars
<1> QED BY <1>1, <1>2, <1>3, PTL DEF DeskSpec, Spec, Phone!Spec

\* Nor do the exercises, so what holds of each program holds of the run.
THEOREM ExercisesKeepPromises ==
    ExercisesSpec => [](HeardRight /\ Counted /\ BooksBalance /\ WholeReads)
<1> DEFINE v == <<exercise, greetings, counting, shopping, reading>>
<1>1. ExercisesInit => Greetings!Init /\ Counters!Init /\ Shops!Init /\ Strings!Init
  BY DEF ExercisesInit
<1>2. /\ UNCHANGED greetings => UNCHANGED Greetings!vars
      /\ UNCHANGED counting => UNCHANGED Counters!vars
      /\ UNCHANGED shopping => UNCHANGED Shops!vars
      /\ UNCHANGED reading => UNCHANGED Strings!vars
  BY DEF greetings, counting, shopping, reading, Greetings!vars, Greetings!media, Counters!vars, Shops!vars, Strings!vars
<1>3. [ExercisesNext]_v => [Greetings!Next]_(Greetings!vars)
  BY <1>2 DEF ExercisesNext
<1>4. [ExercisesNext]_v => [Counters!Next]_(Counters!vars)
  BY <1>2 DEF ExercisesNext
<1>5. [ExercisesNext]_v => [Shops!Next]_(Shops!vars)
  BY <1>2 DEF ExercisesNext
<1>6. [ExercisesNext]_v => [Strings!Next]_(Strings!vars)
  BY <1>2 DEF ExercisesNext
<1> HIDE DEF v
<1>7. Greetings!Init /\ [][Greetings!Next]_(Greetings!vars) => []HeardRight
  BY GreetingStarts, GreetingGoesOn, GreetingShows, PTL
<1>8. Counters!Init /\ [][Counters!Next]_(Counters!vars) => []Counted
  BY CounterInit, CounterStep, CounterCounts, PTL
<1>9. Shops!Init /\ [][Shops!Next]_(Shops!vars) => []BooksBalance
  BY ShopStarts, ShopStep, ShopBalances, PTL
<1>10. Strings!Init /\ [][Strings!Next]_(Strings!vars) => []WholeReads
  BY StringStarts, StringStep, StringReads, PTL
<1>11. ExercisesSpec => ExercisesInit /\ [][ExercisesNext]_v
  BY DEF ExercisesSpec, v
<1> QED BY <1>1, <1>3, <1>4, <1>5, <1>6, <1>7, <1>8, <1>9, <1>10, <1>11, PTL
=============================================================================
