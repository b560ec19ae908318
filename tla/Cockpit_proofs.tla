--------------------------- MODULE Cockpit_proofs ---------------------------
(***************************************************************************)
(* Proofs about Cockpit, for every set of machines, every inventory the    *)
(* providers may list, every filter and every bound: the cursor and the    *)
(* shown rows stay current whatever is handled, the list differs from what *)
(* was asked for only while a refresh is on its way, a checking glyph has  *)
(* a check behind it, and refreshes are applied in order but for the first *)
(* two.                                                                    *)
(*                                                                         *)
(* The inductive invariant is those properties together: the handlers read *)
(* the selected row through the cursor, so the types rest on the cursor    *)
(* being in range.  It adds how sequence numbers follow the refreshes.     *)
(***************************************************************************)
EXTENDS Cockpit, MemoryValue_proofs, FiniteSetTheorems

\* Rows by machine, for the machines listed, and the refreshes under way.
Tables == UNION {[D -> Overlays] : D \in SUBSET Machine}

Refreshes == [n : 1 .. MaxRefreshes, seq : 1 .. MaxRefreshes,
              running : BOOLEAN, show : BOOLEAN,
              todo : SUBSET Machine, got : Tables]

\* TypeOK, with its tables as members of one set.
Types ==
    /\ ValuesOK
    /\ rows \in Tables
    /\ fetches \subseteq Refreshes

\* A refresh carries the number of refreshes issued before it, except that
\* the initial one, whose increment is lost, shares 1 with the next.
SeqFollowsIssue ==
    /\ issued = refreshSeq + 1
    /\ applied <= issued
    /\ \A f \in fetches :
          f.n <= issued /\ f.seq = IF f.n = 1 THEN 1 ELSE f.n - 1

IInv ==
    /\ Types
    /\ CursorInRange
    /\ VisibleIsCurrent
    /\ FilteredOrRefreshing
    /\ GlyphMeansPending
    /\ SeqFollowsIssue

----------------------------------------------------------------------------
(* Rows *)

LEMMA KeptFinite ==
  ASSUME NEW rws \in Tables, NEW show, NEW f, NEW srch
  PROVE  /\ Kept(rws, show, f, srch) \subseteq DOMAIN rws
         /\ IsFiniteSet(Kept(rws, show, f, srch))
         /\ Cardinality(Kept(rws, show, f, srch)) \in Nat
<1>1. Kept(rws, show, f, srch) \subseteq DOMAIN rws
  BY DEF Kept
<1>2. DOMAIN rws \subseteq Machine
  BY DEF Tables
<1>3. IsFiniteSet(Kept(rws, show, f, srch))
  BY <1>1, <1>2, MachineAssumption, FS_Subset
<1>4. QED
  BY <1>1, <1>3, FS_CardinalityType

\* recompute: whatever the rows and the query have become, the list shows
\* copies of the rows asked for, and the cursor is on one of them.
LEMMA RecomputeShows ==
  ASSUME rows' \in Tables, cursor \in Nat, Recompute
  PROVE  /\ visible' \in Seq([id : Machine, row : Overlays])
         /\ cursor' \in Nat
         /\ CursorInRange'
         /\ VisibleIsCurrent'
         /\ Shown' = Wanted'
<1> DEFINE S == Kept(rows', showHidden', filter', search')
           n == Cardinality(S)
<1>1. S \subseteq DOMAIN rows' /\ n \in Nat
  BY KeptFinite
<1>2. PICK q \in Listings(S) :
        /\ visible' = [i \in DOMAIN q |-> [id |-> q[i], row |-> rows'[q[i]]]]
        /\ cursor' = IF q = <<>> THEN 0
                     ELSE IF cursor >= Len(q) THEN Len(q) - 1
                     ELSE cursor
  BY DEF Recompute
<1>3. q \in [1 .. n -> S] /\ DOMAIN q = 1 .. n
  BY <1>2 DEF Listings
<1>4. \A m \in S : \E i \in 1 .. n : q[i] = m
  BY <1>2, <1>3 DEF Listings
<1>5. q \in Seq(S) /\ Len(q) = n
  BY <1>1, <1>3
<1>6. DOMAIN visible' = 1 .. n
  BY <1>2, <1>3
<1>7. \A i \in 1 .. n : /\ q[i] \in S
                        /\ visible'[i] = [id |-> q[i], row |-> rows'[q[i]]]
                        /\ visible'[i].id = q[i]
                        /\ visible'[i].row = rows'[q[i]]
  <2>1. \A i \in 1 .. n : q[i] \in S
    BY <1>3
  <2>2. \A i \in 1 .. n :
           visible'[i] = [id |-> q[i], row |-> rows'[q[i]]]
    BY <1>2, <1>3
  <2>3. QED
    BY <2>1, <2>2
<1>8. DOMAIN rows' \subseteq Machine /\ \A m \in DOMAIN rows' : rows'[m] \in Overlays
  BY DEF Tables
<1>9. visible' \in Seq([id : Machine, row : Overlays]) /\ Len(visible') = n
  <2> DEFINE T == [id : Machine, row : Overlays]
  <2>1. \A i \in 1 .. n : visible'[i] \in T
    <3> SUFFICES ASSUME NEW i \in 1 .. n PROVE visible'[i] \in T
      OBVIOUS
    <3>1. q[i] \in Machine /\ rows'[q[i]] \in Overlays
      BY <1>1, <1>7, <1>8
    <3>2. [id |-> q[i], row |-> rows'[q[i]]] \in T
      BY <3>1
    <3>3. visible'[i] = [id |-> q[i], row |-> rows'[q[i]]]
      BY <1>7
    <3> HIDE DEF T
    <3>4. QED
      BY <3>2, <3>3
  <2>2. visible' = [i \in 1 .. n |-> visible'[i]]
    BY <1>2, <1>3
  <2> HIDE DEF T
  <2>3. visible' \in [1 .. n -> T]
    BY <2>1, <2>2
  <2>4. visible' \in Seq(T) /\ Len(visible') = n
    BY <1>1, <2>3
  <2>5. QED
    BY <2>4 DEF T
<1>10. cursor' \in Nat /\ CursorInRange'
  <2>1. visible' = <<>> <=> n = 0
    BY <1>1, <1>9
  <2>2. q = <<>> <=> n = 0
    BY <1>1, <1>5
  <2>3. CASE n = 0
    BY <1>2, <2>1, <2>2, <2>3 DEF CursorInRange
  <2>4. CASE n # 0
    <3>1. cursor' = IF cursor >= n THEN n - 1 ELSE cursor
      BY <1>2, <1>5, <2>2, <2>4
    <3>2. cursor' \in Nat /\ cursor' < n
      BY <1>1, <2>4, <3>1
    <3>3. QED
      BY <1>9, <2>1, <2>4, <3>2 DEF CursorInRange
  <2>5. QED
    BY <2>3, <2>4
<1>11. VisibleIsCurrent'
  BY <1>1, <1>6, <1>7 DEF VisibleIsCurrent
<1>12. Shown' = Wanted'
  <2>1. Shown' = {visible'[i].id : i \in 1 .. n}
    BY <1>6 DEF Shown
  <2>2. ASSUME NEW m \in S PROVE m \in Shown'
    <3>1. PICK i \in 1 .. n : q[i] = m
      BY <1>4
    <3>2. visible'[i].id = m
      BY <1>7, <3>1
    <3>3. QED
      BY <2>1, <3>2
  <2>3. ASSUME NEW m \in Shown' PROVE m \in S
    <3>1. PICK i \in 1 .. n : visible'[i].id = m
      BY <2>1
    <3>2. q[i] = m /\ q[i] \in S
      BY <1>7, <3>1
    <3>3. QED
      BY <3>2
  <2>4. Wanted' = S
    BY DEF Wanted
  <2>5. QED
    BY <2>2, <2>3, <2>4
<1>13. QED
  BY <1>9, <1>10, <1>11, <1>12

\* A key that acts on the selected machine finds a row under the cursor.
LEMMA SelectedRow ==
  ASSUME Types, CursorInRange, VisibleIsCurrent, visible # <<>>
  PROVE  /\ Selected.id \in Machine /\ Selected.row \in Overlays
         /\ Selected.id \in DOMAIN rows
<1>1. visible \in Seq([id : Machine, row : Overlays]) /\ cursor \in Nat
  BY DEF Types, ValuesOK
<1>2. cursor + 1 \in 1 .. Len(visible)
  BY <1>1 DEF CursorInRange
<1>3. Selected \in [id : Machine, row : Overlays]
  <2> DEFINE T == [id : Machine, row : Overlays]
  <2>1. visible \in Seq(T)
    BY <1>1
  <2> HIDE DEF T
  <2>2. visible[cursor + 1] \in T
    BY <1>2, <2>1
  <2>3. QED
    BY <2>2 DEF T, Selected
<1>4. cursor + 1 \in DOMAIN visible
  BY <1>1, <1>2
<1>5. Selected.id \in DOMAIN rows
  BY <1>4 DEF Selected, VisibleIsCurrent
<1>6. QED
  BY <1>3, <1>5

LEMMA RowOfType ==
  ASSUME NEW overlay \in Overlays
  PROVE  RowOf(overlay) \in Overlays
  BY ListedAssumption DEF RowOf, Overlays

\* Replacing a row, or adding one, leaves rows by machine.
LEMMA ReplacedType ==
  ASSUME NEW t \in Tables, NEW m, NEW row \in Overlays
  PROVE  [t EXCEPT ![m] = row] \in Tables
  BY DEF Tables

LEMMA WithType ==
  ASSUME NEW t \in Tables, NEW m \in Machine, NEW row \in Overlays
  PROVE  With(t, m, row) \in Tables
<1>1. PICK D \in SUBSET Machine : t \in [D -> Overlays]
  BY DEF Tables
<1>2. With(t, m, row) \in [D \cup {m} -> Overlays]
  BY <1>1 DEF With
<1>3. D \cup {m} \in SUBSET Machine
  OBVIOUS
<1>4. QED
  BY <1>2, <1>3 DEF Tables

----------------------------------------------------------------------------
(* What a step leaves alone *)

LEMMA SameView ==
  ASSUME CursorInRange, VisibleIsCurrent, UNCHANGED <<rows, visible, cursor>>
  PROVE  CursorInRange' /\ VisibleIsCurrent'
  BY DEF CursorInRange, VisibleIsCurrent

LEMMA SameFilter ==
  ASSUME FilteredOrRefreshing, UNCHANGED <<rows, visible, query>>,
         (\E f \in fetches : f.seq >= refreshSeq) =>
            (\E f \in fetches : f.seq >= refreshSeq)'
  PROVE  FilteredOrRefreshing'
  BY DEF FilteredOrRefreshing, Shown, Wanted, query

LEMMA SameGlyphs ==
  ASSUME GlyphMeansPending, UNCHANGED <<inflight, checks>>
  PROVE  GlyphMeansPending'
  BY DEF GlyphMeansPending

LEMMA SameSeq ==
  ASSUME SeqFollowsIssue, UNCHANGED refresh
  PROVE  SeqFollowsIssue'
  BY DEF SeqFollowsIssue, refresh

LEMMA SameAll ==
  ASSUME IInv, UNCHANGED vars
  PROVE  IInv'
<1>1. Types'
  BY DEF IInv, Types, ValuesOK, vars, table, query, refresh, health, session
<1>2. CursorInRange' /\ VisibleIsCurrent'
  BY SameView DEF IInv, vars, table
<1>3. FilteredOrRefreshing'
  BY SameFilter DEF IInv, vars, table, query, refresh
<1>4. GlyphMeansPending'
  BY SameGlyphs DEF IInv, vars, health
<1>5. SeqFollowsIssue'
  BY SameSeq DEF IInv, vars, refresh
<1>6. QED
  BY <1>1, <1>2, <1>3, <1>4, <1>5 DEF IInv

\* A refresh issued by a key or a message: there is one on its way to be
\* applied, and it carries the next number.
LEMMA Issued ==
  ASSUME Types, SeqFollowsIssue, IssueRefresh
  PROVE  /\ refreshSeq' \in 0 .. MaxRefreshes
         /\ issued' \in 1 .. MaxRefreshes
         /\ applied' \in 0 .. MaxRefreshes
         /\ fetches' \subseteq Refreshes
         /\ (\E f \in fetches : f.seq >= refreshSeq)'
         /\ SeqFollowsIssue'
<1> DEFINE new == [n |-> issued + 1, seq |-> refreshSeq + 1, running |-> FALSE,
                   show |-> FALSE, todo |-> {}, got |-> <<>>]
<1>1. /\ issued < MaxRefreshes
      /\ issued' = issued + 1
      /\ refreshSeq' = refreshSeq + 1
      /\ fetches' = fetches \cup {new}
      /\ applied' = applied
  BY DEF IssueRefresh
<1>2. /\ issued \in 1 .. MaxRefreshes /\ applied \in 0 .. MaxRefreshes
      /\ refreshSeq \in 0 .. MaxRefreshes /\ fetches \subseteq Refreshes
      /\ MaxRefreshes \in Nat
  BY BoundsAssumption DEF Types, ValuesOK
<1>3. issued = refreshSeq + 1 /\ applied <= issued
  BY DEF SeqFollowsIssue
<1>4. <<>> \in Tables
  <2>1. <<>> \in [{} -> Overlays]
    OBVIOUS
  <2>2. QED
    BY <2>1 DEF Tables
<1>5. issued + 1 \in 1 .. MaxRefreshes /\ refreshSeq + 1 \in 1 .. MaxRefreshes
  BY <1>1, <1>2, <1>3
<1>6. new \in Refreshes
  BY <1>4, <1>5 DEF Refreshes
<1>7. new \in fetches' /\ new.seq >= refreshSeq'
  BY <1>1, <1>2
<1>8. SeqFollowsIssue'
  <2>1. issued' = refreshSeq' + 1 /\ applied' <= issued'
    BY <1>1, <1>2, <1>3
  <2>2. new.n <= issued' /\ new.seq = IF new.n = 1 THEN 1 ELSE new.n - 1
    BY <1>1, <1>2, <1>3
  <2>3. \A f \in fetches :
           f.n <= issued' /\ f.seq = IF f.n = 1 THEN 1 ELSE f.n - 1
    <3>1. \A f \in fetches : f.n \in Nat
      BY <1>2 DEF Refreshes
    <3>2. QED
      BY <1>1, <1>2, <3>1 DEF SeqFollowsIssue
  <2> HIDE DEF new
  <2>4. QED
    BY <1>1, <2>1, <2>2, <2>3 DEF SeqFollowsIssue
<1>9. fetches' \subseteq Refreshes
  BY <1>1, <1>2, <1>6
<1> HIDE DEF new
<1>10. QED
  BY <1>1, <1>2, <1>5, <1>7, <1>8, <1>9

\* A fetch that goes on is still the same refresh.
LEMMA Replaced ==
  ASSUME Types, SeqFollowsIssue, NEW f \in fetches,
         NEW g \in Refreshes,
         g.n = f.n, g.seq = f.seq, Replace(f, g),
         UNCHANGED <<refreshSeq, applied, issued>>
  PROVE  /\ fetches' \subseteq Refreshes
         /\ (\E h \in fetches : h.seq >= refreshSeq) =>
               (\E h \in fetches : h.seq >= refreshSeq)'
         /\ SeqFollowsIssue'
<1>1. fetches' = (fetches \ {f}) \cup {g}
  BY DEF Replace
<1>2. SeqFollowsIssue'
  BY <1>1 DEF SeqFollowsIssue
<1>3. (\E h \in fetches : h.seq >= refreshSeq) =>
         (\E h \in fetches : h.seq >= refreshSeq)'
  BY <1>1
<1>4. QED
  BY <1>1, <1>2, <1>3 DEF Types, ValuesOK

----------------------------------------------------------------------------
LEMMA InitInv == Init => IInv
<1> SUFFICES ASSUME Init PROVE IInv
  OBVIOUS
<1>1. Types
  <2>1. store \in [Machine -> Overlays]
    BY EmptyOverlayType DEF Init
  <2>2. rows \in Tables /\ <<>> \in Tables
    <3>1. <<>> \in [{} -> Overlays]
      OBVIOUS
    <3>2. QED
      BY <3>1 DEF Init, Tables
  <2>3. visible \in Seq([id : Machine, row : Overlays]) /\ cursor \in Nat
    BY DEF Init
  <2>4. showHidden \in BOOLEAN /\ filter \in Filters /\ search \in BOOLEAN
    BY FiltersAssumption DEF Init
  <2>5. /\ refreshSeq \in 0 .. MaxRefreshes /\ applied \in 0 .. MaxRefreshes
        /\ issued \in 1 .. MaxRefreshes /\ edits \in 0 .. MaxEdits
        /\ started \in 0 .. MaxChecks /\ opened \in 0 .. MaxSessions
        /\ checkTotal \in 0 .. MaxChecks /\ checkDone \in Nat
    BY BoundsAssumption DEF Init
  <2>6. fetches \subseteq Refreshes
    BY <2>2, BoundsAssumption DEF Init, Refreshes
  <2>7. editing = NoMachine /\ checks = {} /\ batches = {} /\ inflight = {}
          /\ sessions = {}
    BY DEF Init
  <2>8. QED
    BY <2>1, <2>2, <2>3, <2>4, <2>5, <2>6, <2>7 DEF Types, ValuesOK
<1>2. CursorInRange /\ VisibleIsCurrent /\ GlyphMeansPending
  BY DEF Init, CursorInRange, VisibleIsCurrent, GlyphMeansPending
<1>3. FilteredOrRefreshing
  BY DEF Init, FilteredOrRefreshing
<1>4. SeqFollowsIssue
  BY DEF Init, SeqFollowsIssue
<1>5. QED
  BY <1>1, <1>2, <1>3, <1>4 DEF IInv

----------------------------------------------------------------------------
(* Refreshes *)

LEMMA RefreshInv == IInv /\ Refresh => IInv'
<1> SUFFICES ASSUME IInv, Refresh PROVE IInv'
  OBVIOUS
<1> USE DEF Refresh
<1>1. Types'
  BY Issued DEF IInv, Types, ValuesOK, table, query, health, session
<1>2. CursorInRange' /\ VisibleIsCurrent'
  BY SameView DEF IInv, table
<1>3. FilteredOrRefreshing'
  BY Issued, SameFilter DEF IInv, table
<1>4. GlyphMeansPending'
  BY SameGlyphs DEF IInv, health
<1>5. SeqFollowsIssue'
  BY Issued DEF IInv
<1>6. QED
  BY <1>1, <1>2, <1>3, <1>4, <1>5 DEF IInv

LEMMA FetchingInv == IInv /\ Fetching => IInv'
<1> SUFFICES ASSUME IInv, NEW f \in fetches,
                    StartFetch(f) \/ \E m \in f.todo : ListMachine(f, m)
             PROVE  IInv'
  BY DEF Fetching
<1>1. f \in Refreshes /\ store \in [Machine -> Overlays]
  BY DEF IInv, Types, ValuesOK
<1>2. \E g \in Refreshes : g.n = f.n /\ g.seq = f.seq /\ Replace(f, g)
  <2>1. CASE StartFetch(f)
    <3>1. PICK listed \in Inventories :
             Replace(f, [f EXCEPT !.running = TRUE, !.show = showHidden,
                                  !.todo = listed])
      BY <2>1 DEF StartFetch
    <3> DEFINE g == [f EXCEPT !.running = TRUE, !.show = showHidden,
                              !.todo = listed]
    <3>2. listed \in SUBSET Machine /\ showHidden \in BOOLEAN
      BY InventoriesAssumption DEF IInv, Types, ValuesOK
    <3>3. g \in Refreshes /\ g.n = f.n /\ g.seq = f.seq
      BY <1>1, <3>2 DEF Refreshes
    <3>4. QED
      BY <3>1, <3>3
  <2>2. CASE \E m \in f.todo : ListMachine(f, m)
    <3>1. PICK m \in f.todo : ListMachine(f, m)
      BY <2>2
    <3>2. m \in Machine
      BY <1>1 DEF Refreshes
    <3>3. PICK row \in Overlays : Lists(f, m, row)
      <4>1. store[m] \in Overlays
        BY <1>1, <3>2
      <4>2. RowOf(store[m]) \in Overlays /\ RowOf(EmptyOverlay) \in Overlays
        BY <4>1, RowOfType, EmptyOverlayType
      <4>3. QED
        BY <3>1, <4>2 DEF ListMachine
    <3> DEFINE got == IF row.marks.hidden /\ ~f.show THEN f.got
                      ELSE With(f.got, m, row)
               g == [f EXCEPT !.todo = @ \ {m}, !.got = got]
    <3>4. got \in Tables
      BY <1>1, <3>2, WithType DEF Refreshes
    <3>5. Replace(f, g)
      BY <3>3 DEF Lists
    <3> HIDE DEF got
    <3>6. g \in Refreshes /\ g.n = f.n /\ g.seq = f.seq
      BY <1>1, <3>4 DEF Refreshes
    <3>7. QED
      BY <3>5, <3>6
  <2>3. QED
    BY <2>1, <2>2
<1>3. UNCHANGED <<store, table, query, editing, refreshSeq, applied, issued,
                  health, session, edits>>
  BY DEF StartFetch, ListMachine
<1>4. PICK g \in Refreshes : g.n = f.n /\ g.seq = f.seq /\ Replace(f, g)
  BY <1>2
<1>5. /\ fetches' \subseteq Refreshes
      /\ (\E h \in fetches : h.seq >= refreshSeq) =>
            (\E h \in fetches : h.seq >= refreshSeq)'
      /\ SeqFollowsIssue'
  BY <1>3, <1>4, Replaced DEF IInv
<1>6. Types'
  BY <1>3, <1>5 DEF IInv, Types, ValuesOK, table, query, health, session
<1>7. CursorInRange' /\ VisibleIsCurrent'
  BY <1>3, SameView DEF IInv, table
<1>8. FilteredOrRefreshing'
  BY <1>3, <1>5, SameFilter DEF IInv, table
<1>9. GlyphMeansPending'
  BY <1>3, SameGlyphs DEF IInv, health
<1>10. QED
  BY <1>5, <1>6, <1>7, <1>8, <1>9 DEF IInv

LEMMA HandleMachinesInv ==
  ASSUME IInv, NEW f \in fetches, HandleMachines(f)
  PROVE  IInv'
<1>1. /\ fetches' = fetches \ {f}
      /\ UNCHANGED <<store, query, editing, refreshSeq, issued, health,
                     session, edits>>
  BY DEF HandleMachines
<1>2. f.got \in Tables /\ f.n \in 1 .. MaxRefreshes /\ cursor \in Nat
  BY DEF IInv, Types, ValuesOK, Refreshes
<1>3. CASE f.seq < refreshSeq
  <2>1. UNCHANGED <<table, applied>>
    BY <1>3 DEF HandleMachines
  <2>2. Types'
    BY <1>1, <2>1 DEF IInv, Types, ValuesOK, table, query, health, session
  <2>3. CursorInRange' /\ VisibleIsCurrent'
    BY <2>1, SameView DEF IInv, table
  <2>4. FilteredOrRefreshing'
    <3>1. \A g \in fetches : g.seq \in Nat
      BY DEF IInv, Types, ValuesOK, Refreshes
    <3>2. (\E g \in fetches : g.seq >= refreshSeq) =>
             (\E g \in fetches : g.seq >= refreshSeq)'
      <4>1. refreshSeq \in Nat
        BY DEF IInv, Types, ValuesOK, Refreshes
      <4>2. QED
        BY <1>1, <1>3, <3>1, <4>1
    <3>3. QED
      BY <1>1, <2>1, <3>2, SameFilter DEF IInv, table
  <2>5. GlyphMeansPending'
    BY <1>1, SameGlyphs DEF IInv, health
  <2>6. SeqFollowsIssue'
    BY <1>1, <2>1 DEF IInv, SeqFollowsIssue
  <2>7. QED
    BY <2>2, <2>3, <2>4, <2>5, <2>6 DEF IInv
<1>4. CASE ~(f.seq < refreshSeq)
  <2>1. rows' = f.got /\ applied' = f.n /\ Recompute
    BY <1>4 DEF HandleMachines
  <2>2. rows' \in Tables /\ applied' \in 0 .. MaxRefreshes
    BY <1>2, <2>1
  <2>3. /\ visible' \in Seq([id : Machine, row : Overlays])
        /\ cursor' \in Nat
        /\ CursorInRange' /\ VisibleIsCurrent' /\ Shown' = Wanted'
    BY <1>2, <2>1, <2>2, RecomputeShows
  <2>4. Types'
    BY <1>1, <2>2, <2>3 DEF IInv, Types, ValuesOK, query, health, session
  <2>5. FilteredOrRefreshing'
    BY <2>3 DEF FilteredOrRefreshing
  <2>6. GlyphMeansPending'
    BY <1>1, SameGlyphs DEF IInv, health
  <2>7. SeqFollowsIssue'
    BY <1>1, <2>1 DEF IInv, SeqFollowsIssue
  <2>8. QED
    BY <2>3, <2>4, <2>5, <2>6, <2>7 DEF IInv
<1>5. QED
  BY <1>3, <1>4

----------------------------------------------------------------------------
(* Keys *)

LEMMA MoveCursorInv == IInv /\ MoveCursor => IInv'
<1> SUFFICES ASSUME IInv, MoveCursor PROVE IInv'
  OBVIOUS
<1> USE DEF MoveCursor
<1>1. cursor \in Nat /\ Len(visible) \in Nat
  BY DEF IInv, Types, ValuesOK
<1>2. cursor' \in Nat
  BY <1>1
<1>3. Types'
  BY <1>2 DEF IInv, Types, ValuesOK, query, refresh, health, session
<1>4. CursorInRange'
  <2>1. CASE visible = <<>>
    BY <1>1, <2>1 DEF IInv, CursorInRange
  <2>2. CASE visible # <<>>
    BY <1>1, <2>2 DEF IInv, CursorInRange
  <2>3. QED
    BY <2>1, <2>2
<1>5. VisibleIsCurrent'
  BY DEF IInv, VisibleIsCurrent
<1>6. FilteredOrRefreshing'
  BY SameFilter DEF IInv, refresh
<1>7. GlyphMeansPending'
  BY SameGlyphs DEF IInv, health
<1>8. SeqFollowsIssue'
  BY SameSeq DEF IInv
<1>9. QED
  BY <1>3, <1>4, <1>5, <1>6, <1>7, <1>8 DEF IInv

\* An edit of any row, and a query whose rows are shown again.
LEMMA EditInv ==
  ASSUME IInv, NEW m \in Machine, NEW row \in Overlays, Edit(m, row),
         editing' \in Machine \cup {NoMachine}
  PROVE  IInv'
<1> USE DEF Edit
<1>1. rows' \in Tables
  <2>1. rows \in Tables /\ rows' = [rows EXCEPT ![m] = row]
    BY DEF IInv, Types, ValuesOK
  <2>2. [rows EXCEPT ![m] = row] \in Tables
    BY <2>1, ReplacedType
  <2>3. QED
    BY <2>1, <2>2
<1>2. store' \in [Machine -> Overlays]
  BY DEF Save, IInv, Types, ValuesOK
<1>3. /\ visible' \in Seq([id : Machine, row : Overlays])
      /\ cursor' \in Nat
      /\ CursorInRange' /\ VisibleIsCurrent' /\ Shown' = Wanted'
  BY <1>1, RecomputeShows DEF IInv, Types, ValuesOK
<1>4. edits' \in 0 .. MaxEdits
  BY BoundsAssumption DEF IInv, Types, ValuesOK
<1>5. Types'
  BY <1>1, <1>2, <1>3, <1>4 DEF IInv, Types, ValuesOK, query, refresh, health, session
<1>6. FilteredOrRefreshing'
  BY <1>3 DEF FilteredOrRefreshing
<1>7. GlyphMeansPending'
  BY SameGlyphs DEF IInv, health
<1>8. SeqFollowsIssue'
  BY SameSeq DEF IInv
<1>9. QED
  BY <1>3, <1>5, <1>6, <1>7, <1>8 DEF IInv

LEMMA RequeryInv ==
  ASSUME IInv, Requery, showHidden' \in BOOLEAN, filter' \in Filters,
         search' \in BOOLEAN
  PROVE  IInv'
<1> USE DEF Requery
<1>1. /\ visible' \in Seq([id : Machine, row : Overlays])
      /\ cursor' \in Nat
      /\ CursorInRange' /\ VisibleIsCurrent' /\ Shown' = Wanted'
  <2>1. rows' \in Tables /\ cursor \in Nat
    BY DEF IInv, Types, ValuesOK
  <2>2. QED
    BY <2>1, RecomputeShows
<1>2. Types'
  BY <1>1 DEF IInv, Types, ValuesOK, refresh, health, session
<1>3. FilteredOrRefreshing'
  BY <1>1 DEF FilteredOrRefreshing
<1>4. GlyphMeansPending'
  BY SameGlyphs DEF IInv, health
<1>5. SeqFollowsIssue'
  BY SameSeq DEF IInv
<1>6. QED
  BY <1>1, <1>2, <1>3, <1>4, <1>5 DEF IInv

LEMMA SelectedEditInv ==
  IInv /\ (TogglePin \/ ToggleHidden \/ CycleMethod) => IInv'
<1> SUFFICES ASSUME IInv, TogglePin \/ ToggleHidden \/ CycleMethod PROVE IInv'
  OBVIOUS
<1>1. visible # <<>> /\ UNCHANGED editing
  BY DEF TogglePin, ToggleHidden, CycleMethod
<1>2. Selected.id \in Machine /\ Selected.row \in Overlays
  BY <1>1, SelectedRow DEF IInv
<1>3. editing' \in Machine \cup {NoMachine}
  BY <1>1 DEF IInv, Types, ValuesOK
<1> DEFINE pinned == [Selected.row EXCEPT !.marks.pinned = ~@]
           hidden == [Selected.row EXCEPT !.marks.hidden = ~@]
<1>4. pinned \in Overlays /\ hidden \in Overlays
  BY <1>2, MarksAssumption DEF Overlays
<1>5. Edit(Selected.id, pinned) \/ Edit(Selected.id, hidden)
        \/ Edit(Selected.id, Selected.row)
  BY DEF TogglePin, ToggleHidden, CycleMethod
<1> HIDE DEF pinned, hidden
<1>6. QED
  BY <1>2, <1>3, <1>4, <1>5, EditInv

LEMMA QueryKeyInv ==
  IInv /\ (ToggleShowHidden \/ EnterSearch \/ ClearSearchAndFilter) => IInv'
<1> SUFFICES ASSUME IInv,
                    ToggleShowHidden \/ EnterSearch \/ ClearSearchAndFilter
             PROVE  IInv'
  OBVIOUS
<1>1. Requery
  BY DEF ToggleShowHidden, EnterSearch, ClearSearchAndFilter
<1>2. showHidden \in BOOLEAN /\ search \in BOOLEAN /\ filter \in Filters
  BY DEF IInv, Types, ValuesOK
<1>3. showHidden' \in BOOLEAN
  BY <1>2, SearchesAssumption DEF ToggleShowHidden, EnterSearch, ClearSearchAndFilter
<1>4. search' \in BOOLEAN /\ filter' \in Filters
  BY <1>2, SearchesAssumption, FiltersAssumption
  DEF ToggleShowHidden, EnterSearch, ClearSearchAndFilter
<1>5. QED
  BY <1>1, <1>3, <1>4, RequeryInv

LEMMA SubmitFilterInv ==
  ASSUME IInv, NEW f \in Filters, SubmitFilter(f)
  PROVE  IInv'
<1> USE DEF SubmitFilter, FilterSet
<1>1. showHidden' \in BOOLEAN /\ filter' \in Filters /\ search' \in BOOLEAN
  BY DEF IInv, Types, ValuesOK
<1>2. Types'
  BY <1>1, Issued DEF IInv, Types, ValuesOK, table, health, session
<1>3. CursorInRange' /\ VisibleIsCurrent'
  BY SameView DEF IInv, table
<1>4. FilteredOrRefreshing' /\ SeqFollowsIssue'
  BY Issued DEF IInv, FilteredOrRefreshing
<1>5. GlyphMeansPending'
  BY SameGlyphs DEF IInv, health
<1>6. QED
  BY <1>2, <1>3, <1>4, <1>5 DEF IInv

LEMMA EditorInv ==
  IInv /\ (OpenEditor \/ CancelEditor \/ SaveEditorOfNothing) => IInv'
<1> SUFFICES ASSUME IInv, OpenEditor \/ CancelEditor \/ SaveEditorOfNothing
             PROVE  IInv'
  OBVIOUS
<1>1. editing' \in Machine \cup {NoMachine}
  <2>1. CASE OpenEditor
    BY <2>1, SelectedRow DEF OpenEditor, IInv
  <2>2. QED
    BY <2>1 DEF CancelEditor, SaveEditorOfNothing, CloseEditor
<1>2. UNCHANGED <<store, table, query, refresh, health, session, edits>>
  BY DEF OpenEditor, CancelEditor, SaveEditorOfNothing, CloseEditor
<1>3. Types'
  BY <1>1, <1>2 DEF IInv, Types, ValuesOK, table, query, refresh, health, session
<1>4. CursorInRange' /\ VisibleIsCurrent'
  BY <1>2, SameView DEF IInv, table
<1>5. FilteredOrRefreshing'
  BY <1>2, SameFilter DEF IInv, table, refresh
<1>6. GlyphMeansPending'
  BY <1>2, SameGlyphs DEF IInv, health
<1>7. SeqFollowsIssue'
  BY <1>2, SameSeq DEF IInv
<1>8. QED
  BY <1>3, <1>4, <1>5, <1>6, <1>7 DEF IInv

LEMMA SaveEditorInv == IInv /\ SaveEditor => IInv'
<1> SUFFICES ASSUME IInv, SaveEditor PROVE IInv'
  OBVIOUS
<1>1. PICK note \in BOOLEAN :
         Edit(editing, [rows[editing] EXCEPT !.marks.note = note])
  BY DEF SaveEditor
<1>2. rows \in Tables /\ editing \in DOMAIN rows
  BY DEF IInv, Types, ValuesOK, SaveEditor
<1>3. editing \in Machine /\ rows[editing] \in Overlays
  BY <1>2 DEF Tables
<1> DEFINE row == [rows[editing] EXCEPT !.marks.note = note]
<1>4. row \in Overlays
  BY <1>3, MarksAssumption DEF Overlays
<1>5. editing' \in Machine \cup {NoMachine}
  BY DEF SaveEditor
<1> HIDE DEF row
<1>6. Edit(editing, row)
  BY <1>1 DEF row
<1>7. QED
  BY <1>3, <1>4, <1>5, <1>6, EditInv

----------------------------------------------------------------------------
(* Health checks and sessions *)

LEMMA CheckSelectedInv == IInv /\ CheckSelected => IInv'
<1> SUFFICES ASSUME IInv, CheckSelected PROVE IInv'
  OBVIOUS
<1> USE DEF CheckSelected
<1>1. Selected.id \in Machine
  BY SelectedRow DEF IInv
<1>2. started + 1 \in 1 .. MaxChecks /\ 0 \in 0 .. MaxChecks
  BY BoundsAssumption DEF IInv, Types, ValuesOK
<1>3. checks' \subseteq [id : 1 .. MaxChecks, machine : Machine,
                         batch : 0 .. MaxChecks,
                         phase : {"running", "reported"}]
  BY <1>1, <1>2 DEF IInv, Types, ValuesOK, Check
<1>4. inflight' \subseteq Machine /\ started' \in 0 .. MaxChecks
  BY <1>1, <1>2 DEF IInv, Types, ValuesOK
<1>5. Types'
  BY <1>3, <1>4 DEF IInv, Types, ValuesOK, table, query, refresh, session
<1>6. CursorInRange' /\ VisibleIsCurrent'
  BY SameView DEF IInv, table
<1>7. FilteredOrRefreshing'
  BY SameFilter DEF IInv, table, refresh
<1>8. GlyphMeansPending'
  <2> DEFINE new == Check(started + 1, Selected.id, 0)
  <2>1. new \in checks' /\ new.machine = Selected.id
    BY DEF Check
  <2> HIDE DEF new
  <2>2. QED
    BY <2>1 DEF IInv, GlyphMeansPending
<1>9. SeqFollowsIssue'
  BY SameSeq DEF IInv
<1>10. QED
  BY <1>5, <1>6, <1>7, <1>8, <1>9 DEF IInv

LEMMA CheckVisibleInv == IInv /\ CheckVisible => IInv'
<1> SUFFICES ASSUME IInv, CheckVisible PROVE IInv'
  OBVIOUS
<1> USE DEF CheckVisible
<1>1. /\ visible \in Seq([id : Machine, row : Overlays])
      /\ started \in 0 .. MaxChecks /\ MaxChecks \in Nat
  BY BoundsAssumption DEF IInv, Types, ValuesOK
<1>2. /\ Len(visible) \in Nat \ {0} /\ DOMAIN visible = 1 .. Len(visible)
      /\ \A i \in DOMAIN visible : visible[i].id \in Machine
  <2>1. Len(visible) \in Nat \ {0} /\ DOMAIN visible = 1 .. Len(visible)
    BY <1>1
  <2>2. VisibleIsCurrent /\ DOMAIN rows \subseteq Machine
    BY DEF IInv, Types, ValuesOK, Tables
  <2>3. QED
    BY <2>1, <2>2 DEF VisibleIsCurrent
<1>3. /\ started + Len(visible) \in 0 .. MaxChecks
      /\ started + 1 \in 1 .. MaxChecks /\ Len(visible) \in 0 .. MaxChecks
      /\ \A i \in DOMAIN visible : started + i \in 1 .. MaxChecks
  BY <1>1, <1>2
<1>4. checks' \subseteq [id : 1 .. MaxChecks, machine : Machine,
                         batch : 0 .. MaxChecks,
                         phase : {"running", "reported"}]
  <2>1. \A i \in DOMAIN visible :
           Check(started + i, visible[i].id, started + 1) \in
              [id : 1 .. MaxChecks, machine : Machine, batch : 0 .. MaxChecks,
               phase : {"running", "reported"}]
    BY <1>2, <1>3 DEF Check
  <2>2. QED
    BY <2>1 DEF IInv, Types, ValuesOK
<1>5. inflight' \subseteq Machine /\ batches' \subseteq 1 .. MaxChecks
  BY <1>2, <1>3 DEF IInv, Types, ValuesOK
<1>6. Types'
  BY <1>3, <1>4, <1>5 DEF IInv, Types, ValuesOK, table, query, refresh, session
<1>7. CursorInRange' /\ VisibleIsCurrent'
  BY SameView DEF IInv, table
<1>8. FilteredOrRefreshing'
  BY SameFilter DEF IInv, table, refresh
<1>9. GlyphMeansPending'
  <2>1. \A i \in DOMAIN visible :
           Check(started + i, visible[i].id, started + 1).machine = visible[i].id
    BY DEF Check
  <2>2. QED
    BY <2>1 DEF GlyphMeansPending
<1>10. SeqFollowsIssue'
  BY SameSeq DEF IInv
<1>11. QED
  BY <1>6, <1>7, <1>8, <1>9, <1>10 DEF IInv

LEMMA RunCheckInv ==
  ASSUME IInv, NEW c \in checks, RunCheck(c)
  PROVE  IInv'
<1> USE DEF RunCheck
<1>1. c \in [id : 1 .. MaxChecks, machine : Machine, batch : 0 .. MaxChecks,
             phase : {"running", "reported"}]
  BY DEF IInv, Types, ValuesOK
<1>2. store' \in [Machine -> Overlays]
  <2>1. store \in [Machine -> Overlays] /\ c.machine \in Machine /\ c.id \in Obs
    BY <1>1, ListedAssumption DEF IInv, Types, ValuesOK
  <2>2. WithHealth(store[c.machine], c.id) \in Overlays
    BY <2>1, WithHealthType
  <2>3. QED
    BY <2>1, <2>2
<1> DEFINE done == [c EXCEPT !.phase = "reported"]
<1>3. /\ done \in [id : 1 .. MaxChecks, machine : Machine,
                   batch : 0 .. MaxChecks, phase : {"running", "reported"}]
      /\ done.machine = c.machine
  BY <1>1
<1>4. checks' = (checks \ {c}) \cup {done}
  OBVIOUS
<1> HIDE DEF done
<1>5. Types'
  BY <1>2, <1>3, <1>4 DEF IInv, Types, ValuesOK, table, query, refresh, session
<1>6. CursorInRange' /\ VisibleIsCurrent'
  BY SameView DEF IInv, table
<1>7. FilteredOrRefreshing'
  BY SameFilter DEF IInv, table, refresh
<1>8. GlyphMeansPending'
  BY <1>3, <1>4 DEF IInv, GlyphMeansPending
<1>9. SeqFollowsIssue'
  BY SameSeq DEF IInv
<1>10. QED
  BY <1>5, <1>6, <1>7, <1>8, <1>9 DEF IInv

LEMMA HandleHealthInv ==
  ASSUME IInv, NEW c \in checks, HandleHealth(c)
  PROVE  IInv'
<1>1. c.machine \in Machine /\ c.id \in Obs
  BY ListedAssumption DEF IInv, Types, ValuesOK
<1>2. /\ checks' = checks \ {c} /\ inflight' = inflight \ {c.machine}
      /\ checkDone' \in Nat
      /\ UNCHANGED <<store, query, editing, refresh, batches, checkTotal,
                     started, session, edits>>
  BY DEF HandleHealth, ApplyHealth, IInv, Types, ValuesOK
<1>3. rows' \in Tables
  <2>1. PICK D \in SUBSET Machine : rows \in [D -> Overlays]
    BY DEF IInv, Types, ValuesOK, Tables
  <2>2. rows' = [m \in DOMAIN rows |->
                    IF m = c.machine THEN [rows[m] EXCEPT !.health = c.id]
                                     ELSE rows[m]]
    BY DEF HandleHealth, ApplyHealth
  <2>3. \A m \in D : [rows[m] EXCEPT !.health = c.id] \in Overlays
    BY <1>1, <2>1 DEF Overlays
  <2>4. rows' \in [D -> Overlays]
    BY <2>1, <2>2, <2>3
  <2>5. QED
    BY <2>4 DEF Tables
<1>4. /\ visible' \in Seq([id : Machine, row : Overlays])
      /\ cursor' \in Nat
      /\ CursorInRange' /\ VisibleIsCurrent' /\ Shown' = Wanted'
  <2>1. Recompute /\ cursor \in Nat
    BY DEF HandleHealth, IInv, Types, ValuesOK
  <2>2. QED
    BY <1>3, <2>1, RecomputeShows
<1>5. Types'
  BY <1>2, <1>3, <1>4 DEF IInv, Types, ValuesOK, query, refresh, session
<1>6. FilteredOrRefreshing'
  BY <1>4 DEF FilteredOrRefreshing
<1>7. GlyphMeansPending'
  BY <1>2 DEF IInv, GlyphMeansPending
<1>8. SeqFollowsIssue'
  BY <1>2, SameSeq DEF IInv
<1>9. QED
  BY <1>4, <1>5, <1>6, <1>7, <1>8 DEF IInv

LEMMA HandleBatchClosedInv ==
  ASSUME IInv, NEW b \in batches, HandleBatchClosed(b)
  PROVE  IInv'
<1> USE DEF HandleBatchClosed
<1>1. 0 \in 0 .. MaxChecks /\ 0 \in Nat
  BY BoundsAssumption
<1>2. Types'
  BY <1>1 DEF IInv, Types, ValuesOK, table, query, refresh, session
<1>3. CursorInRange' /\ VisibleIsCurrent'
  BY SameView DEF IInv, table
<1>4. FilteredOrRefreshing'
  BY SameFilter DEF IInv, table, refresh
<1>5. GlyphMeansPending'
  BY DEF GlyphMeansPending
<1>6. SeqFollowsIssue'
  BY SameSeq DEF IInv
<1>7. QED
  BY <1>2, <1>3, <1>4, <1>5, <1>6 DEF IInv

LEMMA ConnectInv == IInv /\ Connect => IInv'
<1> SUFFICES ASSUME IInv, Connect PROVE IInv'
  OBVIOUS
<1> USE DEF Connect
<1>1. Selected.id \in Machine
  BY SelectedRow DEF IInv
<1>2. opened + 1 \in 1 .. MaxSessions /\ opened' \in 0 .. MaxSessions
  BY BoundsAssumption DEF IInv, Types, ValuesOK
<1>3. sessions' \subseteq [n : 1 .. MaxSessions, machine : Machine,
                           phase : {"asked", "running", "ended"}]
  BY <1>1, <1>2 DEF IInv, Types, ValuesOK
<1>4. Types'
  BY <1>2, <1>3 DEF IInv, Types, ValuesOK, table, query, refresh, health
<1>5. CursorInRange' /\ VisibleIsCurrent'
  BY SameView DEF IInv, table
<1>6. FilteredOrRefreshing'
  BY SameFilter DEF IInv, table, refresh
<1>7. GlyphMeansPending'
  BY SameGlyphs DEF IInv, health
<1>8. SeqFollowsIssue'
  BY SameSeq DEF IInv
<1>9. QED
  BY <1>4, <1>5, <1>6, <1>7, <1>8 DEF IInv

LEMMA SessionInv ==
  ASSUME IInv, NEW s \in sessions, SessionStarts(s) \/ SessionEnds(s)
  PROVE  IInv'
<1>1. s \in [n : 1 .. MaxSessions, machine : Machine,
             phase : {"asked", "running", "ended"}]
  BY DEF IInv, Types, ValuesOK
<1>2. store' \in [Machine -> Overlays]
  <2>1. store \in [Machine -> Overlays] /\ s.machine \in Machine
    BY <1>1 DEF IInv, Types, ValuesOK
  <2>2. \A event \in Session :
           WithSession(store[s.machine], event) \in Overlays
    BY <2>1, WithSessionType
  <2>3. UNCHANGED store \/ \E event \in Session :
           store' = [store EXCEPT ![s.machine] = WithSession(@, event)]
    BY DEF SessionStarts, SessionEnds
  <2>4. QED
    BY <2>1, <2>2, <2>3
<1>3. PICK phase \in {"running", "ended"} : SessionGoes(s, phase)
  BY DEF SessionStarts, SessionEnds
<1>4. [s EXCEPT !.phase = phase] \in
         [n : 1 .. MaxSessions, machine : Machine,
          phase : {"asked", "running", "ended"}]
  BY <1>1, <1>3
<1> USE <1>3 DEF SessionGoes
<1>5. Types'
  BY <1>2, <1>4 DEF IInv, Types, ValuesOK, table, query, refresh, health
<1>6. CursorInRange' /\ VisibleIsCurrent'
  BY SameView DEF IInv, table
<1>7. FilteredOrRefreshing'
  BY SameFilter DEF IInv, table, refresh
<1>8. GlyphMeansPending'
  BY SameGlyphs DEF IInv, health
<1>9. SeqFollowsIssue'
  BY SameSeq DEF IInv
<1>10. QED
  BY <1>5, <1>6, <1>7, <1>8, <1>9 DEF IInv

LEMMA HandleConnectFinishedInv ==
  ASSUME IInv, NEW s \in sessions, HandleConnectFinished(s)
  PROVE  IInv'
<1> USE DEF HandleConnectFinished
<1>1. Types'
  BY Issued DEF IInv, Types, ValuesOK, table, query, health
<1>2. CursorInRange' /\ VisibleIsCurrent'
  BY SameView DEF IInv, table
<1>3. FilteredOrRefreshing'
  BY Issued, SameFilter DEF IInv, table
<1>4. GlyphMeansPending'
  BY SameGlyphs DEF IInv, health
<1>5. SeqFollowsIssue'
  BY Issued DEF IInv
<1>6. QED
  BY <1>1, <1>2, <1>3, <1>4, <1>5 DEF IInv

----------------------------------------------------------------------------
(* The invariant, and what follows from it *)

LEMMA StepInv == IInv /\ [Next]_vars => IInv'
<1>1. IInv /\ Keys => IInv'
  BY RefreshInv, MoveCursorInv, SelectedEditInv, QueryKeyInv, SubmitFilterInv,
     EditorInv, SaveEditorInv, CheckSelectedInv, CheckVisibleInv, ConnectInv
  DEF Keys
<1>2. IInv /\ Fetching => IInv'
  BY FetchingInv
<1>3. IInv /\ Checking => IInv'
  BY RunCheckInv DEF Checking
<1>4. IInv /\ Messages => IInv'
  BY HandleMachinesInv, HandleHealthInv, HandleBatchClosedInv, SessionInv,
     HandleConnectFinishedInv
  DEF Messages
<1>5. ASSUME IInv, NEW s \in sessions, SessionEnds(s) PROVE IInv'
  BY <1>5, SessionInv
<1>6. IInv /\ UNCHANGED vars => IInv'
  BY SameAll
<1>7. QED
  BY <1>1, <1>2, <1>3, <1>4, <1>5, <1>6 DEF Next, Idle

LEMMA SpecInv == Spec => []IInv
  BY InitInv, StepInv, PTL DEF Spec

\* The handlers keep the types of the cockpit's state.
THEOREM TypeCorrect == Spec => []TypeOK
<1>1. IInv => TypeOK
  <2> SUFFICES ASSUME IInv PROVE TypeOK
    OBVIOUS
  <2>1. ValuesOK /\ rows \in Tables /\ fetches \subseteq Refreshes
    BY DEF IInv, Types
  <2>2. \A t \in Tables : IsTable(t)
    BY DEF Tables, IsTable
  <2>3. QED
    BY <2>1, <2>2 DEF TypeOK, Refreshes
<1>2. QED
  BY <1>1, SpecInv, PTL

\* No handler ever indexes the list past its end.
THEOREM CursorStaysInRange == Spec => []CursorInRange
<1>1. IInv => CursorInRange
  BY DEF IInv
<1>2. QED
  BY <1>1, SpecInv, PTL

\* The rows the handlers edit from are the rows in memory.
THEOREM ViewStaysCurrent == Spec => []VisibleIsCurrent
<1>1. IInv => VisibleIsCurrent
  BY DEF IInv
<1>2. QED
  BY <1>1, SpecInv, PTL

\* An old list is shown only while a refresh that will be applied is under
\* way.
THEOREM ListIsFilteredOrRefreshing == Spec => []FilteredOrRefreshing
<1>1. IInv => FilteredOrRefreshing
  BY DEF IInv
<1>2. QED
  BY <1>1, SpecInv, PTL

\* A checking glyph always has a check behind it.
THEOREM GlyphsHaveChecks == Spec => []GlyphMeansPending
<1>1. IInv => GlyphMeansPending
  BY DEF IInv
<1>2. QED
  BY <1>1, SpecInv, PTL

\* Refreshes are applied in the order they were issued, but for the initial
\* one after the first.
THEOREM RefreshesStayInOrder == Spec => RefreshesInOrder
<1> DEFINE A == applied' < applied => applied = 2 /\ applied' = 1
<1>1. ASSUME IInv, [Next]_vars PROVE A
  <2>1. CASE UNCHANGED applied
    <3>1. applied \in Nat
      BY <1>1 DEF IInv, Types, ValuesOK
    <3>2. QED
      BY <2>1, <3>1
  <2>2. CASE \E f \in fetches : HandleMachines(f)
    <3>1. PICK f \in fetches : HandleMachines(f)
      BY <2>2
    <3>2. /\ f.n \in Nat \ {0} /\ f.seq \in Nat /\ refreshSeq \in Nat
          /\ applied \in Nat /\ issued \in Nat
      BY <1>1 DEF IInv, Types, ValuesOK, Refreshes
    <3>3. /\ issued = refreshSeq + 1 /\ applied <= issued /\ f.n <= issued
          /\ f.seq = IF f.n = 1 THEN 1 ELSE f.n - 1
      BY <1>1 DEF IInv, SeqFollowsIssue
    <3>4. applied' = applied \/ (applied' = f.n /\ ~(f.seq < refreshSeq))
      BY <3>1 DEF HandleMachines
    <3>5. QED
      BY <3>2, <3>3, <3>4
  <2>3. UNCHANGED applied \/ \E f \in fetches : HandleMachines(f)
    <3>1. CASE Keys
      BY <3>1 DEF Keys, MoveCursor, Refresh, TogglePin, ToggleHidden,
         CycleMethod, ToggleShowHidden, EnterSearch, ClearSearchAndFilter,
         SubmitFilter, FilterSet, OpenEditor, CancelEditor, SaveEditor,
         SaveEditorOfNothing, CloseEditor, CheckSelected, CheckVisible,
         Connect, Edit, Requery, IssueRefresh, refresh
    <3>2. CASE Fetching
      BY <3>2 DEF Fetching, StartFetch, ListMachine
    <3>3. CASE Checking
      BY <3>3 DEF Checking, RunCheck, refresh
    <3>4. CASE Messages
      BY <3>4 DEF Messages, HandleHealth, HandleBatchClosed, SessionStarts,
         SessionGoes, HandleConnectFinished, IssueRefresh, refresh
    <3>5. CASE \E s \in sessions : SessionEnds(s)
      BY <3>5 DEF SessionEnds, SessionGoes, refresh
    <3>6. CASE UNCHANGED vars
      BY <3>6 DEF vars, refresh
    <3>7. QED
      BY <1>1, <3>1, <3>2, <3>3, <3>4, <3>5, <3>6 DEF Next, Idle
  <2>4. QED
    BY <2>1, <2>2, <2>3
<1>2. IInv /\ [Next]_vars => [A]_vars
  BY <1>1
<1>3. QED
  BY <1>2, SpecInv, PTL DEF Spec, RefreshesInOrder

=============================================================================
