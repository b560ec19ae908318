------------------------------ MODULE ListView ------------------------------
(***************************************************************************)
(* The order of the cockpit's rows (SortMachines, internal/domain) and the *)
(* part of them that fits the screen (windowRange and the lists that use   *)
(* it, internal/tui).  Nothing here has a state: rows, cursors, lengths    *)
(* and sizes of the terminal are arbitrary.  What holds of them is proved  *)
(* in Inventory_proofs.                                                    *)
(***************************************************************************)
EXTENDS Integers

\* A row by what the order looks at: the time of the last connection is 0 if
\* there was none, a name is its rank among the names in lower case.
Entry == [pinned : BOOLEAN, up : BOOLEAN, connected : Nat, name : Int]

\* The comparison that SortMachines hands to sort.SliceStable.
Less(a, b) ==
    \/ a.pinned /\ ~b.pinned
    \/ /\ a.pinned = b.pinned
       /\ \/ a.up /\ ~b.up
          \/ /\ a.up = b.up
             /\ \/ a.connected # 0 /\ b.connected = 0
                \/ /\ a.connected = 0 <=> b.connected = 0
                   /\ \/ a.connected > b.connected
                      \/ a.connected = b.connected /\ a.name < b.name

Same(a, b) == ~Less(a, b) /\ ~Less(b, a)

\* windowRange: from start up to but without end, counted from 0.
windowRange(cursor, total, rows) ==
    LET fit == IF rows < 1 THEN 1 ELSE rows
        start == IF cursor >= fit THEN cursor - fit + 1 ELSE 0
    IN  [start |-> start,
         end |-> IF start + fit > total THEN total ELSE start + fit]

\* renderCockpit: the lines left for the list.
bodyHeight(height, warnings) ==
    LET lines == (IF height <= 0 THEN 32 ELSE height) - 8 - warnings
    IN  IF lines < 8 THEN 8 ELSE lines

\* The window of machineList and of compactList, and the line of the panel, from
\* 0, on which a list with two lines of headings has row i.
listWindow(cursor, total, body, compact) ==
    windowRange(cursor, total, body - (IF compact THEN 2 ELSE 3))

rowLine(i, window) == 2 + (i - window.start)

=============================================================================
