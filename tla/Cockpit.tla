------------------------------ MODULE Cockpit ------------------------------
(***************************************************************************)
(* The cockpit's event loop (internal/tui) over operator memory: the rows  *)
(* it shows, the refreshes and health checks in flight, and the overlays   *)
(* it saves.  Every handler runs alone on the event loop; the commands it  *)
(* returns run as goroutines, and their messages come back in any order.   *)
(*                                                                         *)
(*   - A refresh (fetchCmd, InventoryService.List) reads the query when it *)
(*     starts, then the overlay of each listed machine, one at a time,     *)
(*     while the operator goes on editing.                                 *)
(*   - A check (`g`, or one machine of a `G` batch) records its            *)
(*     observation in the store and then reports it.  A batch also ends    *)
(*     with a message, as HealthBatch promises.                            *)
(*   - An edit saves the whole overlay of the row the loop holds in        *)
(*     memory (saveOverlay).                                               *)
(*   - A session (tea.Exec) is asked for with a message, suspends the      *)
(*     loop while it runs, records itself in the store, and reports its    *)
(*     end with a message.                                                 *)
(*                                                                         *)
(* The store's calls are atomic, as OperatorMemory promises.  Rows are     *)
(* kept by machine, and the order in which they are listed, which sorting  *)
(* and fuzzy scores decide, is left open.  Every machine has one access    *)
(* method, as both providers list them.                                    *)
(***************************************************************************)
EXTENDS MemoryValue, FiniteSets

CONSTANTS
    Listed,         \* the health a provider's listing reports
    NoMachine,      \* the editor is closed
    Inventories,    \* the sets of machines the providers may list
    SearchHits,     \* machines the search text matches
    Searches,       \* whether the operator searches
    Shows,          \* what the operator turns the hidden switch to
    Filters,        \* filter expressions the operator submits
    StoreFails,     \* whether calls of the store may fail
    MaxEdits,       \* bound: edits saved
    MaxRefreshes,   \* bound: refreshes issued
    MaxChecks,      \* bound: checks started
    MaxSessions     \* bound: sessions started

AllFilters == {"none", "hidden:false", "hidden:true", "health:checked"}

ASSUME InventoriesAssumption == Inventories \subseteq SUBSET Machine
ASSUME FiltersAssumption == "none" \in Filters /\ Filters \subseteq AllFilters
ASSUME SearchesAssumption == Searches \subseteq BOOLEAN /\ Shows \subseteq BOOLEAN
ASSUME MachineAssumption == IsFiniteSet(Machine) /\ NoMachine \notin Machine
ASSUME ListedAssumption == Listed \in Obs /\ 1 .. MaxChecks \subseteq Obs
ASSUME MarksAssumption ==
    Marks = [pinned : BOOLEAN, hidden : BOOLEAN, note : BOOLEAN]
ASSUME BoundsAssumption ==
    /\ MaxRefreshes \in Nat \ {0}
    /\ MaxEdits \in Nat /\ MaxChecks \in Nat /\ MaxSessions \in Nat

VARIABLES
    store,      \* operator memory: an overlay per machine
    rows,       \* Model.machines, by machine
    visible,    \* Model.visible, copies of rows
    cursor,     \* Model.cursor, counted from 0
    showHidden, \* runtime.Query.ShowHidden
    filter,     \* Model.filter
    search,     \* whether Model.search is set
    editing,    \* editorState: the machine being edited, or NoMachine
    refreshSeq, \* Model.refreshSeq
    fetches,    \* refreshes whose message has not been handled
    checks,     \* checks whose message has not been handled
    batches,    \* G batches whose close has not been handled
    inflight,   \* Model.inflight
    checkTotal, \* Model.checkTotal
    checkDone,  \* Model.checkDone
    sessions,   \* sessions whose message has not been handled
    applied,    \* the refresh the rows came from
    edits,      \* edits saved so far
    issued,     \* refreshes issued so far
    started,    \* checks started so far
    opened      \* sessions asked for so far

table == <<rows, visible, cursor>>
query == <<showHidden, filter, search>>
refresh == <<refreshSeq, fetches, applied, issued>>
health == <<checks, batches, inflight, checkTotal, checkDone, started>>
session == <<sessions, opened>>
vars == <<store, table, query, editing, refresh, health, session, edits>>

----------------------------------------------------------------------------
(* Rows *)

\* ApplyOverlay: the saved overlay, with the listing's health until a check
\* has been saved.
RowOf(overlay) ==
    [overlay EXCEPT !.health = IF @ = NoObs THEN Listed ELSE @]

Matches(f, row) ==
    CASE f = "hidden:false" -> ~row.marks.hidden
      [] f = "hidden:true" -> row.marks.hidden
      [] f = "health:checked" -> row.health # Listed
      [] OTHER -> TRUE

\* The machines whose rows recompute shows.
Kept(rws, show, f, srch) ==
    {m \in DOMAIN rws : /\ srch => m \in SearchHits
                        /\ show \/ ~rws[m].marks.hidden
                        /\ Matches(f, rws[m])}

\* Every way to list a set, each member once.
Listings(S) == {q \in [1 .. Cardinality(S) -> S] :
                   \A m \in S : \E i \in DOMAIN q : q[i] = m}

\* recompute: copy the rows to show and keep the cursor among them.
RecomputeUnclamped ==
    \E q \in Listings(Kept(rows', showHidden', filter', search')) :
        /\ visible' = [i \in DOMAIN q |-> [id |-> q[i], row |-> rows'[q[i]]]]
        /\ cursor' = cursor

Recompute ==
    \E q \in Listings(Kept(rows', showHidden', filter', search')) :
        /\ visible' = [i \in DOMAIN q |-> [id |-> q[i], row |-> rows'[q[i]]]]
        /\ cursor' = IF q = <<>> THEN 0
                     ELSE IF cursor >= Len(q) THEN Len(q) - 1
                     ELSE cursor

Selected == visible[cursor + 1]

\* saveOverlay: the whole row becomes the saved overlay; errors are ignored.
Save(m, row) ==
    \/ store' = [store EXCEPT ![m] = row]
    \/ StoreFails /\ UNCHANGED store

----------------------------------------------------------------------------
Init ==
    /\ store = [m \in Machine |-> EmptyOverlay]
    /\ rows = <<>>
    /\ visible = <<>>
    /\ cursor = 0
    /\ showHidden = FALSE
    /\ filter = "none"
    /\ search = FALSE
    /\ editing = NoMachine
    \* Init increments the sequence number of its own copy of the model.
    /\ refreshSeq = 0
    /\ fetches = {[n |-> 1, seq |-> 1, running |-> FALSE, show |-> FALSE,
                   todo |-> {}, got |-> <<>>]}
    /\ applied = 0
    /\ issued = 1
    /\ checks = {}
    /\ batches = {}
    /\ inflight = {}
    /\ checkTotal = 0
    /\ checkDone = 0
    /\ started = 0
    /\ sessions = {}
    /\ opened = 0
    /\ edits = 0

\* A key press in the cockpit, an input line included; a key press in the
\* editor; a message.  The loop handles none of them during a session.
Busy == \E s \in sessions : s.phase = "running"
Key == editing = NoMachine /\ ~Busy
EditorKey == editing # NoMachine /\ ~Busy
Message == ~Busy

----------------------------------------------------------------------------
(* Refreshes *)

\* refreshSeq++ and fetchCmd.
IssueRefreshBehind ==
    /\ issued < MaxRefreshes
    /\ issued' = issued + 1
    /\ refreshSeq' = refreshSeq + 1
    /\ fetches' = fetches \cup
          {[n |-> issued + 1, seq |-> refreshSeq, running |-> FALSE,
            show |-> FALSE, todo |-> {}, got |-> <<>>]}
    /\ UNCHANGED applied

IssueRefresh ==
    /\ issued < MaxRefreshes
    /\ issued' = issued + 1
    /\ refreshSeq' = refreshSeq + 1
    /\ fetches' = fetches \cup
          {[n |-> issued + 1, seq |-> refreshSeq + 1, running |-> FALSE,
            show |-> FALSE, todo |-> {}, got |-> <<>>]}
    /\ UNCHANGED applied

\* A session's end refreshes: what keys begin leaves each session its refresh
\* within the bound, so that no end of a session waits for the bound.
RefreshToSpare == issued + Cardinality(sessions) < MaxRefreshes

\* `r`; cycling the source, an AWS login and a written cleanup refresh the
\* same way.
Refresh ==
    /\ Key
    /\ RefreshToSpare
    /\ IssueRefresh
    /\ UNCHANGED <<store, table, query, editing, health, session, edits>>

Replace(f, g) == fetches' = (fetches \ {f}) \cup {g}

\* List starts: it has read the query, and the providers have answered.
StartFetch(f) ==
    /\ ~f.running
    /\ \E listed \in Inventories :
          Replace(f, [f EXCEPT !.running = TRUE, !.show = showHidden,
                               !.todo = listed])
    /\ UNCHANGED <<store, table, query, editing, refreshSeq, applied, issued,
                   health, session, edits>>

\* List merges the overlay of one machine, or lists it without one when the
\* overlay cannot be loaded, and leaves a hidden machine out.
With(got, m, row) ==
    [k \in DOMAIN got \cup {m} |-> IF k = m THEN row ELSE got[k]]

Lists(f, m, row) ==
    Replace(f, [f EXCEPT
        !.todo = @ \ {m},
        !.got = IF row.marks.hidden /\ ~f.show THEN @ ELSE With(@, m, row)])

ListMachine(f, m) ==
    /\ f.running
    /\ m \in f.todo
    /\ \/ Lists(f, m, RowOf(store[m]))
       \/ StoreFails /\ Lists(f, m, RowOf(EmptyOverlay))
    /\ UNCHANGED <<store, table, query, editing, refreshSeq, applied, issued,
                   health, session, edits>>

Listing(f) == f.running /\ f.todo = {}

HandleAnyMachines(f) ==
    /\ Message
    /\ Listing(f)
    /\ fetches' = fetches \ {f}
    /\ rows' = f.got
    /\ applied' = f.n
    /\ UNCHANGED query
    /\ Recompute
    /\ UNCHANGED <<store, editing, refreshSeq, issued, health, session, edits>>

\* handleMachinesMsg: an older refresh than the last one issued is dropped.
HandleMachines(f) ==
    /\ Message
    /\ Listing(f)
    /\ fetches' = fetches \ {f}
    /\ UNCHANGED query
    /\ IF f.seq < refreshSeq
       THEN UNCHANGED <<table, applied>>
       ELSE rows' = f.got /\ applied' = f.n /\ Recompute
    /\ UNCHANGED <<store, editing, refreshSeq, issued, health, session, edits>>

----------------------------------------------------------------------------
(* Keys of the cockpit *)

MoveCursorPastTop ==
    /\ Key
    /\ \/ cursor < Len(visible) - 1 /\ cursor' = cursor + 1
       \/ cursor' = cursor - 1
    /\ UNCHANGED <<store, rows, visible, query, editing, refresh, health,
                   session, edits>>

MoveCursor ==
    /\ Key
    /\ \/ cursor < Len(visible) - 1 /\ cursor' = cursor + 1
       \/ cursor > 0 /\ cursor' = cursor - 1
    /\ UNCHANGED <<store, rows, visible, query, editing, refresh, health,
                   session, edits>>

\* An edit of a machine: its row is replaced, saved, and shown again.
EditKeepingView(m, row) ==
    /\ edits < MaxEdits
    /\ edits' = edits + 1
    /\ rows' = [rows EXCEPT ![m] = row]
    /\ Save(m, row)
    /\ UNCHANGED <<query, visible, cursor>>
    /\ UNCHANGED <<refresh, health, session>>

Edit(m, row) ==
    /\ edits < MaxEdits
    /\ edits' = edits + 1
    /\ rows' = [rows EXCEPT ![m] = row]
    /\ Save(m, row)
    /\ UNCHANGED query
    /\ Recompute
    /\ UNCHANGED <<refresh, health, session>>

TogglePin ==
    /\ Key /\ visible # <<>>
    /\ Edit(Selected.id, [Selected.row EXCEPT !.marks.pinned = ~@])
    /\ UNCHANGED editing

ToggleHidden ==
    /\ Key /\ visible # <<>>
    /\ Edit(Selected.id, [Selected.row EXCEPT !.marks.hidden = ~@])
    /\ UNCHANGED editing

\* `m` on a machine with one access method selects that method.
CycleMethod ==
    /\ Key /\ visible # <<>>
    /\ Edit(Selected.id, Selected.row)
    /\ UNCHANGED editing

Requery ==
    /\ UNCHANGED rows
    /\ Recompute
    /\ UNCHANGED <<store, editing, refresh, health, session, edits>>

\* `u`: the rows in memory are shown again, none is fetched.
ToggleShowHidden ==
    /\ Key
    /\ showHidden' \in Shows \ {showHidden}
    /\ UNCHANGED <<filter, search>>
    /\ Requery

\* Search text typed or deleted.
EnterSearch ==
    /\ Key
    /\ search' \in Searches \ {search}
    /\ UNCHANGED <<showHidden, filter>>
    /\ Requery

\* Esc.
ClearSearchAndFilter ==
    /\ Key
    /\ search \/ filter # "none"
    /\ search' = FALSE
    /\ filter' = "none"
    /\ UNCHANGED showHidden
    /\ Requery

\* submitFilter: the filter is set, and shows when its refresh arrives.
FilterSet(f) ==
    /\ Key
    /\ RefreshToSpare
    /\ filter' = f
    /\ showHidden' = CASE f = "hidden:true" -> TRUE
                       [] f = "hidden:false" -> FALSE
                       [] OTHER -> showHidden
    /\ UNCHANGED search
    /\ UNCHANGED <<store, table, editing, health, session, edits>>

SubmitFilterOnly(f) == FilterSet(f) /\ UNCHANGED refresh

SubmitFilter(f) == FilterSet(f) /\ IssueRefresh

----------------------------------------------------------------------------
(* The overlay editor *)

\* `e`, opened while the bound leaves an edit to save.
OpenEditor ==
    /\ Key /\ visible # <<>>
    /\ edits < MaxEdits
    /\ editing' = Selected.id
    /\ UNCHANGED <<store, table, query, refresh, health, session, edits>>

CloseEditor ==
    /\ editing' = NoMachine
    /\ UNCHANGED <<store, table, query, refresh, health, session, edits>>

CancelEditor == EditorKey /\ CloseEditor

\* saveEditor looks its machine up again: refreshes went on arriving.
SaveEditor ==
    /\ EditorKey
    /\ editing \in DOMAIN rows
    /\ \E note \in BOOLEAN :
          Edit(editing, [rows[editing] EXCEPT !.marks.note = note])
    /\ editing' = NoMachine

\* The machine is no longer listed: the edit is dropped.
SaveEditorOfNothing ==
    /\ EditorKey
    /\ editing \notin DOMAIN rows
    /\ CloseEditor

----------------------------------------------------------------------------
(* Health checks *)

Check(id, m, b) == [id |-> id, machine |-> m, batch |-> b, phase |-> "running"]

\* `g`
CheckSelected ==
    /\ Key /\ visible # <<>>
    /\ started < MaxChecks
    /\ started' = started + 1
    /\ inflight' = inflight \cup {Selected.id}
    /\ checks' = checks \cup {Check(started + 1, Selected.id, 0)}
    /\ UNCHANGED <<store, table, query, editing, refresh, batches, checkTotal,
                   checkDone, session, edits>>

\* `G`: the batch is named for its first check.
CheckVisible ==
    /\ Key /\ visible # <<>>
    /\ started + Len(visible) <= MaxChecks
    /\ started' = started + Len(visible)
    /\ inflight' = {visible[i].id : i \in DOMAIN visible}
    /\ checkTotal' = Len(visible)
    /\ checkDone' = 0
    /\ batches' = batches \cup {started + 1}
    /\ checks' = checks \cup {Check(started + i, visible[i].id, started + 1) :
                                  i \in DOMAIN visible}
    /\ UNCHANGED <<store, table, query, editing, refresh, session, edits>>

RunCheckLosingReport(c) ==
    /\ c.phase = "running"
    /\ store' = [store EXCEPT ![c.machine] = WithHealth(@, c.id)]
    /\ checks' = checks \ {c}
    /\ UNCHANGED <<table, query, editing, refresh, batches, inflight,
                   checkTotal, checkDone, started, session, edits>>

\* CheckSelected of HealthService: the observation is recorded first.
RunCheck(c) ==
    /\ c.phase = "running"
    /\ \/ store' = [store EXCEPT ![c.machine] = WithHealth(@, c.id)]
       \/ StoreFails /\ UNCHANGED store
    /\ checks' = (checks \ {c}) \cup {[c EXCEPT !.phase = "reported"]}
    /\ UNCHANGED <<table, query, editing, refresh, batches, inflight,
                   checkTotal, checkDone, started, session, edits>>

\* applyHealth, and the count of a batch.
ApplyHealthKeepingGlyph(c) ==
    /\ inflight' = inflight
    /\ rows' = [m \in DOMAIN rows |->
                   IF m = c.machine THEN [rows[m] EXCEPT !.health = c.id]
                                    ELSE rows[m]]

ApplyHealth(c) ==
    /\ inflight' = inflight \ {c.machine}
    /\ rows' = [m \in DOMAIN rows |->
                   IF m = c.machine THEN [rows[m] EXCEPT !.health = c.id]
                                    ELSE rows[m]]

HandleHealth(c) ==
    /\ Message
    /\ c.phase = "reported"
    /\ checks' = checks \ {c}
    /\ ApplyHealth(c)
    /\ UNCHANGED query
    /\ Recompute
    /\ checkDone' = IF c.batch = 0 THEN checkDone ELSE checkDone + 1
    /\ UNCHANGED <<store, editing, refresh, batches, checkTotal, started,
                   session, edits>>

\* handleHealthStream when the channel is closed: every machine of the batch
\* has been observed.
HandleBatchClosed(b) ==
    /\ Message
    /\ \A c \in checks : c.batch # b
    /\ batches' = batches \ {b}
    /\ inflight' = {}
    /\ checkTotal' = 0
    /\ checkDone' = 0
    /\ UNCHANGED <<store, table, query, editing, refresh, checks, started,
                   session, edits>>

----------------------------------------------------------------------------
(* Sessions *)

\* Enter: connectSelectedCmd.
Connect ==
    /\ Key /\ visible # <<>>
    /\ opened < MaxSessions /\ RefreshToSpare
    /\ opened' = opened + 1
    /\ sessions' = sessions \cup
          {[n |-> opened + 1, machine |-> Selected.id, phase |-> "asked"]}
    /\ UNCHANGED <<store, table, query, editing, refresh, health, edits>>

SessionGoes(s, phase) ==
    /\ sessions' = (sessions \ {s}) \cup {[s EXCEPT !.phase = phase]}
    /\ UNCHANGED <<table, query, editing, refresh, health, opened, edits>>

\* The loop handles the Exec message and is suspended.
SessionStarts(s) ==
    /\ Message
    /\ s.phase = "asked"
    /\ SessionGoes(s, "running")
    /\ UNCHANGED store

\* The session ends; ConnectService records it, unless it never began: it
\* returns early when no connector takes the machine or no command is built.
SessionEnds(s) ==
    /\ s.phase = "running"
    /\ \/ \E event \in Session :
             store' = [store EXCEPT ![s.machine] = WithSession(@, event)]
       \/ UNCHANGED store
    /\ SessionGoes(s, "ended")

\* handleConnectFinishedMsg refreshes.
HandleConnectFinished(s) ==
    /\ Message
    /\ s.phase = "ended"
    /\ sessions' = sessions \ {s}
    /\ IssueRefresh
    /\ UNCHANGED <<store, table, query, editing, health, opened, edits>>

----------------------------------------------------------------------------
Keys ==
    \/ MoveCursor
    \/ Refresh
    \/ TogglePin
    \/ ToggleHidden
    \/ CycleMethod
    \/ ToggleShowHidden
    \/ EnterSearch
    \/ ClearSearchAndFilter
    \/ \E f \in Filters : SubmitFilter(f)
    \/ OpenEditor
    \/ CancelEditor
    \/ SaveEditor
    \/ SaveEditorOfNothing
    \/ CheckSelected
    \/ CheckVisible
    \/ Connect

Fetching == \E f \in fetches : StartFetch(f) \/ \E m \in f.todo : ListMachine(f, m)

Checking == \E c \in checks : RunCheck(c)

Messages ==
    \/ \E f \in fetches : HandleMachines(f)
    \/ \E c \in checks : HandleHealth(c)
    \/ \E b \in batches : HandleBatchClosed(b)
    \/ \E s \in sessions : SessionStarts(s) \/ HandleConnectFinished(s)

\* Nothing is under way; the loop waits for a key.
Idle ==
    /\ fetches = {} /\ checks = {} /\ batches = {} /\ sessions = {}
    /\ UNCHANGED vars

Next ==
    \/ Keys
    \/ Fetching
    \/ Checking
    \/ Messages
    \/ \E s \in sessions : SessionEnds(s)
    \/ Idle

\* Goroutines that were started run, and the loop handles what they report
\* whenever no session suspends it.  The operator need do nothing: no key is
\* fair, and neither is the end of a session.
Fairness ==
    /\ WF_vars(Fetching)
    /\ WF_vars(Checking)
    /\ WF_vars(Messages)

Spec == Init /\ [][Next]_vars /\ Fairness

----------------------------------------------------------------------------
(* Properties *)

\* Counters are within their bounds and everything else names machines.
ValuesOK ==
    /\ store \in [Machine -> Overlays]
    /\ visible \in Seq([id : Machine, row : Overlays])
    /\ cursor \in Nat
    /\ showHidden \in BOOLEAN
    /\ filter \in Filters
    /\ search \in BOOLEAN
    /\ editing \in Machine \cup {NoMachine}
    /\ refreshSeq \in 0 .. MaxRefreshes
    /\ checks \subseteq [id : 1 .. MaxChecks, machine : Machine,
                         batch : 0 .. MaxChecks,
                         phase : {"running", "reported"}]
    /\ batches \subseteq 1 .. MaxChecks
    /\ inflight \subseteq Machine
    /\ checkTotal \in 0 .. MaxChecks
    /\ checkDone \in Nat
    /\ sessions \subseteq [n : 1 .. MaxSessions, machine : Machine,
                           phase : {"asked", "running", "ended"}]
    /\ applied \in 0 .. MaxRefreshes
    /\ edits \in 0 .. MaxEdits
    /\ issued \in 1 .. MaxRefreshes
    /\ started \in 0 .. MaxChecks
    /\ opened \in 0 .. MaxSessions

\* Rows are overlays of listed machines, in memory and on their way.
IsTable(t) == DOMAIN t \subseteq Machine /\ t \in [DOMAIN t -> Overlays]

TypeOK ==
    /\ ValuesOK
    /\ IsTable(rows)
    /\ \A f \in fetches :
          /\ IsTable(f.got)
          /\ f \in [n : 1 .. MaxRefreshes, seq : 1 .. MaxRefreshes,
                    running : BOOLEAN, show : BOOLEAN, todo : SUBSET Machine,
                    got : {f.got}]

\* Every key handler indexes visible with the cursor, whatever refreshes,
\* searches, filters and checks have done to the list in between.
CursorInRange == IF visible = <<>> THEN cursor = 0 ELSE cursor < Len(visible)

\* The copies the handlers edit and save from are the rows in memory: an edit
\* or a check never brings back what another handler has replaced.
VisibleIsCurrent ==
    \A i \in DOMAIN visible :
        /\ visible[i].id \in DOMAIN rows
        /\ visible[i].row = rows[visible[i].id]

\* submitFilter leaves the old list on the screen.  The list differs from
\* what the search, the filter and the hidden switch ask for only while a
\* refresh that will be applied is on its way.
Shown == {visible[i].id : i \in DOMAIN visible}
Wanted == Kept(rows, showHidden, filter, search)

FilteredOrRefreshing ==
    Shown # Wanted => \E f \in fetches : f.seq >= refreshSeq

\* A row shows the checking glyph only while a check of its machine has not
\* been answered, also when batches and single checks overlap.
GlyphMeansPending ==
    \A m \in inflight : \E c \in checks : c.machine = m

\* The rows never go back to an older refresh: only the initial one, which
\* shares its sequence number with the first refresh asked for, can replace
\* that one.
RefreshesInOrder ==
    [][applied' < applied => applied = 2 /\ applied' = 1]_vars

\* Every glyph is cleared, unless a session never ends.
GlyphsClear == \A m \in Machine : []<>(m \notin inflight) \/ <>[]Busy

\* What the operator asks to see is shown, unless a session never ends.
FilterTakesEffect == []<>(Shown = Wanted) \/ <>[]Busy

----------------------------------------------------------------------------
(* What the code's own documents and tests say, and a run refutes *)

\* Local state preserves pins and the health and session history: no save makes
\* a history shorter, and a saved pin changes only when `p` toggles the pin of
\* the row.  A save writes back the histories its row was read with, without
\* what was recorded since; and a refresh that read the overlay before `p`
\* brings the old row back, so that the next save of that row undoes the pin.
LocalStateIsPreserved ==
    [][/\ \A m \in Machine :
             /\ Len(store'[m].checks) >= Len(store[m].checks)
             /\ Len(store'[m].sessions) >= Len(store[m].sessions)
       /\ \A m \in DOMAIN rows \cap DOMAIN rows' :
             store'[m].marks.pinned # store[m].marks.pinned =>
                 rows'[m].marks.pinned # rows[m].marks.pinned]_vars

\* A stale refresh does not change the machines.  The initial refresh and the
\* first one asked for have the same sequence number.
StaleRefreshIsDropped == [][applied' >= applied]_vars

============================================================================
