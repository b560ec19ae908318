---------------------------- MODULE MemoryValue ----------------------------
(***************************************************************************)
(* Operator memory as a value, and what each call of the store does to it: *)
(* the saved preferences and one domain.MachineOverlay per machine.        *)
(*                                                                         *)
(* Of an overlay, the fields the operator edits (Pinned, Hidden, Tags,     *)
(* Note, PreferredMethod) are one value, the marks; an observation stands  *)
(* for LastHealth together with LastCheckedAt; a session for a             *)
(* SessionEvent; connects is ConnectionCount, which moves together with    *)
(* LastConnectedAt.                                                        *)
(***************************************************************************)
EXTENDS Integers, Sequences

CONSTANTS
    Machine,        \* the machines memory is kept for
    Marks,          \* what the operator can note about a machine
    Obs,            \* health observations
    Session,        \* session events, with their field success
    Prefs,          \* operator preferences
    NoMarks,        \* the marks of a machine nothing was saved for
    NoObs,          \* LastHealth of a machine that was never checked
    NoPrefs,        \* preferences when none were saved
    HistoryLimit    \* Store.historyLimit

ASSUME HistoryLimitAssumption == HistoryLimit \in Nat \ {0}
ASSUME NothingSavedAssumption == NoMarks \in Marks /\ NoPrefs \in Prefs
ASSUME SessionAssumption == \A s \in Session : s.success \in BOOLEAN

\* Histories within the cap, overlays and memories.
History(S) == {h \in Seq(S) : Len(h) <= HistoryLimit}

Overlays == [marks : Marks, health : Obs \cup {NoObs}, checks : History(Obs),
             sessions : History(Session), connects : Nat]

Memories == [prefs : Prefs, overlays : [Machine -> Overlays]]

EmptyOverlay ==
    [marks |-> NoMarks, health |-> NoObs, checks |-> <<>>,
     sessions |-> <<>>, connects |-> 0]

EmptyMemory == [prefs |-> NoPrefs,
                overlays |-> [m \in Machine |-> EmptyOverlay]]

\* Append an item and keep the newest HistoryLimit of them.
AppendBarelyCapped(items, item) ==
    LET all == Append(items, item) IN
    IF Len(items) <= HistoryLimit
    THEN all
    ELSE SubSeq(all, Len(all) - HistoryLimit + 1, Len(all))

AppendCapped(items, item) ==
    LET all == Append(items, item) IN
    IF Len(all) <= HistoryLimit
    THEN all
    ELSE SubSeq(all, Len(all) - HistoryLimit + 1, Len(all))

\* RecordHealth: the latest observation, and the history with it.
WithHealth(overlay, obs) ==
    [overlay EXCEPT !.health = obs,
                    !.checks = AppendCapped(@, obs)]

\* RecordSession: every attempt is history, a success is a connection.
WithSession(overlay, session) ==
    [overlay EXCEPT !.sessions = AppendCapped(@, session),
                    !.connects = IF session.success THEN @ + 1 ELSE @]

\* The calls that only read, and those that write the value back.
Loads == [op : {"LoadOverlay"}, id : Machine] \cup [op : {"LoadPreferences"}]

Updates ==
    [op : {"SaveOverlay"}, id : Machine, overlay : Overlays]
        \cup [op : {"SavePreferences"}, prefs : Prefs]
        \cup [op : {"RecordHealth"}, id : Machine, obs : Obs]
        \cup [op : {"RecordSession"}, id : Machine, session : Session]

\* What a call does to the memory.
Effect(mem, r) ==
    CASE r.op = "SaveOverlay" ->
            [mem EXCEPT !.overlays[r.id] = r.overlay]
      [] r.op = "SavePreferences" ->
            [mem EXCEPT !.prefs = r.prefs]
      [] r.op = "RecordHealth" ->
            [mem EXCEPT !.overlays[r.id] = WithHealth(@, r.obs)]
      [] r.op = "RecordSession" ->
            [mem EXCEPT !.overlays[r.id] = WithSession(@, r.session)]
      [] OTHER -> mem

============================================================================
