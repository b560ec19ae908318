---------------------------- MODULE MCStateFile ----------------------------
(* Requests and model values for checking StateFile with TLC. *)
EXTENDS StateFile

CONSTANTS ui, worker, web, pinned, o1, prod

MCCaller == {ui, worker}
MCMachine == {web}
MCMarks == {NoMarks, pinned}
MCObs == {o1}
MCSession == [success : BOOLEAN]
MCPrefs == {NoPrefs, prod}

\* The event loop saves marks and preferences, a health worker records an
\* observation, a session is recorded, a refresh loads the overlay.
MCRequest ==
    { [op |-> "SaveOverlay", id |-> web,
       overlay |-> [EmptyOverlay EXCEPT !.marks = pinned]],
      [op |-> "SavePreferences", prefs |-> prod],
      [op |-> "RecordHealth", id |-> web, obs |-> o1],
      [op |-> "RecordSession", id |-> web, session |-> [success |-> TRUE]],
      [op |-> "RecordSession", id |-> web, session |-> [success |-> FALSE]],
      [op |-> "LoadOverlay", id |-> web] }

============================================================================
