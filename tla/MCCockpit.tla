----------------------------- MODULE MCCockpit -----------------------------
(* Machines and model values for checking Cockpit with TLC. *)
EXTENDS Cockpit

CONSTANTS web, db

MCMachine == {web, db}
MCMarks == [pinned : BOOLEAN, hidden : BOOLEAN, note : BOOLEAN]
MCNoMarks == [pinned |-> FALSE, hidden |-> FALSE, note |-> FALSE]
MCObs == 0 .. MaxChecks
MCSession == [success : {TRUE}]

\* The providers list both machines, or one of them has gone.
MCInventories == {{web}, {web, db}}

============================================================================
