--------------------------- MODULE MCHealthStream ---------------------------
(* Model values and symmetry for checking HealthStream with TLC. *)
EXTENDS HealthStream

CONSTANTS m1, m2, m3, id1, id2

MCMachine == {m1, m2, m3}
MCCheckable == {m1, m2}

\* The first and the last row are of one machine ID: an alias on two Host
\* lines, of which one has an access method no checker supports.
MCIdOf == [m \in MCMachine |-> IF m = m2 THEN id2 ELSE id1]

\* What a later `G` finds: a row of each ID, or the two rows of one.
MCViews == {{m1, m2}, {m1, m3}}

============================================================================
