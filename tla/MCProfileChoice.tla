-------------------------- MODULE MCProfileChoice --------------------------
(* Profiles and their lists for checking ProfileChoice with TLC. *)
EXTENDS ProfileChoice

CONSTANTS dev, prod

MCProfile == {dev, prod}

\* Both profiles, one of them after the other was removed, or none.
MCProfileLists == {<<dev, prod>>, <<prod>>, <<>>}

============================================================================
