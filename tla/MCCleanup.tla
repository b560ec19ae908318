----------------------------- MODULE MCCleanup -----------------------------
(* Host blocks and configs for checking Cleanup with TLC. *)
EXTENDS Cleanup

CONSTANTS web, dup, git, star, t1, t2

MCPlace == 1 .. 3
MCAlias == {web, dup, git, star}
MCTarget == {t1, t2}

Machine(a, t) == [alias |-> a, kind |-> "machine", target |-> t]
Scm(a) == [alias |-> a, kind |-> "scm", target |-> t2]

\* A machine, another name for it, and a source-control identity.
MCConfigs == {<<Machine(web, t1), Machine(dup, t1), Scm(git)>>}

\* A wildcard, the machine under a third target, and a name that becomes one
\* of source control.
MCDrafts == {Machine(star, t1), Machine(dup, t2), Scm(web)}

\* The same, but the second name is used twice.
MCTwiceNamed == {<<Machine(web, t1), Machine(dup, t1), Machine(dup, t2)>>}

============================================================================
