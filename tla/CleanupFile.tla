---------------------------- MODULE CleanupFile ----------------------------
(***************************************************************************)
(* What the cleanup plans and removes (internal/adapters/sshconfig,        *)
(* cleanup.go), of a config that is a function from places to Host blocks. *)
(* Cleanup runs it over a file on disk; SSHConfig, which reads the lines,  *)
(* is shown to do the same.                                                *)
(***************************************************************************)
EXTENDS Integers

CONSTANTS
    Place,      \* where Host blocks stand in the file
    Patterns    \* the aliases with a wildcard

\* The part of a file that stands in the places S.
Part(file, S) == [p \in DOMAIN file \cap S |-> file[p]]

\* PlanCleanup lists machines apart from port forwards and source control.
Machines(file) ==
    {p \in DOMAIN file : file[p].kind = "machine" /\ file[p].alias \notin Patterns}

\* The delete candidates: a machine whose target an earlier one has.
CandidatesAll(file) ==
    {p \in Machines(file) :
        \E q \in Machines(file) : q # p /\ file[q].target = file[p].target}

Candidates(file) ==
    {p \in Machines(file) :
        \E q \in Machines(file) : q < p /\ file[q].target = file[p].target}

\* ApplyCleanup finds the last block of each host it is given.
Found(file, hosts) ==
    {p \in DOMAIN file :
        /\ file[p].alias \in hosts
        /\ \A q \in DOMAIN file : q > p => file[q].alias # file[p].alias}

\* It refuses a host it does not find and a source-control identity.
RefusesMissing(file, hosts) ==
    \E h \in hosts : \A p \in Found(file, hosts) : file[p].alias # h

Refuses(file, hosts) ==
    \/ \E h \in hosts : \A p \in Found(file, hosts) : file[p].alias # h
    \/ \E p \in Found(file, hosts) : file[p].kind = "scm"

Remaining(file, hosts) == Part(file, Place \ Found(file, hosts))

============================================================================
