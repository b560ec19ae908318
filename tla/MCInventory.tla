---------------------------- MODULE MCInventory ----------------------------
(***************************************************************************)
(* Values for checking Inventory, with SSHConfig, and FilterLine with TLC. *)
(* A config that grows, a fleet that is listed and an input line do not    *)
(* act on each other, so each behaviour is about one of the three parts,   *)
(* with the others as they begin: the run has the sum of their states and  *)
(* not the product.                                                        *)
(***************************************************************************)
EXTENDS SSHConfig, Inventory, FilterLine

CONSTANTS web, Web, db, star, h1, github, p1, p22, bad, Parts

VARIABLE part   \* what this behaviour is about

mcVars == <<config, vars, lineVars, part>>

Line(key, value) == [key |-> key, value |-> value]

\* One alias is written in two letter cases.
MCLower(name) == IF name = Web THEN web ELSE name

MCLines == {Line("host", web), Line("host", Web), Line("host", db), Line("host", star),
            Line("hostname", h1), Line("hostname", github), Line("user", Git),
            Line("port", p1), Line("port", bad), Line("localforward", Unset),
            Line("other", Unset), Line("overlong", Unset)}

\* A host; two names for one; a source-control identity; a wildcard after a
\* line ahead of all blocks.
MCConfigs ==
    {<<Line("host", web), Line("hostname", h1)>>,
     <<Line("host", web), Line("hostname", h1),
       Line("host", db), Line("hostname", h1)>>,
     <<Line("host", db), Line("hostname", github), Line("user", Git)>>,
     <<Line("other", Unset), Line("host", star)>>}

\* What the inventory lists of a host that stands on one or two Host lines.
MCHostLists ==
    {[i \in DOMAIN ListMachines(lines) |-> ListMachines(lines)[i].alias] :
        lines \in {<<Line("host", web)>>, <<Line("host", web), Line("host", web)>>}}

MCAlias == {web}

MCSources == {{"ssh"}, {"ssh", "aws"}}

Up == [ssm |-> "up", ec2 |-> TRUE]
Absent == [ssm |-> "absent", ec2 |-> FALSE]

NoFleet == [n \in Node |-> Absent]
MCFleets == {NoFleet, <<Absent, Up>>}

Key(name) == [name |-> name, upper |-> FALSE]
Token(tag, name, sep, value) ==
    [tag |-> tag, key |-> Key(name), sep |-> sep, value |-> value]
Word(text) == Token(FALSE, "", "", text)

\* Two words; fields with and without an error; tags with either syntax, in
\* either case, without a value, with a field's name and without a key.
MCTokens ==
    {Word("web"), Word("prod"), Token(FALSE, "name", ":", "we"),
     Token(FALSE, "method", ":", "aws"), Token(FALSE, "health", ":", "odd"),
     Token(FALSE, "hidden", ":", "yes"), Token(TRUE, "env", "=", "prod"),
     Token(FALSE, "env", "=", "dev"), Token(TRUE, "env", ":", ""),
     [Token(FALSE, "env", "=", "dev") EXCEPT !.key.upper = TRUE],
     Token(TRUE, "name", "=", "we"), Token(TRUE, "", "=", "we")}

Tag(upper, value) ==
    [key |-> [name |-> "env", upper |-> upper], value |-> value]

MCRows ==
    {[prefixes |-> {"we"}, methods |-> {"ssh"}, health |-> "up",
      hidden |-> "false", tags |-> {}, words |-> <<Word("web"), Word("prod")>>],
     [prefixes |-> {"we"}, methods |-> {"ssm"}, health |-> "down",
      hidden |-> "true", tags |-> {Tag(FALSE, "prod"), Tag(TRUE, "dev")},
      words |-> <<Word("prod"), Word("web")>>],
     [prefixes |-> {}, methods |-> {"ssm"}, health |-> "up",
      hidden |-> "false", tags |-> {Tag(FALSE, "prod")},
      words |-> <<Word("prod")>>]}

MCInit ==
    /\ Init /\ LineInit /\ ConfigInit
    /\ part \in Parts
    /\ part # "config" => config = CHOOSE lines \in Configs : TRUE
    /\ \A aliases \in HostLists : Len(aliases) <= Len(hosts)
    /\ part = "listing" <=> fleet # NoFleet

MCNext ==
    \/ part = "config" /\ ConfigNext
                       /\ UNCHANGED <<vars, lineVars, part>>
    \/ part = "listing" /\ Next /\ UNCHANGED <<config, lineVars, part>>
    \/ part = "filter" /\ LineNext /\ UNCHANGED <<config, vars, part>>

MCSpec ==
    /\ MCInit /\ [][MCNext]_mcVars
    /\ WF_vars(part = "listing" /\ ListStep /\ UNCHANGED <<config, lineVars, part>>)

============================================================================
