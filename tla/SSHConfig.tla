----------------------------- MODULE SSHConfig -----------------------------
(***************************************************************************)
(* How lazyss reads and rewrites an SSH config, line by line: the parser   *)
(* of the inventory (internal/adapters/sshconfig/sshconfig.go), the second *)
(* parser, of the cleanup (cleanup.go), which also keeps line numbers, the *)
(* machines the one lists, the hosts the other plans to delete, and the    *)
(* lines it removes.                                                       *)
(*                                                                         *)
(* A line is its keyword and the one value the code takes from it.  What   *)
(* neither parser looks at (comments, blank lines, Include, Match, the     *)
(* further names of a Host line) is an "other" line.  Aliases are compared *)
(* as they are written, targets and source-control identities without      *)
(* letter case.  The config is written by the operator, a line at a time;  *)
(* both parsers read all of it at once.                                    *)
(***************************************************************************)
EXTENDS Integers, FiniteSets, Sequences, SequencesExt, Sublists

CONSTANTS
    Lines,          \* the lines an operator may write
    Patterns,       \* the aliases with a wildcard
    Lower(_),       \* a name in lower case: strings.ToLower
    Git,            \* the user name "git"
    ScmHosts,       \* the source-control hosts the code knows
    Numbers,        \* the values of Port lines that Atoi accepts
    DefaultPort,    \* 22
    Unset,          \* the zero value of a field, "" or 0
    Configs,        \* the configs there are at first
    MaxLines        \* bound: lines of a config

Keys == {"host", "hostname", "user", "port", "localforward", "other", "overlong"}

ASSUME LinesAssumption ==
    \A line \in Lines : DOMAIN line = {"key", "value"} /\ line.key \in Keys
ASSUME ConfigsAssumption == Configs \subseteq Seq(Lines)
ASSUME MaxLinesAssumption == MaxLines \in Nat

VARIABLE config     \* the SSH config

ConfigInit == config \in Configs

WriteLine(line) ==
    /\ Len(config) < MaxLines
    /\ config' = Append(config, line)

ConfigNext == \E line \in Lines : WriteLine(line)

ConfigSpec == ConfigInit /\ [][ConfigNext]_config

Block(alias) == [alias |-> alias, hostname |-> Unset, user |-> Unset,
                 port |-> Unset, forwards |-> FALSE]

\* A setting under a Host line.  The last one counts, a port only if it is a
\* number.
With(block, line) ==
    CASE line.key = "hostname" -> [block EXCEPT !.hostname = line.value]
      [] line.key = "user" -> [block EXCEPT !.user = line.value]
      [] line.key = "port" /\ line.value \in Numbers ->
             [block EXCEPT !.port = line.value]
      [] line.key = "localforward" -> [block EXCEPT !.forwards = TRUE]
      [] OTHER -> block

----------------------------------------------------------------------------
(* The inventory's parser *)

\* bufio.Scanner stops at a line beyond 64 KiB, and parse does not ask why.
Scanned(lines) ==
    LET long == {i \in DOMAIN lines : lines[i].key = "overlong"}
    IN  IF long = {} THEN lines ELSE SubSeq(lines, 1, Min(long) - 1)

\* The block being read (none before the first Host line) joins the others
\* at the next Host line and, in parse, at the end.
ReadLine(acc, line) ==
    IF line.key = "host"
    THEN [out |-> acc.out \o acc.current, current |-> <<Block(line.value)>>]
    ELSE [acc EXCEPT !.current = [i \in DOMAIN @ |-> With(@[i], line)]]

ReadLines(lines) ==
    LET read[n \in 0 .. Len(lines)] ==
            IF n = 0 THEN [out |-> <<>>, current |-> <<>>]
                     ELSE ReadLine(read[n - 1], lines[n])
    IN  read[Len(lines)]

parseLosingLast(lines) == ReadLines(Scanned(lines)).out

parse(lines) ==
    LET end == ReadLines(Scanned(lines)) IN end.out \o end.current

isSCMIdentity(b) == Lower(b.user) = Git /\ Lower(b.hostname) \in ScmHosts

Concrete(b) == b.alias \notin Patterns

IsMachine(b) == Concrete(b) /\ ~isSCMIdentity(b) /\ ~b.forwards

\* ListMachines, before it sorts.
ListMachines(lines) ==
    LET blocks == parse(lines)
        hosts == Sublist(blocks, {i \in DOMAIN blocks : IsMachine(blocks[i])})
        Machine(b) ==
            [alias |-> b.alias, user |-> b.user,
             address |-> IF b.hostname = Unset THEN b.alias ELSE b.hostname,
             port |-> IF b.port = Unset THEN DefaultPort ELSE b.port]
    IN  [i \in DOMAIN hosts |-> Machine(hosts[i])]

----------------------------------------------------------------------------
(* The cleanup *)

\* A block with the lines it stands on, from start up to but without end.
HostBlock(alias, start, end) ==
    [block |-> Block(alias), start |-> start, end |-> end]

\* Line i.  At a Host line the block before it ends.
ReadNumberedOpen(lines, acc, i) ==
    IF lines[i].key = "host"
    THEN Append(acc, HostBlock(lines[i].value, i, Len(lines) + 1))
    ELSE IF acc = <<>> THEN acc
    ELSE [acc EXCEPT ![Len(acc)].block = With(@, lines[i])]

ReadNumbered(lines, acc, i) ==
    IF lines[i].key = "host"
    THEN Append([k \in DOMAIN acc |->
                    IF k = Len(acc) THEN [acc[k] EXCEPT !.end = i] ELSE acc[k]],
                HostBlock(lines[i].value, i, Len(lines) + 1))
    ELSE IF acc = <<>> THEN acc
    ELSE [acc EXCEPT ![Len(acc)].block = With(@, lines[i])]

parseConfigHostBlocks(lines) ==
    LET read[n \in 0 .. Len(lines)] ==
            IF n = 0 THEN <<>> ELSE ReadNumbered(lines, read[n - 1], n)
    IN  read[Len(lines)]

cleanupTargetKeyWithoutPort(b) ==
    <<Lower(b.user), Lower(IF b.hostname = Unset THEN b.alias ELSE b.hostname)>>

cleanupTargetKey(b) ==
    <<Lower(b.user),
      Lower(IF b.hostname = Unset THEN b.alias ELSE b.hostname),
      IF b.port = Unset THEN DefaultPort ELSE b.port>>

\* No machine before block i has its target.
TargetIsNewAmongAll(bs, i) ==
    \A j \in 1 .. i - 1 :
        cleanupTargetKey(bs[j].block) # cleanupTargetKey(bs[i].block)

TargetIsNew(bs, i) ==
    \A j \in 1 .. i - 1 :
        IsMachine(bs[j].block) =>
            cleanupTargetKey(bs[j].block) # cleanupTargetKey(bs[i].block)

\* PlanCleanup: what becomes of a block, by what stands before it.
PlanCleanup(lines) ==
    LET bs == parseConfigHostBlocks(lines)
        Action(i) == CASE isSCMIdentity(bs[i].block) -> "keep"
                       [] bs[i].block.forwards -> "hide"
                       [] TargetIsNew(bs, i) -> "machine"
                       [] OTHER -> "delete"
    IN  {[host |-> bs[i].block.alias, action |-> Action(i)] :
            i \in {j \in DOMAIN bs : Concrete(bs[j].block)}}

\* ApplyCleanup: the lines that remain when the last block of each host goes.
ApplyCleanup(lines, hosts) ==
    LET bs == parseConfigHostBlocks(lines)
        found == {i \in DOMAIN bs :
                     /\ bs[i].block.alias \in hosts
                     /\ \A j \in DOMAIN bs : j > i => bs[j].block.alias
                                                          # bs[i].block.alias}
        removed == UNION {bs[i].start .. bs[i].end - 1 : i \in found}
    IN  Sublist(lines, DOMAIN lines \ removed)

----------------------------------------------------------------------------
(* Properties *)

Hosts(lines) == {b.block.alias : b \in Range(parseConfigHostBlocks(lines))}

UniqueAliases(lines) ==
    Cardinality(Hosts(lines)) = Len(parseConfigHostBlocks(lines))

\* The two parsers read the same blocks, of the lines the first one sees.
SameBlocks(lines) ==
    LET bs == parseConfigHostBlocks(Scanned(lines))
    IN  parse(lines) = [i \in DOMAIN bs |-> bs[i].block]

\* The lines ahead of the first block.
Preamble(lines) ==
    Sublist(lines, {i \in DOMAIN lines : \A j \in 1 .. i : lines[j].key # "host"})

\* Removing hosts removes their last blocks and nothing else: every other
\* block reads as before, in its place, and so do the lines ahead of the
\* first block.
RemovesOnly(lines, hosts) ==
    LET before == parseConfigHostBlocks(lines)
        after == parseConfigHostBlocks(ApplyCleanup(lines, hosts))
        stay == {i \in DOMAIN before :
                    before[i].block.alias \in hosts =>
                        \E j \in i + 1 .. Len(before) :
                            before[j].block.alias = before[i].block.alias}
        Settings(bs) == [i \in DOMAIN bs |-> bs[i].block]
    IN  /\ Settings(after) = Sublist(Settings(before), stay)
        /\ Preamble(ApplyCleanup(lines, hosts)) = Preamble(lines)

\* What the inventory reaches.  Targets that differ in letter case only are
\* one, also in the user's name, which a server may tell apart.
Reached(lines) ==
    {[user |-> Lower(m.user), address |-> Lower(m.address), port |-> m.port] :
        m \in Range(ListMachines(lines))}

Deletable(lines) ==
    {item.host : item \in {x \in PlanCleanup(lines) : x.action = "delete"}}

\* Where aliases are unique and the inventory reads to the end, deleting every
\* candidate leaves an inventory that reaches what it reached before, each
\* target by one machine.
PlanSparesTargets(lines) ==
    LET after == ApplyCleanup(lines, Deletable(lines))
    IN  UniqueAliases(lines) /\ Scanned(lines) = lines =>
            /\ Reached(after) = Reached(lines)
            /\ Cardinality(Reached(after)) = Len(ListMachines(after))

\* The config as Cleanup sees it, the Host blocks with their kinds and targets.
FileOf(lines) ==
    LET bs == parseConfigHostBlocks(lines)
        Kind(b) == IF isSCMIdentity(b) THEN "scm"
                   ELSE IF b.forwards THEN "forward" ELSE "machine"
    IN  [i \in DOMAIN bs |-> [alias |-> bs[i].block.alias, kind |-> Kind(bs[i].block),
                             target |-> cleanupTargetKey(bs[i].block)]]

Blocks == INSTANCE CleanupFile WITH Place <- Nat

\* The plan over the lines offers what the plan over the blocks does.
PlansByBlocks(lines) ==
    LET file == FileOf(lines)
    IN  Deletable(lines) = {file[p].alias : p \in Blocks!Candidates(file)}

\* Of the lines that are written back, the blocks are those that remain.
RemovesByBlocks(lines, hosts) ==
    LET file == FileOf(lines)
    IN  FileOf(ApplyCleanup(lines, hosts))
            = Sublist(file, DOMAIN Blocks!Remaining(file, hosts))

\* The inventory and the cleanup, which parse the config each with a parser of
\* its own, read the same blocks of every config the operator writes.
ParsersAgree == SameBlocks(config)

\* Whatever hosts are removed, the blocks of all others and what stands ahead
\* of the first block read as before.
RemovalIsExact == \A aliases \in SUBSET Hosts(config) : RemovesOnly(config, aliases)

\* Deleting all that the plan offers loses no target of the inventory and
\* leaves one machine for each.
TargetsAreSpared == PlanSparesTargets(config)

\* What the cleanup plans and removes by lines it does by blocks: Cleanup, which
\* follows the blocks over crashes and edits, loses nothing by not having lines.
CleanupGoesByBlocks ==
    /\ PlansByBlocks(config)
    /\ \A hosts \in SUBSET Hosts(config) : RemovesByBlocks(config, hosts)

============================================================================
