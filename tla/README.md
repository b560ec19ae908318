# Verification of lazyss

TLA+ models of lazyss, a terminal cockpit over SSH hosts and AWS SSM machines,
with TLC runs that check them on small instances and TLAPS proofs of the
results that matter most. Source paths below are relative to `src/`.

    tlc -workers 2 -config CockpitEdits.cfg MCCockpit
    tlapm Cockpit_proofs.tla

`PROJECT.json` lists the components, runs, mutants, findings, hazards and
theorems, and maps each definition to the lines it models.

## 1. The system

lazyss is one process around a Bubble Tea event loop. The loop owns the model
(`internal/tui`), runs one handler at a time and hands out *commands*: functions
the runtime runs as goroutines and whose result comes back as a message, in any
order. Behind the loop are application services (`internal/app`), and behind
them ports with adapters for the SSH config, AWS and the state file.

| Component | State | Operations | Interacts with | What is hard |
|---|---|---|---|---|
| Cockpit event loop `internal/tui/model.go`, `keymap.go`, `inputs.go`, `modes.go` | rows, visible rows, cursor, query, filter, search, refresh number, glyphs, counters | keys, input lines, the messages of refreshes, checks and sessions | starts refreshes, checks, batches, sessions; saves overlays | answers arrive in any order over a model that keeps changing; a session suspends the loop; copies of rows are edited and saved |
| Overlay editor `internal/tui/editor.go` | the machine being edited | open, save, cancel | saves through the loop | refreshes arrive while it is open |
| Health checks `HealthService` in `internal/app/app.go` | goroutines, semaphore, WaitGroup, channel | CheckSelected, CheckVisibleStream | checkers, store, the loop as reader | hand-over while holding a token, close after the last send, cancellation, suspended reader |
| State store `internal/adapters/statejson` | the JSON file, the mutex | two loads, four updates | called by the loop, refreshes, checks and sessions | read-modify-write of a whole file, failing file operations, crashes |
| Inventory `InventoryService.List`, `internal/domain` | none | list, merge overlays, query, sort | providers, store | overlays read one by one while the loop saves; a failing provider or store |
| Connections `ConnectService` | none | connect, build a command | connectors, store | the outcome is recorded while the loop is suspended |
| SSH config cleanup `internal/adapters/sshconfig/cleanup.go`, `internal/tui/cleanup_view.go` | plan, selection, confirmation; the config and its backups | plan, select, confirm, apply | the config file, which others edit | plan older than the file, rewrite in place, name of the backup |
| Profile picker and login `internal/tui/picker.go`, `internal/adapters/awsconfig` | profiles, selected profile | list, choose, log in | inventory service, preferences | answers of two choices in any order |
| Providers `sshconfig`, `awsssm` | AWS clients | list, connect, check | AWS, ssh, the config file | pages of a fleet that changes, an answer joined from two services, a failure half-way, two parsers of one file |
| Filter expressions and input lines `internal/tui/filter.go`, `inputs.go` | the two lines, the filter in force | type, submit, clear, parse, match | the loop | last condition wins, letter case of tag keys, two lines with one handler |
| Rendering, `internal/brand` | none | draw | - | the row under the cursor must be in the window of the list |
| Command line, doctor `cmd/lazyss`, `internal/doctor` | none | parse flags, wire, print | everything | - |

### What makes each part correct

* Health checks: never more than the limit at once; each row observed
  once; nothing sent on a closed channel; recorded before shown; no glyph
  without an answer to come; a batch ends.
* State store: a call takes effect as a whole or not at all, at one point
  between call and return; only a crash or a removal that fails leaves a temporary
  file; a file that cannot be parsed is kept; every call returns.
* Cockpit: the cursor stays in the list; what keys edit is what is in memory;
  what is listed is what was asked for, or a refresh is on its way; refreshes
  are applied in order; a glyph has a check behind it and is cleared; what was
  saved is not lost.
* Cleanup: whatever fails, a block the operator wrote is in the config or in a
  backup; only hosts that were asked for go, and never a source-control
  identity; what the plan calls a duplicate is one.
* Inventory: a listing that AWS does not refuse has each node once, with what was
  true of it meanwhile; a provider's failure stays its own; an edit changes the
  rows of one machine; a listing ends.
* SSH config: the two parsers agree; removing hosts leaves everything else as it
  reads; deleting what the plan offers loses no target.
* Filter: what is kept is what was typed; the two lines do not edit each other.
* List: the order is one that a sort can use; the selected row is in the panel body.
* Profiles: the cursor of the picker stays in its list; a choice holds; a cockpit
  at rest shows the profile and the source in use, and no refusal that a login
  has settled.

## 2. The models

| Module | What it is |
|---|---|
| `HealthBatch` | what a streamed batch promises its reader |
| `HealthStream` | the goroutines, semaphore, WaitGroup, channel and reader of one batch |
| `MemoryValue` | operator memory as a value, and what each call of the store does to it |
| `OperatorMemory` | what the store promises concurrent callers |
| `StateFile` | the JSON store: mutex, load, temporary file, rename, failures, crashes |
| `Cockpit` | the event loop with its refreshes, checks, sessions, editor and saves, over an atomic store |
| `CleanupFile` | what the cleanup plans and removes, of a file of `Host` blocks |
| `Cleanup` | plan, selection, backup and in-place rewrite of an SSH config that others edit |
| `ProfileChoice` | profile picker, login, source switch and their refreshes, over restarts |
| `Inventory` | a listing over both providers, page by page, while fleet, config and overlays change |
| `SSHConfig` | the two parsers of an SSH config, what is listed, planned and removed |
| `FilterLine` | the search and filter lines, and filter expressions |
| `ListView` | the order of the rows and the window of the list |
| `Sublists` | the loop that keeps the elements of a list at given places |
| `MC*` | values of the constants for TLC |
| `*_proofs` | the theorems of the module they extend |

The modules compose in two ways. `HealthStream` implements `HealthBatch`, and
`StateFile` implements `OperatorMemory`, both by `INSTANCE ... WITH` a refinement
mapping, checked by TLC and proved. `Cockpit` then uses what those two
specifications promise instead of repeating their insides: its store is one
value that changes atomically (`MemoryValue`'s `WithHealth` and `WithSession`
are the very operators `StateFile` applies), and its batch is a set of checks
that report in any order and then close. `Cleanup` and `ProfileChoice` stand beside
it: they touch the loop's state only through the mode, the refresh number and the
rows, of which `ProfileChoice` has its own, smaller abstraction. `SSHConfig` opens up
what `Cleanup` calls a block and what `Inventory` calls the hosts of a config:
`CleanupGoesByBlocks`, checked and proved, says that what it plans and removes by
lines is what `CleanupFile`, which `Cleanup` runs on, plans and removes by blocks, and
`MCInventory` gives `Inventory` the hosts that `SSHConfig!ListMachines` makes of a
config. `Inventory` in turn opens up what a refresh is in `Cockpit`, for one
listing at a time and with checks and edits as single steps: what may come between
the parts of those is in `Cockpit`.

### HealthStream

One call of `CheckVisibleStream` and the cockpit that reads it. `pc[m]` is where
the goroutine of machine `m` is: `Spawn` is the loop of `app.go:202-205`,
`Acquire`/`Abandon` the two arms of the `select`, `Check`/`Record` are
`CheckSelected`, `Send` the blocking send on the unbuffered channel, `Return` the
deferred calls, `Close` the goroutine that waits for the WaitGroup. A machine here
is a row: `IdOf` gives its machine ID, which an alias on two Host lines gives to two
rows, so that they have one glyph (`Model.inflight` is a map) and count twice
(`checkTotal` is a length). The reader is
the command `waitHealth`: it holds at most one observation (`inbox`), which the
loop handles (`HandleObservation`) and only then reads again. `ExecStart` and
`ExecEnd` are an interactive session, during which the loop handles nothing.
`CheckAlone` and `CheckVisibleAgain` are `g` and a later `G` during the batch, which
change the same glyphs and counters; of their checks only the answers are modelled
(`HandleAlone`, `HandleLater`, `HandleLaterClose`), which may come in any order. A
later `G` is over rows of the first one's list (`Views`). The cockpit never cancels
its batches: a cancelled context (`CanCancel`) belongs to another caller, and
excludes the other keys.

### StateFile

One caller per goroutine that calls the store. Each file operation of `load` and
`save` is a step, and may fail: `LoadFails`, `CreateFails`, `SaveFails` (the
deferred removal of the temporary file is part of it, and may fail too: its error is
dropped, and `unremoved` counts such files), and `Protect`, whose error
is returned although the file was already replaced. `Crash` stops the process
between any two steps. The rename is where an update takes effect, which is what
the refinement mapping `memory <- Parsed(disk)` says. The JSON is not modelled
beyond "parses" and "does not" (`Garbled`); a missing file and an empty one load
alike and are one value.

### Cockpit

One action per key, per step of a command and per message.

* A refresh carries its own number `n` and the `seq` the code gave it, which
  differ for the first two: `Init` increments a copy of the model. It reads
  the query when it runs (`StartFetch`), then one overlay at a time
  (`ListMachine`), which is when saves can overtake it.
* `rows` is `Model.machines` by machine ID; `visible` holds copies, as in Go.
  `Recompute` is `recompute` in full: which rows are kept, and the clamp of the
  cursor. The order of the list, which sorting and fuzzy scores decide, is left
  open (every order is a possible one).
* Keys that edit (`TogglePin`, `ToggleHidden`, `CycleMethod`, `SaveEditor`) change
  the row, save the whole overlay and recompute, as `saveOverlay` does, and a
  failed save is ignored, as in the code.
* A check records and then reports; `g` and `G` differ in who counts it.
* A session is asked for, suspends the loop, records itself (or does not: the store
  fails, or `ConnectService` returns early), and ends with a message that refreshes.
* Rows are known by machine ID: two rows of one ID are in `HealthStream`, `Inventory`
  and `SSHConfig`.
* Help, history and detail views are not in it: they change no shared state.

### Cleanup

A file is a function from places to `Host` blocks: nothing the code or an editor
does here moves one block past another. A block is its alias, its kind and its target.
The plan and the removal are in `CleanupFile`, apart from the steps that carry them out.
`Candidates` and `Found` keep the difference the code makes: the plan goes by
block, the application by alias, of which the last block counts. Applying is the
five file steps of `ApplyCleanup`: `ReadConfig` (with the refusals), `OpenBackup`,
`FillBackup`, `OpenConfig`, `FillConfig`; opening truncates. `GiveUp`, `TearBackup`
and `TearConfig` are the failures of these steps and the end of the process in
them; a torn write leaves a prefix. The cockpit applies inside a key's handler, so
that no key is handled meanwhile; `RunCommand` is the same from the command line.
The operator's editor may save between any two steps but not while the config is
being filled, and two applications do not overlap. The row cursor is left out: any
candidate can be toggled. `meant` is the file as the operator has written it, and
`raced`, `reused` and `torn` remember the cases that the properties excuse.

### ProfileChoice

* An inventory is what it was built for: the profile, the providers, whether the AWS
  configuration could be loaded and whether the account is known (`BuiltFor`, which
  is `buildProviders` and `LoadInventory`). A listing is what it covers and how AWS
  answered; its nodes do not matter here.
* `P`, `r`, `s` and a choice start commands. `ListProfiles`, `SetAWSProfile` and
  `RunFetch` are those commands, and their messages are handled in any order.
  `RunFetch` reads the runtime at one moment. The arrival of a list opens the picker
  over whatever is open (`HandleProfiles`).
* A login suspends the loop (`LoginStarts`, `LoginEnds`) and begins a session;
  `Expire` ends one at any time. Profiles in `Static` need no login. Without a profile
  the SDK's default chain decides: its credentials are there or not, as a session is.
  A second login is not asked for before the first is done.
* `Restart` stops the program in any state and starts it with the saved preference
  or the flag. The region goes along with the profile and is left out.
* The message of the initial refresh carries sequence number 1 while the model
  has 0, as in `Cockpit`.

### Inventory

* A listing walks the providers (`Turn`), reads the config at one moment
  (`ReadConfig`), asks SSM page by page (`SSMPage`), then EC2 (`EC2Page`), joins both
  (`Join`) and merges one overlay at a time (`Merge`). `SSHFails` and `AWSFails` are
  the failure of a provider at any call, and `Answer` is what the loop makes of an
  answer or a failure.
* AWS is external: it answers in a fixed order of nodes, a page has what is there
  when it is asked for, and a token may lead to an empty page. That pages are disjoint
  is an assumption about AWS: the code appends what each page brings, so a node that two
  pages returned would be listed twice, and `NodesAreListed` does not speak of it.
* `ChangeFleet` registers, stops, tags or removes a node between any two calls,
  `ChangeHosts` edits the config, `Check` and `ToggleHidden` are a check and `x`.
  `ToggleHidden` stands for all keys that save: `replaceMachine` and the whole overlay
  are the same in each.
* A row is known by ID and place, so that an alias that stands twice has two rows.
  `seen` remembers what nodes and overlays have been since the listing began; only
  properties look at it.

### SSHConfig

A line is its keyword and the one value the code takes from it. `parse` and
`parseConfigHostBlocks` are the two parsers, as folds over the lines; `ListMachines`,
`PlanCleanup` and `ApplyCleanup` are the rest of the two files, without the order of
the results. Comments, blank lines, `Match`, `Include` and `IdentityFile` are one
kind of line that nothing looks at, an overlong line another, at which `bufio.Scanner`
ends. `Lower` is `strings.ToLower`: aliases are found as they are written, targets and
source-control identities are compared in lower case, and so does `Reached`, what the
inventory reaches, take two targets that differ in case only as one. `ProxyCommand` and
the identity file are in neither. The state is the config,
which the operator writes line by line (`ConfigSpec`). `FileOf` is the config as
`CleanupFile` sees it, and `Blocks` is `CleanupFile` over the numbers of its blocks.

### FilterLine

A token is what `splitFilterToken` sees: a separator, perhaps `tag:`, a key and a
value. `parseFilterExpression` is a fold over the tokens, `matches` the set of answers
it may give, since `providerTagValue` takes the first fitting tag in the order of a
Go map. The actions are the keys of the lines. A backspace takes a token, and of the
search only its length is kept. The refresh that a filter issues is in `Cockpit`.

### ListView

No state: `Less` is the comparison of `SortMachines`, `windowRange` and `listWindow`
the rows that a list of a given height draws, `rowLine` the line a row is drawn on,
`bodyHeight` the lines that titles and warnings leave. Its theorems are in
`Inventory_proofs`.

## 3. The runs

| Run | Question | Bounds |
|---|---|---|
| `health_stream` | does a batch keep its promise, its bound and its glyphs, and end? | 3 rows of 2 IDs (one row without a checker), limit 2, cancellation, 1 session, 1 `g`, 1 later `G` over rows of one or two IDs |
| `state_file` | are the store's calls atomic, clean and live under failures (of the removal as well) and a crash? | 2 callers, 3 calls out of six requests, 1 crash, history of 1 |
| `cockpit_edits` | do list, cursor, filter and refreshes stay consistent? | 2 machines, one of which may vanish, 3 refreshes, 1 edit, failing store |
| `cockpit_checks` | do glyphs keep a check behind them, and are they cleared, when checks, refreshes and sessions mix? | 2 machines, lists of one or two rows, 3 checks, 2 refreshes, 1 session |
| `cleanup` | is anything lost or removed that should not be? | 3 places, 4 aliases (one a wildcard), 3 drafts, 2 applications, 1 edit, 2 seconds |
| `profile_choice` | does a choice hold, and is a cockpit at rest current? | 2 profiles (one needs a login), 3 lists, 2 keys or restarts that start something |
| `inventory` | is a listing complete and true, and ends, while the world changes? do the parsers agree, and does a removal stay exact, and is the cleanup by lines the one by blocks? does a filter mean what it says? | 2 nodes, an alias on two Host lines, 2 listings, 1 change, 1 edit or check; configs of up to 6 lines out of 11; 3 tokens out of 12, 3 rows |
| `cockpit_local_state`, `cockpit_stale`, `cleanup_twice`, `profile_account`, `aws_health` | five claims of documents, comments and tests, each refuted (section 5) | the smallest that shows it |

Why the bounds suffice. Three machines and two tokens are the least with one
goroutine waiting for a token, one holding it and one sending; two rows of one ID
leave a third of another, and one `g` and one `G` are each a change of glyph and counters
behind the batch's back. Over a list of one row, three checks are any mixture of `g` and
`G` that overlap, over two rows a `G` and a `g`. Two callers are
every kind of interference a mutex must prevent, and three calls leave one to
see what the other two left. Two machines let one row change while another is
looked at, and one of them vanish; three refreshes are the initial one, which
shares its number with the second, and one more to compare with. Three places hold
a machine, another name for it and a block that must stay; two applications with
two seconds let the second backup have the name of the first or another one. Two
keys that start a command are the least with which two choices overlap, a login
races a refresh, or a restart interrupts either; what three or more do is
left to the proofs.

The run `inventory` checks three parts that do not act on each other, one per
behaviour (`part`), so that it has the sum of their states. Two nodes are the least
of which one can come or go behind the page that the other one is on; one
change per behaviour reaches every pair of moments in it, because the listing may
have any number of pages; a second listing meets overlays saved after the first; two
rows of one alias are what `replaceMachine` can confuse. Configs begin as one of four
(a host, two names for one host, a source-control identity, a wildcard behind a
stray line) and grow to six lines: enough for three blocks, of which the first or the
middle one is removed, or two with two settings each, an overlong line before, in or
after them. Three tokens are the least with a condition that is overridden and one
that stays.

What a bound cuts off (more machines,
calls, refreshes, checks) the proofs cover: they hold for all values.

All bounds are constants: `MaxExec`, `MaxSingles`, `Later`, `Views`, `MaxCalls`, `MaxCrashes`, `MaxEdits`,
`MaxRefreshes`, `MaxChecks`, `MaxSessions`, `MaxClock`, `MaxApplies`, `MaxAsked`,
`MaxListings`, `MaxChanges`, `MaxLines`, `MaxTyped`. Each is a guard on the action that
begins something; none limits what is under way: in `Cockpit`, keys leave each session
the refresh that its end issues (`RefreshToSpare`). `Searches`, `Shows` and `Filters` are
the inputs that a run of `Cockpit` tries; `cockpit_checks` tries none, since its lists come
from the refreshes. `StateFile`'s `Rest`, `HealthStream`'s `Terminated` and `Cockpit`'s
`Idle` are the stutters of a state in which nothing is left to do, so that deadlock is checked there. `inventory` and `aws_health` do not
check it: a config that is written to its last line has nothing left to do, and that
a listing never stops half-way is the property `ListingEnds`.

### Fairness

* `HealthStream`: each goroutine, `Close` and the two handlers are weakly fair.
  The Go scheduler runs what can run, the checkers return (the dial has a
  timeout, the SSM check does not leave the process), and the loop takes its
  messages. The end of a session, a cancellation, the operator and the answers
  to the operator's other keys are not fair: the batch waits for none of them.
* `StateFile`: a caller's steps are weakly fair, because file operations return;
  `Lock` is strongly fair, because Go's mutex hands over to a waiter that has
  waited for more than a millisecond (starvation mode). Calls and crashes are not.
* `Cockpit`: the steps of refreshes, of checks and the handling of messages are
  each weakly fair as a whole, which is enough because each kind is bounded. No
  key is fair, and neither is the end of a session; the liveness properties are
  therefore stated "unless a session never ends" (`<>[]Busy`, `<>[]busy`).
* `Inventory`: the steps of a listing are weakly fair as a whole: reading a file,
  calling AWS and loading an overlay return, with an answer or an error. How many
  pages AWS makes of a listing is not bounded by fairness but by what a token is:
  a place among the nodes that only grows. Changes, edits and listings are not fair.
* `Cleanup`, `ProfileChoice`, `SSHConfig` and `FilterLine`: none. Their properties are about safety, and what
  must happen in them (a handler returns, a message is handled) is what the other
  modules assume of the loop anyway.

Every property of a passing run has a mutant, an operator beside the one it
replaces, that breaks it: a token not taken, a token kept, a save that leaves its
file, an unlock only on success, a list that is not recomputed, a glyph kept, a node
without tags dropped from a join, a block that the parser forgets to end.

## 4. The proofs

All theorems hold for every value of the constants that satisfies the named
assumptions of the module (finite sets of machines, bounds in `Nat`, model values
that differ from real ones). None assumes fairness.

* `HealthStream_proofs`: `TypeOK`, `ConcurrencyBounded`, `NoSendAfterClose`,
  `RecordedBeforeShown`, `GlyphsMatchPending`, and the refinement of
  `HealthBatch`. The inductive invariant adds that the two counters count: the
  semaphore holds as many tokens as there are goroutines between taking and
  returning one, and the WaitGroup as many as are started and not done; and that
  the places of an observation agree: the reader has taken exactly those of the
  goroutines that are past their send; and, of the glyphs, that one whose answers have
  all come is gone, that a later batch which is closed has no answers left, and that
  until then `checkDone` counts the rows shown. With the first, the bound follows; with
  the second, `Close` is possible only when all are done.
* `StateFile_proofs`: `TypeOK` (the histories in the file stay within the cap,
  which rests on `AppendCappedType` of `MemoryValue_proofs`), `NoTempLeak` (a file stays
  only for a crash or for a removal that failed), and
  the refinement of `OperatorMemory`. The inductive invariant adds mutual
  exclusion (a caller between `Lock` and `Unlock` holds the mutex), and that the
  holder's value `st` is the effect of its request on what is on the disk now,
  which is false as soon as two updates interleave; it makes the rename a
  `Perform`.
* `Cockpit_proofs`: `TypeOK`, `CursorInRange`, `VisibleIsCurrent`,
  `FilteredOrRefreshing`, `GlyphMeansPending`, `RefreshesInOrder`. The lemmas
  about `Recompute` say once that the new list consists of current copies, that
  it is the filtered one and that the cursor is in it; each handler that changes
  rows or query cites them. The invariant adds that sequence numbers never pass
  `refreshSeq` and how they relate to the order of issue, which gives the order of
  the refreshes.
* `Cleanup_proofs`: `TypeOK`, `Recoverable`, `OnlyAskedForGoes`, `CandidatesAreSpare`.
  The inductive invariant adds `BackupFirst` (before the config is opened, the backup
  is what was read), `ReadIsCurrent` (what was read is what stands in the config,
  where nobody edited since, and what it lacks was asked for) and `CockpitWaits` (the
  selection does not change while it is applied). Without the first two,
  truncating the config may lose a block. That each target keeps a machine rests on
  `FirstPlace`: a set of places has a first one, by the well-foundedness of `<`.
* `ProfileChoice_proofs`: `TypeOK`, `PickerInRange`, `ChoiceHolds`, `RestIsCurrent`. The
  inductive invariant adds `InUse` (the inventory is that of the profile in use, and
  a choice's inventory that of the choice), `ChoicesHold` (without an overlap, the
  one choice under way is the last), `LoginOK`, and of the refreshes `Numbered`, `NewestIsFresh`
  and `NewestIsComing`: the newest one is under way or shown, and once it has run it
  has listed what is asked for now. This needs every handler that changes what is
  asked for to issue a refresh.

* `Inventory_proofs`: `TypeOK`, `NodesAreListed`, `ProvidersFailApart`, `EditsKeepMachines`,
  for any number of nodes, pages, changes and any config. The inductive invariant
  adds `CallShape` (what is empty at which step of the listing), `Seeing` (what is true
  now is among what has been seen), and what is kept of each provider at each step:
  of the config a machine to merge, a row, or a reason to be hidden (`HostsAreKept`);
  of AWS, while its pages come, what they said of the nodes before the token
  (`PagesAreKept`), and after the join the same of machines and rows (`NodesAreKept`).
  Without `PagesAreKept` nothing says that a node between two pages cannot be missed.
  The module also proves of `ListView`, which has no state, that the order of the rows
  is a strict weak one and that the row under the cursor is in the panel body
  (`OrderIsStrictWeak`, `WindowHoldsCursor`, `SelectedIsShown`), for arbitrary rows,
  cursors, lengths and heights. Whether the terminal is high enough for the whole
  view, whose body has at least eight lines, is not part of it.
* `Parsing_proofs`, about configs and filters of any length: `ParsersAgree`,
  `RemovalIsExact`, `TargetsAreSpared`, `CleanupGoesByBlocks`, `FilterMeansWhatItSays`,
  `LinesAreSeparate`. What is read of a config or a text is computed by a loop over
  its elements, so the facts about it need an induction. The library's induction
  theorems take an operator and cannot be used here; `Induction` and `Grows` say the
  same of a *set* of numbers or sequences, by way of the least element of what is left
  over, and each proof gives the set of those configs that have the fact. `Loop` says
  once that a loop's function exists.
  - The parsers: after each line, the block that the inventory's parser is filling is
    the last one that the cleanup's has begun, as far as the settings go that both
    know (`NumberedStep`, `BlocksAgree`).
  - The removal: the lines of block `k` are those with `k` Host lines up to them
    (`BlockLines`), so what a removal leaves is read as the blocks it leaves
    (`OtherBlocksStay`), and what stands ahead of all Host lines stays (`PreambleStays`).
  - The plan: of the machines of one target the first is no candidate, a candidate's
    alias has no other block (aliases are unique here, as in `CandidatesAreSpare`), and
    the blocks that go are the candidates (`SpareGo`). A config the scanner gives up
    on is left to `ParsersAgree` and `RemovalIsExact`, which hold of it as well.
  - The filter: the invariant `FilterInv` says that the filter in force is the one that
    the accepted text gives, with no token refused. It holds along every history of
    typing, erasing, submitting and clearing; what the text gives is then a matter of
    the loop alone (`ParsedFilter`): of each field and of each key of a tag, the last
    token. That one of the two lines is open or none (`inputKind`) is part of it,
    because `LinesAreSeparate` is false of a line that is neither.

Only model-checked: the liveness properties `BatchCompletes`, `CallsReturn`,
`GlyphsClear`, `FilterTakesEffect` and `ListingEnds`, which rest on fairness, outside
what the prover handles. Every other property of a passing run is a theorem.

## 5. What the code does otherwise than it says

Each of these is a run that TLC ends with a counterexample.

* `cockpit_local_state`: `saveOverlay` writes the row in memory, whose histories are
  those of the last refresh. A pin, hide, method or note saved after a check or a
  session deletes what they recorded (`internal/tui/model.go:331`). And a refresh that
  read an overlay before an edit replaces the edited row afterwards; the next save of
  that row undoes the edit on disk (`model.go:168`). Both are against
  `docs/release-quality-parity-plan.md:26-27`.
* `cockpit_stale`: the initial refresh and the first one asked for share a sequence
  number, so the older answer can be applied last (`model.go:113`), against
  `model_test.go:26-28`. `RefreshesInOrder`, proved, says that it is the only pair.
* `cleanup_twice`: `ApplyCleanup` finds the last block of an alias
  (`internal/adapters/sshconfig/cleanup.go:111`). Where the first of two blocks with one
  alias is the candidate, the other is removed, against
  `internal/tui/cleanup_view.go:13-14` and `README.md:93`. `CandidatesAreSpare`, proved,
  says that with unique aliases this cannot happen.
* `profile_account`: `LoadInventory` ignores a failing identity call
  (`internal/adapters/awsssm/awsssm.go:69`) and keeps an empty account, which is part
  of a machine's ID. After a login the same inventory lists machines under IDs
  that change when the profile is chosen again, and pins and notes saved under them
  are out of view, against `internal/domain/domain.go:149`.

* `aws_health`: `ApplyOverlay` puts the health that was saved in the place of the one
  that is listed (`internal/domain/domain.go:181`), and every edit saves one. From then on
  no listing shows the SSM status of that node, and a check records the saved one
  again, against `internal/adapters/awsssm/awsssm.go:333`.

Seen in the models, and not claims of a run: what the properties excuse. Two backups
in one second share a file (`reused`), an edit saved while a cleanup is applied is
overwritten (`raced`), of two overlapping choices the slower one wins (`overlapped`).
A second `G` during a batch counts both batches against its own total, and the close
of either clears the glyphs and the counters of both; and `u` shows
hidden rows of the last refresh only. The source switch can reach a source that
`--source` has not wired, which then lists nothing. Of an alias on two Host lines, an
edit of the second row removes the first one from the list until a refresh. A line of
more than 64 KiB ends the inventory's reading of the config without a word, while the
cleanup reads on. Of a setting that stands twice in a block the last one counts, for
ssh the first. Hosts that differ only in `ProxyCommand`, identity file or the letter
case of the user are duplicates to the cleanup. `hidden:true` switches hidden rows on
and clearing the filter leaves them on. Of two tags of one machine whose keys differ in
letter case, the order of a Go map decides which one a filter sees.

## 6. What is not modelled, and the plan

Not modelled: rendering and layout (no state), flag parsing, printing and the
doctor (sequential I/O), the AWS SDK and ssh themselves (external), the store
without a path (keeps nothing), `CheckVisible` (used by tests only), and two
lazyss processes on one state file (nothing in the code claims to support it).
Torn reads of `runtime.Query`, which a refresh reads in its goroutine while the
loop writes it, are modelled as a read at one moment.

Not modelled of the providers: the arguments that connectors hand to `ssh` and `aws`
(formatting), the resolution of a target by `ssh -G` before a dial (its answer is ssh's),
the EC2 filters of a query with tags or a name prefix and the name search of `List`
(this program always asks with none of them), and the wording of errors.

Done, in this order: health stream, state store, event loop, because everything else
relies on them, then cleanup and profiles, which write files and switch identities,
then the inventory with the SSH config, the filter and the list; and of the proofs, each
module's invariants with the module, and those about configs and filters last. What
remains:

1. `Cockpit` refined to a store-and-view specification without refreshes in flight,
   checked and proved.
2. The default method: the editor's "auto" is saved as an empty method, and the
   next save after a refresh writes the default that `ApplyOverlay` filled in.
3. Removal and parsing of an SSH config over files with `Match` sections of their
   own, if the code comes to know them.
4. The overlap of two choices and of two cleanups, which are excused now, as
   components of their own if the code comes to handle them.
