------------------------------ MODULE Cleanup ------------------------------
(***************************************************************************)
(* The guarded SSH config cleanup: the plan and its application            *)
(* (internal/adapters/sshconfig/cleanup.go), the cockpit's cleanup view    *)
(* (internal/tui/cleanup_view.go) and the command `lazyss ssh cleanup      *)
(* --write`, over a config file that the operator also edits.              *)
(*                                                                         *)
(* A file is a function from places to Host blocks: cleanup and editing    *)
(* add and remove blocks and never move one past another, so a block keeps *)
(* its place.  Of a block, the alias, the kind (a source-control identity, *)
(* a port forward, a machine) and the target (user, host name and port)    *)
(* count; whatever else stands in it goes with it.                         *)
(*                                                                         *)
(* Applying is five steps: read the config, open the backup, fill it, open *)
(* (and so truncate) the config, fill it.  Each may fail, and the process  *)
(* may stop between any two.  The operator's editor may save between any   *)
(* two of them except the last, and applications do not overlap.           *)
(***************************************************************************)
EXTENDS CleanupFile, FiniteSets

CONSTANTS
    Alias,      \* the first name on a Host line
    Target,     \* what a block connects to
    Configs,    \* the files the operator may begin with
    Drafts,     \* the blocks the operator may write
    MaxClock,   \* bound: seconds that pass
    MaxApplies, \* bound: applications begun
    MaxEdits    \* bound: edits by the operator

Block == [alias : Alias, kind : {"scm", "forward", "machine"}, target : Target]

File == UNION {[S -> Block] : S \in SUBSET Place}
EmptyFile == [p \in {} |-> p]

ASSUME PlaceAssumption == Place \subseteq Nat
ASSUME PatternsAssumption == Patterns \subseteq Alias
ASSUME ConfigsAssumption == Configs \subseteq File
ASSUME DraftsAssumption == Drafts \subseteq Block
ASSUME BoundsAssumption ==
    MaxClock \in Nat /\ MaxApplies \in Nat /\ MaxEdits \in Nat

VARIABLES
    config,     \* the SSH config
    backups,    \* the backup files, by the second in their name
    clock,      \* the current second
    view,       \* the cockpit, its cleanup plan, or the confirmation
    planned,    \* the config as it was when the plan was made
    selected,   \* cleanupState.selected
    apply,      \* the application under way
    meant,      \* the config as the operator has written it
    raced,      \* places edited while an application was under way
    asked,      \* hosts whose removal was asked for so far
    reused,     \* a backup has replaced an earlier one
    torn,       \* a rewrite of the config has failed half-way
    applies,    \* applications begun so far
    edits       \* edits so far

cleanup == <<view, planned, selected>>
history == <<meant, raced, asked, reused, torn>>
vars == <<config, backups, clock, cleanup, apply, history, applies, edits>>

Steps == {"idle", "reading", "backing up", "filling backup", "rewriting",
          "filling config"}

Idle == [by |-> "nobody", at |-> "idle", hosts |-> {}, data |-> EmptyFile,
         stamp |-> 0]

----------------------------------------------------------------------------
Init ==
    /\ config \in Configs
    /\ backups = EmptyFile
    /\ clock = 0
    /\ view = "cockpit"
    /\ planned = EmptyFile
    /\ selected = {}
    /\ apply = Idle
    /\ meant = config
    /\ raced = {}
    /\ asked = {}
    /\ reused = FALSE
    /\ torn = FALSE
    /\ applies = 0
    /\ edits = 0

----------------------------------------------------------------------------
(* The cleanup view *)

\* Applying runs inside the key's handler: no key is handled meanwhile.
Key == apply.by # "cockpit"

View == UNCHANGED <<config, backups, clock, apply, history, applies, edits>>

\* `C`
OpenCleanup ==
    /\ Key /\ view = "cockpit"
    /\ view' = "plan"
    /\ planned' = config
    /\ selected' = {}
    /\ View

\* Space on a delete candidate; j and k move to any row.
ToggleSelection(p) ==
    /\ Key /\ view = "plan"
    /\ p \in Candidates(planned)
    /\ LET host == planned[p].alias IN
       selected' = IF host \in selected THEN selected \ {host}
                                        ELSE selected \cup {host}
    /\ UNCHANGED <<view, planned>>
    /\ View

SelectedHosts ==
    {planned[p].alias : p \in Candidates(planned)} \cap selected

\* `w`
AskToWrite ==
    /\ Key /\ view = "plan"
    /\ SelectedHosts # {}
    /\ view' = "confirm"
    /\ UNCHANGED <<planned, selected>>
    /\ View

\* Esc
CancelWrite ==
    /\ Key /\ view = "confirm"
    /\ view' = "plan"
    /\ UNCHANGED <<planned, selected>>
    /\ View

CloseCleanupKeepingSelection ==
    /\ Key /\ view = "plan"
    /\ view' = "cockpit"
    /\ planned' = EmptyFile
    /\ UNCHANGED selected
    /\ View

CloseCleanup ==
    /\ Key /\ view = "plan"
    /\ view' = "cockpit"
    /\ planned' = EmptyFile
    /\ selected' = {}
    /\ View

----------------------------------------------------------------------------
(* Applying *)

At(step) == apply.at = step

Begin(by, hosts) ==
    /\ At("idle")
    /\ applies < MaxApplies
    /\ applies' = applies + 1
    /\ apply' = [by |-> by, at |-> "reading", hosts |-> hosts,
                 data |-> EmptyFile, stamp |-> 0]
    /\ UNCHANGED <<config, backups, clock, cleanup, history, edits>>

\* `y` in the confirmation.
Confirm == Key /\ view = "confirm" /\ Begin("cockpit", SelectedHosts)

\* lazyss ssh cleanup --host ... --write
RunCommand == \E hosts \in SUBSET Alias \ {{}} : Begin("command", hosts)

Running == UNCHANGED <<clock, cleanup, applies, edits>>

ReadConfig ==
    /\ At("reading")
    /\ ~Refuses(config, apply.hosts)
    /\ apply' = [apply EXCEPT !.at = "backing up", !.data = config]
    /\ asked' = asked \cup apply.hosts
    /\ UNCHANGED <<config, backups, meant, raced, reused, torn>>
    /\ Running

\* The backup's name has the current second; an earlier backup of the same
\* name is truncated.
OpenBackup ==
    /\ At("backing up")
    /\ apply' = [apply EXCEPT !.at = "filling backup", !.stamp = clock]
    /\ backups' = [s \in DOMAIN backups \cup {clock} |->
                      IF s = clock THEN EmptyFile ELSE backups[s]]
    /\ reused' = (reused \/ clock \in DOMAIN backups)
    /\ UNCHANGED <<config, meant, raced, asked, torn>>
    /\ Running

FillBackupWithRest ==
    /\ At("filling backup")
    /\ apply' = [apply EXCEPT !.at = "rewriting"]
    /\ backups' = [backups EXCEPT ![apply.stamp] =
                      Remaining(apply.data, apply.hosts)]
    /\ UNCHANGED <<config, history>>
    /\ Running

FillBackup ==
    /\ At("filling backup")
    /\ apply' = [apply EXCEPT !.at = "rewriting"]
    /\ backups' = [backups EXCEPT ![apply.stamp] = apply.data]
    /\ UNCHANGED <<config, history>>
    /\ Running

\* os.WriteFile truncates the config in place before it writes.
OpenConfig ==
    /\ At("rewriting")
    /\ apply' = [apply EXCEPT !.at = "filling config"]
    /\ config' = EmptyFile
    /\ UNCHANGED <<backups, history>>
    /\ Running

\* The process that applied is done; the cockpit leaves its cleanup view.
Finish ==
    /\ apply' = Idle
    /\ IF apply.by = "cockpit"
       THEN view' = "cockpit" /\ planned' = EmptyFile /\ selected' = {}
       ELSE UNCHANGED cleanup
    /\ UNCHANGED <<clock, applies, edits>>

FillConfig ==
    /\ At("filling config")
    /\ config' = Remaining(apply.data, apply.hosts)
    /\ UNCHANGED <<backups, history>>
    /\ Finish

\* The part of a file that is there when writing it stopped half-way.
Written(file) == {Part(file, {p \in Place : p < end}) : end \in Place}

\* A host is refused, a file cannot be read or opened, or the process stops.
GiveUp ==
    /\ At("reading") \/ At("backing up") \/ At("rewriting")
    /\ UNCHANGED <<config, backups, history>>
    /\ Finish

\* Filling the backup fails, or the process stops meanwhile.
TearBackup ==
    /\ At("filling backup")
    /\ \E part \in Written(apply.data) :
          backups' = [backups EXCEPT ![apply.stamp] = part]
    /\ UNCHANGED <<config, history>>
    /\ Finish

\* Filling the config fails, or the process stops meanwhile.
TearConfig ==
    /\ At("filling config")
    /\ config' \in Written(Remaining(apply.data, apply.hosts))
    /\ torn' = TRUE
    /\ UNCHANGED <<backups, meant, raced, asked, reused>>
    /\ Finish

----------------------------------------------------------------------------
(* The operator's editor, and time *)

\* Whether an application has read the config and not yet replaced it.
Pending == apply.at \notin {"idle", "reading"}

\* The operator saves the config with the block of one place changed.
Put(file, p, b) ==
    [q \in DOMAIN file \cup {p} |-> IF q = p THEN b ELSE file[q]]

Edited(p) ==
    /\ edits < MaxEdits
    /\ ~At("filling config")
    /\ edits' = edits + 1
    /\ raced' = IF Pending THEN raced \cup {p} ELSE raced \ {p}
    /\ UNCHANGED <<backups, clock, cleanup, apply, asked, reused, torn, applies>>

WriteBlock(p, b) ==
    /\ config' = Put(config, p, b)
    /\ meant' = Put(meant, p, b)
    /\ Edited(p)

DeleteBlock(p) ==
    /\ p \in DOMAIN config
    /\ config' = Part(config, Place \ {p})
    /\ meant' = Part(meant, Place \ {p})
    /\ Edited(p)

Tick ==
    /\ clock < MaxClock
    /\ clock' = clock + 1
    /\ UNCHANGED <<config, backups, cleanup, apply, history, applies, edits>>

----------------------------------------------------------------------------
Keys ==
    \/ OpenCleanup
    \/ \E p \in Candidates(planned) : ToggleSelection(p)
    \/ AskToWrite
    \/ CancelWrite
    \/ CloseCleanup
    \/ Confirm

Applying ==
    \/ ReadConfig
    \/ OpenBackup
    \/ FillBackup
    \/ OpenConfig
    \/ FillConfig
    \/ GiveUp
    \/ TearBackup
    \/ TearConfig

Editing ==
    \E p \in Place : DeleteBlock(p) \/ \E b \in Drafts : WriteBlock(p, b)

Next == Keys \/ RunCommand \/ Applying \/ Editing \/ Tick

Spec == Init /\ [][Next]_vars

----------------------------------------------------------------------------
(* Properties *)

Application ==
    [by : {"nobody", "cockpit", "command"}, at : Steps, hosts : SUBSET Alias,
     data : File, stamp : 0 .. MaxClock]

\* The domain of each variable; outside its view the plan is forgotten.
TypeOK ==
    /\ config \in File
    /\ DOMAIN backups \subseteq 0 .. MaxClock
    /\ backups \in [DOMAIN backups -> File]
    /\ clock \in 0 .. MaxClock
    /\ view \in {"cockpit", "plan", "confirm"}
    /\ planned \in File
    /\ selected \subseteq Alias
    /\ view = "cockpit" => planned = EmptyFile /\ selected = {}
    /\ apply \in Application
    /\ meant \in File
    /\ raced \subseteq Place
    /\ asked \subseteq Alias
    /\ reused \in BOOLEAN
    /\ torn \in BOOLEAN
    /\ applies \in 0 .. MaxApplies
    /\ edits \in 0 .. MaxEdits

\* Whether a file has what the operator has written at a place.
Has(file, p) == p \in DOMAIN file /\ file[p] = meant[p]

\* Whatever fails or stops, each block the operator has written is in the
\* config or in a backup.  Two cases are the operator's loss: a block written
\* while an application was under way, and two backups in one second.
Recoverable ==
    reused \/ \A p \in DOMAIN meant \ raced :
                  Has(config, p) \/ \E s \in DOMAIN backups : Has(backups[s], p)

\* A block is gone from the config only if its host was asked for and it is
\* no source-control identity, unless a rewrite was torn.
OnlyAskedForGoes ==
    torn \/ At("filling config")
        \/ \A p \in DOMAIN meant \ raced :
              ~Has(config, p) =>
                  meant[p].alias \in asked /\ meant[p].kind # "scm"

\* What the cockpit removes is spare: after a plan that is still current,
\* each target keeps a machine.
Targets(file) == {file[p].target : p \in Machines(file)}

UniqueAliases(file) ==
    \A p, q \in DOMAIN file : file[p].alias = file[q].alias => p = q

Current == Pending /\ apply.by = "cockpit" /\ apply.data = planned

CandidatesAreSpare ==
    Current /\ UniqueAliases(planned) =>
        Targets(Remaining(planned, apply.hosts)) = Targets(planned)

----------------------------------------------------------------------------
(* What the code's own documents say, and a run refutes *)

\* Only delete candidates are removed.  Of two blocks with one alias the last
\* is removed, also when the first was the candidate.
OnlyCandidatesGo ==
    Current => Found(planned, apply.hosts) \subseteq Candidates(planned)

============================================================================
