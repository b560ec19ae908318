--------------------------- MODULE ProfileChoice ---------------------------
(***************************************************************************)
(* The AWS profile of the cockpit: the picker (internal/tui/picker.go),    *)
(* the login (awsLoginCmd), the source switch, and what runTUI wires to    *)
(* them (cmd/lazyss/main.go), over restarts of the program.                *)
(*                                                                         *)
(* Listing the profiles, building the inventory of a chosen one and        *)
(* refreshing are commands: they run beside the event loop, and their      *)
(* messages come back in any order.  A login suspends the loop.            *)
(*                                                                         *)
(* Of an inventory, what it was built for and from counts; of a listing,   *)
(* which sources it covers and how AWS answered.  Only a login from the    *)
(* cockpit begins an AWS session; a session may expire at any time, and so *)
(* may what the SDK's default credentials, used without a profile, may be  *)
(* accepted for.  A second login is asked for only when the first is done. *)
(***************************************************************************)
EXTENDS Integers, Sequences

CONSTANTS
    Profile,        \* names of AWS profiles
    Static,         \* those that need no login
    NoProfile,      \* none: the SDK's default
    Flags,          \* what --aws-profile may say
    SourceFlags,    \* what --source may say
    Preferences,    \* what the state file may hold at first
    ProfileLists,   \* what `aws configure list-profiles` may print
    IdentityFails,  \* whether GetCallerIdentity may fail within a session
    MaxAsked        \* bound: keys that start a command, and restarts

Profiles == Profile \cup {NoProfile}
Sources == {"ssh", "aws"}
Queries == Sources \cup {"all"}

ASSUME StaticAssumption == Static \subseteq Profile
ASSUME FlagsAssumption == Flags \subseteq Profiles
ASSUME PreferencesAssumption == Preferences \subseteq Profiles
ASSUME SourceFlagsAssumption == SourceFlags \subseteq Queries
ASSUME ProfileListsAssumption == ProfileLists \subseteq Seq(Profile)
ASSUME FailsAssumption == IdentityFails \in BOOLEAN
ASSUME BoundsAssumption == MaxAsked \in Nat

VARIABLES
    saved,      \* OperatorPreferences.AWSProfile in the state file
    sessions,   \* profiles AWS accepts, none (the default chain) among them
    used,       \* runtime.AWSProfile
    inventory,  \* runtime.Inventory
    source,     \* runtime.Query.Source
    mode,       \* Model.mode; "other" is any overlay but the picker
    profiles,   \* Model.profiles
    pcursor,    \* Model.profileCursor, counted from 1
    listings,   \* profile listings whose message has not been handled
    choices,    \* choices whose message has not been handled
    login,      \* the login under way
    refreshSeq, \* Model.refreshSeq
    fetches,    \* refreshes whose message has not been handled
    rows,       \* Model.machines and statuses
    wanted,     \* the profile chosen last
    overlapped, \* it was chosen while another choice was under way
    asked       \* keys that started a command, and restarts, so far

picker == <<mode, profiles, pcursor>>
refresh == <<refreshSeq, fetches, rows>>
runtime == <<used, inventory, source>>
choice == <<choices, wanted, overlapped>>
outside == <<saved, sessions>>
vars == <<outside, runtime, picker, listings, choice, login, refresh, asked>>

----------------------------------------------------------------------------
(* Inventories and what they list *)

\* The providers a --source flag selects.
Wired(flag) == IF flag = "all" THEN Sources ELSE {flag}

Inventory == [profile : Profiles, providers : SUBSET Sources,
              loaded : BOOLEAN, account : BOOLEAN]

\* buildProviders: AWS configuration may not load (then a failing provider
\* takes its place), and without a session the account stays unknown.
BuiltFor(p, providers) ==
    {i \in [profile : {p}, providers : {providers}, loaded : BOOLEAN,
            account : BOOLEAN] :
        /\ i.account => i.loaded /\ p \in sessions
        /\ i.loaded /\ p \in sessions => i.account \/ IdentityFails}

\* The sources List covers: a provider there is, and that the query asks for.
Covered == {s \in inventory.providers : source \in {s, "all"}}

\* How AWS may answer a listing.
Answers ==
    IF "aws" \notin Covered THEN {"not asked"}
    ELSE IF ~inventory.loaded THEN {"failed"}
    ELSE IF inventory.profile \notin sessions THEN {"auth failed", "failed"}
    ELSE {"listed", "failed"}

Listing(n) ==
    [n : {n}, covers : {Covered}, profile : {inventory.profile},
     account : {inventory.account}, aws : Answers]

\* Before anything was listed, and before a refresh has run.
Nothing(n) == [n |-> n, covers |-> {}, profile |-> NoProfile,
               account |-> FALSE, aws |-> "not asked"]

Fetch(n, seq) == [n |-> n, seq |-> seq, ran |-> FALSE, got |-> Nothing(n)]

NoLogin == [profile |-> NoProfile, at |-> "none", ok |-> FALSE]

\* The profile of a program that starts: the flag or else the preference, if
\* that can be loaded.
Effective ==
    {IF flag = NoProfile THEN pref ELSE flag :
        flag \in Flags, pref \in {saved, NoProfile}}

Init ==
    /\ saved \in Preferences
    /\ sessions \in {Static \cup live : live \in SUBSET Profiles}
    /\ asked = 0
    /\ used \in Effective
    /\ source \in SourceFlags
    /\ inventory \in BuiltFor(used, Wired(source))
    /\ mode = "cockpit"
    /\ profiles = <<>>
    /\ pcursor = 1
    /\ listings = 0
    /\ choices = {}
    /\ login = NoLogin
    \* Init increments the sequence number of its own copy of the model.
    /\ refreshSeq = 0
    /\ fetches = {Fetch(0, 1)}
    /\ rows = Nothing(-1)
    /\ wanted = used
    /\ overlapped = FALSE

Ask == asked < MaxAsked /\ asked' = asked + 1

\* The program stops, whatever it was doing, and is started again.
Restart ==
    /\ Ask
    /\ UNCHANGED outside
    /\ used' \in Effective
    /\ source' \in SourceFlags
    /\ inventory' \in BuiltFor(used', Wired(source'))
    /\ mode' = "cockpit"
    /\ profiles' = <<>>
    /\ pcursor' = 1
    /\ listings' = 0
    /\ choices' = {}
    /\ login' = NoLogin
    /\ refreshSeq' = 0
    /\ fetches' = {Fetch(0, 1)}
    /\ rows' = Nothing(-1)
    /\ wanted' = used'
    /\ overlapped' = FALSE

\* The loop handles keys and messages unless a login suspends it.
Running == login.at # "running"
Key(m) == Running /\ mode = m

----------------------------------------------------------------------------
(* Refreshes *)

\* refreshSeq++ and fetchCmd.
IssueRefresh ==
    /\ refreshSeq' = refreshSeq + 1
    /\ fetches' = fetches \cup {Fetch(refreshSeq + 1, refreshSeq + 1)}
    /\ UNCHANGED rows

AskRefresh ==
    /\ Key("cockpit")
    /\ Ask
    /\ UNCHANGED <<outside, used, inventory, picker, listings, choice, login>>

\* `r`
Refresh == AskRefresh /\ IssueRefresh /\ UNCHANGED source

NextSource == CASE source = "all" -> "ssh"
                [] source = "ssh" -> "aws"
                [] source = "aws" -> "all"

\* `s`
CycleSource ==
    /\ AskRefresh
    /\ source' = NextSource
    /\ IssueRefresh

\* The command of a refresh reads the runtime when it runs.
RunFetch(f) ==
    /\ ~f.ran
    /\ \E got \in Listing(f.n) :
          fetches' = (fetches \ {f}) \cup {[f EXCEPT !.ran = TRUE, !.got = got]}
    /\ UNCHANGED <<outside, runtime, picker, listings, choice, login,
                   refreshSeq, rows, asked>>

\* handleMachinesMsg: an older refresh than the last one issued is dropped.
HandleMachines(f) ==
    /\ Running
    /\ f.ran
    /\ fetches' = fetches \ {f}
    /\ rows' = IF f.seq < refreshSeq THEN rows ELSE f.got
    /\ UNCHANGED <<outside, runtime, picker, listings, choice, login,
                   refreshSeq, asked>>

----------------------------------------------------------------------------
(* The picker *)

\* `P`
ListProfiles ==
    /\ Key("cockpit")
    /\ Ask
    /\ listings' = listings + 1
    /\ UNCHANGED <<outside, runtime, picker, choice, login, refresh>>

ProfilesCame ==
    /\ Running
    /\ listings > 0
    /\ listings' = listings - 1
    /\ UNCHANGED <<outside, runtime, choice, login, refresh, asked>>

HandleProfilesKeepingCursor(list) ==
    /\ ProfilesCame
    /\ profiles' = list
    /\ mode' = "picker"
    /\ UNCHANGED pcursor

\* handleProfilesMsg opens the picker whatever the operator is doing.
HandleProfiles(list) ==
    /\ ProfilesCame
    /\ profiles' = list
    /\ mode' = "picker"
    /\ pcursor' = 1

HandleProfilesFailed == ProfilesCame /\ UNCHANGED picker

Keyed == UNCHANGED <<outside, runtime, listings, login, refresh, asked>>

MoveProfileCursorPastTop ==
    /\ Key("picker")
    /\ \/ pcursor < Len(profiles) /\ pcursor' = pcursor + 1
       \/ pcursor' = pcursor - 1
    /\ UNCHANGED <<mode, profiles, choice>>
    /\ Keyed

MoveProfileCursor ==
    /\ Key("picker")
    /\ \/ pcursor < Len(profiles) /\ pcursor' = pcursor + 1
       \/ pcursor > 1 /\ pcursor' = pcursor - 1
    /\ UNCHANGED <<mode, profiles, choice>>
    /\ Keyed

\* Esc; Enter on an empty list.
CancelPicker ==
    /\ Key("picker")
    /\ mode' = "cockpit"
    /\ UNCHANGED <<profiles, pcursor, choice>>
    /\ Keyed

\* Enter
ChooseProfile ==
    /\ Key("picker")
    /\ profiles # <<>>
    /\ mode' = "cockpit"
    /\ LET p == profiles[pcursor] IN
       /\ wanted' = p
       /\ choices' = choices \cup
             {[n |-> asked - listings, profile |-> p, built |-> FALSE,
               inventory |-> inventory]}
    /\ overlapped' = (choices # {})
    /\ UNCHANGED <<profiles, pcursor>>
    /\ Keyed

\* SetAWSProfile, in the command of the choice, builds the inventory.
SetAWSProfile(c) ==
    /\ ~c.built
    /\ \E i \in BuiltFor(c.profile, inventory.providers) :
          choices' = (choices \ {c}) \cup
                        {[c EXCEPT !.built = TRUE, !.inventory = i]}
    /\ UNCHANGED <<outside, runtime, picker, listings, wanted, overlapped,
                   login, refresh, asked>>

SelectedButUnused(c) ==
    /\ Running
    /\ c.built
    /\ choices' = choices \ {c}
    /\ inventory' = c.inventory
    /\ saved' \in {used, saved}
    /\ IssueRefresh
    /\ UNCHANGED <<sessions, used, source, picker, listings, wanted,
                   overlapped, login, asked>>

\* handleProfileSelectedMsg; an error of SavePreferences is ignored.
HandleProfileSelected(c) ==
    /\ Running
    /\ c.built
    /\ choices' = choices \ {c}
    /\ used' = c.profile
    /\ inventory' = c.inventory
    /\ saved' \in {c.profile, saved}
    /\ IssueRefresh
    /\ UNCHANGED <<sessions, source, picker, listings, wanted, overlapped,
                   login, asked>>

\* Any other overlay; a login or a choice may be under way behind it.
OpenOther ==
    /\ Key("cockpit")
    /\ mode' = "other"
    /\ UNCHANGED <<profiles, pcursor, choice>>
    /\ Keyed

CloseOther ==
    /\ Key("other")
    /\ mode' = "cockpit"
    /\ UNCHANGED <<profiles, pcursor, choice>>
    /\ Keyed

----------------------------------------------------------------------------
(* Login *)

\* `L`, with a profile in use.
AskLogin ==
    /\ Key("cockpit")
    /\ used # NoProfile
    /\ login.at = "none"
    /\ Ask
    /\ login' = [profile |-> used, at |-> "asked", ok |-> FALSE]
    /\ UNCHANGED <<outside, runtime, picker, listings, choice, refresh>>

LoginOnly == UNCHANGED <<saved, runtime, picker, listings, choice, asked>>

\* The loop handles the Exec message and is suspended.
LoginStarts ==
    /\ login.at = "asked"
    /\ login' = [login EXCEPT !.at = "running"]
    /\ UNCHANGED <<sessions, refresh>>
    /\ LoginOnly

\* `aws sso login` ends.
LoginEnds ==
    /\ login.at = "running"
    /\ \E ok \in BOOLEAN :
          /\ login' = [login EXCEPT !.at = "ended", !.ok = ok]
          /\ sessions' = IF ok THEN sessions \cup {login.profile} ELSE sessions
    /\ UNCHANGED refresh
    /\ LoginOnly

HandleLoginOnly ==
    /\ login.at = "ended"
    /\ login' = NoLogin
    /\ UNCHANGED refresh
    /\ UNCHANGED sessions
    /\ LoginOnly

\* handleAWSLoginMsg refreshes after a login that succeeded.
HandleLogin ==
    /\ login.at = "ended"
    /\ login' = NoLogin
    /\ IF login.ok THEN IssueRefresh ELSE UNCHANGED refresh
    /\ UNCHANGED sessions
    /\ LoginOnly

\* AWS ends a session, or refuses the default credentials from now on.
Expire(p) ==
    /\ sessions' = sessions \ {p}
    /\ UNCHANGED <<saved, runtime, picker, listings, choice, login, refresh,
                   asked>>

----------------------------------------------------------------------------
Keys ==
    \/ Refresh
    \/ CycleSource
    \/ ListProfiles
    \/ MoveProfileCursor
    \/ CancelPicker
    \/ ChooseProfile
    \/ OpenOther
    \/ CloseOther
    \/ AskLogin

Commands ==
    \/ \E f \in fetches : RunFetch(f)
    \/ \E c \in choices : SetAWSProfile(c)
    \/ LoginEnds

Messages ==
    \/ \E f \in fetches : HandleMachines(f)
    \/ \E list \in ProfileLists : HandleProfiles(list)
    \/ HandleProfilesFailed
    \/ \E c \in choices : HandleProfileSelected(c)
    \/ LoginStarts
    \/ HandleLogin

Next ==
    \/ Keys
    \/ Commands
    \/ Messages
    \/ Restart
    \/ \E p \in sessions \ Static : Expire(p)

Spec == Init /\ [][Next]_vars

----------------------------------------------------------------------------
(* Properties *)

Rows == [n : Int, covers : SUBSET Sources, profile : Profiles,
         account : BOOLEAN,
         aws : {"not asked", "failed", "auth failed", "listed"}]

TypeOK ==
    /\ saved \in Profiles
    /\ sessions \subseteq Profiles
    /\ used \in Profiles
    /\ inventory \in Inventory
    /\ source \in Queries
    /\ mode \in {"cockpit", "picker", "other"}
    /\ profiles \in Seq(Profile)
    /\ pcursor \in Nat \ {0}
    /\ listings \in 0 .. asked
    /\ choices \subseteq [n : Int, profile : Profile, built : BOOLEAN,
                          inventory : Inventory]
    /\ login \in [profile : Profiles, ok : BOOLEAN,
                  at : {"none", "asked", "running", "ended"}]
    /\ refreshSeq \in Nat
    /\ fetches \subseteq [n : Nat, seq : Nat, ran : BOOLEAN, got : Rows]
    /\ rows \in Rows
    /\ wanted \in Profiles
    /\ overlapped \in BOOLEAN
    /\ asked \in 0 .. MaxAsked

\* Enter indexes the list with the cursor: also when a second, shorter list
\* has replaced the one the cursor was moved in.
PickerInRange == profiles # <<>> => pcursor <= Len(profiles)

\* When no choice is under way, the profile in use is the one chosen last,
\* unless two choices overlapped: then the slower one wins.
ChoiceHolds == choices = {} /\ ~overlapped => used = wanted

\* When no refresh is under way, the rows are those of the profile in use and
\* the source shown, and AWS has not been refused for want of a session that
\* is there.  Excused are a login whose message is still to be handled, and an
\* initial refresh that came after the one that replaced it.
Fresh(r) ==
    /\ r.covers = Covered
    /\ r.profile = used
    /\ r.aws = "auth failed" => used \notin sessions \/ login.ok

RestIsCurrent ==
    fetches = {} /\ (rows.n = 0 => refreshSeq = 0) => Fresh(rows)

----------------------------------------------------------------------------
(* What the code's own comments say, and a run refutes *)

\* The ID of an AWS machine is stable: the same nodes, listed again for the
\* same profile, have the same account in their IDs.  An inventory that was
\* built before a login lists them without.
MachineIDsAreStable ==
    [][rows.aws = "listed" /\ rows'.aws = "listed"
          /\ rows.profile = rows'.profile => rows'.account = rows.account]_vars

============================================================================
