----------------------- MODULE ProfileChoice_proofs -----------------------
(***************************************************************************)
(* Theorems about ProfileChoice, for any profiles, lists and bound.  The   *)
(* inductive invariant adds to the properties what a choice and a refresh  *)
(* under way will bring: a built inventory is the chosen profile's, and    *)
(* the newest refresh, once it has run, listed what is asked for now.      *)
(***************************************************************************)
EXTENDS ProfileChoice, TLAPS

Choice == [n : Int, profile : Profile, built : BOOLEAN, inventory : Inventory]
Refreshes == [n : Nat, seq : Nat, ran : BOOLEAN, got : Rows]
Logins == [profile : Profiles, ok : BOOLEAN,
           at : {"none", "asked", "running", "ended"}]

\* The profile in use is the inventory's, now and after each choice.
InUse ==
    /\ used = inventory.profile
    /\ \A c \in choices : c.built => c.inventory.profile = c.profile

\* Without an overlap every choice under way is the one made last.
ChoicesHold ==
    ~overlapped => /\ choices = {} => used = wanted
                   /\ \A c \in choices : c.profile = wanted

LoginOK == login.ok => login.at = "ended"

\* Refreshes carry their numbers, the initial one that of the first.
Numbered ==
    /\ rows.n <= refreshSeq
    /\ \A f \in fetches : /\ f.n <= refreshSeq
                          /\ f.seq = IF f.n = 0 THEN 1 ELSE f.n
                          /\ f.got.n = f.n

\* What the newest refresh listed is what would be listed now.
NewestIsFresh ==
    /\ rows.n = refreshSeq => Fresh(rows)
    /\ \A f \in fetches : f.n = refreshSeq /\ f.ran => Fresh(f.got)

\* The newest refresh is under way or shown, unless the initial one came last.
NewestIsComing ==
    rows.n \in {0, refreshSeq} \/ \E f \in fetches : f.n = refreshSeq

RefreshInv == Numbered /\ NewestIsFresh /\ NewestIsComing

IInv == TypeOK /\ PickerInRange /\ InUse /\ ChoicesHold /\ LoginOK /\ RefreshInv

----------------------------------------------------------------------------
(* Values *)

LEMMA BuiltIsInventory ==
  ASSUME NEW p \in Profiles, NEW providers \in SUBSET Sources,
         NEW i \in BuiltFor(p, providers)
  PROVE  i \in Inventory /\ i.profile = p
  BY DEF BuiltFor, Inventory

LEMMA NothingIsRows ==
  ASSUME NEW n \in Int
  PROVE  Nothing(n) \in Rows
  BY DEF Nothing, Rows, Profiles

LEMMA FetchIsRefresh ==
  ASSUME NEW n \in Nat, NEW seq \in Nat
  PROVE  Fetch(n, seq) \in Refreshes
  BY NothingIsRows DEF Fetch, Refreshes

LEMMA ListingIsRows ==
  ASSUME TypeOK, NEW n \in Nat, NEW got \in Listing(n)
  PROVE  got \in Rows
<1>1. Covered \in SUBSET Sources
  BY DEF TypeOK, Inventory, Covered
<1>2. Answers \subseteq {"not asked", "failed", "auth failed", "listed"}
  BY DEF Answers
<1>3. inventory.profile \in Profiles /\ inventory.account \in BOOLEAN
  BY DEF TypeOK, Inventory
<1>4. PICK aws \in Answers :
         got = [n |-> n, covers |-> Covered, profile |-> inventory.profile,
                account |-> inventory.account, aws |-> aws]
  BY DEF Listing
<1>5. aws \in {"not asked", "failed", "auth failed", "listed"}
  BY <1>2
<1>6. n \in Int
  OBVIOUS
<1> HIDE DEF Covered
<1> QED
  BY ONLY <1>1, <1>3, <1>4, <1>5, <1>6 DEF Rows

LEMMA IssueTypes ==
  ASSUME TypeOK, IssueRefresh
  PROVE  refreshSeq' \in Nat /\ fetches' \subseteq Refreshes /\ rows' \in Rows
<1>1. Fetch(refreshSeq + 1, refreshSeq + 1) \in Refreshes
  BY FetchIsRefresh DEF TypeOK
<1> QED
  BY <1>1 DEF TypeOK, IssueRefresh, Refreshes

LEMMA EffectiveType == TypeOK => Effective \subseteq Profiles
  BY FlagsAssumption DEF TypeOK, Effective, Profiles

LEMMA WiredType ==
  ASSUME NEW flag \in Queries
  PROVE  Wired(flag) \in SUBSET Sources
  BY DEF Wired, Queries, Sources

----------------------------------------------------------------------------
(* Types *)

LEMMA InitTypes == Init => TypeOK
<1> SUFFICES ASSUME Init PROVE TypeOK
  OBVIOUS
<1>1. saved \in Profiles /\ sessions \subseteq Profiles
  BY PreferencesAssumption, StaticAssumption DEF Init, Profiles
<1>2. used \in Profiles /\ source \in Queries
  BY <1>1, FlagsAssumption, SourceFlagsAssumption DEF Init, Effective, Profiles
<1>3. inventory \in Inventory
  BY <1>2, BuiltIsInventory, WiredType DEF Init
<1>4. fetches \subseteq Refreshes
  BY FetchIsRefresh DEF Init
<1>5. rows \in Rows
  BY NothingIsRows DEF Init
<1>6. profiles \in Seq(Profile) /\ pcursor \in Nat \ {0} /\ listings \in 0 .. asked
        /\ asked \in 0 .. MaxAsked /\ refreshSeq \in Nat
  BY BoundsAssumption DEF Init
<1> QED
  BY <1>1, <1>2, <1>3, <1>4, <1>5, <1>6
  DEF Init, TypeOK, Refreshes, NoLogin, Profiles

LEMMA RestartTypes ==
  ASSUME TypeOK, Restart
  PROVE  TypeOK'
<1>1. saved' \in Profiles /\ sessions' \subseteq Profiles
  BY DEF TypeOK, Restart, outside
<1>2. used' \in Profiles /\ source' \in Queries
  BY EffectiveType, SourceFlagsAssumption DEF Restart
<1>3. inventory' \in Inventory
  BY <1>2, BuiltIsInventory, WiredType DEF Restart
<1>4. fetches' \subseteq Refreshes
  BY FetchIsRefresh DEF Restart
<1>5. rows' \in Rows
  BY NothingIsRows DEF Restart
<1>6. profiles' \in Seq(Profile) /\ pcursor' \in Nat \ {0} /\ listings' \in 0 .. asked'
        /\ asked' \in 0 .. MaxAsked /\ refreshSeq' \in Nat
  BY BoundsAssumption DEF Restart, Ask, TypeOK
<1> QED
  BY <1>1, <1>2, <1>3, <1>4, <1>5, <1>6
  DEF Restart, TypeOK, Refreshes, NoLogin, Profiles

LEMMA KeysTypes ==
  ASSUME TypeOK, PickerInRange, Keys
  PROVE  TypeOK'
<1>1. CASE Refresh
  <2>1. refreshSeq' \in Nat /\ fetches' \subseteq Refreshes /\ rows' \in Rows
    BY <1>1, IssueTypes DEF Refresh
  <2> QED
    BY <1>1, <2>1, BoundsAssumption
    DEF Refresh, AskRefresh, Ask, TypeOK, Refreshes, outside, picker, choice
<1>2. CASE CycleSource
  <2>1. refreshSeq' \in Nat /\ fetches' \subseteq Refreshes /\ rows' \in Rows
    BY <1>2, IssueTypes DEF CycleSource
  <2>2. source' \in Queries
    BY <1>2 DEF CycleSource, NextSource, TypeOK, Queries, Sources
  <2> QED
    BY <1>2, <2>1, <2>2, BoundsAssumption
    DEF CycleSource, AskRefresh, Ask, TypeOK, Refreshes, outside, picker, choice
<1>3. CASE ListProfiles
  BY <1>3, BoundsAssumption
  DEF ListProfiles, Ask, TypeOK, outside, runtime, picker, choice, refresh
<1>4. CASE MoveProfileCursor
  <2>1. pcursor' \in Nat \ {0}
    BY <1>4 DEF MoveProfileCursor, TypeOK
  <2> QED
    BY <1>4, <2>1
    DEF MoveProfileCursor, Keyed, TypeOK, outside, runtime, choice, refresh
<1>5. CASE CancelPicker
  BY <1>5 DEF CancelPicker, Keyed, TypeOK, outside, runtime, choice, refresh
<1>6. CASE ChooseProfile
  <2> DEFINE p == profiles[pcursor]
             c == [n |-> asked - listings, profile |-> p, built |-> FALSE,
                   inventory |-> inventory]
  <2>1. p \in Profile
    BY <1>6 DEF ChooseProfile, TypeOK, PickerInRange
  <2>2. wanted' = p /\ choices' = choices \cup {c}
    BY <1>6 DEF ChooseProfile
  <2>3. c \in Choice
    BY <2>1 DEF TypeOK, Choice
  <2>4. wanted' \in Profiles /\ choices' \subseteq Choice
    BY <2>1, <2>2, <2>3 DEF TypeOK, Choice, Profiles
  <2> QED
    BY <1>6, <2>4
    DEF ChooseProfile, Keyed, TypeOK, Choice, outside, runtime, refresh
<1>7. CASE OpenOther
  BY <1>7 DEF OpenOther, Keyed, TypeOK, outside, runtime, choice, refresh
<1>8. CASE CloseOther
  BY <1>8 DEF CloseOther, Keyed, TypeOK, outside, runtime, choice, refresh
<1>9. CASE AskLogin
  BY <1>9, BoundsAssumption
  DEF AskLogin, Ask, TypeOK, outside, runtime, picker, choice, refresh
<1> QED
  BY <1>1, <1>2, <1>3, <1>4, <1>5, <1>6, <1>7, <1>8, <1>9 DEF Keys

LEMMA CommandsTypes ==
  ASSUME TypeOK, Commands
  PROVE  TypeOK'
<1>1. CASE \E f \in fetches : RunFetch(f)
  <2>1. PICK f \in fetches : RunFetch(f)
    BY <1>1
  <2>2. PICK got \in Listing(f.n) :
           fetches' = (fetches \ {f}) \cup {[f EXCEPT !.ran = TRUE, !.got = got]}
    BY <2>1 DEF RunFetch
  <2>3. got \in Rows
    BY ListingIsRows DEF TypeOK
  <2>4. fetches' \subseteq Refreshes
    BY <2>2, <2>3 DEF TypeOK, Refreshes
  <2> QED
    BY <2>1, <2>4
    DEF RunFetch, TypeOK, Refreshes, outside, runtime, picker, choice
<1>2. CASE \E c \in choices : SetAWSProfile(c)
  <2>1. PICK c \in choices : SetAWSProfile(c)
    BY <1>2
  <2>2. PICK i \in BuiltFor(c.profile, inventory.providers) :
           choices' = (choices \ {c}) \cup
                         {[c EXCEPT !.built = TRUE, !.inventory = i]}
    BY <2>1 DEF SetAWSProfile
  <2>3. i \in Inventory
    BY BuiltIsInventory DEF TypeOK, Inventory, Profiles
  <2>4. choices' \subseteq Choice
    BY <2>2, <2>3 DEF TypeOK, Choice
  <2> QED
    BY <2>1, <2>4
    DEF SetAWSProfile, TypeOK, Choice, outside, runtime, picker, refresh
<1>3. CASE LoginEnds
  <2>1. login' \in Logins
    BY <1>3 DEF LoginEnds, TypeOK, Logins
  <2>2. sessions' \subseteq Profiles
    BY <1>3 DEF LoginEnds, TypeOK, Profiles
  <2> QED
    BY <1>3, <2>1, <2>2
    DEF LoginEnds, LoginOnly, TypeOK, Logins, runtime, picker, choice, refresh
<1> QED
  BY <1>1, <1>2, <1>3 DEF Commands

LEMMA MessagesTypes ==
  ASSUME TypeOK, Messages
  PROVE  TypeOK'
<1>1. CASE \E f \in fetches : HandleMachines(f)
  BY <1>1 DEF HandleMachines, TypeOK, outside, runtime, picker, choice
<1>2. CASE \E list \in ProfileLists : HandleProfiles(list)
  BY <1>2, ProfileListsAssumption, BoundsAssumption
  DEF HandleProfiles, ProfilesCame, TypeOK, outside, runtime, choice, refresh
<1>3. CASE HandleProfilesFailed
  BY <1>3, BoundsAssumption
  DEF HandleProfilesFailed, ProfilesCame, TypeOK, outside, runtime, picker,
      choice, refresh
<1>4. CASE \E c \in choices : HandleProfileSelected(c)
  <2>1. PICK c \in choices : HandleProfileSelected(c)
    BY <1>4
  <2>2. c.profile \in Profiles /\ c.inventory \in Inventory
    BY DEF TypeOK, Profiles
  <2>3. refreshSeq' \in Nat /\ fetches' \subseteq Refreshes /\ rows' \in Rows
    BY <2>1, IssueTypes DEF HandleProfileSelected
  <2> QED
    BY <2>1, <2>2, <2>3
    DEF HandleProfileSelected, TypeOK, Refreshes, picker
<1>5. CASE LoginStarts
  BY <1>5
  DEF LoginStarts, LoginOnly, TypeOK, runtime, picker, choice, refresh
<1>6. CASE HandleLogin
  <2>1. refreshSeq' \in Nat /\ fetches' \subseteq Refreshes /\ rows' \in Rows
    BY <1>6, IssueTypes DEF HandleLogin, TypeOK, Refreshes, refresh
  <2>2. login' \in Logins
    BY <1>6 DEF HandleLogin, NoLogin, Logins, Profiles
  <2> QED
    BY <1>6, <2>1, <2>2
    DEF HandleLogin, LoginOnly, TypeOK, Logins, Refreshes, runtime, picker, choice
<1> QED
  BY <1>1, <1>2, <1>3, <1>4, <1>5, <1>6 DEF Messages

LEMMA NextTypes ==
  ASSUME TypeOK, PickerInRange, [Next]_vars
  PROVE  TypeOK'
<1>1. CASE \E p \in sessions \ Static : Expire(p)
  BY <1>1 DEF Expire, TypeOK, runtime, picker, choice, refresh
<1>2. CASE UNCHANGED vars
  BY <1>2 DEF vars, TypeOK, outside, runtime, picker, choice, refresh
<1> QED
  BY <1>1, <1>2, KeysTypes, CommandsTypes, MessagesTypes, RestartTypes DEF Next

----------------------------------------------------------------------------
(* The invariant *)

LEMMA FirstFetch ==
  /\ Fetch(0, 1).n = 0 /\ Fetch(0, 1).seq = 1
  /\ ~Fetch(0, 1).ran /\ Fetch(0, 1).got.n = 0
  BY DEF Fetch, Nothing

LEMMA NothingShown == Nothing(-1).n = -1
  BY DEF Nothing

LEMMA InitInv == Init => IInv
<1> SUFFICES ASSUME Init PROVE IInv
  OBVIOUS
<1>1. TypeOK
  BY InitTypes
<1>2. PickerInRange /\ LoginOK /\ ChoicesHold
  BY DEF Init, PickerInRange, LoginOK, ChoicesHold, NoLogin
<1>3. InUse
  BY <1>1, WiredType, BuiltIsInventory DEF Init, InUse, TypeOK
<1>4. refreshSeq = 0 /\ rows = Nothing(-1) /\ fetches = {Fetch(0, 1)}
  BY DEF Init
<1>5. Numbered /\ NewestIsFresh /\ NewestIsComing
  BY <1>4, FirstFetch, NothingShown DEF Numbered, NewestIsFresh, NewestIsComing
<1> QED
  BY <1>1, <1>2, <1>3, <1>5 DEF IInv, RefreshInv

LEMMA RestartInv ==
  ASSUME IInv, Restart
  PROVE  IInv'
<1>1. TypeOK'
  BY RestartTypes DEF IInv
<1>2. PickerInRange' /\ LoginOK' /\ ChoicesHold'
  BY DEF Restart, PickerInRange, LoginOK, ChoicesHold, NoLogin
<1>3. InUse'
  BY <1>1, WiredType, BuiltIsInventory DEF Restart, InUse, TypeOK
<1>4. refreshSeq' = 0 /\ rows' = Nothing(-1) /\ fetches' = {Fetch(0, 1)}
  BY DEF Restart
<1>5. Numbered' /\ NewestIsFresh' /\ NewestIsComing'
  BY <1>4, FirstFetch, NothingShown DEF Numbered, NewestIsFresh, NewestIsComing
<1> QED
  BY <1>1, <1>2, <1>3, <1>5 DEF IInv, RefreshInv

\* The cursor: only the picker's keys and a list that came change it.
LEMMA PickerStep ==
  ASSUME TypeOK, PickerInRange, Keys \/ Commands \/ Messages
  PROVE  PickerInRange'
<1>1. CASE UNCHANGED picker
  BY <1>1 DEF picker, PickerInRange
<1>2. CASE MoveProfileCursor
  BY <1>2 DEF MoveProfileCursor, PickerInRange, TypeOK
<1>3. CASE CancelPicker \/ ChooseProfile \/ OpenOther \/ CloseOther
  BY <1>3 DEF CancelPicker, ChooseProfile, OpenOther, CloseOther, PickerInRange
<1>4. CASE \E list \in ProfileLists : HandleProfiles(list)
  <2>1. PICK list \in ProfileLists : HandleProfiles(list)
    BY <1>4
  <2>2. list \in Seq(Profile)
    BY ProfileListsAssumption
  <2> QED
    BY <2>1, <2>2 DEF HandleProfiles, PickerInRange
<1>5. CASE Keys
  BY <1>1, <1>2, <1>3, <1>5
  DEF Keys, Refresh, CycleSource, AskRefresh, ListProfiles, AskLogin
<1>6. CASE Commands
  BY <1>1, <1>6 DEF Commands, RunFetch, SetAWSProfile, LoginEnds, LoginOnly
<1>7. CASE Messages
  BY <1>1, <1>4, <1>7
  DEF Messages, HandleMachines, HandleProfilesFailed, HandleProfileSelected,
      LoginStarts, HandleLogin, LoginOnly
<1> QED
  BY <1>5, <1>6, <1>7

LEMMA LoginStep ==
  ASSUME TypeOK, LoginOK, Keys \/ Commands \/ Messages
  PROVE  LoginOK'
<1>1. CASE UNCHANGED login
  BY <1>1 DEF LoginOK
<1>2. CASE AskLogin
  BY <1>2 DEF AskLogin, LoginOK
<1>3. CASE LoginStarts
  BY <1>3 DEF LoginStarts, LoginOK, TypeOK
<1>4. CASE LoginEnds
  BY <1>4 DEF LoginEnds, LoginOK, TypeOK
<1>5. CASE HandleLogin
  BY <1>5 DEF HandleLogin, LoginOK, NoLogin
<1>6. CASE Keys
  BY <1>1, <1>2, <1>6
  DEF Keys, Refresh, CycleSource, AskRefresh, ListProfiles, MoveProfileCursor,
      CancelPicker, ChooseProfile, OpenOther, CloseOther, Keyed
<1>7. CASE Commands
  BY <1>1, <1>4, <1>7 DEF Commands, RunFetch, SetAWSProfile
<1>8. CASE Messages
  BY <1>1, <1>3, <1>5, <1>8
  DEF Messages, HandleMachines, HandleProfiles, HandleProfilesFailed,
      ProfilesCame, HandleProfileSelected
<1> QED
  BY <1>6, <1>7, <1>8

\* The choices: made, built and taken.
LEMMA ChoiceStep ==
  ASSUME TypeOK, InUse, ChoicesHold, Keys \/ Commands \/ Messages
  PROVE  InUse' /\ ChoicesHold'
<1>1. CASE UNCHANGED <<used, inventory, choice>>
  BY <1>1 DEF choice, InUse, ChoicesHold
<1>2. CASE ChooseProfile
  <2>1. UNCHANGED <<used, inventory>>
    BY <1>2 DEF ChooseProfile, Keyed, runtime
  <2>2. InUse'
    BY <1>2, <2>1 DEF ChooseProfile, InUse
  <2>3. ASSUME ~overlapped'
        PROVE  choices' # {} /\ \A c \in choices' : c.profile = wanted'
    <3>1. choices = {}
      BY <1>2, <2>3 DEF ChooseProfile
    <3> QED
      BY <1>2, <3>1 DEF ChooseProfile
  <2> QED
    BY <2>2, <2>3 DEF ChoicesHold
<1>3. CASE \E c \in choices : SetAWSProfile(c)
  <2>1. PICK c \in choices : SetAWSProfile(c)
    BY <1>3
  <2>2. PICK i \in BuiltFor(c.profile, inventory.providers) :
           choices' = (choices \ {c}) \cup
                         {[c EXCEPT !.built = TRUE, !.inventory = i]}
    BY <2>1 DEF SetAWSProfile
  <2>3. i.profile = c.profile
    BY BuiltIsInventory DEF TypeOK, Inventory, Profiles
  <2>4. UNCHANGED <<used, inventory, wanted, overlapped>>
    BY <2>1 DEF SetAWSProfile, runtime
  <2>5. InUse'
    BY <2>2, <2>3, <2>4 DEF InUse, TypeOK
  <2>6. ChoicesHold'
    BY <2>2, <2>4 DEF ChoicesHold, TypeOK
  <2> QED
    BY <2>5, <2>6
<1>4. CASE \E c \in choices : HandleProfileSelected(c)
  BY <1>4 DEF HandleProfileSelected, InUse, ChoicesHold
<1>5. CASE Keys
  BY <1>1, <1>2, <1>5
  DEF Keys, Refresh, CycleSource, AskRefresh, ListProfiles, MoveProfileCursor,
      CancelPicker, OpenOther, CloseOther, AskLogin, Keyed, runtime
<1>6. CASE Commands
  BY <1>1, <1>3, <1>6 DEF Commands, RunFetch, LoginEnds, LoginOnly, runtime
<1>7. CASE Messages
  BY <1>1, <1>4, <1>7
  DEF Messages, HandleMachines, HandleProfiles, HandleProfilesFailed,
      ProfilesCame, LoginStarts, HandleLogin, LoginOnly, runtime
<1> QED
  BY <1>5, <1>6, <1>7

----------------------------------------------------------------------------
(* Refreshes *)

\* Issuing a refresh leaves nothing to show about the newest one.
LEMMA IssueInv ==
  ASSUME TypeOK, Numbered, IssueRefresh
  PROVE  RefreshInv'
<1> DEFINE new == Fetch(refreshSeq + 1, refreshSeq + 1)
<1>1. /\ new.n = refreshSeq + 1 /\ new.seq = refreshSeq + 1
      /\ ~new.ran /\ new.got.n = refreshSeq + 1
  BY DEF Fetch, Nothing
<1>2. /\ refreshSeq' = refreshSeq + 1 /\ refreshSeq \in Nat
      /\ fetches' = fetches \cup {new} /\ rows' = rows
  BY DEF IssueRefresh, TypeOK
<1> HIDE DEF new
<1>3. rows.n \in Int /\ \A f \in fetches : f.n \in Nat
  BY DEF TypeOK, Rows
<1>4. Numbered'
  BY <1>1, <1>2, <1>3 DEF Numbered
<1>5. rows'.n # refreshSeq' /\ \A f \in fetches' : f.n = refreshSeq' => ~f.ran
  BY <1>1, <1>2, <1>3 DEF Numbered
<1>6. NewestIsFresh' /\ NewestIsComing'
  BY <1>1, <1>2, <1>5 DEF NewestIsFresh, NewestIsComing
<1> QED
  BY <1>4, <1>6 DEF RefreshInv

\* What AWS refuses is all that may change behind a refresh.
LEMMA RefreshKept ==
  ASSUME RefreshInv, UNCHANGED <<refresh, runtime>>,
         used \notin sessions \/ login.ok => used \notin sessions' \/ login'.ok
  PROVE  RefreshInv'
<1>1. ASSUME NEW r, Fresh(r) PROVE Fresh(r)'
  BY <1>1 DEF Fresh, Covered, runtime
<1>2. UNCHANGED <<refreshSeq, fetches, rows>>
  BY DEF refresh
<1>3. Fresh(rows) => Fresh(rows)'
  BY <1>2 DEF Fresh, Covered, runtime
<1> QED
  BY <1>1, <1>2, <1>3
  DEF RefreshInv, Numbered, NewestIsFresh, NewestIsComing

LEMMA RunFetchInv ==
  ASSUME TypeOK, InUse, RefreshInv, NEW f \in fetches, RunFetch(f)
  PROVE  RefreshInv'
<1>1. PICK got \in Listing(f.n) :
         fetches' = (fetches \ {f}) \cup {[f EXCEPT !.ran = TRUE, !.got = got]}
  BY DEF RunFetch
<1>2. PICK aws \in Answers :
         got = [n |-> f.n, covers |-> Covered, profile |-> inventory.profile,
                account |-> inventory.account, aws |-> aws]
  BY DEF Listing
<1>3. aws = "auth failed" => inventory.profile \notin sessions
  BY DEF Answers
<1>4. Fresh(got)
  BY <1>2, <1>3 DEF Fresh, InUse
<1>5. UNCHANGED <<used, inventory, source, sessions, login, refreshSeq, rows>>
  BY DEF RunFetch, runtime, outside
<1>6. ASSUME NEW r, Fresh(r) PROVE Fresh(r)'
  BY <1>5, <1>6 DEF Fresh, Covered
<1>7. Fresh(rows) => Fresh(rows)'
  BY <1>5 DEF Fresh, Covered
<1>8. got.n = f.n
  BY <1>2
<1> DEFINE g == [f EXCEPT !.ran = TRUE, !.got = got]
<1>9. /\ fetches' = (fetches \ {f}) \cup {g}
      /\ g.n = f.n /\ g.seq = f.seq /\ g.got = got
  BY <1>1 DEF TypeOK
<1> HIDE DEF g
<1>10. Numbered'
  BY <1>5, <1>8, <1>9 DEF RefreshInv, Numbered
<1>11. NewestIsFresh'
  BY <1>4, <1>5, <1>6, <1>7, <1>9 DEF RefreshInv, NewestIsFresh
<1>12. NewestIsComing'
  BY <1>5, <1>9 DEF RefreshInv, NewestIsComing
<1> QED
  BY <1>10, <1>11, <1>12 DEF RefreshInv

\* The newest refresh is never dropped; an older one is, unless it is the
\* initial one.
LEMMA HandleMachinesInv ==
  ASSUME TypeOK, RefreshInv, NEW f \in fetches, HandleMachines(f)
  PROVE  RefreshInv'
<1>1. /\ UNCHANGED <<used, inventory, source, sessions, login, refreshSeq>>
      /\ fetches' = fetches \ {f} /\ f.ran
      /\ rows' = IF f.seq < refreshSeq THEN rows ELSE f.got
  BY DEF HandleMachines, runtime, outside
<1>2. /\ refreshSeq \in Nat /\ f.n \in Nat /\ f.n <= refreshSeq
      /\ f.seq = (IF f.n = 0 THEN 1 ELSE f.n) /\ f.got.n = f.n
  BY DEF TypeOK, RefreshInv, Numbered
<1>3. ASSUME NEW r, Fresh(r) PROVE Fresh(r)'
  BY <1>1, <1>3 DEF Fresh, Covered
<1>4. CASE f.seq < refreshSeq
  <2>1. f.n # refreshSeq /\ rows' = rows
    BY <1>1, <1>2, <1>4
  <2>2. Fresh(rows) => Fresh(rows)'
    BY <1>1, <2>1 DEF Fresh, Covered
  <2> QED
    BY <1>1, <1>3, <2>1, <2>2
    DEF RefreshInv, Numbered, NewestIsFresh, NewestIsComing
<1>5. CASE ~(f.seq < refreshSeq)
  <2>1. rows' = f.got /\ rows'.n = f.n /\ (f.n = refreshSeq \/ f.n = 0)
    BY <1>1, <1>2, <1>5
  <2>2. Numbered' /\ NewestIsComing'
    BY <1>1, <1>2, <2>1 DEF RefreshInv, Numbered, NewestIsComing
  <2>3. Fresh(f.got) => Fresh(rows)'
    BY <1>1, <2>1 DEF Fresh, Covered
  <2>4. NewestIsFresh'
    BY <1>1, <1>3, <2>1, <2>3 DEF RefreshInv, NewestIsFresh
  <2> QED
    BY <2>2, <2>4 DEF RefreshInv
<1> QED
  BY <1>4, <1>5

LEMMA RefreshStep ==
  ASSUME TypeOK, InUse, LoginOK, RefreshInv, Keys \/ Commands \/ Messages
  PROVE  RefreshInv'
<1>1. CASE IssueRefresh
  BY <1>1, IssueInv DEF RefreshInv
<1>2. CASE UNCHANGED <<refresh, runtime, sessions, login>>
  BY <1>2, RefreshKept
<1>3. CASE AskLogin
  <2>1. ~login.ok
    BY <1>3 DEF AskLogin, LoginOK
  <2> QED
    BY <1>3, <2>1, RefreshKept DEF AskLogin, outside
<1>4. CASE LoginEnds
  <2>1. ~login.ok
    BY <1>4 DEF LoginEnds, LoginOK
  <2>2. PICK ok \in BOOLEAN :
           /\ login' = [login EXCEPT !.at = "ended", !.ok = ok]
           /\ sessions' = IF ok THEN sessions \cup {login.profile} ELSE sessions
    BY <1>4 DEF LoginEnds
  <2>3. used \notin sessions => used \notin sessions' \/ login'.ok
    BY <2>2 DEF TypeOK
  <2> QED
    BY <1>4, <2>1, <2>3, RefreshKept DEF LoginEnds, LoginOnly
<1>5. CASE LoginStarts
  <2>1. login'.ok = login.ok
    BY <1>5 DEF LoginStarts, TypeOK
  <2> QED
    BY <1>5, <2>1, RefreshKept DEF LoginStarts, LoginOnly
<1>6. CASE HandleLogin
  <2>1. CASE login.ok
    BY <1>1, <1>6, <2>1 DEF HandleLogin
  <2>2. CASE ~login.ok
    BY <1>6, <2>2, RefreshKept DEF HandleLogin, LoginOnly
  <2> QED
    BY <2>1, <2>2
<1>7. CASE Keys
  BY <1>1, <1>2, <1>3, <1>7
  DEF Keys, Refresh, CycleSource, ListProfiles, MoveProfileCursor, CancelPicker,
      ChooseProfile, OpenOther, CloseOther, Keyed, outside
<1>8. CASE Commands
  BY <1>2, <1>4, <1>8, RunFetchInv DEF Commands, SetAWSProfile, outside
<1>9. CASE Messages
  BY <1>1, <1>2, <1>5, <1>6, <1>9, HandleMachinesInv
  DEF Messages, HandleProfiles, HandleProfilesFailed, ProfilesCame,
      HandleProfileSelected, outside
<1> QED
  BY <1>7, <1>8, <1>9

----------------------------------------------------------------------------
LEMMA NextInv ==
  ASSUME IInv, [Next]_vars
  PROVE  IInv'
<1>1. TypeOK'
  BY NextTypes DEF IInv
<1>2. CASE Keys \/ Commands \/ Messages
  BY <1>1, <1>2, PickerStep, LoginStep, ChoiceStep, RefreshStep DEF IInv
<1>3. CASE Restart
  BY <1>3, RestartInv
<1>4. CASE \E p \in sessions \ Static : Expire(p)
  <2>1. RefreshInv'
    BY <1>4, RefreshKept DEF Expire, IInv
  <2> QED
    BY <1>1, <1>4, <2>1
    DEF Expire, IInv, PickerInRange, InUse, ChoicesHold, LoginOK, runtime,
        picker, choice
<1>5. CASE UNCHANGED vars
  <2>1. RefreshInv'
    BY <1>5, RefreshKept DEF vars, IInv, outside
  <2> QED
    BY <1>1, <1>5, <2>1
    DEF vars, IInv, PickerInRange, InUse, ChoicesHold, LoginOK, runtime,
        picker, choice
<1> QED
  BY <1>2, <1>3, <1>4, <1>5 DEF Next

LEMMA Invariance == Spec => []IInv
  BY InitInv, NextInv, PTL DEF Spec

\* Every variable keeps its type, through restarts too (picker.go, main.go).
THEOREM TypeCorrect == Spec => []TypeOK
<1>1. IInv => TypeOK
  BY DEF IInv
<1> QED
  BY <1>1, Invariance, PTL

\* Enter never indexes the list of profiles past its end, whichever lists
\* came while the cursor was moved (handleProfileKey).
THEOREM PickerStaysInRange == Spec => []PickerInRange
<1>1. IInv => PickerInRange
  BY DEF IInv
<1> QED
  BY <1>1, Invariance, PTL

\* With no choice under way the profile in use is the one chosen last, unless
\* two choices overlapped (handleProfileSelectedMsg).
THEOREM ChoiceIsHeld == Spec => []ChoiceHolds
<1>1. IInv => ChoiceHolds
  BY DEF IInv, ChoicesHold, ChoiceHolds
<1> QED
  BY <1>1, Invariance, PTL

\* Once no refresh is under way, the rows are those of the profile and the
\* source shown, and AWS was not refused for want of a session that is there
\* (handleMachinesMsg, handleAWSLoginMsg, cycleSource).
THEOREM RestStaysCurrent == Spec => []RestIsCurrent
<1>1. IInv => RestIsCurrent
  BY DEF IInv, RefreshInv, NewestIsFresh, NewestIsComing, RestIsCurrent
<1> QED
  BY <1>1, Invariance, PTL

=============================================================================
