--------------------------- MODULE Cleanup_proofs ---------------------------
(***************************************************************************)
(* Proofs about Cleanup: for any config, hosts, failures and crashes, what *)
(* the operator has written stays in the config or in a backup, only hosts *)
(* that were asked for go, and the cockpit removes spare machines only.    *)
(***************************************************************************)
EXTENDS Cleanup, TLAPS, WellFoundedInduction

\* The places where the config must be as the operator has written it.
Settled == DOMAIN meant \ raced

\* What may be missing there.
AskedFor(p) == meant[p].alias \in asked /\ meant[p].kind # "scm"

\* The cockpit waits in its confirmation while it applies the selection.
CockpitWaits ==
    apply.by = "cockpit" => view = "confirm" /\ apply.hosts = SelectedHosts

\* The backup being written is empty; once it is written it is what was read.
BackupFirst ==
    /\ At("filling backup") =>
          apply.stamp \in DOMAIN backups /\ backups[apply.stamp] = EmptyFile
    /\ At("rewriting") \/ At("filling config") =>
          apply.stamp \in DOMAIN backups /\ backups[apply.stamp] = apply.data
    /\ At("filling config") => config = EmptyFile

\* What was read is what is in the config, where nothing raced, and the hosts
\* to be removed from it are asked for and not refused.
ReadIsCurrent ==
    Pending =>
        /\ apply.hosts \subseteq asked
        /\ ~Refuses(apply.data, apply.hosts)
        /\ ~At("filling config") =>
              \A p \in Settled : Has(config, p) <=> Has(apply.data, p)
        /\ torn \/ \A p \in Settled : ~Has(apply.data, p) => AskedFor(p)

IInv ==
    /\ TypeOK
    /\ CockpitWaits
    /\ BackupFirst
    /\ ReadIsCurrent
    /\ Recoverable
    /\ OnlyAskedForGoes

----------------------------------------------------------------------------
(* Files *)

\* A file is a function from some places to blocks.
LEMMA FileIs ==
  ASSUME NEW f
  PROVE  f \in File <=> DOMAIN f \subseteq Place /\ f \in [DOMAIN f -> Block]
  BY DEF File

LEMMA EmptyIsFile == EmptyFile \in File /\ DOMAIN EmptyFile = {}
<1>1. DOMAIN EmptyFile = {}
  BY DEF EmptyFile
<1>2. EmptyFile \in [{} -> Block]
  BY DEF EmptyFile
<1> QED
  BY <1>1, <1>2, FileIs

LEMMA PartIsFile ==
  ASSUME NEW f \in File, NEW S
  PROVE  Part(f, S) \in File
<1>1. DOMAIN Part(f, S) \subseteq Place
  BY FileIs DEF Part
<1>2. Part(f, S) \in [DOMAIN Part(f, S) -> Block]
  BY FileIs DEF Part
<1> QED
  BY <1>1, <1>2, FileIs

LEMMA PutIsFile ==
  ASSUME NEW f \in File, NEW p \in Place, NEW b \in Block
  PROVE  Put(f, p, b) \in File
<1>1. DOMAIN Put(f, p, b) \subseteq Place
  BY FileIs DEF Put
<1>2. Put(f, p, b) \in [DOMAIN Put(f, p, b) -> Block]
  BY FileIs DEF Put
<1> QED
  BY <1>1, <1>2, FileIs

\* Both leave the other places as they are.
LEMMA PartElsewhere ==
  ASSUME NEW f \in File, NEW p, NEW q, q # p
  PROVE  /\ q \in DOMAIN Part(f, Place \ {p}) <=> q \in DOMAIN f
         /\ q \in DOMAIN f => Part(f, Place \ {p})[q] = f[q]
  BY FileIs DEF Part

LEMMA PutElsewhere ==
  ASSUME NEW f \in File, NEW p, NEW b, NEW q, q # p
  PROVE  /\ q \in DOMAIN Put(f, p, b) <=> q \in DOMAIN f
         /\ q \in DOMAIN f => Put(f, p, b)[q] = f[q]
  BY DEF Put

LEMMA RemainingIsFile ==
  ASSUME NEW f \in File, NEW hosts
  PROVE  Remaining(f, hosts) \in File
  BY PartIsFile DEF Remaining

\* A removed block is one of the hosts and no source-control identity, unless
\* the removal is refused.
LEMMA RemainingKeeps ==
  ASSUME NEW f \in File, NEW hosts, NEW p \in DOMAIN f,
         p \notin DOMAIN Remaining(f, hosts), ~Refuses(f, hosts)
  PROVE  f[p].alias \in hosts /\ f[p].kind # "scm"
<1>1. p \in Place
  BY FileIs
<1>2. p \in Found(f, hosts)
  BY <1>1 DEF Remaining, Part
<1> QED
  BY <1>2 DEF Found, Refuses

----------------------------------------------------------------------------
(* Types *)

LEMMA InitTypes == Init => TypeOK
<1> SUFFICES ASSUME Init PROVE TypeOK
  OBVIOUS
<1>1. config \in File /\ meant \in File /\ planned \in File
  BY ConfigsAssumption, EmptyIsFile DEF Init
<1>2. backups \in [DOMAIN backups -> File] /\ DOMAIN backups \subseteq 0 .. MaxClock
  BY EmptyIsFile DEF Init, EmptyFile
<1>3. apply \in Application
  BY BoundsAssumption, EmptyIsFile DEF Init, Idle, Application, Steps
<1>4. clock \in 0 .. MaxClock /\ applies \in 0 .. MaxApplies /\ edits \in 0 .. MaxEdits
  BY BoundsAssumption DEF Init
<1>5. /\ view \in {"cockpit", "plan", "confirm"}
      /\ view = "cockpit" => planned = EmptyFile /\ selected = {}
      /\ selected \subseteq Alias /\ raced \subseteq Place /\ asked \subseteq Alias
      /\ reused \in BOOLEAN /\ torn \in BOOLEAN
  BY DEF Init
<1> QED
  BY <1>1, <1>2, <1>3, <1>4, <1>5 DEF TypeOK

\* The step of an application changes its place, the data or the stamp.
LEMMA ApplyTypes ==
  ASSUME TypeOK, NEW at \in Steps
  PROVE  /\ [apply EXCEPT !.at = at] \in Application
         /\ [apply EXCEPT !.at = at, !.data = config] \in Application
         /\ [apply EXCEPT !.at = at, !.stamp = clock] \in Application
  BY DEF TypeOK, Application

LEMMA IdleIsApplication == Idle \in Application
  BY BoundsAssumption, EmptyIsFile DEF Idle, Application, Steps

LEMMA FinishTypes ==
  ASSUME TypeOK, Finish
  PROVE  /\ apply' \in Application
         /\ view' \in {"cockpit", "plan", "confirm"}
         /\ planned' \in File
         /\ selected' \subseteq Alias
         /\ view' = "cockpit" => planned' = EmptyFile /\ selected' = {}
         /\ clock' \in 0 .. MaxClock
         /\ applies' \in 0 .. MaxApplies
         /\ edits' \in 0 .. MaxEdits
  BY IdleIsApplication, EmptyIsFile DEF TypeOK, Finish, cleanup

LEMMA NextTypes ==
  ASSUME TypeOK, [Next]_vars
  PROVE  TypeOK'
<1> USE DEF Steps
<1>1. CASE Keys
  <2>1. CASE OpenCleanup
    BY <2>1 DEF TypeOK, OpenCleanup, View, history
  <2>2. ASSUME NEW p \in Candidates(planned), ToggleSelection(p) PROVE TypeOK'
    <3>1. p \in DOMAIN planned
      BY DEF Candidates, Machines
    <3>2. planned[p].alias \in Alias
      BY <3>1, FileIs DEF TypeOK, Block
    <3>3. selected' \subseteq Alias
      BY <2>2, <3>2 DEF ToggleSelection, TypeOK
    <3> QED
      BY <2>2, <3>3 DEF TypeOK, ToggleSelection, View, history
  <2>3. CASE AskToWrite
    BY <2>3 DEF TypeOK, AskToWrite, View, history
  <2>4. CASE CancelWrite
    BY <2>4 DEF TypeOK, CancelWrite, View, history
  <2>5. CASE CloseCleanup
    BY <2>5, EmptyIsFile DEF TypeOK, CloseCleanup, View, history
  <2>6. CASE Confirm
    <3>1. SelectedHosts \subseteq Alias
      BY DEF SelectedHosts, TypeOK
    <3>2. apply' \in Application
      BY <2>6, <3>1, EmptyIsFile, BoundsAssumption DEF Confirm, Begin, Application
    <3>3. applies' \in 0 .. MaxApplies
      BY <2>6, BoundsAssumption DEF Confirm, Begin, TypeOK
    <3> QED
      BY <2>6, <3>2, <3>3 DEF TypeOK, Confirm, Begin, cleanup, history
  <2> QED
    BY <1>1, <2>1, <2>2, <2>3, <2>4, <2>5, <2>6 DEF Keys
<1>2. CASE RunCommand
  <2>1. PICK hosts \in SUBSET Alias : Begin("command", hosts)
    BY <1>2 DEF RunCommand
  <2>2. apply' \in Application
    BY <2>1, EmptyIsFile, BoundsAssumption DEF Begin, Application
  <2>3. applies' \in 0 .. MaxApplies
    BY <2>1, BoundsAssumption DEF Begin, TypeOK
  <2> QED
    BY <2>1, <2>2, <2>3 DEF TypeOK, Begin, cleanup, history
<1>3. CASE Applying
  <2>1. CASE ReadConfig
    <3>1. apply' \in Application
      BY <2>1, ApplyTypes DEF ReadConfig
    <3>2. asked' \subseteq Alias
      BY <2>1 DEF ReadConfig, TypeOK, Application
    <3> QED
      BY <2>1, <3>1, <3>2 DEF TypeOK, ReadConfig, Running, cleanup
  <2>2. CASE OpenBackup
    <3>1. apply' \in Application
      BY <2>2, ApplyTypes DEF OpenBackup
    <3>2. /\ DOMAIN backups' \subseteq 0 .. MaxClock
          /\ backups' \in [DOMAIN backups' -> File]
      BY <2>2, EmptyIsFile DEF OpenBackup, TypeOK
    <3>3. reused' \in BOOLEAN
      BY <2>2 DEF OpenBackup
    <3> QED
      BY <2>2, <3>1, <3>2, <3>3 DEF TypeOK, OpenBackup, Running, cleanup
  <2>3. CASE FillBackup
    <3>1. apply' \in Application
      BY <2>3, ApplyTypes DEF FillBackup
    <3>2. /\ DOMAIN backups' \subseteq 0 .. MaxClock
          /\ backups' \in [DOMAIN backups' -> File]
      BY <2>3 DEF FillBackup, TypeOK, Application
    <3> QED
      BY <2>3, <3>1, <3>2 DEF TypeOK, FillBackup, Running, cleanup, history
  <2>4. CASE OpenConfig
    <3>1. apply' \in Application
      BY <2>4, ApplyTypes DEF OpenConfig
    <3> QED
      BY <2>4, <3>1, EmptyIsFile DEF TypeOK, OpenConfig, Running, cleanup, history
  <2>5. CASE FillConfig
    <3>1. config' \in File
      BY <2>5, RemainingIsFile DEF FillConfig, TypeOK, Application
    <3> QED
      BY <2>5, <3>1, FinishTypes DEF TypeOK, FillConfig, history
  <2>6. CASE GiveUp
    BY <2>6, FinishTypes DEF TypeOK, GiveUp, history
  <2>7. CASE TearBackup
    <3>1. PICK part \in Written(apply.data) :
              backups' = [backups EXCEPT ![apply.stamp] = part]
      BY <2>7 DEF TearBackup
    <3>2. part \in File
      <4>1. apply.data \in File
        BY DEF TypeOK, Application
      <4>2. PICK end \in Place : part = Part(apply.data, {p \in Place : p < end})
        BY <3>1 DEF Written
      <4> QED
        BY <4>1, <4>2, PartIsFile
    <3>3. /\ DOMAIN backups' \subseteq 0 .. MaxClock
          /\ backups' \in [DOMAIN backups' -> File]
      BY <3>1, <3>2 DEF TypeOK
    <3> QED
      BY <2>7, <3>3, FinishTypes DEF TypeOK, TearBackup, history
  <2>8. CASE TearConfig
    <3>1. Remaining(apply.data, apply.hosts) \in File
      BY RemainingIsFile DEF TypeOK, Application
    <3>2. config' \in File
      BY <2>8, <3>1, PartIsFile DEF TearConfig, Written
    <3> QED
      BY <2>8, <3>2, FinishTypes DEF TypeOK, TearConfig
  <2> QED
    BY <1>3, <2>1, <2>2, <2>3, <2>4, <2>5, <2>6, <2>7, <2>8 DEF Applying
<1>4. CASE Editing
  <2>1. PICK p \in Place : DeleteBlock(p) \/ \E b \in Drafts : WriteBlock(p, b)
    BY <1>4 DEF Editing
  <2>2. Edited(p)
    BY <2>1 DEF DeleteBlock, WriteBlock
  <2>3. config' \in File /\ meant' \in File
    <3>1. CASE DeleteBlock(p)
      BY <3>1, PartIsFile DEF DeleteBlock, TypeOK
    <3>2. CASE \E b \in Drafts : WriteBlock(p, b)
      BY <3>2, PutIsFile, DraftsAssumption DEF WriteBlock, TypeOK
    <3> QED
      BY <2>1, <3>1, <3>2
  <2>4. edits' \in 0 .. MaxEdits
    <3>1. edits < MaxEdits /\ edits' = edits + 1
      BY <2>2 DEF Edited
    <3>2. edits \in 0 .. MaxEdits
      BY DEF TypeOK
    <3> QED
      BY <3>1, <3>2, BoundsAssumption
  <2>5. raced' \subseteq Place
    BY <2>2 DEF Edited, TypeOK
  <2> QED
    BY <2>2, <2>3, <2>4, <2>5 DEF TypeOK, Edited, cleanup
<1>5. CASE Tick
  BY <1>5, BoundsAssumption DEF TypeOK, Tick, cleanup, history
<1>6. CASE UNCHANGED vars
  BY <1>6 DEF TypeOK, vars, cleanup, history
<1> QED
  BY <1>1, <1>2, <1>3, <1>4, <1>5, <1>6 DEF Next

----------------------------------------------------------------------------
(* The inductive invariant *)

LEMMA InitInv == Init => IInv
<1> SUFFICES ASSUME Init PROVE IInv
  OBVIOUS
<1>1. TypeOK
  BY InitTypes
<1>2. CockpitWaits /\ BackupFirst /\ ReadIsCurrent
  BY DEF Init, Idle, CockpitWaits, BackupFirst, ReadIsCurrent, At, Pending
<1>3. Recoverable /\ OnlyAskedForGoes
  BY DEF Init, Recoverable, OnlyAskedForGoes, Has
<1> QED
  BY <1>1, <1>2, <1>3 DEF IInv

\* A step that changes no file, no application and nothing the operator meant.
LEMMA FilesKept ==
  ASSUME IInv, UNCHANGED <<config, backups, apply, history>>
  PROVE  BackupFirst' /\ ReadIsCurrent' /\ Recoverable' /\ OnlyAskedForGoes'
  BY DEF IInv, BackupFirst, ReadIsCurrent, Recoverable, OnlyAskedForGoes,
         AskedFor, Settled, Has, At, Pending, history

\* Once an application is done, what it had read no longer matters.
LEMMA DoneIsQuiet ==
  ASSUME Finish
  PROVE  CockpitWaits' /\ BackupFirst' /\ ReadIsCurrent'
  BY DEF Finish, Idle, CockpitWaits, BackupFirst, ReadIsCurrent, At, Pending

LEMMA KeysInv ==
  ASSUME IInv, Keys
  PROVE  CockpitWaits' /\ BackupFirst' /\ ReadIsCurrent' /\ Recoverable'
            /\ OnlyAskedForGoes'
<1>1. CASE Confirm
  <2>1. BackupFirst' /\ ReadIsCurrent'
    BY <1>1 DEF Confirm, Begin, BackupFirst, ReadIsCurrent, At, Pending
  <2>2. CockpitWaits'
    BY <1>1 DEF Confirm, Begin, CockpitWaits, SelectedHosts, cleanup
  <2>3. Recoverable' /\ OnlyAskedForGoes'
    BY <1>1 DEF IInv, Confirm, Begin, Recoverable, OnlyAskedForGoes, Has, At, history
  <2> QED
    BY <2>1, <2>2, <2>3
<1>2. CASE View /\ Key
  BY <1>2, FilesKept DEF View, Key, CockpitWaits
<1>3. Keys => Confirm \/ (View /\ Key)
  BY DEF Keys, OpenCleanup, ToggleSelection, AskToWrite, CancelWrite, CloseCleanup
<1> QED
  BY <1>1, <1>2, <1>3

LEMMA RunCommandInv ==
  ASSUME IInv, RunCommand
  PROVE  CockpitWaits' /\ BackupFirst' /\ ReadIsCurrent' /\ Recoverable'
            /\ OnlyAskedForGoes'
<1>1. PICK hosts \in SUBSET Alias : Begin("command", hosts)
  BY DEF RunCommand
<1>2. CockpitWaits' /\ BackupFirst' /\ ReadIsCurrent'
  BY <1>1 DEF Begin, CockpitWaits, BackupFirst, ReadIsCurrent, At, Pending
<1>3. Recoverable' /\ OnlyAskedForGoes'
  BY <1>1 DEF IInv, Begin, Recoverable, OnlyAskedForGoes, Has, At, history
<1> QED
  BY <1>2, <1>3

LEMMA ReadConfigInv ==
  ASSUME IInv, ReadConfig
  PROVE  CockpitWaits' /\ BackupFirst' /\ ReadIsCurrent' /\ Recoverable'
            /\ OnlyAskedForGoes'
<1>1. apply' = [apply EXCEPT !.at = "backing up", !.data = config]
  BY DEF ReadConfig
<1>2. /\ apply'.at = "backing up" /\ apply'.data = config
      /\ apply'.hosts = apply.hosts /\ apply'.by = apply.by
      /\ apply.at = "reading"
  BY <1>1 DEF IInv, TypeOK, Application, ReadConfig, At
<1>3. CockpitWaits' /\ BackupFirst'
  <2>1. view' = view /\ SelectedHosts' = SelectedHosts
    BY DEF ReadConfig, Running, cleanup, SelectedHosts
  <2>2. CockpitWaits'
    BY <1>2, <2>1 DEF IInv, CockpitWaits
  <2>3. BackupFirst'
    BY <1>2 DEF BackupFirst, At
  <2> QED
    BY <2>2, <2>3
<1>4. OnlyAskedForGoes' /\ Recoverable'
  BY <1>2 DEF IInv, ReadConfig, OnlyAskedForGoes, Recoverable, Has, At
<1>5. ReadIsCurrent'
  BY <1>2, <1>4 DEF ReadConfig, ReadIsCurrent, OnlyAskedForGoes, Has, At, Settled,
                    AskedFor
<1> QED
  BY <1>3, <1>4, <1>5

LEMMA OpenBackupInv ==
  ASSUME IInv, OpenBackup
  PROVE  CockpitWaits' /\ BackupFirst' /\ ReadIsCurrent' /\ Recoverable'
            /\ OnlyAskedForGoes'
<1>1. /\ apply'.at = "filling backup" /\ apply'.data = apply.data
      /\ apply'.hosts = apply.hosts /\ apply'.by = apply.by
      /\ apply'.stamp = clock /\ apply.at = "backing up"
  BY DEF IInv, TypeOK, Application, OpenBackup, At
<1>2. CockpitWaits' /\ BackupFirst'
  <2>1. view' = view /\ SelectedHosts' = SelectedHosts
    BY DEF OpenBackup, Running, cleanup, SelectedHosts
  <2>2. CockpitWaits'
    BY <1>1, <2>1 DEF IInv, CockpitWaits
  <2>3. clock \in DOMAIN backups' /\ backups'[clock] = EmptyFile
    BY DEF OpenBackup
  <2>4. BackupFirst'
    BY <1>1, <2>3 DEF BackupFirst, At
  <2> QED
    BY <2>2, <2>4
<1>3. OnlyAskedForGoes' /\ ReadIsCurrent'
  <2>1. /\ Settled' = Settled /\ torn' = torn /\ asked' = asked /\ raced' = raced
        /\ meant' = meant /\ config' = config
    BY DEF OpenBackup, Settled
  <2>2. \A p : AskedFor(p)' <=> AskedFor(p)
    BY <2>1 DEF AskedFor
  <2>3. /\ \A p : Has(config, p)' <=> Has(config, p)
        /\ \A p : Has(apply.data, p)' <=> Has(apply.data, p)
    BY <1>1, <2>1 DEF Has
  <2>4. Pending /\ ~At("filling config") /\ ~At("filling config")'
    BY <1>1 DEF Pending, At
  <2>5. ReadIsCurrent'
    BY <1>1, <2>1, <2>2, <2>3, <2>4 DEF IInv, ReadIsCurrent
  <2>6. OnlyAskedForGoes'
    BY <2>1, <2>3, <2>4 DEF IInv, OnlyAskedForGoes
  <2> QED
    BY <2>5, <2>6
<1>4. Recoverable'
  <2> SUFFICES ASSUME ~reused', NEW p \in (DOMAIN meant \ raced)'
               PROVE  Has(config, p)' \/ \E s \in DOMAIN backups' : Has(backups[s], p)'
    BY DEF Recoverable
  <2>1. ~reused /\ clock \notin DOMAIN backups
    BY DEF OpenBackup
  <2>2. Has(config, p) \/ \E s \in DOMAIN backups : Has(backups[s], p)
    BY <2>1 DEF IInv, Recoverable, OpenBackup
  <2>3. ASSUME NEW s \in DOMAIN backups, Has(backups[s], p)
        PROVE  s \in DOMAIN backups' /\ Has(backups[s], p)'
    BY <2>1, <2>3 DEF OpenBackup, Has
  <2>4. Has(config, p) => Has(config, p)'
    BY DEF OpenBackup, Has
  <2> QED
    BY <2>2, <2>3, <2>4
<1> QED
  BY <1>2, <1>3, <1>4

\* Filling an empty backup loses nothing.
LEMMA FillingBackup ==
  ASSUME IInv, At("filling backup"), NEW file,
         backups' = [backups EXCEPT ![apply.stamp] = file],
         UNCHANGED <<config, history>>
  PROVE  Recoverable'
<1> SUFFICES ASSUME ~reused', NEW p \in (DOMAIN meant \ raced)'
             PROVE  Has(config, p)' \/ \E s \in DOMAIN backups' : Has(backups[s], p)'
  BY DEF Recoverable
<1>1. Has(config, p) \/ \E s \in DOMAIN backups : Has(backups[s], p)
  BY DEF IInv, Recoverable, history
<1>2. backups[apply.stamp] = EmptyFile
  BY DEF IInv, BackupFirst
<1>3. ASSUME NEW s \in DOMAIN backups, Has(backups[s], p)
      PROVE  s \in DOMAIN backups' /\ Has(backups[s], p)'
  <2>1. s # apply.stamp
    BY <1>2, <1>3, EmptyIsFile DEF Has
  <2> QED
    BY <1>3, <2>1 DEF Has, history
<1>4. Has(config, p) => Has(config, p)'
  BY DEF Has, history
<1> QED
  BY <1>1, <1>3, <1>4

LEMMA FillBackupInv ==
  ASSUME IInv, FillBackup
  PROVE  CockpitWaits' /\ BackupFirst' /\ ReadIsCurrent' /\ Recoverable'
            /\ OnlyAskedForGoes'
<1>1. /\ apply'.at = "rewriting" /\ apply'.data = apply.data
      /\ apply'.hosts = apply.hosts /\ apply'.by = apply.by
      /\ apply'.stamp = apply.stamp /\ apply.at = "filling backup"
  BY DEF IInv, TypeOK, Application, FillBackup, At
<1>2. BackupFirst'
  BY <1>1 DEF IInv, FillBackup, BackupFirst, At
<1>3. CockpitWaits'
  BY <1>1 DEF IInv, FillBackup, Running, cleanup, CockpitWaits, SelectedHosts
<1>4. OnlyAskedForGoes' /\ ReadIsCurrent'
  <2>1. /\ Settled' = Settled /\ torn' = torn /\ asked' = asked /\ raced' = raced
        /\ meant' = meant /\ config' = config
    BY DEF FillBackup, Settled, history
  <2>2. \A p : AskedFor(p)' <=> AskedFor(p)
    BY <2>1 DEF AskedFor
  <2>3. /\ \A p : Has(config, p)' <=> Has(config, p)
        /\ \A p : Has(apply.data, p)' <=> Has(apply.data, p)
    BY <1>1, <2>1 DEF Has
  <2>4. Pending /\ ~At("filling config") /\ ~At("filling config")'
    BY <1>1 DEF Pending, At
  <2>5. ReadIsCurrent'
    BY <1>1, <2>1, <2>2, <2>3, <2>4 DEF IInv, ReadIsCurrent
  <2>6. OnlyAskedForGoes'
    BY <2>1, <2>3, <2>4 DEF IInv, OnlyAskedForGoes
  <2> QED
    BY <2>5, <2>6
<1>5. Recoverable'
  BY <1>1, FillingBackup DEF FillBackup, At
<1> QED
  BY <1>2, <1>3, <1>4, <1>5

LEMMA OpenConfigInv ==
  ASSUME IInv, OpenConfig
  PROVE  CockpitWaits' /\ BackupFirst' /\ ReadIsCurrent' /\ Recoverable'
            /\ OnlyAskedForGoes'
<1>1. /\ apply'.at = "filling config" /\ apply'.data = apply.data
      /\ apply'.hosts = apply.hosts /\ apply'.by = apply.by
      /\ apply'.stamp = apply.stamp /\ apply.at = "rewriting"
  BY DEF IInv, TypeOK, Application, OpenConfig, At
<1>2. BackupFirst'
  BY <1>1 DEF IInv, OpenConfig, BackupFirst, At
<1>3. CockpitWaits'
  BY <1>1 DEF IInv, OpenConfig, Running, cleanup, CockpitWaits, SelectedHosts
<1>4. OnlyAskedForGoes' /\ ReadIsCurrent'
  BY <1>1 DEF IInv, OpenConfig, OnlyAskedForGoes, ReadIsCurrent, Has, At, Settled,
              AskedFor, Pending, history
<1>5. Recoverable'
  <2> SUFFICES ASSUME ~reused', NEW p \in (DOMAIN meant \ raced)'
               PROVE  \E s \in DOMAIN backups' : Has(backups[s], p)'
    BY DEF Recoverable
  <2>1. p \in Settled /\ (Has(config, p) \/ \E s \in DOMAIN backups : Has(backups[s], p))
    BY DEF IInv, Recoverable, OpenConfig, history, Settled
  <2>2. Has(config, p) => Has(apply.data, p)
    BY <1>1, <2>1 DEF IInv, ReadIsCurrent, At, Pending
  <2>3. apply.stamp \in DOMAIN backups /\ backups[apply.stamp] = apply.data
    BY <1>1 DEF IInv, BackupFirst, At
  <2>4. \E s \in DOMAIN backups : Has(backups[s], p)
    BY <2>1, <2>2, <2>3
  <2> QED
    BY <2>4 DEF OpenConfig, Has, history
<1> QED
  BY <1>2, <1>3, <1>4, <1>5

\* While the config is empty everything is in the backups.
LEMMA FillingConfig ==
  ASSUME IInv, At("filling config"), UNCHANGED <<backups, meant, raced, reused>>
  PROVE  Recoverable'
<1> SUFFICES ASSUME ~reused', NEW p \in (DOMAIN meant \ raced)'
             PROVE  \E s \in DOMAIN backups' : Has(backups[s], p)'
  BY DEF Recoverable
<1>1. Has(config, p) \/ \E s \in DOMAIN backups : Has(backups[s], p)
  BY DEF IInv, Recoverable
<1>2. ~Has(config, p)
  BY EmptyIsFile DEF IInv, BackupFirst, Has
<1> QED
  BY <1>1, <1>2 DEF Has

LEMMA FillConfigInv ==
  ASSUME IInv, FillConfig
  PROVE  CockpitWaits' /\ BackupFirst' /\ ReadIsCurrent' /\ Recoverable'
            /\ OnlyAskedForGoes'
<1>1. CockpitWaits' /\ BackupFirst' /\ ReadIsCurrent'
  BY DoneIsQuiet DEF FillConfig
<1>2. Recoverable'
  BY FillingConfig DEF FillConfig, history
<1>3. OnlyAskedForGoes'
  <2> SUFFICES ASSUME ~torn, NEW p \in Settled, ~Has(config, p)'
               PROVE  AskedFor(p)
    BY DEF OnlyAskedForGoes, FillConfig, history, Settled, AskedFor, Has
  <2>1. /\ apply.hosts \subseteq asked
        /\ ~Refuses(apply.data, apply.hosts)
        /\ ~Has(apply.data, p) => AskedFor(p)
    BY DEF IInv, ReadIsCurrent, FillConfig, At, Pending
  <2>2. CASE Has(apply.data, p)
    <3>1. apply.data \in File /\ p \in DOMAIN apply.data /\ apply.data[p] = meant[p]
      BY <2>2 DEF IInv, TypeOK, Application, Has
    <3>2. p \notin DOMAIN Remaining(apply.data, apply.hosts)
      BY <3>1 DEF FillConfig, history, Has, Remaining, Part
    <3> QED
      BY <2>1, <3>1, <3>2, RemainingKeeps DEF AskedFor
  <2> QED
    BY <2>1, <2>2
<1> QED
  BY <1>1, <1>2, <1>3

LEMMA FailingInv ==
  ASSUME IInv, GiveUp \/ TearBackup \/ TearConfig
  PROVE  CockpitWaits' /\ BackupFirst' /\ ReadIsCurrent' /\ Recoverable'
            /\ OnlyAskedForGoes'
<1>1. CockpitWaits' /\ BackupFirst' /\ ReadIsCurrent'
  BY DoneIsQuiet DEF GiveUp, TearBackup, TearConfig
<1>2. CASE GiveUp
  BY <1>1, <1>2 DEF IInv, GiveUp, Recoverable, OnlyAskedForGoes, Has, At, history
<1>3. CASE TearBackup
  <2>1. Recoverable'
    BY <1>3, FillingBackup DEF TearBackup
  <2>2. OnlyAskedForGoes'
    BY <1>3 DEF IInv, TearBackup, OnlyAskedForGoes, Has, At, history
  <2> QED
    BY <1>1, <2>1, <2>2
<1>4. CASE TearConfig
  BY <1>1, <1>4, FillingConfig DEF TearConfig, OnlyAskedForGoes
<1> QED
  BY <1>2, <1>3, <1>4

\* An edit changes one place of the config and of what was meant alike.
LEMMA EditingInv ==
  ASSUME IInv, Editing
  PROVE  CockpitWaits' /\ BackupFirst' /\ ReadIsCurrent' /\ Recoverable'
            /\ OnlyAskedForGoes'
<1>1. PICK p \in Place : DeleteBlock(p) \/ \E b \in Drafts : WriteBlock(p, b)
  BY DEF Editing
<1>2. Edited(p)
  BY <1>1 DEF DeleteBlock, WriteBlock
<1>3. p \in DOMAIN meant' => Has(config, p)'
  BY <1>1 DEF DeleteBlock, WriteBlock, Part, Put, Has
<1>4. ASSUME NEW q, q # p
      PROVE  /\ q \in DOMAIN meant' <=> q \in DOMAIN meant
             /\ q \in DOMAIN meant =>
                   /\ meant'[q] = meant[q]
                   /\ Has(config, q)' <=> Has(config, q)
  <2>1. meant \in File /\ config \in File
    BY DEF IInv, TypeOK
  <2>2. /\ q \in DOMAIN meant' <=> q \in DOMAIN meant
        /\ q \in DOMAIN meant => meant'[q] = meant[q]
        /\ q \in DOMAIN config' <=> q \in DOMAIN config
        /\ q \in DOMAIN config => config'[q] = config[q]
    <3>1. CASE DeleteBlock(p)
      BY <1>4, <2>1, <3>1, PartElsewhere DEF DeleteBlock
    <3>2. CASE \E b \in Drafts : WriteBlock(p, b)
      BY <1>4, <2>1, <3>2, PutElsewhere DEF WriteBlock
    <3> QED
      BY <1>1, <3>1, <3>2
  <2> QED
    BY <2>2 DEF Has
<1>5. CockpitWaits' /\ BackupFirst'
  BY <1>2 DEF IInv, Edited, cleanup, CockpitWaits, BackupFirst, At, SelectedHosts
<1>6. ASSUME NEW q \in Settled', q # p PROVE q \in Settled
  BY <1>2, <1>4, <1>6 DEF Settled, Edited
<1>7. Pending => p \notin Settled'
  BY <1>2 DEF Edited, Settled
<1>8. ReadIsCurrent'
  <2> SUFFICES ASSUME Pending
               PROVE  ReadIsCurrent'
    BY <1>2 DEF ReadIsCurrent, Edited, Pending
  <2>1. /\ apply' = apply /\ asked' = asked /\ torn' = torn
        /\ ~At("filling config")
    BY <1>2 DEF Edited
  <2>2. ASSUME NEW q \in Settled'
        PROVE  /\ q \in Settled
               /\ meant'[q] = meant[q]
               /\ Has(config, q)' <=> Has(config, q)
               /\ Has(apply.data, q)' <=> Has(apply.data, q)
    BY <1>4, <1>6, <1>7, <2>1 DEF Settled, Has
  <2>3. /\ apply.hosts \subseteq asked
        /\ ~Refuses(apply.data, apply.hosts)
        /\ \A q \in Settled : Has(config, q) <=> Has(apply.data, q)
        /\ torn \/ \A q \in Settled : ~Has(apply.data, q) => AskedFor(q)
    BY <2>1 DEF IInv, ReadIsCurrent
  <2>4. \A q \in Settled' : Has(config, q)' <=> Has(apply.data, q)'
    BY <2>2, <2>3
  <2>5. torn' \/ \A q \in Settled' : ~Has(apply.data, q)' => AskedFor(q)'
    BY <2>1, <2>2, <2>3 DEF AskedFor
  <2> QED
    BY <2>1, <2>3, <2>4, <2>5 DEF ReadIsCurrent
<1>9. Recoverable'
  <2> SUFFICES ASSUME ~reused', NEW q \in Settled', q # p
               PROVE  Has(config, q)' \/ \E s \in DOMAIN backups' : Has(backups[s], q)'
    BY <1>3 DEF Recoverable, Settled
  <2>1. Has(config, q) \/ \E s \in DOMAIN backups : Has(backups[s], q)
    BY <1>2, <1>6 DEF IInv, Recoverable, Edited, Settled
  <2>2. q \in DOMAIN meant /\ meant'[q] = meant[q] /\ backups' = backups
    BY <1>2, <1>4, <1>6 DEF Settled, Edited
  <2> QED
    BY <1>4, <2>1, <2>2 DEF Has
<1>10. OnlyAskedForGoes'
  <2> SUFFICES ASSUME ~torn, NEW q \in Settled', q # p, ~Has(config, q)'
               PROVE  AskedFor(q)'
    BY <1>2, <1>3 DEF OnlyAskedForGoes, Settled, AskedFor, Edited
  <2>1. q \in Settled /\ ~At("filling config")
    BY <1>2, <1>6 DEF Edited
  <2>5. ~Has(config, q)
    BY <1>4, <2>1 DEF Settled
  <2>2. AskedFor(q)
    BY <2>5, <2>1 DEF IInv, OnlyAskedForGoes, Settled, AskedFor
  <2> QED
    BY <1>2, <1>4, <2>1, <2>2 DEF AskedFor, Edited, Settled
<1> QED
  BY <1>5, <1>8, <1>9, <1>10

LEMMA NextInv == IInv /\ [Next]_vars => IInv'
<1> SUFFICES ASSUME IInv, [Next]_vars PROVE IInv'
  OBVIOUS
<1> DEFINE Rest == /\ CockpitWaits /\ BackupFirst /\ ReadIsCurrent
                   /\ Recoverable /\ OnlyAskedForGoes
<1>1. TypeOK'
  BY NextTypes DEF IInv
<1>2. ASSUME Keys PROVE Rest'
  BY <1>2, KeysInv
<1>3. ASSUME RunCommand PROVE Rest'
  BY <1>3, RunCommandInv
<1>4. ASSUME Applying PROVE Rest'
  BY <1>4, ReadConfigInv, OpenBackupInv, FillBackupInv, OpenConfigInv,
     FillConfigInv, FailingInv DEF Applying
<1>5. ASSUME Editing PROVE Rest'
  BY <1>5, EditingInv
<1>6. ASSUME Tick \/ UNCHANGED vars PROVE Rest'
  <2>1. UNCHANGED <<config, backups, apply, history, cleanup>>
    BY <1>6 DEF Tick, vars
  <2>2. CockpitWaits'
    BY <2>1 DEF IInv, CockpitWaits, SelectedHosts, cleanup
  <2> QED
    BY <2>1, <2>2, FilesKept
<1>7. Rest'
  BY <1>2, <1>3, <1>4, <1>5, <1>6 DEF Next
<1> QED
  BY <1>1, <1>7 DEF IInv

LEMMA AlwaysInv == Spec => []IInv
  BY InitInv, NextInv, PTL DEF Spec

----------------------------------------------------------------------------
(* The theorems *)

\* The state of the cleanup keeps its types, and the view forgets its plan.
THEOREM TypeCorrect == Spec => []TypeOK
<1>1. IInv => TypeOK
  BY DEF IInv
<1>2. QED
  BY <1>1, AlwaysInv, PTL

\* For any failures, crashes and edits: what the operator has written is in
\* the config or in a backup.
THEOREM NothingIsLost == Spec => []Recoverable
<1>1. IInv => Recoverable
  BY DEF IInv
<1>2. QED
  BY <1>1, AlwaysInv, PTL

\* Only hosts that were asked for go, and no source-control identity.
THEOREM OthersStay == Spec => []OnlyAskedForGoes
<1>1. IInv => OnlyAskedForGoes
  BY DEF IInv
<1>2. QED
  BY <1>1, AlwaysInv, PTL

\* A set of places has a first one.
LEMMA FirstPlace ==
  ASSUME NEW T, T \subseteq Place, T # {}
  PROVE  \E p \in T : \A q \in T : ~(q < p)
<1> DEFINE Less == OpToRel(<, Nat)
<1>1. IsWellFoundedOn(Less, Nat)
  BY NatLessThanWellFounded
<1>2. \A p, q \in Nat : q < p => <<q, p>> \in Less
  BY DEF OpToRel
<1> HIDE DEF Less
<1>3. PICK p \in T : \A q \in T : ~(<<q, p>> \in Less)
  BY <1>1, WFMin, PlaceAssumption
<1> QED
  BY <1>2, <1>3, PlaceAssumption

\* The first machine of a target is no delete candidate, so the others can go
\* without the target.
LEMMA SpareCandidates ==
  ASSUME NEW file \in File, NEW hosts, Found(file, hosts) \subseteq Candidates(file)
  PROVE  Targets(Remaining(file, hosts)) = Targets(file)
<1> DEFINE rest == Remaining(file, hosts)
<1>1. DOMAIN file \subseteq Place
  BY FileIs
<1>2. \A p \in DOMAIN rest : p \in DOMAIN file /\ rest[p] = file[p]
  BY DEF Remaining, Part
<1>3. \A p \in DOMAIN file : p \notin Candidates(file) => p \in DOMAIN rest
  BY <1>1 DEF Remaining, Part
<1> HIDE DEF rest
<1>4. Targets(rest) \subseteq Targets(file)
  BY <1>2 DEF Targets, Machines
<1>5. ASSUME NEW m \in Machines(file)
      PROVE  file[m].target \in Targets(rest)
  <2> DEFINE Same == {q \in Machines(file) : file[q].target = file[m].target}
  <2>1. Same \subseteq Place /\ Same # {}
    BY <1>1 DEF Machines
  <2>2. PICK p \in Same : \A q \in Same : ~(q < p)
    BY <2>1, FirstPlace
  <2>3. p \in Machines(file) /\ file[p].target = file[m].target
    OBVIOUS
  <2>4. p \notin Candidates(file)
    BY <2>2, <2>3 DEF Candidates
  <2>5. p \in DOMAIN rest /\ rest[p] = file[p]
    BY <1>2, <1>3, <2>3, <2>4 DEF Machines
  <2>6. p \in Machines(rest)
    BY <2>3, <2>5 DEF Machines
  <2> QED
    BY <2>3, <2>5, <2>6 DEF Targets
<1>6. Targets(file) \subseteq Targets(rest)
  BY <1>5 DEF Targets
<1> QED
  BY <1>4, <1>6 DEF rest

\* When no alias is used twice and the plan is still current, what the
\* cockpit removes leaves a machine for every target.
THEOREM CandidatesStaySpare == Spec => []CandidatesAreSpare
<1>1. ASSUME IInv PROVE CandidatesAreSpare
  <2> SUFFICES ASSUME Current, UniqueAliases(planned)
               PROVE  Targets(Remaining(planned, apply.hosts)) = Targets(planned)
    BY DEF CandidatesAreSpare
  <2>1. planned \in File /\ apply.hosts = SelectedHosts
    BY <1>1 DEF IInv, TypeOK, CockpitWaits, Current
  <2>2. ASSUME NEW p \in Found(planned, apply.hosts)
        PROVE  p \in Candidates(planned)
    <3>1. p \in DOMAIN planned /\ planned[p].alias \in SelectedHosts
      BY <2>1 DEF Found
    <3>2. PICK q \in Candidates(planned) : planned[q].alias = planned[p].alias
      BY <3>1 DEF SelectedHosts
    <3>3. q \in DOMAIN planned
      BY <3>2 DEF Candidates, Machines
    <3> QED
      BY <3>1, <3>2, <3>3 DEF UniqueAliases
  <2> QED
    BY <2>1, <2>2, SpareCandidates
<1>2. QED
  BY <1>1, AlwaysInv, PTL

============================================================================
