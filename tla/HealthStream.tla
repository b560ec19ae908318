---------------------------- MODULE HealthStream ----------------------------
(***************************************************************************)
(* One call of HealthService.CheckVisibleStream (internal/app/app.go) and  *)
(* its reader, the batch a `G` keypress starts in the cockpit              *)
(* (checkVisible, waitHealth, handleHealthStream in internal/tui/model.go).*)
(*                                                                         *)
(* One goroutine per machine contends for a counting semaphore, checks the *)
(* machine, records the observation and hands it over on an unbuffered     *)
(* channel while it still holds its semaphore token.  The reader is a      *)
(* command that receives one observation at a time and is only issued      *)
(* again by the event loop once the previous observation was handled, so   *)
(* an event loop that is suspended by an interactive session (tea.Exec)    *)
(* leaves the goroutines blocked on their sends.                           *)
(*                                                                         *)
(* The cockpit is not alone with its batch: two rows may be of one machine *)
(* ID (an alias on two Host lines), which has one glyph and two answers; a *)
(* `g` checks one row for itself; and a later `G` takes over the glyphs    *)
(* and the counters while the first batch runs.  The checks of those keys  *)
(* are what HealthBatch and CheckSelected promise of them: an answer for   *)
(* each row, and a close after the last one.                               *)
(***************************************************************************)
EXTENDS Integers, FiniteSets

CONSTANTS
    Machine,        \* the machines the batch was started over, one per row
    IdOf,           \* the machine ID of each, which two rows may share
    Checkable,      \* those some HealthChecker supports
    MaxConcurrent,  \* HealthService.MaxConcurrent
    CanCancel,      \* whether the caller may cancel the call's context
    MaxExec,        \* bound: interactive sessions started during the batch
    MaxSingles,     \* bound: `g` pressed during the batch
    Later,          \* bound: the `G`s that may be pressed during the batch
    Views,          \* bound: the rows one of them may find visible
    NoMachine       \* the reader carries no observation

\* checkVisible starts no batch over an empty list.
ASSUME MachineAssumption == IsFiniteSet(Machine) /\ Machine # {}
ASSUME IdAssumption == DOMAIN IdOf = Machine
ASSUME CheckableAssumption == Checkable \subseteq Machine
ASSUME MaxConcurrentAssumption == MaxConcurrent \in Int
ASSUME CanCancelAssumption == CanCancel \in BOOLEAN
ASSUME BoundsAssumption == MaxExec \in Nat /\ MaxSingles \in Nat
ASSUME ViewsAssumption == Views \subseteq SUBSET Machine
ASSUME NoMachineAssumption == NoMachine \notin Machine

VARIABLES
    pc,         \* where each machine's goroutine is
    wg,         \* the WaitGroup's counter
    tokens,     \* tokens in the semaphore channel
    ctxDone,    \* the context has been cancelled
    obs,        \* what each goroutine has observed
    recorded,   \* outcome of each RecordHealth call
    closed,     \* the observation channel has been closed
    inbox,      \* machine whose observation the reader carries to the loop
    over,       \* the cockpit has handled the close of the channel
    shown,      \* machines whose observation the cockpit has applied
    inflight,   \* Model.inflight: IDs rendered with the checking glyph
    checkTotal, \* Model.checkTotal
    checkDone,  \* Model.checkDone
    busy,       \* the event loop is suspended by tea.Exec
    execs,      \* interactive sessions started so far
    singles,    \* answers of `g` still to come, for each ID
    pressed,    \* `g` pressed so far
    answered,   \* IDs a `g` was answered for (read by properties only)
    stage,      \* each later `G`: not pressed, its channel open, or closed
    later       \* rows of each later batch whose answer is still to come

call == <<wg, tokens, ctxDone, obs, recorded, closed>>
cockpit == <<over, shown, inflight, checkTotal, checkDone>>
others == <<singles, pressed, answered, stage, later>>
loop == <<busy, execs, others>>
vars == <<pc, call, inbox, cockpit, loop>>

\* A non-positive MaxConcurrent means one check at a time.
Limit == IF MaxConcurrent <= 0 THEN 1 ELSE MaxConcurrent

Ids == {IdOf[m] : m \in Machine}

PC == {"unborn", "queued", "checking", "recording", "sending", "cancelled",
       "returning", "done"}
Label == {"none", "checked", "no checker", "cancelled"}

\* Goroutines that have taken a token and not yet given it back.
Holders ==
    {m \in Machine :
        \/ pc[m] \in {"checking", "recording", "sending"}
        \/ pc[m] = "returning" /\ obs[m] # "cancelled"}

\* checkVisible: every ID has the glyph, and every row counts.  A `g` that was
\* pressed before and is not answered is as one pressed at once: CheckAlone.
Init ==
    /\ pc = [m \in Machine |-> "unborn"]
    /\ wg = 0
    /\ tokens = 0
    /\ ctxDone = FALSE
    /\ obs = [m \in Machine |-> "none"]
    /\ recorded = [m \in Machine |-> "no"]
    /\ closed = FALSE
    /\ inbox = NoMachine
    /\ over = FALSE
    /\ shown = {}
    /\ inflight = Ids
    /\ checkTotal = Cardinality(Machine)
    /\ checkDone = 0
    /\ busy = FALSE
    /\ execs = 0
    /\ singles = [i \in Ids |-> 0]
    /\ pressed = 0
    /\ answered = {}
    /\ stage = [b \in Later |-> "none"]
    /\ later = [b \in Later |-> {}]

----------------------------------------------------------------------------
(* The call and its goroutines *)

Goto(m, from, to) == pc[m] = from /\ pc' = [pc EXCEPT ![m] = to]

SpawnAddsLate(m) ==
    /\ Goto(m, "unborn", "queued")
    /\ UNCHANGED <<call, inbox, cockpit, loop>>

\* The loop adds to the WaitGroup before it starts the machine's goroutine.
Spawn(m) ==
    /\ Goto(m, "unborn", "queued")
    /\ wg' = wg + 1
    /\ UNCHANGED <<tokens, ctxDone, obs, recorded, closed>>
    /\ UNCHANGED <<inbox, cockpit, loop>>

AcquireUnbounded(m) ==
    /\ Goto(m, "queued", "checking")
    /\ tokens' = tokens + 1
    /\ UNCHANGED <<wg, ctxDone, obs, recorded, closed>>
    /\ UNCHANGED <<inbox, cockpit, loop>>

AcquireKeepsNoToken(m) ==
    /\ Goto(m, "queued", "checking")
    /\ tokens < Limit
    /\ UNCHANGED <<call, inbox, cockpit, loop>>

\* The select takes a token when the semaphore has room for one.
Acquire(m) ==
    /\ Goto(m, "queued", "checking")
    /\ tokens < Limit
    /\ tokens' = tokens + 1
    /\ UNCHANGED <<wg, ctxDone, obs, recorded, closed>>
    /\ UNCHANGED <<inbox, cockpit, loop>>

AbandonSilently(m) ==
    /\ Goto(m, "queued", "returning")
    /\ ctxDone
    /\ obs' = [obs EXCEPT ![m] = "cancelled"]
    /\ UNCHANGED <<wg, tokens, ctxDone, recorded, closed>>
    /\ UNCHANGED <<inbox, cockpit, loop>>

\* The select sees the cancelled context instead: the goroutine reports
\* "cancelled" without having taken a token.
Abandon(m) ==
    /\ Goto(m, "queued", "cancelled")
    /\ ctxDone
    /\ obs' = [obs EXCEPT ![m] = "cancelled"]
    /\ UNCHANGED <<wg, tokens, ctxDone, recorded, closed>>
    /\ UNCHANGED <<inbox, cockpit, loop>>

CheckUnrecorded(m) ==
    /\ Goto(m, "checking", "sending")
    /\ obs' = [obs EXCEPT ![m] = "checked"]
    /\ UNCHANGED <<wg, tokens, ctxDone, recorded, closed>>
    /\ UNCHANGED <<inbox, cockpit, loop>>

\* CheckSelected: a machine no checker supports is observed as "no checker"
\* and not recorded; otherwise the checker answers.
Check(m) ==
    /\ IF m \in Checkable
       THEN /\ Goto(m, "checking", "recording")
            /\ obs' = [obs EXCEPT ![m] = "checked"]
       ELSE /\ Goto(m, "checking", "sending")
            /\ obs' = [obs EXCEPT ![m] = "no checker"]
    /\ UNCHANGED <<wg, tokens, ctxDone, recorded, closed>>
    /\ UNCHANGED <<inbox, cockpit, loop>>

\* CheckSelected ignores an error of RecordHealth.
Record(m) ==
    /\ Goto(m, "recording", "sending")
    /\ \E outcome \in {"saved", "failed"} :
          recorded' = [recorded EXCEPT ![m] = outcome]
    /\ UNCHANGED <<wg, tokens, ctxDone, obs, closed>>
    /\ UNCHANGED <<inbox, cockpit, loop>>

\* The unbuffered channel: a send completes together with the receive of the
\* reader, which is waiting unless it carries an observation or has ended.
Send(m) ==
    /\ Goto(m, "sending", "returning") \/ Goto(m, "cancelled", "returning")
    /\ ~closed
    /\ inbox = NoMachine /\ ~over
    /\ inbox' = m
    /\ UNCHANGED <<call, cockpit, loop>>

\* Deferred calls: the token goes back if one was taken, then wg.Done.
Return(m) ==
    /\ Goto(m, "returning", "done")
    /\ tokens' = IF m \in Holders THEN tokens - 1 ELSE tokens
    /\ wg' = wg - 1
    /\ UNCHANGED <<ctxDone, obs, recorded, closed>>
    /\ UNCHANGED <<inbox, cockpit, loop>>

\* wg.Wait returns after the loop has started every goroutine; then close.
Close ==
    /\ ~closed
    /\ \A m \in Machine : pc[m] # "unborn"
    /\ wg = 0
    /\ closed' = TRUE
    /\ UNCHANGED <<pc, wg, tokens, ctxDone, obs, recorded>>
    /\ UNCHANGED <<inbox, cockpit, loop>>

\* The cockpit passes context.Background(): a context that is cancelled is
\* that of a caller without the cockpit's other keys.
Cancel ==
    /\ CanCancel
    /\ pressed = 0 /\ \A b \in Later : stage[b] = "none"
    /\ ~ctxDone
    /\ ctxDone' = TRUE
    /\ UNCHANGED <<pc, wg, tokens, obs, recorded, closed>>
    /\ UNCHANGED <<inbox, cockpit, loop>>

----------------------------------------------------------------------------
(* The cockpit *)

HandleObservationKeepsGlyph ==
    /\ inbox # NoMachine /\ ~busy
    /\ shown' = shown \cup {inbox}
    /\ checkDone' = checkDone + 1
    /\ inbox' = NoMachine
    /\ UNCHANGED <<pc, call, over, inflight, checkTotal, loop>>

HandleObservationOnce ==
    /\ inbox # NoMachine /\ ~busy /\ shown = {}
    /\ shown' = {inbox}
    /\ inflight' = inflight \ {IdOf[inbox]}
    /\ checkDone' = checkDone + 1
    /\ inbox' = NoMachine
    /\ UNCHANGED <<pc, call, over, checkTotal, loop>>

\* handleHealthStream with an observation: apply it, count it, read again.
HandleObservation ==
    /\ inbox # NoMachine /\ ~busy
    /\ shown' = shown \cup {inbox}
    /\ inflight' = inflight \ {IdOf[inbox]}
    /\ checkDone' = checkDone + 1
    /\ inbox' = NoMachine
    /\ UNCHANGED <<pc, call, over, checkTotal, loop>>

\* handleHealthStream with ok false: the reader found the channel closed.
HandleClose ==
    /\ closed /\ inbox = NoMachine /\ ~over /\ ~busy
    /\ inflight' = {}
    /\ checkTotal' = 0
    /\ checkDone' = 0
    /\ over' = TRUE
    /\ UNCHANGED <<pc, call, inbox, shown, loop>>

\* checkSelected: `g` marks the row's ID and checks the row for itself.
CheckAlone(i) ==
    /\ ~busy /\ ~ctxDone /\ pressed < MaxSingles
    /\ pressed' = pressed + 1
    /\ inflight' = inflight \cup {i}
    /\ singles' = [singles EXCEPT ![i] = @ + 1]
    /\ UNCHANGED <<pc, call, inbox, over, shown, checkTotal, checkDone>>
    /\ UNCHANGED <<busy, execs, answered, stage, later>>

\* healthMsg: applyHealth takes the glyph and leaves the counters.
HandleAlone(i) ==
    /\ ~busy /\ singles[i] > 0
    /\ inflight' = inflight \ {i}
    /\ singles' = [singles EXCEPT ![i] = @ - 1]
    /\ answered' = answered \cup {i}
    /\ UNCHANGED <<pc, call, inbox, over, shown, checkTotal, checkDone>>
    /\ UNCHANGED <<busy, execs, pressed, stage, later>>

\* checkVisible once more, over the rows that are visible now (rows that the
\* first batch does not have are left out): glyphs and counters start anew.
CheckVisibleAgain(b, rows) ==
    /\ ~busy /\ ~ctxDone /\ stage[b] = "none"
    /\ stage' = [stage EXCEPT ![b] = "open"]
    /\ later' = [later EXCEPT ![b] = rows]
    /\ inflight' = {IdOf[m] : m \in rows}
    /\ checkTotal' = Cardinality(rows)
    /\ checkDone' = 0
    /\ UNCHANGED <<pc, call, inbox, over, shown>>
    /\ UNCHANGED <<busy, execs, singles, pressed, answered>>

\* handleHealthStream with an observation of a later batch.
HandleLater(b, m) ==
    /\ ~busy /\ m \in later[b]
    /\ later' = [later EXCEPT ![b] = @ \ {m}]
    /\ inflight' = inflight \ {IdOf[m]}
    /\ checkDone' = checkDone + 1
    /\ UNCHANGED <<pc, call, inbox, over, shown, checkTotal>>
    /\ UNCHANGED <<busy, execs, singles, pressed, answered, stage>>

\* handleHealthStream with the close of a later batch.
HandleLaterClose(b) ==
    /\ ~busy /\ stage[b] = "open" /\ later[b] = {}
    /\ stage' = [stage EXCEPT ![b] = "over"]
    /\ inflight' = {}
    /\ checkTotal' = 0
    /\ checkDone' = 0
    /\ UNCHANGED <<pc, call, inbox, over, shown>>
    /\ UNCHANGED <<busy, execs, singles, pressed, answered, later>>

\* The operator starts an interactive session: the event loop is suspended
\* until the session's process exits.  Commands keep running.
ExecStart ==
    /\ ~busy /\ execs < MaxExec
    /\ busy' = TRUE
    /\ execs' = execs + 1
    /\ UNCHANGED <<pc, call, inbox, cockpit, others>>

ExecEnd ==
    /\ busy
    /\ busy' = FALSE
    /\ UNCHANGED <<pc, call, inbox, cockpit, execs, others>>

\* The batch is over and nothing is left to do.
Terminated == over /\ ~busy /\ UNCHANGED vars

----------------------------------------------------------------------------
Goroutine(m) ==
    \/ Spawn(m)
    \/ Acquire(m)
    \/ Abandon(m)
    \/ Check(m)
    \/ Record(m)
    \/ Send(m)
    \/ Return(m)

OtherKeys ==
    \/ \E i \in Ids : CheckAlone(i) \/ HandleAlone(i)
    \/ \E b \in Later :
          \/ \E rows \in Views \ {{}} : CheckVisibleAgain(b, rows)
          \/ \E m \in Machine : HandleLater(b, m)
          \/ HandleLaterClose(b)

Next ==
    \/ \E m \in Machine : Goroutine(m)
    \/ Close
    \/ Cancel
    \/ HandleObservation
    \/ HandleClose
    \/ OtherKeys
    \/ ExecStart
    \/ ExecEnd
    \/ Terminated

(***************************************************************************)
(* The Go scheduler runs every goroutine that can run, checkers return     *)
(* (the SSH dial has a timeout, the SSM check is local) and the event loop *)
(* takes its messages.  Nothing makes an interactive session end, a caller *)
(* cancel, or an operator press a key; of the answers to the other keys    *)
(* nothing is assumed, for the batch does not wait for them.               *)
(***************************************************************************)
Fairness ==
    /\ \A m \in Machine : WF_vars(Goroutine(m))
    /\ WF_vars(Close)
    /\ WF_vars(HandleObservation)
    /\ WF_vars(HandleClose)

Spec == Init /\ [][Next]_vars /\ Fairness

----------------------------------------------------------------------------
(* Properties *)

\* The domain of each variable.
TypeOK ==
    /\ pc \in [Machine -> PC]
    /\ wg \in Int
    /\ tokens \in 0 .. Limit
    /\ ctxDone \in BOOLEAN
    /\ obs \in [Machine -> Label]
    /\ recorded \in [Machine -> {"no", "saved", "failed"}]
    /\ closed \in BOOLEAN
    /\ inbox \in Machine \cup {NoMachine}
    /\ over \in BOOLEAN
    /\ shown \subseteq Machine
    /\ inflight \subseteq Ids
    /\ checkTotal \in Nat
    /\ checkDone \in Nat
    /\ busy \in BOOLEAN
    /\ execs \in 0 .. MaxExec
    /\ singles \in [Ids -> Nat]
    /\ pressed \in 0 .. MaxSingles
    /\ answered \subseteq Ids
    /\ stage \in [Later -> {"none", "open", "over"}]
    /\ later \in [Later -> SUBSET Machine]

\* CheckVisibleStream's bound: no more than Limit goroutines are between
\* taking a token and giving it back, whatever mixture of blocked sends,
\* checks and cancellations.
ConcurrencyBounded == Cardinality(Holders) <= Limit

\* A send on a closed channel panics: once CheckVisibleStream has closed the
\* channel no goroutine is left that could still send.
NoSendAfterClose == closed => \A m \in Machine : pc[m] = "done"

\* The cockpit never shows a checker's answer before CheckSelected has tried
\* to record it, so no crash after a row changed can leave it untried.
RecordedBeforeShown ==
    \A m \in shown : obs[m] = "checked" => recorded[m] # "no"

\* Some check of the ID has still to be answered: one of the batch, a `g`, or
\* one of a later batch.
AnswerPending(i) ==
    \/ \E m \in Machine \ shown : IdOf[m] = i
    \/ singles[i] > 0
    \/ \E b \in Later : \E m \in later[b] : IdOf[m] = i

\* No check of the ID was answered since the batch began.
Unanswered(i) == i \notin answered /\ \A m \in shown : IdOf[m] # i

\* handleHealthStream, applyHealth and the keys: a checking glyph is never on
\* an ID whose answers have all come, whatever else was pressed.  And until
\* the batch ends or a later `G` takes over, every ID that no answer has come
\* for has its glyph, and "checking d/t" leaves out exactly the rows whose
\* answer is still to come, also when two of them share a glyph or a `g`
\* took it.  (A later `G` starts the counters anew and the close of either
\* batch clears both: the code keeps one set of them.)
GlyphsMatchPending ==
    /\ \A i \in inflight : AnswerPending(i)
    /\ (~over /\ \A b \in Later : stage[b] = "none") =>
          /\ \A i \in Ids : Unanswered(i) => i \in inflight
          /\ checkTotal - checkDone = Cardinality(Machine \ shown)

\* Every machine is observed, the channel is closed and the cockpit leaves
\* its checking state, unless an interactive session never ends.
BatchCompletes == <>(over /\ shown = Machine) \/ <>[]busy

\* What the reader has taken off the channel: applied or still carried.
Taken == shown \cup ({inbox} \ {NoMachine})

\* The call keeps its promise to its reader, step by step.
Batch == INSTANCE HealthBatch WITH received <- Taken

StreamKeepsPromise == Batch!BatchSpec

============================================================================
