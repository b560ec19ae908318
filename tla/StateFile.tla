----------------------------- MODULE StateFile -----------------------------
(***************************************************************************)
(* The JSON state store (internal/adapters/statejson/state.go): operator   *)
(* memory in one file that every call reads in full and every update       *)
(* replaces in full, under the store's mutex: read the file, change the    *)
(* value, write a temporary file beside it, rename it over the file.       *)
(* Each file operation may fail, and the process may stop between any two  *)
(* of them.  One process uses the file, as main.go sets it up.             *)
(*                                                                         *)
(* A file that is missing and one of length zero both load as the empty    *)
(* memory and are one value, Absent.                                       *)
(***************************************************************************)
EXTENDS MemoryValue, FiniteSets

CONSTANTS
    Caller,     \* goroutines that call the store
    Request,    \* the calls the callers make
    NoRequest,  \* a caller that is not in a call
    Garbled,    \* file content that cannot be parsed
    Absent,     \* no file, or one of length zero
    Free,       \* nobody holds the mutex
    MaxCalls,   \* bound: calls made
    MaxCrashes  \* bound: times the process stops and is started again

ASSUME RequestAssumption ==
    /\ Request \subseteq Loads \cup Updates
    /\ NoRequest \notin Request
ASSUME FileAssumption ==
    /\ Absent \notin Memories /\ Garbled \notin Memories
    /\ Absent # Garbled
ASSUME FreeAssumption == Free \notin Caller
ASSUME BoundsAssumption == MaxCalls \in Nat /\ MaxCrashes \in Nat

VARIABLES
    disk,       \* the state file: Absent, Garbled or a memory
    temp,       \* each caller's temporary file: "none", "partial" or "full"
    leftover,   \* temporary files no running save will remove
    unremoved,  \* removals that failed (read by NoTempLeak only)
    mutex,      \* who holds Store.mu, or Free
    pc,         \* where each caller is
    calls,      \* the request each caller is in, or NoRequest
    st,         \* the value a caller's save is about to write
    performed,  \* callers whose running call has taken effect
    outcome,    \* what a caller's running call is going to return
    answers,    \* what each caller's last call returned
    issued,     \* calls made so far
    crashes     \* crashes so far

files == <<disk, temp, leftover, unremoved>>
vars == <<files, mutex, pc, calls, st, performed, outcome, answers,
          issued, crashes>>

PC == {"idle", "waiting", "loading", "saving", "writing", "renaming",
       "protecting", "returning"}

Init ==
    /\ disk \in {Absent, Garbled}
    /\ temp = [c \in Caller |-> "none"]
    /\ leftover = 0
    /\ unremoved = 0
    /\ mutex = Free
    /\ pc = [c \in Caller |-> "idle"]
    /\ calls = [c \in Caller |-> NoRequest]
    /\ st = [c \in Caller |-> Absent]
    /\ performed = {}
    /\ outcome = [c \in Caller |-> "ok"]
    /\ answers = [c \in Caller |-> "ok"]
    /\ issued = 0
    /\ crashes = 0

\* load: the memory a file that can be parsed stands for.
Parsed(d) == IF d = Absent THEN EmptyMemory ELSE d

Goto(c, from, to) == pc[c] = from /\ pc' = [pc EXCEPT ![c] = to]

\* A step of a running call that changes none of the shared bookkeeping.
Inside == UNCHANGED <<mutex, calls, answers, issued, crashes>>

\* Give up: the call is going to return the error.
Failing(c) == outcome' = [outcome EXCEPT ![c] = "error"]

----------------------------------------------------------------------------
(* A call *)

Call(c) ==
    /\ issued < MaxCalls
    /\ Goto(c, "idle", "waiting")
    /\ \E r \in Request : calls' = [calls EXCEPT ![c] = r]
    /\ outcome' = [outcome EXCEPT ![c] = "ok"]
    /\ issued' = issued + 1
    /\ UNCHANGED <<files, mutex, st, performed, answers, crashes>>

LockNothing(c) ==
    /\ Goto(c, "waiting", "loading")
    /\ mutex' = c
    /\ UNCHANGED <<files, calls, st, performed, outcome, answers,
                   issued, crashes>>

Lock(c) ==
    /\ mutex = Free
    /\ Goto(c, "waiting", "loading")
    /\ mutex' = c
    /\ UNCHANGED <<files, calls, st, performed, outcome, answers,
                   issued, crashes>>

\* load and the change: a Load call has its answer, an update goes on to save.
Load(c) ==
    /\ pc[c] = "loading" /\ disk # Garbled
    /\ IF calls[c] \in Loads
       THEN /\ Goto(c, "loading", "returning")
            /\ performed' = performed \cup {c}
            /\ UNCHANGED st
       ELSE /\ Goto(c, "loading", "saving")
            /\ st' = [st EXCEPT ![c] = Effect(Parsed(disk), calls[c])]
            /\ UNCHANGED performed
    /\ UNCHANGED <<files, outcome>>
    /\ Inside

\* The file cannot be read, or cannot be parsed.
LoadFails(c) ==
    /\ Goto(c, "loading", "returning")
    /\ Failing(c)
    /\ UNCHANGED <<files, st, performed>>
    /\ Inside

\* save: make the directory, encode the value, create the temporary file.
CreateTemp(c) ==
    /\ Goto(c, "saving", "writing")
    /\ temp' = [temp EXCEPT ![c] = "partial"]
    /\ UNCHANGED <<disk, leftover, unremoved, st, performed, outcome>>
    /\ Inside

CreateFails(c) ==
    /\ Goto(c, "saving", "returning")
    /\ Failing(c)
    /\ UNCHANGED <<files, st, performed>>
    /\ Inside

\* Chmod, Write and Close of the temporary file.
WriteTemp(c) ==
    /\ Goto(c, "writing", "renaming")
    /\ temp' = [temp EXCEPT ![c] = "full"]
    /\ UNCHANGED <<disk, leftover, unremoved, st, performed, outcome>>
    /\ Inside

SaveFailsLeavingTemp(c) ==
    /\ Goto(c, "writing", "returning") \/ Goto(c, "renaming", "returning")
    /\ temp' = [temp EXCEPT ![c] = "none"]
    /\ leftover' = leftover + 1
    /\ Failing(c)
    /\ UNCHANGED <<disk, unremoved, st, performed>>
    /\ Inside

\* One of them, or the rename, fails: the deferred removal takes the
\* temporary file away before the error is returned.  When the removal fails
\* too, its error is dropped and the file stays.
SaveFails(c) ==
    /\ Goto(c, "writing", "returning") \/ Goto(c, "renaming", "returning")
    /\ temp' = [temp EXCEPT ![c] = "none"]
    /\ \/ UNCHANGED <<leftover, unremoved>>
       \/ leftover' = leftover + 1 /\ unremoved' = unremoved + 1
    /\ Failing(c)
    /\ UNCHANGED <<disk, st, performed>>
    /\ Inside

\* The rename replaces the file with all of the temporary one: the update
\* has taken effect.
Rename(c) ==
    /\ Goto(c, "renaming", "protecting")
    /\ disk' = IF temp[c] = "full" THEN st[c] ELSE Garbled
    /\ temp' = [temp EXCEPT ![c] = "none"]
    /\ performed' = performed \cup {c}
    /\ UNCHANGED <<leftover, unremoved, st, outcome>>
    /\ Inside

\* The last Chmod: its error is the call's, although the file is replaced.
Protect(c) ==
    /\ Goto(c, "protecting", "returning")
    /\ Failing(c) \/ UNCHANGED outcome
    /\ UNCHANGED <<files, st, performed>>
    /\ Inside

\* The deferred unlock, and the return.
UnlockOnSuccess(c) ==
    /\ Goto(c, "returning", "idle")
    /\ mutex' = IF outcome[c] = "ok" THEN Free ELSE mutex
    /\ calls' = [calls EXCEPT ![c] = NoRequest]
    /\ performed' = performed \ {c}
    /\ answers' = [answers EXCEPT ![c] = outcome[c]]
    /\ UNCHANGED <<files, st, outcome, issued, crashes>>

Unlock(c) ==
    /\ Goto(c, "returning", "idle")
    /\ mutex' = Free
    /\ calls' = [calls EXCEPT ![c] = NoRequest]
    /\ performed' = performed \ {c}
    /\ answers' = [answers EXCEPT ![c] = outcome[c]]
    /\ UNCHANGED <<files, st, outcome, issued, crashes>>

\* The process stops and is started again.  Temporary files stay behind.
Crash ==
    /\ crashes < MaxCrashes
    /\ crashes' = crashes + 1
    /\ \E c \in Caller : pc[c] # "idle"
    /\ leftover' = leftover + Cardinality({c \in Caller : temp[c] # "none"})
    /\ temp' = [c \in Caller |-> "none"]
    /\ mutex' = Free
    /\ pc' = [c \in Caller |-> "idle"]
    /\ calls' = [c \in Caller |-> NoRequest]
    /\ st' = [c \in Caller |-> Absent]
    /\ performed' = {}
    /\ outcome' = [c \in Caller |-> "ok"]
    /\ answers' = [c \in Caller |-> "ok"]
    /\ UNCHANGED <<disk, unremoved, issued>>

----------------------------------------------------------------------------
Step(c) ==
    \/ Load(c)
    \/ LoadFails(c)
    \/ CreateTemp(c)
    \/ CreateFails(c)
    \/ WriteTemp(c)
    \/ SaveFails(c)
    \/ Rename(c)
    \/ Protect(c)
    \/ Unlock(c)

\* No caller is in a call and the bound on calls is reached.
Rest ==
    /\ issued = MaxCalls
    /\ \A c \in Caller : pc[c] = "idle"
    /\ UNCHANGED vars

Next ==
    \/ \E c \in Caller : Call(c) \/ Lock(c) \/ Step(c)
    \/ Crash
    \/ Rest

\* File operations return, and a sync.Mutex starves nobody for ever.
Fairness == \A c \in Caller : SF_vars(Lock(c)) /\ WF_vars(Step(c))

Spec == Init /\ [][Next]_vars /\ Fairness

----------------------------------------------------------------------------
(* Properties *)

\* Where a call can be and what it holds there.  The file, when it can be
\* parsed, is a memory whose histories are within the cap.
TypeOK ==
    /\ disk \in Memories \cup {Absent, Garbled}
    /\ temp \in [Caller -> {"none", "partial", "full"}]
    /\ leftover \in Nat /\ unremoved \in Nat
    /\ mutex \in Caller \cup {Free}
    /\ pc \in [Caller -> PC]
    /\ calls \in [Caller -> Request \cup {NoRequest}]
    /\ st \in [Caller -> Memories \cup {Absent}]
    /\ performed \subseteq Caller
    /\ outcome \in [Caller -> {"ok", "error"}]
    /\ answers \in [Caller -> {"ok", "error"}]
    /\ issued \in 0 .. MaxCalls
    /\ crashes \in 0 .. MaxCrashes

\* save tries to remove its temporary file on every path that fails, and a
\* crash leaves the one of the mutex's holder only: the directory never holds
\* more of them than there were crashes and removals that failed themselves.
NoTempLeak == leftover <= crashes + unremoved

\* The mutex is released on every path: a call returns, unless the process
\* stops first.
CallsReturn ==
    \A c \in Caller : (pc[c] # "idle") ~> (pc[c] = "idle")

\* The store keeps its promise: calls take effect atomically at the rename,
\* an update that answered "ok" is in the file, a failed or interrupted save
\* leaves the file as it was, and a file that cannot be parsed is never
\* replaced.
Memory == INSTANCE OperatorMemory WITH memory <- Parsed(disk)

StoreIsAtomic == Memory!MemorySpec

============================================================================
