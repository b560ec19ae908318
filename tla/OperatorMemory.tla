--------------------------- MODULE OperatorMemory ---------------------------
(***************************************************************************)
(* What ports.StateStore and ports.PreferenceStore promise their callers:  *)
(* operator memory is one value that concurrent calls read and update      *)
(* atomically.  A call that reports success took effect once, between the  *)
(* call and its return; one that reports an error took effect once or not  *)
(* at all; nothing else ever changes the memory, not even a crash.  Memory *)
(* that cannot be parsed answers every call with an error and is kept.     *)
(*                                                                         *)
(* StateFile, the JSON file behind a mutex, implements this specification. *)
(***************************************************************************)
EXTENDS MemoryValue

CONSTANTS
    Caller,     \* goroutines that call the store
    Request,    \* the calls the callers make
    NoRequest,  \* a caller that is not in a call
    Garbled     \* a memory that cannot be parsed

VARIABLES
    memory,     \* the operator memory
    calls,      \* the request each caller is in, or NoRequest
    performed,  \* callers whose running call has taken effect
    answers     \* what each caller's last call returned: "ok" or "error"

memoryVars == <<memory, calls, performed, answers>>

MemoryInit ==
    /\ memory \in {EmptyMemory, Garbled}
    /\ calls = [c \in Caller |-> NoRequest]
    /\ performed = {}
    /\ answers = [c \in Caller |-> "ok"]

Invoke(c) ==
    /\ calls[c] = NoRequest
    /\ \E r \in Request : calls' = [calls EXCEPT ![c] = r]
    /\ UNCHANGED <<memory, performed, answers>>

\* The request takes effect.
Perform(c) ==
    /\ calls[c] # NoRequest
    /\ c \notin performed
    /\ memory # Garbled
    /\ memory' = Effect(memory, calls[c])
    /\ performed' = performed \cup {c}
    /\ UNCHANGED <<calls, answers>>

Answer(c, answer) ==
    /\ calls[c] # NoRequest
    /\ answer = "ok" => c \in performed
    /\ calls' = [calls EXCEPT ![c] = NoRequest]
    /\ performed' = performed \ {c}
    /\ answers' = [answers EXCEPT ![c] = answer]
    /\ UNCHANGED memory

\* The process stops and is started again: its calls are gone, the memory
\* stays.
CrashMemory ==
    /\ calls' = [c \in Caller |-> NoRequest]
    /\ performed' = {}
    /\ answers' = [c \in Caller |-> "ok"]
    /\ UNCHANGED memory

MemoryNext ==
    \/ CrashMemory
    \/ \E c \in Caller :
          \/ Invoke(c)
          \/ Perform(c)
          \/ \E answer \in {"ok", "error"} : Answer(c, answer)

MemorySpec == MemoryInit /\ [][MemoryNext]_memoryVars

============================================================================
