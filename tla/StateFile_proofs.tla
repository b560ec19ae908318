-------------------------- MODULE StateFile_proofs --------------------------
(***************************************************************************)
(* Proofs about StateFile, for every set of callers, machines and requests *)
(* and every history limit: the store implements OperatorMemory, and what  *)
(* leaves a temporary file is a crash, at most one each, or a removal that *)
(* fails itself.                                                           *)
(*                                                                         *)
(* The inductive invariant is the mutex discipline (exactly the holder of  *)
(* the mutex is inside a call's body) and, for the holder, that the file   *)
(* has not changed since it was read: the value about to be written is the *)
(* effect of the call on the memory the file holds now.                    *)
(***************************************************************************)
EXTENDS StateFile, MemoryValue_proofs, FiniteSetTheorems

LEMMA ParsedType ==
  ASSUME NEW d \in Memories \cup {Absent, Garbled}, d # Garbled
  PROVE  Parsed(d) \in Memories /\ Parsed(d) # Garbled
  BY EmptyMemoryType, FileAssumption DEF Parsed

----------------------------------------------------------------------------
(* The inductive invariant *)

\* Exactly the holder of the mutex is inside the body of a call.
MutexHeld ==
    \A c \in Caller : pc[c] \notin {"idle", "waiting"} <=> mutex = c

\* What a call has done so far, by its position.
CallState ==
    \A c \in Caller :
        /\ calls[c] = NoRequest <=> pc[c] = "idle"
        /\ c \in performed => pc[c] \in {"protecting", "returning"}
        /\ pc[c] = "protecting" => c \in performed
        /\ (pc[c] = "returning" /\ outcome[c] = "ok") => c \in performed
        /\ outcome[c] = "error" => pc[c] \in {"returning", "idle"}
        /\ temp[c] = "partial" <=> pc[c] = "writing"
        /\ temp[c] = "full" <=> pc[c] = "renaming"

\* The value about to be written is the effect on what the file holds now.
SaveIsCurrent ==
    \A c \in Caller :
        pc[c] \in {"saving", "writing", "renaming"} =>
            /\ disk # Garbled
            /\ calls[c] \in Loads \cup Updates
            /\ st[c] = Effect(Parsed(disk), calls[c])

IInv ==
    /\ TypeOK
    /\ MutexHeld
    /\ CallState
    /\ SaveIsCurrent
    /\ NoTempLeak

LEMMA InitInv == Init => IInv
<1> SUFFICES ASSUME Init PROVE IInv
  OBVIOUS
<1>1. TypeOK
  <2>1. issued \in 0 .. MaxCalls /\ crashes \in 0 .. MaxCrashes
        /\ leftover \in Nat /\ unremoved \in Nat
    BY BoundsAssumption DEF Init
  <2>2. pc \in [Caller -> PC] /\ temp \in [Caller -> {"none", "partial", "full"}]
    BY DEF Init, PC
  <2>3. disk \in Memories \cup {Absent, Garbled} /\ mutex \in Caller \cup {Free}
        /\ performed \subseteq Caller
    BY DEF Init
  <2>4. calls \in [Caller -> Request \cup {NoRequest}]
        /\ st \in [Caller -> Memories \cup {Absent}]
    BY DEF Init
  <2>5. outcome \in [Caller -> {"ok", "error"}] /\ answers \in [Caller -> {"ok", "error"}]
    BY DEF Init
  <2>6. QED
    BY <2>1, <2>2, <2>3, <2>4, <2>5 DEF TypeOK
<1>2. MutexHeld /\ CallState /\ SaveIsCurrent
  BY FreeAssumption DEF Init, MutexHeld, CallState, SaveIsCurrent
<1>3. NoTempLeak
  BY DEF Init, NoTempLeak
<1>4. QED
  BY <1>1, <1>2, <1>3 DEF IInv

\* At most one temporary file exists at a time.
LEMMA OneTemp ==
  ASSUME IInv
  PROVE  Cardinality({c \in Caller : temp[c] # "none"}) \in {0, 1}
<1> DEFINE T == {c \in Caller : temp[c] # "none"}
<1>1. \A c \in T : c = mutex
  BY DEF IInv, TypeOK, CallState, MutexHeld
<1>2. T = {} \/ T = {mutex}
  BY <1>1
<1>3. QED
  BY <1>2, FS_EmptySet, FS_Singleton

LEMMA StepInv == IInv /\ [Next]_vars => IInv'
<1> SUFFICES ASSUME IInv, [Next]_vars PROVE IInv'
  OBVIOUS
<1> USE DEF IInv
<1>1. ASSUME NEW c \in Caller, Call(c) PROVE IInv'
  <2> USE <1>1 DEF Call, Goto
  <2>1. TypeOK'
    <3>1. issued' \in 0 .. MaxCalls
      BY BoundsAssumption DEF TypeOK
    <3>2. QED
      BY <3>1 DEF TypeOK, PC, files
  <2>2. MutexHeld' /\ CallState' /\ SaveIsCurrent' /\ NoTempLeak'
    BY RequestAssumption DEF TypeOK, MutexHeld, CallState, SaveIsCurrent, NoTempLeak, files
  <2>3. QED
    BY <2>1, <2>2
<1>2. ASSUME NEW c \in Caller, Lock(c) PROVE IInv'
  <2> USE <1>2 DEF Lock, Goto
  <2>1. TypeOK'
    BY DEF TypeOK, PC, files
  <2>2. MutexHeld' /\ CallState' /\ SaveIsCurrent' /\ NoTempLeak'
    BY FreeAssumption DEF TypeOK, MutexHeld, CallState, SaveIsCurrent, NoTempLeak, files
  <2>3. QED
    BY <2>1, <2>2
<1>3. ASSUME NEW c \in Caller, Load(c) PROVE IInv'
  <2> USE <1>3 DEF Load, Goto, Inside
  <2>1. calls[c] \in Loads \cup Updates
    BY RequestAssumption DEF TypeOK, CallState
  <2>2. Effect(Parsed(disk), calls[c]) \in Memories
    BY <2>1, ParsedType, EffectType DEF TypeOK
  <2>3. TypeOK'
    BY <2>2 DEF TypeOK, PC, files
  <2>4. MutexHeld' /\ CallState' /\ NoTempLeak'
    BY DEF TypeOK, MutexHeld, CallState, NoTempLeak, files
  <2>5. SaveIsCurrent'
    BY <2>1 DEF TypeOK, SaveIsCurrent, MutexHeld, files
  <2>6. QED
    BY <2>3, <2>4, <2>5
<1>4. ASSUME NEW c \in Caller, LoadFails(c) \/ CreateFails(c) PROVE IInv'
  <2> USE <1>4 DEF LoadFails, CreateFails, Goto, Inside, Failing
  <2>1. TypeOK'
    BY DEF TypeOK, PC, files
  <2>2. MutexHeld' /\ CallState' /\ SaveIsCurrent' /\ NoTempLeak'
    BY DEF TypeOK, MutexHeld, CallState, SaveIsCurrent, NoTempLeak, files
  <2>3. QED
    BY <2>1, <2>2
<1>5. ASSUME NEW c \in Caller, CreateTemp(c) \/ WriteTemp(c) PROVE IInv'
  <2> USE <1>5 DEF CreateTemp, WriteTemp, Goto, Inside
  <2>1. TypeOK'
    BY DEF TypeOK, PC
  <2>2. MutexHeld' /\ CallState' /\ SaveIsCurrent' /\ NoTempLeak'
    BY DEF TypeOK, MutexHeld, CallState, SaveIsCurrent, NoTempLeak
  <2>3. QED
    BY <2>1, <2>2
<1>6. ASSUME NEW c \in Caller, SaveFails(c) PROVE IInv'
  <2> USE <1>6 DEF SaveFails, Goto, Inside, Failing
  <2>1. TypeOK'
    BY DEF TypeOK, PC
  <2>2. MutexHeld' /\ CallState' /\ SaveIsCurrent' /\ NoTempLeak'
    BY DEF TypeOK, MutexHeld, CallState, SaveIsCurrent, NoTempLeak
  <2>3. QED
    BY <2>1, <2>2
<1>7. ASSUME NEW c \in Caller, Rename(c) PROVE IInv'
  <2> USE <1>7 DEF Rename, Goto, Inside
  <2>1. temp[c] = "full" /\ mutex = c
    BY DEF CallState, MutexHeld
  <2>2. TypeOK'
    BY <2>1 DEF TypeOK, PC
  <2>3. MutexHeld' /\ CallState' /\ NoTempLeak'
    BY DEF TypeOK, MutexHeld, CallState, NoTempLeak
  <2>4. SaveIsCurrent'
    BY <2>1 DEF TypeOK, MutexHeld, SaveIsCurrent
  <2>5. QED
    BY <2>2, <2>3, <2>4
<1>8. ASSUME NEW c \in Caller, Protect(c) PROVE IInv'
  <2> USE <1>8 DEF Protect, Goto, Inside, Failing
  <2>1. TypeOK'
    BY DEF TypeOK, PC, files
  <2>2. MutexHeld' /\ CallState' /\ SaveIsCurrent' /\ NoTempLeak'
    BY DEF TypeOK, MutexHeld, CallState, SaveIsCurrent, NoTempLeak, files
  <2>3. QED
    BY <2>1, <2>2
<1>9. ASSUME NEW c \in Caller, Unlock(c) PROVE IInv'
  <2> USE <1>9 DEF Unlock, Goto
  <2>1. TypeOK'
    BY DEF TypeOK, PC, files
  <2>2. MutexHeld' /\ CallState' /\ SaveIsCurrent' /\ NoTempLeak'
    BY FreeAssumption, RequestAssumption
       DEF TypeOK, MutexHeld, CallState, SaveIsCurrent, NoTempLeak, files
  <2>3. QED
    BY <2>1, <2>2
<1>10. CASE Crash
  <2> USE <1>10 DEF Crash
  <2>1. leftover' \in Nat /\ leftover' <= crashes' + unremoved' /\ crashes' \in 0 .. MaxCrashes
    BY OneTemp, BoundsAssumption DEF TypeOK, NoTempLeak
  <2>2. TypeOK'
    BY <2>1 DEF TypeOK, PC
  <2>3. MutexHeld' /\ CallState' /\ SaveIsCurrent'
    BY FreeAssumption DEF MutexHeld, CallState, SaveIsCurrent
  <2>4. QED
    BY <2>1, <2>2, <2>3 DEF NoTempLeak
<1>11. CASE UNCHANGED vars
  BY <1>11 DEF vars, files, TypeOK, MutexHeld, CallState, SaveIsCurrent, NoTempLeak
<1>12. ASSUME NEW c \in Caller, Step(c) PROVE IInv'
  BY ONLY <1>12, <1>3, <1>4, <1>5, <1>6, <1>7, <1>8, <1>9 DEF Step
<1>13. QED
  <2> HIDE DEF IInv
  <2>1. QED
    BY <1>1, <1>2, <1>10, <1>11, <1>12 DEF Next, Rest

----------------------------------------------------------------------------
(* Theorems *)

LEMMA SpecInv == Spec => []IInv
  BY InitInv, StepInv, PTL DEF Spec

\* Whatever the callers, failures and crashes, the file is absent, garbled
\* as it was found, or a well-typed memory with capped histories.
THEOREM TypeCorrect == Spec => []TypeOK
<1>1. IInv => TypeOK
  BY DEF IInv
<1>2. QED
  BY <1>1, SpecInv, PTL

\* What leaves a temporary file behind is a crash, at most one each, or the
\* failure of the removal itself, whose error save drops.
THEOREM NoTempIsLeaked == Spec => []NoTempLeak
<1>1. IInv => NoTempLeak
  BY DEF IInv
<1>2. QED
  BY <1>1, SpecInv, PTL

LEMMA SameEffect ==
  ASSUME NEW mem, NEW r
  PROVE  Memory!Effect(mem, r) = Effect(mem, r)
  BY DEF Memory!Effect, Effect, Memory!WithHealth, WithHealth,
         Memory!WithSession, WithSession, Memory!AppendCapped, AppendCapped

LEMMA LoadsChangeNothing ==
  ASSUME NEW mem, NEW r \in Loads
  PROVE  Effect(mem, r) = mem
  BY DEF Loads, Effect

\* The store implements OperatorMemory: its calls are atomic, an answer "ok"
\* is a promise kept across crashes, and a garbled file is left alone.
THEOREM ImplementsMemory == Spec => StoreIsAtomic
<1>1. Init => Memory!MemoryInit
  BY DEF Init, Parsed, Memory!MemoryInit, Memory!EmptyMemory, EmptyMemory,
         Memory!EmptyOverlay, EmptyOverlay
<1>2. ASSUME IInv, [Next]_vars PROVE [Memory!MemoryNext]_(Memory!memoryVars)
  <2> DEFINE Same == Memory!memoryVars' = Memory!memoryVars
  <2>1. ASSUME NEW c \in Caller, Call(c) PROVE Memory!Invoke(c)
    BY <1>2, <2>1 DEF IInv, CallState, Call, Goto, files, Memory!Invoke
  <2>2. ASSUME NEW c \in Caller, Load(c) PROVE Memory!Perform(c) \/ Same
    <3>1. CASE calls[c] \in Loads
      <4>1. calls[c] # NoRequest /\ c \notin performed
        BY <1>2, <2>2 DEF IInv, CallState, Load, Goto
      <4>2. Parsed(disk) # Garbled
        BY <1>2, <2>2, ParsedType DEF IInv, TypeOK, Load
      <4>3. Memory!Effect(Parsed(disk), calls[c]) = Parsed(disk)
        BY <3>1, SameEffect, LoadsChangeNothing
      <4>4. /\ performed' = performed \cup {c}
            /\ UNCHANGED <<disk, calls, answers>>
        BY <2>2, <3>1 DEF Load, Inside, files
      <4>5. Parsed(disk)' = Parsed(disk)
        BY <4>4 DEF Parsed
      <4>6. QED
        BY <4>1, <4>2, <4>3, <4>4, <4>5 DEF Memory!Perform
    <3>2. CASE calls[c] \notin Loads
      BY <2>2, <3>2 DEF Load, Inside, files, Memory!memoryVars, Parsed
    <3>3. QED
      BY <3>1, <3>2
  <2>3. ASSUME NEW c \in Caller, Rename(c) PROVE Memory!Perform(c)
    <3>1. /\ calls[c] # NoRequest /\ c \notin performed /\ temp[c] = "full"
          /\ disk # Garbled /\ calls[c] \in Loads \cup Updates
          /\ st[c] = Effect(Parsed(disk), calls[c])
      BY <1>2, <2>3 DEF IInv, CallState, SaveIsCurrent, Rename, Goto
    <3>2. Parsed(disk) \in Memories /\ Parsed(disk) # Garbled
      BY <1>2, <3>1, ParsedType DEF IInv, TypeOK
    <3>3. st[c] \in Memories /\ st[c] # Absent
      BY <3>1, <3>2, EffectType, FileAssumption
    <3>4. Parsed(disk)' = Memory!Effect(Parsed(disk), calls[c])
      BY <2>3, <3>1, <3>3, SameEffect DEF Rename, Parsed
    <3>5. performed' = performed \cup {c} /\ UNCHANGED <<calls, answers>>
      BY <2>3 DEF Rename, Inside
    <3>6. QED
      BY <3>1, <3>2, <3>4, <3>5 DEF Memory!Perform
  <2>4. ASSUME NEW c \in Caller, Unlock(c) PROVE Memory!MemoryNext
    <3>1. calls[c] # NoRequest /\ (outcome[c] = "ok" => c \in performed)
          /\ outcome[c] \in {"ok", "error"}
      BY <1>2, <2>4 DEF IInv, TypeOK, CallState, Unlock, Goto
    <3>2. Parsed(disk)' = Parsed(disk)
      BY <2>4 DEF Unlock, files, Parsed
    <3>3. Memory!Answer(c, outcome[c])
      BY <2>4, <3>1, <3>2 DEF Unlock, Memory!Answer
    <3>4. QED
      BY <3>1, <3>3 DEF Memory!MemoryNext
  <2>5. CASE Crash
    BY <2>5 DEF Crash, Parsed, Memory!MemoryNext, Memory!CrashMemory
  <2>6. ASSUME NEW c \in Caller,
               \/ Lock(c) \/ LoadFails(c) \/ CreateTemp(c) \/ CreateFails(c)
               \/ WriteTemp(c) \/ SaveFails(c) \/ Protect(c)
        PROVE  Same
    BY <2>6 DEF Lock, LoadFails, CreateTemp, CreateFails, WriteTemp, SaveFails,
                Protect, Inside, files, Parsed, Memory!memoryVars
  <2>7. CASE UNCHANGED vars
    BY <2>7 DEF vars, files, Parsed, Memory!memoryVars
  <2>8. ASSUME NEW c \in Caller, Step(c) PROVE Memory!MemoryNext \/ Same
    BY ONLY <2>2, <2>3, <2>4, <2>6, <2>8 DEF Step, Memory!MemoryNext
  <2>9. QED
    BY <1>2, <2>1, <2>5, <2>6, <2>7, <2>8 DEF Next, Rest, Memory!MemoryNext
<1>3. QED
  BY <1>1, <1>2, SpecInv, PTL DEF Spec, StoreIsAtomic, Memory!MemorySpec

============================================================================
