------------------------ MODULE HealthStream_proofs ------------------------
(***************************************************************************)
(* Proofs about HealthStream, for every set of machines and IDs of them,   *)
(* every MaxConcurrent and every number of sessions, single checks and     *)
(* later batches: the semaphore bounds the checks, nothing is sent on the  *)
(* closed channel, an answer is shown only after it went to the store, the *)
(* glyphs and the counters agree with what is pending, and the call        *)
(* implements HealthBatch.                                                 *)
(*                                                                         *)
(* The properties are not inductive.  The strengthening says what the two  *)
(* counters count (wg the goroutines started and not returned, tokens the  *)
(* goroutines holding one) and where an observation is at each moment: in  *)
(* its goroutine, carried by the reader, or applied.                       *)
(***************************************************************************)
EXTENDS HealthStream, FiniteSetTheorems, TLAPS

Live == {m \in Machine : pc[m] \notin {"unborn", "done"}}

CountersCount ==
    /\ wg = Cardinality(Live)
    /\ tokens = Cardinality(Holders)

\* What a goroutine's position says about its observation.
PlacesAgree ==
    \A m \in Machine :
        /\ pc[m] \in {"checking", "queued", "unborn"} => obs[m] = "none"
        /\ pc[m] = "recording" => obs[m] = "checked"
        /\ pc[m] = "sending" => obs[m] \in {"checked", "no checker"}
        /\ pc[m] = "cancelled" => obs[m] = "cancelled"
        /\ (obs[m] = "checked" /\ pc[m] # "recording") => recorded[m] # "no"
        /\ m \in Taken <=> pc[m] \in {"returning", "done"}

\* The reader and the cockpit agree on where the batch stands.
CockpitAgrees == inbox \notin shown /\ (over => closed)

GlyphsAgree ==
    /\ \A b \in Later : later[b] # {} => stage[b] = "open"
    /\ \A i \in inflight : AnswerPending(i)
    /\ (~over /\ \A b \in Later : stage[b] = "none") =>
          /\ \A i \in Ids : Unanswered(i) => i \in inflight
          /\ checkTotal = Cardinality(Machine)
          /\ checkDone = Cardinality(shown)

\* TypeOK in two parts: what the call and its reader change, and the rest.
StreamTypes ==
    /\ pc \in [Machine -> PC]
    /\ wg \in Int
    /\ tokens \in 0 .. Limit
    /\ ctxDone \in BOOLEAN
    /\ obs \in [Machine -> Label]
    /\ recorded \in [Machine -> {"no", "saved", "failed"}]
    /\ closed \in BOOLEAN
    /\ inbox \in Machine \cup {NoMachine}

CockpitTypes ==
    /\ over \in BOOLEAN
    /\ shown \subseteq Machine
    /\ inflight \subseteq Ids
    /\ checkTotal \in Nat
    /\ checkDone \in Nat
    /\ busy \in BOOLEAN
    /\ execs \in 0 .. MaxExec
    /\ singles \in [Ids -> Nat]
    /\ pressed \in 0 .. MaxSingles
    /\ answered \subseteq Ids
    /\ stage \in [Later -> {"none", "open", "over"}]
    /\ later \in [Later -> SUBSET Machine]

IInv ==
    /\ StreamTypes
    /\ CockpitTypes
    /\ NoSendAfterClose
    /\ CountersCount
    /\ PlacesAgree
    /\ CockpitAgrees
    /\ GlyphsAgree

----------------------------------------------------------------------------
(* Counting *)

\* The semaphore holds at least one token.
LEMMA LimitPositive == Limit \in Nat /\ Limit >= 1
  BY MaxConcurrentAssumption DEF Limit

\* Every part of Machine is finite, and one member more or less is one more
\* or less in its cardinality.
LEMMA Counting ==
  ASSUME NEW S \in SUBSET Machine, NEW m \in Machine
  PROVE  /\ IsFiniteSet(S)
         /\ Cardinality(S) \in Nat
         /\ m \notin S => Cardinality(S \cup {m}) = Cardinality(S) + 1
         /\ m \in S => Cardinality(S \ {m}) = Cardinality(S) - 1
         /\ m \in S => Cardinality(S) >= 1
<1>1. IsFiniteSet(S)
  BY FS_Subset, MachineAssumption
<1>2. Cardinality(S) \in Nat
  BY <1>1, FS_CardinalityType
<1>3. m \in S => Cardinality(S) >= 1
  BY <1>1, <1>2, FS_EmptySet
<1>4. QED
  BY <1>1, <1>2, <1>3, FS_AddElement, FS_RemoveElement

----------------------------------------------------------------------------
(* The inductive invariant *)

\* A session leaves the glyphs.
LEMMA GlyphsUntouched ==
  ASSUME GlyphsAgree, UNCHANGED <<cockpit, others>>
  PROVE  GlyphsAgree'
  BY DEF GlyphsAgree, cockpit, others, AnswerPending, Unanswered

\* The goroutines leave the cockpit.
LEMMA CockpitUntouched ==
  ASSUME CockpitTypes, GlyphsAgree, UNCHANGED <<cockpit, loop>>
  PROVE  CockpitTypes' /\ GlyphsAgree'
<1>1. GlyphsAgree'
  BY GlyphsUntouched DEF loop
<1>2. CockpitTypes'
  BY DEF CockpitTypes, cockpit, loop, others
<1>3. QED
  BY <1>1, <1>2

\* A step that changes neither the goroutines nor the reader.
LEMMA StreamUntouched ==
  ASSUME IInv, UNCHANGED <<pc, call, inbox, over, shown>>
  PROVE  /\ StreamTypes' /\ NoSendAfterClose' /\ CountersCount'
         /\ PlacesAgree' /\ CockpitAgrees'
<1>1. Live' = Live /\ Holders' = Holders /\ Taken' = Taken
  BY DEF call, Live, Holders, Taken
<1>2. StreamTypes' /\ NoSendAfterClose' /\ CockpitAgrees'
  BY DEF IInv, call, StreamTypes, NoSendAfterClose, CockpitAgrees
<1>3. CountersCount' /\ PlacesAgree'
  BY <1>1 DEF IInv, call, CountersCount, PlacesAgree
<1>4. QED
  BY <1>2, <1>3

LEMMA InitInv == Init => IInv
<1> SUFFICES ASSUME Init PROVE IInv
  OBVIOUS
<1>1. Cardinality(Machine) \in Nat /\ Cardinality({}) = 0
  BY MachineAssumption, FS_CardinalityType, FS_EmptySet
<1>2. Live = {} /\ Holders = {}
  BY DEF Init, Live, Holders
<1>3. StreamTypes
  <2>1. pc \in [Machine -> PC] /\ obs \in [Machine -> Label]
    BY DEF Init, PC, Label
  <2>2. recorded \in [Machine -> {"no", "saved", "failed"}] /\ tokens \in 0 .. Limit
    BY LimitPositive DEF Init
  <2>3. ctxDone \in BOOLEAN /\ closed \in BOOLEAN
    BY DEF Init
  <2>4. wg \in Int /\ inbox \in Machine \cup {NoMachine}
    BY DEF Init
  <2>5. QED
    BY <2>1, <2>2, <2>3, <2>4 DEF StreamTypes
<1>4. CockpitTypes
  <2>1. 0 \in 0 .. MaxExec /\ 0 \in 0 .. MaxSingles
    BY BoundsAssumption
  <2>2. /\ singles \in [Ids -> Nat]
        /\ stage \in [Later -> {"none", "open", "over"}]
        /\ later \in [Later -> SUBSET Machine]
    BY DEF Init
  <2>3. QED
    BY <1>1, <2>1, <2>2 DEF Init, CockpitTypes
<1>5. NoSendAfterClose /\ PlacesAgree
  BY NoMachineAssumption DEF Init, NoSendAfterClose, PlacesAgree, Taken
<1>6. CountersCount
  BY <1>1, <1>2 DEF Init, CountersCount
<1>7. CockpitAgrees
  BY DEF Init, CockpitAgrees
<1>8. GlyphsAgree
  <2>1. \A i \in Ids : \E m \in Machine \ {} : IdOf[m] = i
    BY DEF Ids
  <2>2. QED
    BY <1>1, <2>1 DEF Init, GlyphsAgree, AnswerPending
<1>9. QED
  BY <1>3, <1>4, <1>5, <1>6, <1>7, <1>8 DEF IInv

LEMMA StepInv == IInv /\ [Next]_vars => IInv'
<1> SUFFICES ASSUME IInv, [Next]_vars PROVE IInv'
  OBVIOUS
<1> USE DEF IInv
<1>P. Live \in SUBSET Machine /\ Holders \in SUBSET Machine
  BY DEF Live, Holders
<1>1. ASSUME NEW m \in Machine, Spawn(m) PROVE IInv'
  <2> USE <1>1 DEF Spawn, Goto
  <2>1. Live' = Live \cup {m} /\ m \notin Live /\ Holders' = Holders
    BY DEF StreamTypes, Live, Holders
  <2>2. StreamTypes'
    BY DEF StreamTypes, PC
  <2>3. CountersCount'
    BY <1>P, <2>1, Counting DEF CountersCount
  <2>4. NoSendAfterClose' /\ PlacesAgree' /\ CockpitAgrees'
    BY DEF StreamTypes, NoSendAfterClose, PlacesAgree, CockpitAgrees, Taken, cockpit
  <2>c. CockpitTypes' /\ GlyphsAgree'
    BY CockpitUntouched
  <2>5. QED
    BY <2>c, <2>2, <2>3, <2>4
<1>2. ASSUME NEW m \in Machine, Acquire(m) PROVE IInv'
  <2> USE <1>2 DEF Acquire, Goto
  <2>1. Live' = Live /\ Holders' = Holders \cup {m} /\ m \notin Holders
    BY DEF StreamTypes, Live, Holders
  <2>2. StreamTypes'
    BY LimitPositive DEF StreamTypes, PC
  <2>3. CountersCount'
    BY <1>P, <2>1, Counting DEF CountersCount
  <2>4. NoSendAfterClose' /\ PlacesAgree' /\ CockpitAgrees'
    BY DEF StreamTypes, NoSendAfterClose, PlacesAgree, CockpitAgrees, Taken, cockpit
  <2>c. CockpitTypes' /\ GlyphsAgree'
    BY CockpitUntouched
  <2>5. QED
    BY <2>c, <2>2, <2>3, <2>4
<1>3. ASSUME NEW m \in Machine, Abandon(m) PROVE IInv'
  <2> USE <1>3 DEF Abandon, Goto
  <2>1. Live' = Live /\ Holders' = Holders
    BY DEF StreamTypes, Live, Holders
  <2>2. StreamTypes'
    BY DEF StreamTypes, PC, Label
  <2>3. CountersCount'
    BY <2>1 DEF CountersCount
  <2>4. NoSendAfterClose' /\ PlacesAgree' /\ CockpitAgrees'
    BY DEF StreamTypes, NoSendAfterClose, PlacesAgree, CockpitAgrees, Taken, cockpit
  <2>c. CockpitTypes' /\ GlyphsAgree'
    BY CockpitUntouched
  <2>5. QED
    BY <2>c, <2>2, <2>3, <2>4
<1>4. ASSUME NEW m \in Machine, Check(m) PROVE IInv'
  <2> USE <1>4 DEF Check, Goto
  <2>1. Live' = Live /\ Holders' = Holders
    BY DEF StreamTypes, Live, Holders
  <2>2. StreamTypes'
    BY DEF StreamTypes, PC, Label
  <2>3. CountersCount'
    BY <2>1 DEF CountersCount
  <2>4. NoSendAfterClose' /\ CockpitAgrees'
    BY DEF StreamTypes, NoSendAfterClose, CockpitAgrees, cockpit
  <2>5. PlacesAgree'
    <3>1. Taken' = Taken /\ recorded' = recorded
      BY DEF Taken, cockpit
    <3>2. /\ pc'[m] = IF m \in Checkable THEN "recording" ELSE "sending"
          /\ obs'[m] = IF m \in Checkable THEN "checked" ELSE "no checker"
          /\ pc[m] = "checking"
      BY DEF StreamTypes
    <3>3. \A k \in Machine \ {m} : pc'[k] = pc[k] /\ obs'[k] = obs[k]
      BY DEF StreamTypes
    <3> QED
      BY <3>1, <3>2, <3>3 DEF PlacesAgree
  <2>c. CockpitTypes' /\ GlyphsAgree'
    BY CockpitUntouched
  <2>6. QED
    BY <2>c, <2>2, <2>3, <2>4, <2>5
<1>5. ASSUME NEW m \in Machine, Record(m) PROVE IInv'
  <2> USE <1>5 DEF Record, Goto
  <2>1. Live' = Live /\ Holders' = Holders
    BY DEF StreamTypes, Live, Holders
  <2>2. StreamTypes'
    BY DEF StreamTypes, PC
  <2>3. CountersCount'
    BY <2>1 DEF CountersCount
  <2>4. NoSendAfterClose' /\ PlacesAgree' /\ CockpitAgrees'
    BY DEF StreamTypes, NoSendAfterClose, PlacesAgree, CockpitAgrees, Taken, cockpit
  <2>c. CockpitTypes' /\ GlyphsAgree'
    BY CockpitUntouched
  <2>5. QED
    BY <2>c, <2>2, <2>3, <2>4
<1>6. ASSUME NEW m \in Machine, Send(m) PROVE IInv'
  <2> USE <1>6 DEF Send, Goto
  <2>1. Live' = Live /\ Holders' = Holders
    BY DEF StreamTypes, Live, Holders, PlacesAgree, call
  <2>2. StreamTypes'
    BY DEF StreamTypes, PC, call
  <2>3. CountersCount'
    BY <2>1 DEF CountersCount, call
  <2>4. m \notin Taken
    BY DEF StreamTypes, PlacesAgree
  <2>5. Taken' = Taken \cup {m}
    BY NoMachineAssumption DEF Taken, cockpit
  <2>6. NoSendAfterClose' /\ PlacesAgree'
    BY <2>5 DEF StreamTypes, NoSendAfterClose, PlacesAgree, call
  <2>7. CockpitAgrees'
    BY <2>4 DEF CockpitAgrees, Taken, call, cockpit
  <2>c. CockpitTypes' /\ GlyphsAgree'
    BY CockpitUntouched
  <2>8. QED
    BY <2>c, <2>2, <2>3, <2>6, <2>7
<1>7. ASSUME NEW m \in Machine, Return(m) PROVE IInv'
  <2> USE <1>7 DEF Return, Goto
  <2>1. Live' = Live \ {m} /\ m \in Live
    BY DEF StreamTypes, Live
  <2>2. Holders' = Holders \ {m}
    BY DEF StreamTypes, Holders
  <2>3. CountersCount'
    <3>1. wg' = Cardinality(Live')
      BY <1>P, <2>1, Counting DEF CountersCount
    <3>2. tokens' = Cardinality(Holders')
      <4>1. CASE m \in Holders
        BY <1>P, <2>2, <4>1, Counting DEF CountersCount
      <4>2. CASE m \notin Holders
        BY <2>2, <4>2, Holders \ {m} = Holders DEF CountersCount
      <4>3. QED
        BY <4>1, <4>2
    <3>3. QED
      BY <3>1, <3>2 DEF CountersCount
  <2>4. StreamTypes'
    <3>1. tokens' \in 0 .. Limit
      <4>1. tokens \in 0 .. Limit /\ (m \in Holders => tokens >= 1)
        BY <1>P, Counting DEF StreamTypes, CountersCount
      <4>2. QED
        BY <4>1, LimitPositive
    <3>2. QED
      BY <3>1 DEF StreamTypes, PC
  <2>5. NoSendAfterClose' /\ PlacesAgree' /\ CockpitAgrees'
    BY DEF StreamTypes, NoSendAfterClose, PlacesAgree, CockpitAgrees, Taken, cockpit
  <2>c. CockpitTypes' /\ GlyphsAgree'
    BY CockpitUntouched
  <2>6. QED
    BY <2>c, <2>3, <2>4, <2>5
<1>8. CASE Close
  <2> USE <1>8 DEF Close
  <2>1. Live = {}
    BY <1>P, FS_EmptySet, FS_Subset, MachineAssumption DEF CountersCount
  <2>2. NoSendAfterClose'
    BY <2>1 DEF NoSendAfterClose, Live
  <2>3. StreamTypes' /\ CountersCount' /\ PlacesAgree' /\ CockpitAgrees'
    BY DEF StreamTypes, CountersCount, Live, Holders, PlacesAgree, CockpitAgrees,
           Taken, cockpit
  <2>4. CockpitTypes' /\ GlyphsAgree'
    BY CockpitUntouched
  <2>5. QED
    BY <2>2, <2>3, <2>4
<1>9. CASE Cancel
  <2> USE <1>9 DEF Cancel
  <2>1. /\ StreamTypes' /\ CountersCount' /\ PlacesAgree' /\ CockpitAgrees'
        /\ NoSendAfterClose'
    BY DEF StreamTypes, CountersCount, Live, Holders, PlacesAgree, CockpitAgrees,
           NoSendAfterClose, Taken, cockpit
  <2>2. CockpitTypes' /\ GlyphsAgree'
    BY CockpitUntouched
  <2>3. QED
    BY <2>1, <2>2
<1>10. CASE HandleObservation
  <2> USE <1>10 DEF HandleObservation
  <2>1. inbox \in Machine /\ shown \in SUBSET Machine
    BY DEF StreamTypes, CockpitTypes
  <2>2. Taken' = Taken /\ inbox' \notin shown'
    BY <2>1, NoMachineAssumption DEF Taken
  <2>3. StreamTypes' /\ CockpitAgrees'
    BY <2>2 DEF StreamTypes, CockpitAgrees, call
  <2>4. CockpitTypes'
    BY <2>1 DEF CockpitTypes, loop, others
  <2>5. \A i \in inflight' : AnswerPending(i)'
    <3> SUFFICES ASSUME NEW i \in inflight, i # IdOf[inbox] PROVE AnswerPending(i)'
      OBVIOUS
    <3>1. AnswerPending(i)
      BY DEF GlyphsAgree
    <3>2. QED
      BY <3>1 DEF AnswerPending, loop, others
  <2>6. \A i \in Ids : Unanswered(i)' => Unanswered(i) /\ IdOf[inbox] # i
    BY DEF Unanswered, loop, others
  <2>7. Cardinality(shown') = Cardinality(shown) + 1
    BY <2>1, Counting DEF CockpitAgrees
  <2>8. GlyphsAgree'
    BY <2>5, <2>6, <2>7 DEF GlyphsAgree, loop, others
  <2>9. CountersCount' /\ PlacesAgree' /\ NoSendAfterClose'
    BY <2>2 DEF CountersCount, Live, Holders, PlacesAgree, NoSendAfterClose, call
  <2>10. QED
    BY <2>3, <2>4, <2>8, <2>9
<1>11. CASE HandleClose
  <2> USE <1>11 DEF HandleClose
  <2>1. /\ StreamTypes' /\ CountersCount' /\ PlacesAgree' /\ CockpitAgrees'
        /\ NoSendAfterClose'
    BY DEF StreamTypes, CountersCount, Live, Holders, PlacesAgree, CockpitAgrees,
           NoSendAfterClose, Taken, call
  <2>2. CockpitTypes' /\ GlyphsAgree'
    BY DEF CockpitTypes, GlyphsAgree, loop, others
  <2>3. QED
    BY <2>1, <2>2
<1>12. CASE ExecStart
  <2> USE <1>12 DEF ExecStart
  <2>1. execs' \in 0 .. MaxExec
    BY BoundsAssumption DEF CockpitTypes
  <2>2. CockpitTypes'
    BY <2>1 DEF CockpitTypes, cockpit, others
  <2>3. QED
    BY <2>2, StreamUntouched, GlyphsUntouched DEF cockpit
<1>13. CASE ExecEnd
  <2>1. CockpitTypes'
    BY <1>13 DEF ExecEnd, CockpitTypes, cockpit, others
  <2>2. QED
    BY <1>13, <2>1, StreamUntouched, GlyphsUntouched DEF ExecEnd, cockpit
<1>14. CASE UNCHANGED vars
  BY <1>14, StreamUntouched, CockpitUntouched DEF vars, cockpit
<1>15. ASSUME NEW m \in Machine, Goroutine(m) PROVE IInv'
  BY ONLY <1>15, <1>1, <1>2, <1>3, <1>4, <1>5, <1>6, <1>7 DEF Goroutine
<1>16. CASE Terminated
  BY <1>14, <1>16 DEF Terminated
<1>17. CASE OtherKeys
  <2>1. ASSUME NEW i \in Ids, CheckAlone(i) PROVE IInv'
    <3> USE <2>1 DEF CheckAlone
    <3>1. /\ pressed' \in 0 .. MaxSingles
          /\ singles' \in [Ids -> Nat]
          /\ singles'[i] > 0
          /\ \A j \in Ids : singles[j] > 0 => singles'[j] > 0
      BY BoundsAssumption DEF CockpitTypes
    <3>2. CockpitTypes'
      BY <3>1 DEF CockpitTypes
    <3>3. \A j \in inflight' : AnswerPending(j)'
      BY <3>1 DEF GlyphsAgree, CockpitTypes, AnswerPending
    <3>4. GlyphsAgree'
      BY <3>3 DEF GlyphsAgree, Unanswered
    <3>5. QED
      BY <3>2, <3>4, StreamUntouched
  <2>2. ASSUME NEW i \in Ids, HandleAlone(i) PROVE IInv'
    <3> USE <2>2 DEF HandleAlone
    <3>1. /\ singles' \in [Ids -> Nat]
          /\ \A j \in Ids \ {i} : singles'[j] = singles[j]
      BY DEF CockpitTypes
    <3>2. CockpitTypes'
      BY <3>1 DEF CockpitTypes
    <3>3. \A j \in inflight' : AnswerPending(j)'
      BY <3>1 DEF GlyphsAgree, CockpitTypes, AnswerPending
    <3>4. GlyphsAgree'
      BY <3>3 DEF GlyphsAgree, Unanswered
    <3>5. QED
      BY <3>2, <3>4, StreamUntouched
  <2>3. ASSUME NEW b \in Later, NEW rows \in Views \ {{}}, CheckVisibleAgain(b, rows)
        PROVE  IInv'
    <3> USE <2>3 DEF CheckVisibleAgain
    <3>1. rows \in SUBSET Machine /\ Cardinality(rows) \in Nat
      BY ViewsAssumption, MachineAssumption, Counting
    <3>2. /\ stage' \in [Later -> {"none", "open", "over"}]
          /\ later' \in [Later -> SUBSET Machine]
          /\ stage'[b] = "open" /\ later'[b] = rows
      BY <3>1 DEF CockpitTypes
    <3>3. inflight' \subseteq Ids
      BY <3>1 DEF Ids
    <3>4. CockpitTypes'
      BY <3>1, <3>2, <3>3 DEF CockpitTypes
    <3>5. GlyphsAgree'
      BY <3>2 DEF CockpitTypes, GlyphsAgree, AnswerPending
    <3>6. QED
      BY <3>4, <3>5, StreamUntouched
  <2>4. ASSUME NEW b \in Later, NEW m \in Machine, HandleLater(b, m) PROVE IInv'
    <3> USE <2>4 DEF HandleLater
    <3>1. /\ later' \in [Later -> SUBSET Machine]
          /\ \A c \in Later : later'[c] \subseteq later[c]
          /\ \A c \in Later : \A n \in later[c] : n # m => n \in later'[c]
      BY DEF CockpitTypes
    <3>2. CockpitTypes'
      BY <3>1 DEF CockpitTypes
    <3>3. \A j \in inflight' : AnswerPending(j)'
      BY <3>1 DEF GlyphsAgree, CockpitTypes, AnswerPending
    <3>4. stage[b] # "none"
      BY DEF GlyphsAgree
    <3>5. GlyphsAgree'
      BY <3>1, <3>3, <3>4 DEF GlyphsAgree
    <3>6. QED
      BY <3>2, <3>5, StreamUntouched
  <2>5. ASSUME NEW b \in Later, HandleLaterClose(b) PROVE IInv'
    <3> USE <2>5 DEF HandleLaterClose
    <3>1. /\ stage' \in [Later -> {"none", "open", "over"}]
          /\ stage'[b] = "over" /\ \A c \in Later \ {b} : stage'[c] = stage[c]
      BY DEF CockpitTypes
    <3>2. CockpitTypes' /\ GlyphsAgree'
      BY <3>1 DEF CockpitTypes, GlyphsAgree
    <3>3. QED
      BY <3>2, StreamUntouched
  <2>6. QED
    BY ONLY <1>17, <2>1, <2>2, <2>3, <2>4, <2>5 DEF OtherKeys
<1>18. QED
  <2> HIDE DEF IInv
  <2>1. QED
    BY <1>8, <1>9, <1>10, <1>11, <1>12, <1>13, <1>14, <1>15, <1>16, <1>17 DEF Next

----------------------------------------------------------------------------
(* Theorems *)

LEMMA SpecInv == Spec => []IInv
  BY InitInv, StepInv, PTL DEF Spec

\* Every reachable state of a batch is well typed, for every set of machines
\* and every MaxConcurrent.
THEOREM TypeCorrect == Spec => []TypeOK
<1>1. IInv => TypeOK
  BY DEF IInv, StreamTypes, CockpitTypes, TypeOK
<1>2. QED
  BY <1>1, SpecInv, PTL

\* CheckVisibleStream never has more than Limit goroutines that hold a token.
THEOREM Bounded == Spec => []ConcurrencyBounded
<1>1. IInv => ConcurrencyBounded
  BY LimitPositive DEF IInv, StreamTypes, CountersCount, ConcurrencyBounded
<1>2. QED
  BY <1>1, SpecInv, PTL

\* No goroutine of the call can meet a closed channel, so no send panics.
THEOREM NeverSendsOnClosed == Spec => []NoSendAfterClose
<1>1. IInv => NoSendAfterClose
  BY DEF IInv
<1>2. QED
  BY <1>1, SpecInv, PTL

\* A checker's answer on the screen has been handed to the store before.
THEOREM ShownWasRecorded == Spec => []RecordedBeforeShown
<1>1. IInv => RecordedBeforeShown
  BY DEF IInv, StreamTypes, CockpitTypes, PlacesAgree, Taken, RecordedBeforeShown
<1>2. QED
  BY <1>1, SpecInv, PTL

\* Whatever other keys are pressed, no checking glyph is left without an
\* answer to come; and until a later `G`, no ID that was not answered is
\* without its glyph, and the counters of the status line count the rows.
THEOREM GlyphsAreExact == Spec => []GlyphsMatchPending
<1>1. ASSUME IInv PROVE GlyphsMatchPending
  <2>1. shown \in SUBSET Machine /\ Machine \cap shown = shown
    BY <1>1 DEF IInv, CockpitTypes
  <2>2. Cardinality(Machine \ shown)
           = Cardinality(Machine) - Cardinality(Machine \cap shown)
    BY <2>1, MachineAssumption, FS_Difference
  <2>3. QED
    BY <1>1, <2>1, <2>2 DEF IInv, GlyphsAgree, GlyphsMatchPending
<1>2. QED
  BY <1>1, SpecInv, PTL

\* CheckVisibleStream and its reader implement HealthBatch: the reader takes
\* one observation per machine, and the close comes after the last of them.
THEOREM ImplementsBatch == Spec => StreamKeepsPromise
<1>1. Init => Batch!BatchInit
  BY NoMachineAssumption DEF Init, Batch!BatchInit, Taken
<1>2. ASSUME IInv, [Next]_vars PROVE [Batch!BatchNext]_(Batch!batchVars)
  <2> USE DEF Batch!batchVars
  <2>1. ASSUME NEW m \in Machine, Send(m) PROVE Batch!Observe(m)
    <3>1. m \notin Taken
      BY <1>2, <2>1 DEF IInv, StreamTypes, PlacesAgree, Send, Goto
    <3>2. Taken' = Taken \cup {m} /\ ~closed /\ closed' = closed
      BY <2>1, NoMachineAssumption DEF Send, Taken, cockpit, call
    <3>3. QED
      BY <3>1, <3>2 DEF Batch!Observe
  <2>2. CASE Close
    <3>1. (\A m \in Machine : pc'[m] = "done") /\ pc' = pc
      BY <1>2, <2>2, StepInv DEF IInv, NoSendAfterClose, Close
    <3>2. Taken = Machine
      BY <1>2, <3>1 DEF IInv, StreamTypes, CockpitTypes, PlacesAgree, Taken
    <3>3. QED
      BY <2>2, <3>2 DEF Close, Batch!BatchNext, Batch!CloseBatch, Taken, cockpit
  <2>3. CASE HandleObservation
    BY <2>3 DEF HandleObservation, Taken, call
  <2>4. ASSUME NEW m \in Machine, Goroutine(m), ~Send(m)
        PROVE  Taken' = Taken /\ closed' = closed
    BY <2>4 DEF Goroutine, Spawn, Acquire, Abandon, Check, Record, Return,
                Taken, cockpit
  <2>5. CASE Cancel \/ HandleClose \/ ExecStart \/ ExecEnd \/ UNCHANGED vars
    BY <2>5 DEF Cancel, HandleClose, ExecStart, ExecEnd, vars, Taken, call, cockpit
  <2>5a. CASE OtherKeys
    BY <2>5a DEF OtherKeys, CheckAlone, HandleAlone, CheckVisibleAgain, HandleLater,
                 HandleLaterClose, Taken, call
  <2>6. QED
    BY <1>2, <2>1, <2>2, <2>3, <2>4, <2>5, <2>5a DEF Next, Terminated, Batch!BatchNext
<1>3. QED
  BY <1>1, <1>2, SpecInv, PTL DEF Spec, StreamKeepsPromise, Batch!BatchSpec

============================================================================
