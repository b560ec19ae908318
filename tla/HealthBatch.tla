---------------------------- MODULE HealthBatch ----------------------------
(***************************************************************************)
(* What HealthService.CheckVisibleStream promises to whoever reads its     *)
(* channel: the observations arrive one machine at a time, in any order,   *)
(* never one for a machine already observed, and the channel is closed     *)
(* once every machine has been observed, after which nothing arrives.      *)
(* The goroutines, the semaphore and the channel hand-over that keep the   *)
(* promise are in HealthStream, which implements this specification.       *)
(***************************************************************************)

CONSTANT Machine    \* the machines the call was given

VARIABLES
    received,       \* machines whose observation the reader has taken
    closed          \* the channel has been closed

batchVars == <<received, closed>>

BatchInit ==
    /\ received = {}
    /\ closed = FALSE

\* The reader takes the observation of m.
Observe(m) ==
    /\ ~closed
    /\ m \notin received
    /\ received' = received \cup {m}
    /\ UNCHANGED closed

CloseBatch ==
    /\ ~closed
    /\ received = Machine
    /\ closed' = TRUE
    /\ UNCHANGED received

BatchNext == CloseBatch \/ \E m \in Machine : Observe(m)

BatchSpec == BatchInit /\ [][BatchNext]_batchVars

============================================================================
