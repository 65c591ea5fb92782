-------------------------- MODULE MetaQueue_proofs --------------------------
(***************************************************************************)
(* Proofs about the Meta event queue, for every set of events, routes and  *)
(* workers and every bound on the disturbances.                            *)
(***************************************************************************)
EXTENDS MetaQueue, FiniteSetTheorems, TLAPS

(***************************************************************************)
(* Adding one to a counter of a function into Nat.                         *)
(***************************************************************************)
LEMMA BumpType ==
  ASSUME NEW S, NEW f \in [S -> Nat], NEW x
  PROVE  [f EXCEPT ![x] = @ + 1] \in [S -> Nat]
<1>1. ASSUME NEW y \in S PROVE [f EXCEPT ![x] = @ + 1][y] \in Nat
  <2>1. CASE y = x
    BY <2>1
  <2>2. CASE y # x
    BY <2>2
  <2> QED BY <2>1, <2>2
<1> QED BY <1>1

(* "No event in hand" is not an event.                                      *)
LEMMA NoEventIsNone == \A e \in Events : e # NoEvent
  BY QueueAssumption DEF QueueAssumption

(***************************************************************************)
(* Type correctness.                                                       *)
(***************************************************************************)
(* The empty queue has the types of TypeOK.                                 *)
LEMMA InitTypeOK == Init => TypeOK
<1> SUFFICES ASSUME Init PROVE TypeOK
  OBVIOUS
<1> USE QueueAssumption DEF Init, QueueAssumption
<1>1. cfg \in [Routes -> ConfigVerdicts]
  OBVIOUS
<1>2. seen \in [Routes -> SUBSET ConfigVerdicts]
  BY <1>1
<1>3. status \in [Events -> Status] /\ step \in [Workers -> Steps]
  BY DEF Status, Steps
<1>4. held \in [Workers -> SUBSET Events] /\ lease \in SUBSET (Workers \X Events)
  OBVIOUS
<1>5. faults \in 0..MaxFaults
  OBVIOUS
<1>6. QED
  BY <1>1, <1>2, <1>3, <1>4, <1>5 DEF TypeOK

(* The count of disturbances stays within its bound.                        *)
LEMMA DisturbType ==
  ASSUME TypeOK, Disturb
  PROVE  faults' \in 0..MaxFaults
  BY QueueAssumption DEF QueueAssumption, TypeOK, Disturb

(* The part of the mark_* statements that all three share keeps its types.  *)
LEMMA FinishRowType ==
  ASSUME TypeOK, NEW w \in Workers, NEW s \in Status, FinishRow(w, s)
  PROVE  /\ status' \in [Events -> Status]
         /\ stale' \in [Events -> BOOLEAN]
         /\ lease' \in SUBSET (Workers \X Events)
         /\ cur' \in [Workers -> Events \cup {NoEvent}]
         /\ step' \in [Workers -> Steps]
  BY DEF TypeOK, FinishRow, WithoutLeaseOn, Status, Steps

(* So does a worker that loses its batch.                                   *)
LEMMA DropBatchType ==
  ASSUME TypeOK, NEW w \in Workers, DropBatch(w)
  PROVE  /\ held' \in [Workers -> SUBSET Events]
         /\ cur' \in [Workers -> Events \cup {NoEvent}]
         /\ step' \in [Workers -> Steps]
         /\ lease' \in SUBSET (Workers \X Events)
         /\ causes' \in [Events -> Nat]
  BY DEF TypeOK, DropBatch, WithoutLeaseOf, Steps

(* Every step keeps the types.                                              *)
LEMMA StepTypeOK == TypeOK /\ [Next]_vars => TypeOK'
<1> SUFFICES ASSUME TypeOK, [Next]_vars PROVE TypeOK'
  OBVIOUS
<1> USE DEF TypeOK, rowVars, cfgVars, workerVars, historyVars
<1>1. ASSUME NEW e \in Events, Enqueue(e) PROVE TypeOK'
  <2>1. Cardinality({f \in Events : status[f] # "absent"}) \in Nat
    BY QueueAssumption, FS_CardinalityType, FS_Subset DEF QueueAssumption
  <2> QED BY <2>1, <1>1 DEF Enqueue, Status
<1>2. ASSUME NEW e \in Events, EnqueueAgain(e) PROVE TypeOK'
  BY <1>2, DisturbType DEF EnqueueAgain
<1>3. ASSUME NEW w \in Workers, Claim(w) PROVE TypeOK'
  BY <1>3 DEF Claim, IsBatch, Status
<1>4. ASSUME NEW w \in Workers, NEW e \in Events, Begin(w, e) PROVE TypeOK'
  BY <1>4 DEF Begin, Steps
<1>5. ASSUME NEW w \in Workers, NEW e \in Events, ConfigError(w, e) PROVE TypeOK'
  BY <1>5, DropBatchType DEF ConfigError
<1>6. ASSUME NEW w \in Workers, PostAccepted(w) PROVE TypeOK'
  <2>1. step' \in [Workers -> Steps]
    BY <1>6 DEF PostAccepted, Steps
  <2>2. posts' \in [Events -> Nat] /\ accepted' \in [Events -> Nat]
    BY <1>6, BumpType DEF PostAccepted
  <2> QED BY <1>6, <2>1, <2>2 DEF PostAccepted
<1>7. ASSUME NEW w \in Workers, PostRefused(w) PROVE TypeOK'
  <2>1. step' \in [Workers -> Steps]
    BY <1>7 DEF PostRefused, Steps
  <2>2. posts' \in [Events -> Nat]
    BY <1>7, BumpType DEF PostRefused
  <2> QED BY <1>7, <2>1, <2>2, DisturbType DEF PostRefused
<1>8. ASSUME NEW w \in Workers, PostAnswerLost(w) PROVE TypeOK'
  <2>1. step' \in [Workers -> Steps]
    BY <1>8 DEF PostAnswerLost, Steps
  <2>2. posts' \in [Events -> Nat] /\ accepted' \in [Events -> Nat] /\ causes' \in [Events -> Nat]
    BY <1>8, BumpType DEF PostAnswerLost
  <2> QED BY <1>8, <2>1, <2>2, DisturbType DEF PostAnswerLost
<1>9. ASSUME NEW w \in Workers, MarkSent(w) PROVE TypeOK'
  <2>1. attempts' \in [Events -> Nat]
    BY <1>9 DEF MarkSent, CountAttempt
  <2>2. FinishRow(w, "sent") /\ "sent" \in Status
    BY <1>9 DEF MarkSent, Status
  <2> QED BY <1>9, <2>1, <2>2, FinishRowType DEF MarkSent
<1>10. ASSUME NEW w \in Workers, MarkFailed(w) PROVE TypeOK'
  <2>1. attempts' \in [Events -> Nat]
    BY <1>10 DEF MarkFailed, CountAttempt
  <2>3. due' \in [Events -> BOOLEAN]
    BY <1>10 DEF MarkFailed
  <2>2. FinishRow(w, "failed") /\ "failed" \in Status
    BY <1>10 DEF MarkFailed, Status
  <2> QED BY <1>10, <2>1, <2>2, <2>3, FinishRowType DEF MarkFailed
<1>11. ASSUME NEW w \in Workers, MarkSkipped(w) PROVE TypeOK'
  BY <1>11, FinishRowType DEF MarkSkipped, Status
<1>12. ASSUME NEW w \in Workers, Abort(w) PROVE TypeOK'
  BY <1>12, DropBatchType, DisturbType DEF Abort
<1>13. ASSUME NEW e \in Events, RetryEvent(e) PROVE TypeOK'
  BY <1>13, DisturbType DEF RetryEvent, WithoutLeaseOn, Status
<1>14. ASSUME NEW e \in Events, ArchiveEvent(e) PROVE TypeOK'
  BY <1>14, DisturbType DEF ArchiveEvent
<1>15. ASSUME ArchiveFinished PROVE TypeOK'
  BY <1>15, DisturbType DEF ArchiveFinished
<1>16. ASSUME NEW r \in Routes, DeleteRoute(r) PROVE TypeOK'
  BY <1>16, DisturbType DEF DeleteRoute, Status, ConfigVerdicts
<1>17. ASSUME NEW r \in Routes, ConfigChange(r) PROVE TypeOK'
  BY <1>17, DisturbType, QueueAssumption DEF ConfigChange, QueueAssumption
<1>18. ASSUME NEW e \in Events, TimeDue(e) PROVE TypeOK'
  BY <1>18 DEF TimeDue
<1>19. ASSUME NEW e \in Events, TimeStale(e) PROVE TypeOK'
  BY <1>19 DEF TimeStale
<1>20. ASSUME NEW e \in Events, ClaimExpires(e) PROVE TypeOK'
  BY <1>20, DisturbType DEF ClaimExpires, WithoutLeaseOn
<1>21. ASSUME NEW r \in Routes, CacheExpires(r) PROVE TypeOK'
  BY <1>21 DEF CacheExpires
<1>22. CASE UNCHANGED vars
  BY <1>22 DEF vars
<1>23. QED
  BY <1>1, <1>2, <1>3, <1>4, <1>5, <1>6, <1>7, <1>8, <1>9, <1>10, <1>11, <1>12, <1>13,
     <1>14, <1>15, <1>16, <1>17, <1>18, <1>19, <1>20, <1>21, <1>22
     DEF Next, Deliver, Operator, Time

(* Every variable keeps its type in every behaviour of the queue.           *)
THEOREM TypeCorrect == Spec => []TypeOK
  BY InitTypeOK, StepTypeOK, PTL DEF Spec

(***************************************************************************)
(* Workers and their claims.                                               *)
(***************************************************************************)
(* The steps that leave the rows' status, the workers and the claims alone. *)
QuietStep ==
  \/ \E e \in Events : TimeDue(e)
  \/ ArchiveFinished \/ \E e \in Events : ArchiveEvent(e)
  \/ \E e \in Events : EnqueueAgain(e)
  \/ \E r \in Routes : ConfigChange(r) \/ CacheExpires(r)
  \/ UNCHANGED vars

(* What the steps that touch no claim leave alone.                          *)
LEMMA QuietStepFrame ==
  ASSUME TypeOK, QuietStep
  PROVE  /\ UNCHANGED <<status, attempts, held, cur, step, posts, accepted, lease, causes>>
         /\ \A e \in Events : stale'[e] => stale[e]
  BY DEF TypeOK, QuietStep, TimeDue, ArchiveFinished, ArchiveEvent, EnqueueAgain, ConfigChange,
         CacheExpires, vars, rowVars, cfgVars, workerVars, historyVars

(* Every step leaves the workers' hands in order: the row being processed   *)
(* and the rows still waiting in the batch are different rows that exist.   *)
LEMMA StepWorkerOK == TypeOK /\ WorkerOK /\ [Next]_vars => WorkerOK'
<1> SUFFICES ASSUME TypeOK, WorkerOK, [Next]_vars PROVE WorkerOK'
  OBVIOUS
<1> USE DEF TypeOK, WorkerOK, Holding, rowVars, cfgVars, workerVars, historyVars
<1>1. ASSUME NEW e \in Events, Enqueue(e) PROVE WorkerOK'
  BY <1>1 DEF Enqueue
<1>2. ASSUME NEW w \in Workers, Claim(w) PROVE WorkerOK'
  <2>1. PICK batch \in SUBSET Events :
          /\ status' = [e \in Events |-> IF e \in batch THEN "processing" ELSE status[e]]
          /\ held' = [held EXCEPT ![w] = batch]
    BY <1>2 DEF Claim
  <2>2. UNCHANGED <<cur, step>> /\ cur[w] = NoEvent /\ NoEvent \notin batch
    BY <1>2, QueueAssumption DEF Claim, QueueAssumption
  <2>3. \A e \in Events : status[e] # "absent" => status'[e] # "absent"
    BY <2>1
  <2>4. \A e \in batch : status'[e] # "absent"
    BY <2>1
  <2>5. \A v \in Workers : held'[v] = IF v = w THEN batch ELSE held[v]
    BY <2>1
  <2> QED BY <2>2, <2>3, <2>4, <2>5
<1>3. ASSUME NEW w \in Workers, NEW e \in Events, Begin(w, e) PROVE WorkerOK'
  BY <1>3, QueueAssumption DEF Begin, QueueAssumption
<1>4. ASSUME NEW w \in Workers, DropBatch(w), UNCHANGED status PROVE WorkerOK'
  BY <1>4 DEF DropBatch
<1>5. ASSUME NEW w \in Workers, PostAccepted(w) \/ PostRefused(w) \/ PostAnswerLost(w)
      PROVE  WorkerOK'
  BY <1>5 DEF PostAccepted, PostRefused, PostAnswerLost
<1>6. ASSUME NEW w \in Workers, NEW s \in Status \ {"absent"}, FinishRow(w, s), UNCHANGED held
      PROVE  WorkerOK'
  <2>1. \A e \in Events : status[e] # "absent" => status'[e] # "absent"
    BY <1>6 DEF FinishRow
  <2>2. \A v \in Workers : /\ cur'[v] = IF v = w THEN NoEvent ELSE cur[v]
                           /\ step'[v] = IF v = w THEN "idle" ELSE step[v]
    BY <1>6 DEF FinishRow
  <2>3. NoEvent \notin held[w]
    BY QueueAssumption DEF QueueAssumption
  <2> QED BY <1>6, <2>1, <2>2, <2>3
<1>7. ASSUME NEW e \in Events, RetryEvent(e) PROVE WorkerOK'
  BY <1>7 DEF RetryEvent
<1>8. ASSUME NEW r \in Routes, DeleteRoute(r) PROVE WorkerOK'
  BY <1>8 DEF DeleteRoute
<1>9. ASSUME NEW e \in Events, TimeStale(e) \/ ClaimExpires(e) PROVE WorkerOK'
  BY <1>9 DEF TimeStale, ClaimExpires
<1>10. CASE QuietStep
  BY <1>10, QuietStepFrame
<1>11. ASSUME NEW w \in Workers, MarkSent(w) \/ MarkFailed(w) \/ MarkSkipped(w) PROVE WorkerOK'
  BY <1>11, <1>6 DEF MarkSent, MarkFailed, MarkSkipped, Status
<1>12. ASSUME NEW w \in Workers, Abort(w) \/ \E e \in Events : ConfigError(w, e) PROVE WorkerOK'
  BY <1>12, <1>4 DEF Abort, ConfigError
<1>13. QED
  BY <1>1, <1>2, <1>3, <1>5, <1>7, <1>8, <1>9, <1>10, <1>11, <1>12
     DEF Next, Deliver, Operator, Time, QuietStep

(* A worker is between events exactly when it has no row in hand, and what  *)
(* it has in hand was once inserted.                                        *)
THEOREM WorkersConsistent == Spec => []WorkerOK
<1>1. Init => WorkerOK
  BY DEF Init, WorkerOK, Holding
<1>2. QED
  BY <1>1, StepWorkerOK, TypeCorrect, PTL DEF Spec

(* Every step keeps claims exclusive: only the claim query gives one, and it*)
(* takes no row that is "processing" and fresh.                             *)
LEMMA StepLeaseExclusion ==
  TypeOK /\ WorkerOK /\ LeaseExclusion /\ [Next]_vars => LeaseExclusion'
<1> SUFFICES ASSUME TypeOK, WorkerOK, LeaseExclusion, [Next]_vars PROVE LeaseExclusion'
  OBVIOUS
<1> USE DEF TypeOK, LeaseExclusion, Holding, rowVars, cfgVars, workerVars, historyVars
<1>1. ASSUME NEW e \in Events, Enqueue(e) PROVE LeaseExclusion'
  BY <1>1 DEF Enqueue
<1>2. ASSUME NEW w \in Workers, Claim(w) PROVE LeaseExclusion'
  <2>1. PICK batch \in SUBSET Events :
          /\ \A e \in batch : Claimable(e)
          /\ status' = [e \in Events |-> IF e \in batch THEN "processing" ELSE status[e]]
          /\ stale' = [e \in Events |-> stale[e] /\ e \notin batch]
          /\ held' = [held EXCEPT ![w] = batch]
          /\ lease' = lease \cup ({w} \X batch)
    BY <1>2 DEF Claim, IsBatch
  <2>2. \A e \in batch, v \in Workers : <<v, e>> \notin lease
    BY <2>1 DEF Claimable
  <2>3. \A e \in Events : <<w, e>> \notin lease
    BY <1>2 DEF Claim, WorkerOK
  <2>4. cur' = cur
    BY <1>2 DEF Claim
  <2>5. SUFFICES ASSUME NEW v \in Workers, NEW e \in Events, <<v, e>> \in lease'
                 PROVE  /\ status'[e] = "processing" /\ ~ stale'[e]
                        /\ e \in held'[v] \cup ({cur'[v]} \ {NoEvent})
                        /\ \A u \in Workers : <<u, e>> \in lease' => u = v
    BY DEF LeaseExclusion
  <2>6. CASE e \in batch
    <3>1. \A u \in Workers : <<u, e>> \in lease' => u = w
      BY <2>1, <2>2, <2>6
    <3>2. v = w
      BY <3>1, <2>5
    <3>3. status'[e] = "processing" /\ ~ stale'[e]
      BY <2>1, <2>6
    <3>4. e \in held'[v]
      BY <2>1, <2>6, <3>2
    <3> QED BY <3>1, <3>2, <3>3, <3>4
  <2>7. CASE e \notin batch
    <3>1. \A u \in Workers : <<u, e>> \in lease' => <<u, e>> \in lease
      BY <2>1, <2>7
    <3>2. <<v, e>> \in lease /\ v # w
      BY <3>1, <2>3, <2>5
    <3>3. held'[v] = held[v]
      BY <2>1, <3>2
    <3> QED BY <2>1, <2>4, <2>7, <3>1, <3>2, <3>3
  <2> QED BY <2>6, <2>7
<1>3. ASSUME NEW w \in Workers, NEW e \in Events, Begin(w, e) PROVE LeaseExclusion'
  BY <1>3, QueueAssumption DEF Begin, QueueAssumption, WorkerOK
<1>4. ASSUME NEW w \in Workers, DropBatch(w), UNCHANGED <<status, stale>>
      PROVE  LeaseExclusion'
  BY <1>4 DEF DropBatch, WithoutLeaseOf
<1>5. ASSUME NEW w \in Workers, PostAccepted(w) \/ PostRefused(w) \/ PostAnswerLost(w)
      PROVE  LeaseExclusion'
  BY <1>5 DEF PostAccepted, PostRefused, PostAnswerLost
<1>6. ASSUME NEW w \in Workers, NEW s \in Status, FinishRow(w, s), UNCHANGED held
      PROVE  LeaseExclusion'
  BY <1>6 DEF FinishRow, WithoutLeaseOn
<1>7. ASSUME NEW e \in Events, RetryEvent(e) PROVE LeaseExclusion'
  BY <1>7 DEF RetryEvent, WithoutLeaseOn
<1>8. ASSUME NEW r \in Routes, DeleteRoute(r) PROVE LeaseExclusion'
  BY <1>8 DEF DeleteRoute
<1>9. ASSUME NEW e \in Events, TimeStale(e) PROVE LeaseExclusion'
  BY <1>9 DEF TimeStale, Leased
<1>10. ASSUME NEW e \in Events, ClaimExpires(e) PROVE LeaseExclusion'
  BY <1>10 DEF ClaimExpires, WithoutLeaseOn
<1>11. CASE QuietStep
  BY <1>11, QuietStepFrame
<1>12. ASSUME NEW w \in Workers, MarkSent(w) \/ MarkFailed(w) \/ MarkSkipped(w)
       PROVE  LeaseExclusion'
  BY <1>12, <1>6 DEF MarkSent, MarkFailed, MarkSkipped, Status
<1>13. ASSUME NEW w \in Workers, Abort(w) \/ \E e \in Events : ConfigError(w, e)
       PROVE  LeaseExclusion'
  BY <1>13, <1>4 DEF Abort, ConfigError
<1>14. QED
  BY <1>1, <1>2, <1>3, <1>5, <1>7, <1>8, <1>9, <1>10, <1>11, <1>12, <1>13
     DEF Next, Deliver, Operator, Time, QuietStep

(* At most one worker holds an unbroken claim on an event.                  *)
THEOREM ClaimsAreExclusive == Spec => []LeaseExclusion
<1>1. Init => LeaseExclusion
  BY DEF Init, LeaseExclusion
<1>2. QED
  BY <1>1, StepLeaseExclusion, TypeCorrect, WorkersConsistent, PTL DEF Spec

(***************************************************************************)
(* Deliveries.                                                             *)
(***************************************************************************)
(* Every step keeps the books of what Meta accepted.                        *)
LEMMA StepAcceptanceKnown ==
  TypeOK /\ WorkerOK /\ AcceptanceKnown /\ [Next]_vars => AcceptanceKnown'
<1> SUFFICES ASSUME TypeOK, WorkerOK, AcceptanceKnown, [Next]_vars PROVE AcceptanceKnown'
  OBVIOUS
<1> USE DEF TypeOK, AcceptanceKnown, rowVars, cfgVars, workerVars, historyVars
<1>1. ASSUME NEW e \in Events, Enqueue(e) PROVE AcceptanceKnown'
  BY <1>1 DEF Enqueue
<1>2. ASSUME NEW w \in Workers, Claim(w) PROVE AcceptanceKnown'
  BY <1>2 DEF Claim
<1>3. ASSUME NEW w \in Workers, NEW e \in Events, Begin(w, e) PROVE AcceptanceKnown'
  BY <1>3 DEF Begin
<1>4. ASSUME NEW w \in Workers, DropBatch(w), UNCHANGED <<status, accepted>>
      PROVE  AcceptanceKnown'
  BY <1>4 DEF DropBatch
<1>5. ASSUME NEW w \in Workers, PostRefused(w) PROVE AcceptanceKnown'
  BY <1>5 DEF PostRefused
<1>6. ASSUME NEW w \in Workers, PostAccepted(w) \/ PostAnswerLost(w) PROVE AcceptanceKnown'
  <2>1. cur[w] \in Events /\ status[cur[w]] # "absent" /\ UNCHANGED <<status, cur>>
    BY <1>6 DEF PostAccepted, PostAnswerLost, WorkerOK, Holding
  <2>2. \A e \in Events : accepted'[e] = IF e = cur[w] THEN accepted[e] + 1 ELSE accepted[e]
    BY <1>6, <2>1 DEF PostAccepted, PostAnswerLost
  <2>3. \A v \in Workers : v # w => step'[v] = step[v]
    BY <1>6 DEF PostAccepted, PostAnswerLost
  <2> QED BY <2>1, <2>2, <2>3
<1>7. ASSUME NEW w \in Workers, MarkSent(w) PROVE AcceptanceKnown'
  BY <1>7 DEF MarkSent, FinishRow, WorkerOK
<1>8. ASSUME NEW w \in Workers, MarkFailed(w) \/ MarkSkipped(w) PROVE AcceptanceKnown'
  BY <1>8 DEF MarkFailed, MarkSkipped, FinishRow
<1>9. ASSUME NEW e \in Events, RetryEvent(e) PROVE AcceptanceKnown'
  BY <1>9 DEF RetryEvent
<1>10. ASSUME NEW r \in Routes, DeleteRoute(r) PROVE AcceptanceKnown'
  BY <1>10 DEF DeleteRoute
<1>11. ASSUME NEW e \in Events, TimeStale(e) \/ ClaimExpires(e) PROVE AcceptanceKnown'
  BY <1>11 DEF TimeStale, ClaimExpires
<1>12. CASE QuietStep
  BY <1>12, QuietStepFrame
<1>13. ASSUME NEW w \in Workers, Abort(w) \/ \E e \in Events : ConfigError(w, e)
       PROVE  AcceptanceKnown'
  BY <1>13, <1>4 DEF Abort, ConfigError
<1>14. QED
  BY <1>1, <1>2, <1>3, <1>5, <1>6, <1>7, <1>8, <1>9, <1>10, <1>11, <1>12, <1>13
     DEF Next, Deliver, Operator, Time, QuietStep

(* A row is "sent", or a worker about to mark it so, only after Meta         *)
(* accepted the event.                                                      *)
THEOREM AcceptanceIsKnown == Spec => []AcceptanceKnown
<1>1. Init => AcceptanceKnown
  BY QueueAssumption DEF Init, AcceptanceKnown, QueueAssumption
<1>2. QED
  BY <1>1, StepAcceptanceKnown, TypeCorrect, WorkersConsistent, PTL DEF Spec

(* Sets of workers: what removing or adding one does to their number.       *)
LEMMA WorkerCount ==
  ASSUME NEW A \in SUBSET Workers, NEW B \in SUBSET Workers
  PROVE  /\ Cardinality(A) \in Nat /\ Cardinality(B) \in Nat
         /\ A \subseteq B => Cardinality(A) <= Cardinality(B)
         /\ \A w \in Workers : A \subseteq B \cup {w} => Cardinality(A) <= Cardinality(B) + 1
         /\ \A w \in B : A \subseteq B \ {w} => Cardinality(A) + 1 <= Cardinality(B)
<1>1. IsFiniteSet(A) /\ IsFiniteSet(B)
  BY QueueAssumption, FS_Subset DEF QueueAssumption
<1>2. Cardinality(A) \in Nat /\ Cardinality(B) \in Nat
  BY <1>1, FS_CardinalityType
<1>3. A \subseteq B => Cardinality(A) <= Cardinality(B)
  BY <1>1, FS_Subset
<1>4. ASSUME NEW w \in Workers, A \subseteq B \cup {w}
      PROVE  Cardinality(A) <= Cardinality(B) + 1
  <2>1. IsFiniteSet(B \cup {w}) /\ Cardinality(B \cup {w}) <= Cardinality(B) + 1
    <3>1. /\ IsFiniteSet(B \cup {w})
          /\ Cardinality(B \cup {w}) = IF w \in B THEN Cardinality(B) ELSE Cardinality(B) + 1
      BY <1>1, FS_AddElement
    <3> QED BY <1>2, <3>1
  <2>2. Cardinality(A) <= Cardinality(B \cup {w}) /\ Cardinality(B \cup {w}) \in Nat
    BY <1>4, <2>1, FS_Subset, FS_CardinalityType
  <2> QED BY <1>2, <2>1, <2>2
<1>5. ASSUME NEW w \in B, A \subseteq B \ {w}
      PROVE  Cardinality(A) + 1 <= Cardinality(B)
  <2>1. IsFiniteSet(B \ {w}) /\ Cardinality(B \ {w}) = Cardinality(B) - 1
    BY <1>1, FS_RemoveElement
  <2>2. Cardinality(A) <= Cardinality(B \ {w})
    BY <1>5, <2>1, FS_Subset
  <2> QED BY <1>2, <2>1, <2>2
<1> QED BY <1>2, <1>3, <1>4, <1>5

(* Every step keeps the attempts column, with the answers not yet recorded, *)
(* within the number of calls made.                                         *)
LEMMA StepAttemptsCounted ==
  TypeOK /\ WorkerOK /\ AttemptsCounted /\ [Next]_vars => AttemptsCounted'
<1> SUFFICES ASSUME TypeOK, WorkerOK, AttemptsCounted, [Next]_vars, NEW e \in Events
             PROVE  attempts'[e] + Cardinality(Answered(e)') <= posts'[e]
  BY DEF AttemptsCounted
<1> USE DEF TypeOK, rowVars, cfgVars, workerVars, historyVars
<1>a. /\ attempts[e] \in Nat /\ posts[e] \in Nat
      /\ Answered(e) \in SUBSET Workers /\ Answered(e)' \in SUBSET Workers
      /\ attempts[e] + Cardinality(Answered(e)) <= posts[e]
      /\ Cardinality(Answered(e)) \in Nat /\ Cardinality(Answered(e)') \in Nat
  BY WorkerCount DEF AttemptsCounted, Answered
<1>b. ASSUME Answered(e)' \subseteq Answered(e), attempts'[e] = attempts[e], posts'[e] = posts[e]
      PROVE  attempts'[e] + Cardinality(Answered(e)') <= posts'[e]
  BY <1>a, <1>b, WorkerCount
<1>1. ASSUME NEW w \in Workers, PostAccepted(w) \/ PostRefused(w) \/ PostAnswerLost(w)
      PROVE  attempts'[e] + Cardinality(Answered(e)') <= posts'[e]
  <2>1. /\ step[w] = "post" /\ UNCHANGED <<cur, attempts>>
        /\ \A v \in Workers : v # w => step'[v] = step[v]
        /\ posts'[e] = IF e = cur[w] THEN posts[e] + 1 ELSE posts[e]
    BY <1>1 DEF PostAccepted, PostRefused, PostAnswerLost
  <2>2. CASE e = cur[w]
    <3>1. Answered(e)' \subseteq Answered(e) \cup {w}
      BY <2>1 DEF Answered
    <3>2. Cardinality(Answered(e)') <= Cardinality(Answered(e)) + 1
      BY <1>a, <3>1, WorkerCount
    <3> QED BY <1>a, <2>1, <2>2, <3>2
  <2>3. CASE e # cur[w]
    BY <1>b, <2>1, <2>3 DEF Answered
  <2> QED BY <2>2, <2>3
<1>2. ASSUME NEW w \in Workers, MarkSent(w) \/ MarkFailed(w)
      PROVE  attempts'[e] + Cardinality(Answered(e)') <= posts'[e]
  <2>1. /\ step[w] \in {"ok", "bad"} /\ UNCHANGED posts
        /\ attempts'[e] \in {attempts[e], attempts[e] + 1}
        /\ e # cur[w] => attempts'[e] = attempts[e]
        /\ \A v \in Workers : v # w => step'[v] = step[v] /\ cur'[v] = cur[v]
        /\ cur'[w] = NoEvent
    BY <1>2 DEF MarkSent, MarkFailed, FinishRow, CountAttempt
  <2>2. w \notin Answered(e)' /\ Answered(e)' \subseteq Answered(e)
    BY <2>1, QueueAssumption DEF Answered, QueueAssumption
  <2>3. CASE e = cur[w]
    <3>1. w \in Answered(e)
      BY <2>1, <2>3 DEF Answered
    <3>2. Cardinality(Answered(e)') + 1 <= Cardinality(Answered(e))
      BY <1>a, <2>2, <3>1, WorkerCount
    <3> QED BY <1>a, <2>1, <3>2
  <2>4. CASE e # cur[w]
    BY <1>b, <2>1, <2>2, <2>4
  <2> QED BY <2>3, <2>4
<1>3. ASSUME NEW w \in Workers, MarkSkipped(w) PROVE attempts'[e] + Cardinality(Answered(e)') <= posts'[e]
  BY <1>3, <1>b, QueueAssumption DEF MarkSkipped, FinishRow, Answered, QueueAssumption
<1>4. ASSUME NEW w \in Workers, DropBatch(w), UNCHANGED <<attempts, posts>>
      PROVE  attempts'[e] + Cardinality(Answered(e)') <= posts'[e]
  BY <1>4, <1>b, QueueAssumption DEF DropBatch, Answered, QueueAssumption
<1>5. ASSUME NEW w \in Workers, Abort(w) \/ \E f \in Events : ConfigError(w, f)
      PROVE  attempts'[e] + Cardinality(Answered(e)') <= posts'[e]
  BY <1>5, <1>4 DEF Abort, ConfigError
<1>6. ASSUME NEW w \in Workers, Claim(w) \/ \E f \in Events : Begin(w, f)
      PROVE  attempts'[e] + Cardinality(Answered(e)') <= posts'[e]
  <2>1. UNCHANGED <<attempts, posts>> /\ Answered(e)' \subseteq Answered(e)
    BY <1>6 DEF Claim, Begin, Answered
  <2> QED BY <1>b, <2>1
<1>7. CASE UNCHANGED <<attempts, posts, cur, step>>
  BY <1>7, <1>b DEF Answered
<1>8. QED
  BY <1>1, <1>2, <1>3, <1>5, <1>6, <1>7
     DEF Next, Deliver, Operator, Time, Enqueue, EnqueueAgain, RetryEvent, ArchiveEvent,
         ArchiveFinished, DeleteRoute, ConfigChange, TimeDue, TimeStale, ClaimExpires,
         CacheExpires, vars

(* The attempts column never counts a call that process_event did not make. *)
THEOREM AttemptsAreCounted == Spec => []AttemptsCounted
<1>1. Init => AttemptsCounted
  <2> SUFFICES ASSUME Init, NEW e \in Events
               PROVE  attempts[e] + Cardinality(Answered(e)) <= posts[e]
    BY DEF AttemptsCounted
  <2>1. Answered(e) = {}
    BY DEF Init, Answered
  <2> QED BY <2>1, FS_EmptySet DEF Init
<1>2. QED
  BY <1>1, StepAttemptsCounted, TypeCorrect, WorkersConsistent, PTL DEF Spec

(* "sent" is never recorded without an acceptance, nor an attempt without a *)
(* call.                                                                    *)
THEOREM SentMeansAccepted == Spec => []SentWasAccepted
<1>1. TypeOK /\ AcceptanceKnown /\ AttemptsCounted => SentWasAccepted
  <2> SUFFICES ASSUME TypeOK, AcceptanceKnown, AttemptsCounted, NEW e \in Events
               PROVE  (status[e] = "sent" => accepted[e] > 0) /\ attempts[e] <= posts[e]
    BY DEF SentWasAccepted
  <2>1. Cardinality(Answered(e)) \in Nat
    BY WorkerCount DEF Answered
  <2> QED BY <2>1 DEF TypeOK, AcceptanceKnown, AttemptsCounted
<1>2. QED
  BY <1>1, TypeCorrect, AcceptanceIsKnown, AttemptsAreCounted, PTL

(* The account of one event: deliveries made, workers that may still send,  *)
(* and the queue's own right to hand the event out.                         *)
OpenCount(e) == IF Open(e) THEN 1 ELSE 0

(* Every step keeps the budget: whoever gets the right to send an event     *)
(* takes it over from somebody, or a cause was counted.                     *)
LEMMA StepDuplicateBudget ==
  TypeOK /\ WorkerOK /\ LeaseExclusion /\ AcceptanceKnown /\ DuplicateBudget /\ [Next]_vars
    => DuplicateBudget'
<1> SUFFICES ASSUME TypeOK, WorkerOK, LeaseExclusion, AcceptanceKnown, DuplicateBudget,
                    [Next]_vars, NEW e \in Events
             PROVE  accepted'[e] + Cardinality(Sending(e)') + OpenCount(e)' <= 1 + causes'[e]
  BY DEF DuplicateBudget, OpenCount
<1> DEFINE Goal == accepted'[e] + Cardinality(Sending(e)') + OpenCount(e)' <= 1 + causes'[e]
<1>a. /\ accepted[e] \in Nat /\ causes[e] \in Nat
      /\ Sending(e) \in SUBSET Workers /\ Sending(e)' \in SUBSET Workers
      /\ Cardinality(Sending(e)) \in Nat /\ Cardinality(Sending(e)') \in Nat
      /\ OpenCount(e) \in {0, 1} /\ OpenCount(e)' \in {0, 1}
      /\ accepted[e] + Cardinality(Sending(e)) + OpenCount(e) <= 1 + causes[e]
  BY WorkerCount DEF TypeOK, DuplicateBudget, Sending, OpenCount
(* Nothing new: no more senders, not open unless it was, no delivery.       *)
<1>b. ASSUME Sending(e)' \subseteq Sending(e), Open(e)' => Open(e),
             accepted'[e] = accepted[e], causes'[e] = causes[e]
      PROVE  Goal
  <2>1. Cardinality(Sending(e)') <= Cardinality(Sending(e))
    BY <1>a, <1>b, WorkerCount
  <2>2. OpenCount(e)' <= OpenCount(e)
    BY <1>b DEF OpenCount
  <2> QED BY <1>a, <1>b, <2>1, <2>2
(* One worker gives its turn up, and the row may be open again.             *)
<1>c. ASSUME NEW w \in Sending(e), Sending(e)' \subseteq Sending(e) \ {w},
             accepted'[e] = accepted[e], causes'[e] = causes[e],
             OpenCount(e)' <= OpenCount(e) + 1
      PROVE  Goal
  <2>1. Cardinality(Sending(e)') + 1 <= Cardinality(Sending(e))
    BY <1>a, <1>c, WorkerCount
  <2> QED BY <1>a, <1>c, <2>1
(* Something that is counted in causes opens the row.                       *)
<1>d. ASSUME Sending(e)' \subseteq Sending(e), accepted'[e] = accepted[e],
             causes'[e] = causes[e] + 1
      PROVE  Goal
  <2>1. Cardinality(Sending(e)') <= Cardinality(Sending(e))
    BY <1>a, <1>d, WorkerCount
  <2> QED BY <1>a, <1>d, <2>1
<1> HIDE DEF Goal
<1>1. ASSUME NEW f \in Events, Enqueue(f) PROVE Goal
  <2>1. UNCHANGED <<held, cur, step, lease, accepted, causes>>
    BY <1>1 DEF Enqueue, workerVars, historyVars
  <2>2. Sending(e)' = Sending(e)
    BY <2>1 DEF Sending
  <2>3. CASE e = f
    <3>1. status[e] = "absent"
      BY <1>1, <2>3 DEF Enqueue
    <3>2. Sending(e) = {}
      BY <3>1, NoEventIsNone DEF WorkerOK, Holding, Sending
    <3>3. Cardinality(Sending(e)) = 0 /\ accepted[e] = 0
      BY <3>1, <3>2, FS_EmptySet DEF AcceptanceKnown
    <3> QED BY <1>a, <2>1, <2>2, <3>3 DEF Goal
  <2>4. CASE e # f
    <3>1. status'[e] = status[e]
      BY <1>1, <2>4 DEF Enqueue, TypeOK
    <3>2. Open(e)' => Open(e)
      BY <3>1, <2>1 DEF Open, Leased
    <3> QED BY <1>b, <2>1, <2>2, <3>2
  <2> QED BY <2>3, <2>4
<1>2. ASSUME NEW w \in Workers, Claim(w) PROVE Goal
  <2>1. PICK batch \in SUBSET Events :
          /\ \A f \in batch : Claimable(f)
          /\ status' = [f \in Events |-> IF f \in batch THEN "processing" ELSE status[f]]
          /\ held' = [held EXCEPT ![w] = batch]
          /\ lease' = lease \cup ({w} \X batch)
    BY <1>2 DEF Claim, IsBatch
  <2>2. UNCHANGED <<cur, step, accepted, causes>> /\ held[w] = {}
    BY <1>2 DEF Claim
  <2>3. \A v \in Workers : held'[v] = IF v = w THEN batch ELSE held[v]
    BY <2>1 DEF TypeOK
  <2>4. CASE e \in batch
    <3>1. Sending(e)' \subseteq Sending(e) \cup {w}
      BY <2>2, <2>3 DEF Sending
    <3>2. Cardinality(Sending(e)') <= Cardinality(Sending(e)) + 1
      BY <1>a, <3>1, WorkerCount
    <3>3. Open(e)
      BY <2>1, <2>4 DEF Claimable, Open, Leased, LeaseExclusion
    <3>4. <<w, e>> \in lease'
      BY <2>1, <2>4
    <3>5. ~ Open(e)'
      BY <3>4 DEF Open, Leased
    <3> QED BY <1>a, <2>2, <3>2, <3>3, <3>5 DEF Goal, OpenCount
  <2>5. CASE e \notin batch
    <3>1. Sending(e)' \subseteq Sending(e)
      BY <2>2, <2>3, <2>5 DEF Sending
    <3>2. status'[e] = status[e] /\ lease \subseteq lease'
      BY <2>1, <2>5
    <3>3. Open(e)' => Open(e)
      BY <3>2 DEF Open, Leased
    <3> QED BY <1>b, <2>2, <3>1, <3>3
  <2> QED BY <2>4, <2>5
<1>3. ASSUME NEW w \in Workers, NEW f \in Events, Begin(w, f) PROVE Goal
  <2>1. UNCHANGED <<status, lease, accepted, causes>>
    BY <1>3 DEF Begin, rowVars, historyVars
  <2>2. /\ f \in held[w] /\ step[w] = "idle"
        /\ \A v \in Workers : /\ held'[v] = IF v = w THEN held[v] \ {f} ELSE held[v]
                              /\ cur'[v] = IF v = w THEN f ELSE cur[v]
                              /\ v # w => step'[v] = step[v]
    BY <1>3 DEF Begin, TypeOK
  <2>3. Sending(e)' \subseteq Sending(e)
    BY <2>2 DEF Sending
  <2>4. Open(e)' => Open(e)
    BY <2>1 DEF Open, Leased
  <2> QED BY <1>b, <2>1, <2>3, <2>4
<1>4. ASSUME NEW w \in Workers, DropBatch(w), UNCHANGED <<status, accepted>> PROVE Goal
  <2>a. /\ causes'[e] = IF e = cur[w] /\ step[w] = "ok" THEN causes[e] + 1 ELSE causes[e]
        /\ lease' = {p \in lease : p[1] # w}
    BY <1>4 DEF DropBatch, WithoutLeaseOf
  <2>b. /\ held' = [held EXCEPT ![w] = {}]
        /\ cur' = [cur EXCEPT ![w] = NoEvent]
        /\ step' = [step EXCEPT ![w] = "idle"]
    BY <1>4 DEF DropBatch
  <2>c. \A v \in Workers : held'[v] = IF v = w THEN {} ELSE held[v]
    BY <2>b DEF TypeOK
  <2>d. \A v \in Workers : cur'[v] = IF v = w THEN NoEvent ELSE cur[v]
    BY <2>b DEF TypeOK
  <2>e. \A v \in Workers : v # w => step'[v] = step[v]
    BY <2>b DEF TypeOK
  <2>2. Sending(e)' \subseteq Sending(e) \ {w}
    <3> SUFFICES ASSUME NEW v \in Workers, v \in Sending(e)'
                 PROVE  v \in Sending(e) /\ v # w
      BY DEF Sending
    <3>1. e \in held'[v] \/ (cur'[v] = e /\ step'[v] # "ok")
      BY DEF Sending
    <3>2. e # NoEvent
      BY NoEventIsNone
    <3>3. v # w
      BY <2>c, <2>d, <3>1, <3>2
    <3>4. held'[v] = held[v] /\ cur'[v] = cur[v] /\ step'[v] = step[v]
      BY <2>c, <2>d, <2>e, <3>3
    <3> QED BY <3>1, <3>3, <3>4 DEF Sending
  <2>3. CASE w \in Sending(e)
    <3>1. causes'[e] = causes[e]
      BY <2>a, <2>3 DEF Sending, WorkerOK
    <3>2. OpenCount(e)' <= OpenCount(e) + 1
      BY <1>a
    <3> QED BY <1>c, <1>4, <2>2, <2>3, <3>1, <3>2
  <2>4. CASE w \notin Sending(e) /\ e = cur[w] /\ step[w] = "ok"
    BY <1>d, <1>4, <2>a, <2>2, <2>4
  <2>5. CASE w \notin Sending(e) /\ ~ (e = cur[w] /\ step[w] = "ok")
    <3>1. e \notin Holding(w)
      BY <2>5 DEF Sending, Holding
    <3>2. <<w, e>> \notin lease
      BY <3>1 DEF LeaseExclusion
    <3>3. \A v \in Workers : <<v, e>> \in lease => <<v, e>> \in lease'
      BY <2>a, <3>2
    <3>4. Open(e)' => Open(e)
      BY <1>4, <3>3 DEF Open, Leased
    <3> QED BY <1>b, <1>4, <2>a, <2>2, <2>5, <3>4
  <2> QED BY <2>3, <2>4, <2>5
<1>5. ASSUME NEW w \in Workers, Abort(w) \/ \E f \in Events : ConfigError(w, f) PROVE Goal
  BY <1>5, <1>4 DEF Abort, ConfigError, rowVars
<1>6. ASSUME NEW w \in Workers, PostAccepted(w) \/ PostRefused(w) \/ PostAnswerLost(w) PROVE Goal
  <2>1. /\ step[w] = "post" /\ cur[w] \in Events
        /\ UNCHANGED <<status, lease, held, cur>>
        /\ \A v \in Workers : v # w => step'[v] = step[v]
    BY <1>6 DEF PostAccepted, PostRefused, PostAnswerLost, rowVars, TypeOK, WorkerOK
  <2>2. OpenCount(e)' = OpenCount(e) /\ (Open(e)' => Open(e))
    BY <2>1 DEF Open, OpenCount, Leased
  <2>3. Sending(e)' \subseteq Sending(e)
    BY <2>1 DEF Sending
  <2>4. CASE PostRefused(w)
    BY <1>b, <2>2, <2>3, <2>4 DEF PostRefused
  <2>5. CASE PostAnswerLost(w)
    <3>1. CASE e = cur[w]
      <4>1. accepted'[e] = accepted[e] + 1 /\ causes'[e] = causes[e] + 1
        BY <2>5, <3>1 DEF PostAnswerLost, TypeOK
      <4>2. Cardinality(Sending(e)') <= Cardinality(Sending(e))
        BY <1>a, <2>3, WorkerCount
      <4> QED BY <1>a, <2>2, <4>1, <4>2 DEF Goal
    <3>2. CASE e # cur[w]
      <4>1. accepted'[e] = accepted[e] /\ causes'[e] = causes[e]
        BY <2>5, <3>2 DEF PostAnswerLost, TypeOK
      <4> QED BY <1>b, <2>2, <2>3, <4>1
    <3> QED BY <3>1, <3>2
  <2>6. CASE PostAccepted(w)
    <3>1. CASE e = cur[w]
      <4>1. accepted'[e] = accepted[e] + 1 /\ causes'[e] = causes[e] /\ step'[w] = "ok"
        BY <2>6, <3>1 DEF PostAccepted, TypeOK
      <4>2. w \in Sending(e) /\ w \notin Sending(e)'
        BY <2>1, <3>1, <4>1 DEF Sending, WorkerOK
      <4>3. Cardinality(Sending(e)') + 1 <= Cardinality(Sending(e))
        BY <1>a, <2>3, <4>2, WorkerCount
      <4> QED BY <1>a, <2>2, <4>1, <4>3 DEF Goal
    <3>2. CASE e # cur[w]
      <4>1. accepted'[e] = accepted[e] /\ causes'[e] = causes[e]
        BY <2>6, <3>2 DEF PostAccepted, TypeOK
      <4> QED BY <1>b, <2>2, <2>3, <4>1
    <3> QED BY <3>1, <3>2
  <2> QED BY <1>6, <2>4, <2>5, <2>6
<1>7. ASSUME NEW w \in Workers, MarkSent(w) \/ MarkFailed(w) \/ MarkSkipped(w) PROVE Goal
  <2>1. /\ UNCHANGED <<held, accepted, causes>>
        /\ cur[w] \in Events
        /\ e # cur[w] => status'[e] = status[e]
    BY <1>7 DEF MarkSent, MarkFailed, MarkSkipped, FinishRow, TypeOK, WorkerOK
  <2>a. lease' = {p \in lease : p[2] # cur[w]}
    BY <1>7 DEF MarkSent, MarkFailed, MarkSkipped, FinishRow, WithoutLeaseOn
  <2>b. \A v \in Workers : cur'[v] = IF v = w THEN NoEvent ELSE cur[v]
    BY <1>7 DEF MarkSent, MarkFailed, MarkSkipped, FinishRow, TypeOK
  <2>c. \A v \in Workers : v # w => step'[v] = step[v]
    BY <1>7 DEF MarkSent, MarkFailed, MarkSkipped, FinishRow, TypeOK
  <2>2. Sending(e)' \subseteq Sending(e)
    <3> SUFFICES ASSUME NEW v \in Workers, v \in Sending(e)'
                 PROVE  v \in Sending(e)
      BY DEF Sending
    <3>1. e \in held[v] \/ (cur'[v] = e /\ step'[v] # "ok")
      BY <2>1 DEF Sending
    <3>2. e # NoEvent
      BY NoEventIsNone
    <3>3. CASE v = w
      BY <2>b, <3>1, <3>2, <3>3 DEF Sending
    <3>4. CASE v # w
      BY <2>b, <2>c, <3>1, <3>4 DEF Sending
    <3> QED BY <3>3, <3>4
  <2>3. CASE e # cur[w]
    <3>1. \A v \in Workers : <<v, e>> \in lease => <<v, e>> \in lease'
      BY <2>a, <2>3
    <3>2. Open(e)' => Open(e)
      BY <2>1, <2>3, <3>1 DEF Open, Leased
    <3> QED BY <1>b, <2>1, <2>2, <3>2
  <2>4. CASE e = cur[w] /\ step[w] = "bad"
    <3>1. w \in Sending(e)
      BY <2>4 DEF Sending
    <3>a. e \notin held[w] /\ e # NoEvent
      BY <2>4, NoEventIsNone DEF WorkerOK
    <3>b. held'[w] = held[w] /\ cur'[w] = NoEvent
      BY <2>1, <2>b
    <3>2. w \notin Sending(e)'
      BY <3>a, <3>b DEF Sending
    <3>3. OpenCount(e)' <= OpenCount(e) + 1
      BY <1>a
    <3> QED BY <1>c, <2>1, <2>2, <3>1, <3>2, <3>3
  <2>5. CASE e = cur[w] /\ step[w] # "bad"
    <3>1. status'[e] \in {"sent", "skipped", "absent", "deleted"}
      BY <1>7, <2>5 DEF MarkSent, MarkFailed, MarkSkipped, FinishRow, Present
    <3>2. Open(e)' => Open(e)
      BY <3>1 DEF Open
    <3> QED BY <1>b, <2>1, <2>2, <3>2
  <2> QED BY <2>3, <2>4, <2>5
<1>8. ASSUME NEW f \in Events, RetryEvent(f) \/ ClaimExpires(f) PROVE Goal
  <2>1. /\ UNCHANGED <<held, cur, step, accepted>>
        /\ lease' = {p \in lease : p[2] # f}
        /\ causes'[e] = IF e = f THEN causes[e] + 1 ELSE causes[e]
        /\ e # f => status'[e] = status[e]
    BY <1>8 DEF RetryEvent, ClaimExpires, WithoutLeaseOn, TypeOK, workerVars
  <2>2. Sending(e)' \subseteq Sending(e)
    BY <2>1 DEF Sending
  <2>3. CASE e = f
    BY <1>d, <2>1, <2>2, <2>3
  <2>4. CASE e # f
    <3>1. Open(e)' => Open(e)
      BY <2>1, <2>4 DEF Open, Leased
    <3> QED BY <1>b, <2>1, <2>2, <2>4, <3>1
  <2> QED BY <2>3, <2>4
<1>9. ASSUME NEW r \in Routes, DeleteRoute(r) PROVE Goal
  <2>1. /\ UNCHANGED <<held, cur, step, accepted, causes>>
        /\ lease' = {p \in lease : RouteOf[p[2]] # r}
        /\ status'[e] = IF RouteOf[e] = r /\ Present(e) THEN "deleted" ELSE status[e]
    BY <1>9 DEF DeleteRoute, workerVars
  <2>2. Sending(e)' \subseteq Sending(e)
    BY <2>1 DEF Sending
  <2>3. Open(e)' => Open(e)
    BY <2>1 DEF Open, Leased, Present
  <2> QED BY <1>b, <2>1, <2>2, <2>3
<1>10. ASSUME NEW f \in Events, TimeStale(f) PROVE Goal
  <2>1. UNCHANGED <<status, held, cur, step, accepted, causes, lease>>
    BY <1>10 DEF TimeStale, workerVars, historyVars
  <2>2. Sending(e)' = Sending(e)
    BY <2>1 DEF Sending
  <2>3. Open(e)' => Open(e)
    BY <2>1 DEF Open, Leased
  <2> QED BY <1>b, <2>1, <2>2, <2>3
<1>11. ASSUME QuietStep PROVE Goal
  <2>1. UNCHANGED <<status, held, cur, step, accepted, causes, lease>>
    BY <1>11, QuietStepFrame
  <2>2. Sending(e)' = Sending(e)
    BY <2>1 DEF Sending
  <2>3. Open(e)' => Open(e)
    BY <2>1 DEF Open, Leased
  <2> QED BY <1>b, <2>1, <2>2, <2>3
<1>12. QED
  BY <1>1, <1>2, <1>3, <1>5, <1>6, <1>7, <1>8, <1>9, <1>10, <1>11
     DEF Next, Deliver, Operator, Time, QuietStep, Goal

(* Deliveries made, deliveries under way and the right to start another are *)
(* together one more than the causes at most.                               *)
THEOREM BudgetKept == Spec => []DuplicateBudget
<1>1. Init => DuplicateBudget
  <2> SUFFICES ASSUME Init, NEW e \in Events
               PROVE  accepted[e] + Cardinality(Sending(e)) + OpenCount(e) <= 1 + causes[e]
    BY DEF DuplicateBudget, OpenCount
  <2>1. Sending(e) = {}
    BY QueueAssumption DEF Init, Sending, QueueAssumption
  <2>2. OpenCount(e) = 0
    BY DEF Init, OpenCount, Open
  <2> QED BY <2>1, <2>2, FS_EmptySet DEF Init
<1>2. QED
  BY <1>1, StepDuplicateBudget, TypeCorrect, WorkersConsistent, ClaimsAreExclusive,
     AcceptanceIsKnown, PTL DEF Spec

(* Meta gets an event at most once more than the number of lost answers,    *)
(* unrecorded successes, expired claims and operator retries.               *)
THEOREM DuplicatesAreBounded == Spec => []BoundedDuplicates
<1>1. TypeOK /\ DuplicateBudget => BoundedDuplicates
  <2> SUFFICES ASSUME TypeOK, DuplicateBudget, NEW e \in Events
               PROVE  accepted[e] <= 1 + causes[e]
    BY DEF BoundedDuplicates
  <2>1. Cardinality(Sending(e)) \in Nat
    BY WorkerCount DEF Sending
  <2>2. accepted[e] + Cardinality(Sending(e)) + OpenCount(e) <= 1 + causes[e]
    BY DEF DuplicateBudget, OpenCount
  <2>3. OpenCount(e) \in {0, 1}
    BY DEF OpenCount
  <2> QED BY <2>1, <2>2, <2>3 DEF TypeOK
<1>2. QED
  BY <1>1, TypeCorrect, BudgetKept, PTL

(***************************************************************************)
(* Finished events.                                                        *)
(***************************************************************************)
(* The worker's last statement: it closes or postpones exactly the row it   *)
(* has in hand, and none whose key is not in the table.                     *)
LEMMA FinishFrame ==
  ASSUME TypeOK, WorkerOK, NEW w \in Workers,
         MarkSent(w) \/ MarkFailed(w) \/ MarkSkipped(w)
  PROVE  /\ cur[w] \in Events /\ cur'[w] = NoEvent /\ UNCHANGED accepted
         /\ \A e \in Events \ {cur[w]} : status'[e] = status[e]
         /\ ~ Present(cur[w]) => status'[cur[w]] = status[cur[w]]
         /\ Present(cur[w]) =>
              \/ MarkSent(w) /\ status'[cur[w]] = "sent"
              \/ MarkFailed(w) /\ status'[cur[w]] = "failed"
              \/ MarkSkipped(w) /\ status'[cur[w]] = "skipped"
<1>1. cur[w] \in Events
  BY DEF TypeOK, WorkerOK, MarkSent, MarkFailed, MarkSkipped
<1>2. cur'[w] = NoEvent
  BY DEF TypeOK, MarkSent, MarkFailed, MarkSkipped, FinishRow
<1>3. UNCHANGED accepted
  BY DEF MarkSent, MarkFailed, MarkSkipped
<1>4. \A e \in Events \ {cur[w]} : status'[e] = status[e]
  BY DEF MarkSent, MarkFailed, MarkSkipped, FinishRow
<1>5. ~ Present(cur[w]) => status'[cur[w]] = status[cur[w]]
  BY <1>1 DEF MarkSent, MarkFailed, MarkSkipped, FinishRow
<1>6. ASSUME Present(cur[w])
      PROVE  \/ MarkSent(w) /\ status'[cur[w]] = "sent"
             \/ MarkFailed(w) /\ status'[cur[w]] = "failed"
             \/ MarkSkipped(w) /\ status'[cur[w]] = "skipped"
  <2>1. CASE MarkSent(w)
    BY <1>1, <1>6, <2>1 DEF MarkSent, FinishRow
  <2>2. CASE MarkFailed(w)
    BY <1>1, <1>6, <2>2 DEF MarkFailed, FinishRow
  <2>3. CASE MarkSkipped(w)
    BY <1>1, <1>6, <2>3 DEF MarkSkipped, FinishRow
  <2> QED BY <2>1, <2>2, <2>3
<1> QED BY <1>1, <1>2, <1>3, <1>4, <1>5, <1>6

(* What one step may do to a "sent" row.                                    *)
LEMMA StepSentIsFinal ==
  ASSUME TypeOK, WorkerOK, LeaseExclusion, [Next]_vars,
         NEW e \in Events, status[e] = "sent", status'[e] # "sent"
  PROVE  LateFailure(e) \/ OperatorActs(e)
<1>1. ASSUME NEW f \in Events, Enqueue(f) PROVE FALSE
  BY <1>1 DEF Enqueue, TypeOK
<1>2. ASSUME NEW w \in Workers, Claim(w) PROVE FALSE
  BY <1>2 DEF Claim, IsBatch, Claimable
<1>3. ASSUME NEW w \in Workers, MarkSent(w) \/ MarkFailed(w) \/ MarkSkipped(w)
      PROVE  LateFailure(e)
  <2>1. cur[w] = e /\ cur'[w] = NoEvent
    BY <1>3, FinishFrame
  <2>2. <<w, e>> \notin lease
    BY DEF LeaseExclusion
  <2> QED BY <2>1, <2>2 DEF LateFailure
<1>4. ASSUME NEW f \in Events, RetryEvent(f) PROVE OperatorActs(e)
  <2>1. f = e
    BY <1>4 DEF RetryEvent, TypeOK
  <2> QED BY <1>4, <2>1 DEF RetryEvent, OperatorActs, TypeOK
<1>5. ASSUME NEW r \in Routes, DeleteRoute(r) PROVE OperatorActs(e)
  BY <1>5 DEF DeleteRoute, OperatorActs
<1>6. ASSUME UNCHANGED status PROVE FALSE
  BY <1>6
<1>7. QED
  BY <1>1, <1>2, <1>3, <1>4, <1>5, <1>6, QuietStepFrame
     DEF Next, Deliver, Operator, Time, QuietStep, Begin, ConfigError, PostAccepted, PostRefused,
         PostAnswerLost, Abort, TimeStale, ClaimExpires, rowVars

(* A delivered event is reopened only by the operator or by the late result *)
(* of a worker whose claim on the row was broken.                           *)
THEOREM SentStaysSent == Spec => SentIsFinal
<1>1. TypeOK /\ WorkerOK /\ LeaseExclusion /\ [Next]_vars =>
        [\A e \in Events : status[e] = "sent" /\ status'[e] # "sent" =>
           LateFailure(e) \/ OperatorActs(e)]_vars
  BY StepSentIsFinal
<1>2. QED
  BY <1>1, TypeCorrect, WorkersConsistent, ClaimsAreExclusive, PTL DEF Spec, SentIsFinal

(***************************************************************************)
(* The queue implements the outbox.                                        *)
(***************************************************************************)
(* An event's box and its place among the delivered depend on its status    *)
(* and on Meta's acceptances only.                                          *)
LEMMA StutterOutbox ==
  ASSUME UNCHANGED accepted, \A e \in Events : Box(e)' = Box(e)
  PROVE  UNCHANGED Promise!outboxVars
  BY DEF Promise!outboxVars

(* Every step of the queue is a step of the outbox or leaves it alone.      *)
LEMMA StepOutbox ==
  ASSUME TypeOK, WorkerOK, AcceptanceKnown, [Next]_vars
  PROVE  [Promise!OutboxNext]_Promise!outboxVars
<1> DEFINE Goal == [Promise!OutboxNext]_Promise!outboxVars
           box == [e \in Events |-> Box(e)]
           delivered == {e \in Events : accepted[e] > 0}
<1> SUFFICES Goal
  OBVIOUS
<1>a. ASSUME UNCHANGED <<status, accepted>> PROVE Goal
  <2>1. \A e \in Events : Box(e)' = Box(e)
    BY <1>a DEF Box
  <2> QED BY <1>a, <2>1, StutterOutbox
<1>1. ASSUME NEW f \in Events, Enqueue(f) PROVE Goal
  <2>1. status[f] = "absent" /\ status'[f] = "pending" /\ UNCHANGED accepted
        /\ \A e \in Events \ {f} : status'[e] = status[e]
    BY <1>1 DEF Enqueue, TypeOK, historyVars
  <2>2. box[f] = "absent"
    BY <2>1 DEF Box
  <2>3. box' = [box EXCEPT ![f] = "open"]
    BY <2>1 DEF Box
  <2>4. Promise!Submit(f)
    BY <2>1, <2>2, <2>3 DEF Promise!Submit
  <2> QED BY <2>4 DEF Promise!OutboxNext
<1>2. ASSUME NEW w \in Workers, Claim(w) PROVE Goal
  <2>1. PICK batch \in SUBSET Events :
          /\ \A e \in batch : Claimable(e)
          /\ status' = [e \in Events |-> IF e \in batch THEN "processing" ELSE status[e]]
    BY <1>2 DEF Claim, IsBatch
  <2>2. \A e \in Events : Box(e)' = Box(e)
    BY <2>1 DEF Box, Claimable, Finished
  <2>3. UNCHANGED accepted
    BY <1>2 DEF Claim
  <2> QED BY <2>2, <2>3, StutterOutbox
<1>3. ASSUME NEW w \in Workers, PostAccepted(w) \/ PostAnswerLost(w) PROVE Goal
  <2>a. PICK f \in Events : f = cur[w]
    BY <1>3 DEF PostAccepted, PostAnswerLost, TypeOK, WorkerOK
  <2>1. UNCHANGED status /\ status[f] # "absent"
        /\ accepted' = [accepted EXCEPT ![f] = @ + 1]
    BY <1>3, <2>a DEF PostAccepted, PostAnswerLost, rowVars, TypeOK, WorkerOK, Holding
  <2>2. box[f] # "absent"
    BY <2>1 DEF Box
  <2>3. box' = box
    BY <2>1 DEF Box
  <2>4. delivered' = delivered \cup {f}
    BY <2>1 DEF TypeOK
  <2>5. Promise!Send(f)
    BY <2>1, <2>2, <2>3, <2>4 DEF Promise!Send
  <2> QED BY <2>1, <2>5 DEF Promise!OutboxNext
<1>4. ASSUME NEW w \in Workers, MarkSent(w) \/ MarkFailed(w) \/ MarkSkipped(w) PROVE Goal
  <2>a. PICK f \in Events : f = cur[w]
    BY <1>4, FinishFrame
  <2>1. /\ UNCHANGED accepted
        /\ \A e \in Events \ {f} : status'[e] = status[e]
    BY <1>4, <2>a, FinishFrame
  <2>2. \A e \in Events \ {f} : Box(e)' = Box(e)
    BY <2>1 DEF Box
  <2>3. delivered' = delivered
    BY <2>1
  <2>4. CASE ~ Present(f)
    <3>1. status'[f] = status[f]
      BY <1>4, <2>a, <2>4, FinishFrame
    <3>2. Box(f)' = Box(f)
      BY <3>1 DEF Box
    <3> QED BY <2>1, <2>2, <3>2, StutterOutbox
  <2>5. CASE Present(f) /\ MarkFailed(w)
    <3>1. Box(f)' = "open"
      BY <2>5, <2>a, FinishFrame DEF Box, MarkFailed, MarkSent, MarkSkipped
    <3>2. Box(f) \in {"open", "sent", "skipped"}
      BY <2>5 DEF Box, Present, TypeOK, Status
    <3>3. box' = [box EXCEPT ![f] = "open"]
      BY <2>1, <2>2, <3>1
    <3>4. CASE Box(f) = "open"
      BY <2>1, <2>2, <3>1, <3>4, StutterOutbox
    <3>5. CASE Box(f) \in {"sent", "skipped"}
      <4>1. Promise!Reopen(f)
        BY <2>1, <2>3, <3>3, <3>5 DEF Promise!Reopen
      <4> QED BY <2>1, <4>1 DEF Promise!OutboxNext
    <3> QED BY <3>2, <3>4, <3>5
  <2>6. CASE Present(f) /\ (MarkSent(w) \/ MarkSkipped(w))
    <3>1. \/ Box(f)' = "sent" /\ f \in delivered
          \/ Box(f)' = "skipped"
      <4>1. CASE MarkSent(w)
        <5>1. f \in delivered
          BY <2>a, <4>1 DEF MarkSent, AcceptanceKnown
        <5>2. status'[f] = "sent"
          BY <2>6, <2>a, <4>1, FinishFrame DEF MarkFailed, MarkSent, MarkSkipped
        <5> QED BY <5>1, <5>2 DEF Box
      <4>2. CASE MarkSkipped(w)
        <5>1. status'[f] = "skipped"
          BY <2>6, <2>a, <4>2, FinishFrame DEF MarkFailed, MarkSent, MarkSkipped
        <5> QED BY <5>1 DEF Box
      <4> QED BY <2>6, <4>1, <4>2
    <3>2. Box(f) \in {"open", "sent", "skipped"}
      BY <2>6 DEF Box, Present, TypeOK, Status
    <3>3. box' = [box EXCEPT ![f] = Box(f)']
      BY <2>1, <2>2
    <3>4. Promise!Close(f)
      BY <2>1, <2>3, <3>1, <3>2, <3>3 DEF Promise!Close, Promise!InQueue
    <3> QED BY <2>1, <3>4 DEF Promise!OutboxNext
  <2> QED BY <1>4, <2>4, <2>5, <2>6
<1>5. ASSUME NEW f \in Events, RetryEvent(f) PROVE Goal
  <2>1. /\ Present(f) /\ status'[f] = "pending" /\ UNCHANGED accepted
        /\ \A e \in Events \ {f} : status'[e] = status[e]
    BY <1>5 DEF RetryEvent, TypeOK
  <2>2. \A e \in Events \ {f} : Box(e)' = Box(e)
    BY <2>1 DEF Box
  <2>3. Box(f)' = "open"
    BY <2>1 DEF Box
  <2>4. Box(f) \in {"open", "sent", "skipped"}
    BY <2>1 DEF Box, Present, TypeOK, Status
  <2>5. CASE Box(f) = "open"
    BY <2>1, <2>2, <2>3, <2>5, StutterOutbox
  <2>6. CASE Box(f) \in {"sent", "skipped"}
    <3>1. box' = [box EXCEPT ![f] = "open"]
      BY <2>2, <2>3
    <3>2. Promise!Reopen(f)
      BY <2>1, <2>6, <3>1 DEF Promise!Reopen
    <3> QED BY <3>2 DEF Promise!OutboxNext
  <2> QED BY <2>4, <2>5, <2>6
<1>6. ASSUME NEW r \in Routes, DeleteRoute(r) PROVE Goal
  <2> DEFINE S == {e \in Events : RouteOf[e] = r}
  <2>1. /\ UNCHANGED accepted
        /\ status' = [e \in Events |-> IF RouteOf[e] = r /\ Present(e) THEN "deleted" ELSE status[e]]
    BY <1>6 DEF DeleteRoute
  <2>2. \A e \in Events : Box(e) \in {"open", "sent", "skipped"} <=> Present(e)
    BY DEF Box, Present, TypeOK, Status
  <2>3. \A e \in Events : Box(e)' = IF e \in S /\ Present(e) THEN "deleted" ELSE Box(e)
    BY <2>1 DEF Box
  <2>4. box' = [e \in Events |-> IF e \in S /\ Promise!InQueue(e) THEN "deleted" ELSE box[e]]
    BY <2>2, <2>3 DEF Promise!InQueue
  <2>5. Promise!Forget(S)
    BY <2>1, <2>4 DEF Promise!Forget
  <2> QED BY <2>5 DEF Promise!OutboxNext
<1>7. ASSUME NEW w \in Workers, NEW f \in Events, Begin(w, f) \/ ConfigError(w, f)
      PROVE  UNCHANGED <<status, accepted>>
  BY <1>7 DEF Begin, ConfigError, rowVars, historyVars
<1>8. ASSUME NEW w \in Workers, PostRefused(w) \/ Abort(w) PROVE UNCHANGED <<status, accepted>>
  BY <1>8 DEF PostRefused, Abort, rowVars
<1>9. ASSUME NEW f \in Events, TimeStale(f) \/ ClaimExpires(f) PROVE UNCHANGED <<status, accepted>>
  BY <1>9 DEF TimeStale, ClaimExpires, historyVars
<1>10. CASE QuietStep
  BY <1>a, <1>10, QuietStepFrame
<1> HIDE DEF Goal
<1>11. QED
  BY <1>a, <1>1, <1>2, <1>3, <1>4, <1>5, <1>6, <1>7, <1>8, <1>9, <1>10
     DEF Next, Deliver, Operator, Time, QuietStep

(* The queue keeps the outbox's promise: what it does to an event, seen     *)
(* through Box, is what the outbox may do.                                  *)
THEOREM QueueIsOutbox == Spec => ImplementsOutbox
<1>1. Init => Promise!OutboxInit
  <2> SUFFICES ASSUME Init PROVE Promise!OutboxInit
    OBVIOUS
  <2>1. \A e \in Events : Box(e) = "absent"
    BY DEF Init, Box
  <2>2. {e \in Events : accepted[e] > 0} = {}
    BY DEF Init
  <2> QED BY <2>1, <2>2 DEF Promise!OutboxInit
<1>2. TypeOK /\ WorkerOK /\ AcceptanceKnown /\ [Next]_vars =>
        [Promise!OutboxNext]_Promise!outboxVars
  BY StepOutbox
<1>3. QED
  BY <1>1, <1>2, TypeCorrect, WorkersConsistent, AcceptanceIsKnown, PTL
     DEF Spec, ImplementsOutbox, Promise!OutboxSpec

=============================================================================
