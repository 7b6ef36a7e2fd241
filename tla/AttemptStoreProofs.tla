------------------------- MODULE AttemptStoreProofs -------------------------
(***************************************************************************)
(* Proofs about the attempt store, for any number of tasks, claims in      *)
(* flight, attempts and ticks.                                             *)
(***************************************************************************)
EXTENDS AttemptStore, FiniteSetTheorems, TLAPS

(* The steps of the store, one case each, so that an invariance proof names *)
(* every operation.                                                         *)
LEMMA StoreSteps ==
    ASSUME StoreNext
    PROVE  \/ \E t \in Tasks : Enqueue(t)
           \/ \E t \in Tasks : RetryTask(t)
           \/ \E t \in Tasks : RetryDue(t)
           \/ \E c \in Claimers : ClaimCommit(c)
           \/ \E c \in Claimers : ClaimAbort(c)
           \/ \E c \in Claimers : ClaimSnapshot(c)
           \/ \E c \in Claimers, t \in Tasks : ClaimLock(c, t)
           \/ \E t \in Tasks : TxAbort(t)
           \/ \E t \in Tasks, a \in Attempts : RenewCheck(t, a) \/ StartCheck(t, a)
           \/ \E t \in Tasks, a \in Attempts : Renew(t, a)
           \/ \E t \in Tasks, a \in Attempts : Start(t, a)
           \/ \E t \in Tasks, a \in Attempts, outcome \in Outcomes :
                 Finish(t, a, outcome)
           \/ \E t \in Tasks, a \in 0..AttemptLimit : RequestCancellation(t, a)
           \/ \E batch \in SUBSET Abandoned : RecoverCancelled(batch)
           \/ \E batch \in SUBSET Recoverable : RecoverExpired(batch)
           \/ Tick
BY DEF StoreNext

-----------------------------------------------------------------------------
(* Every column keeps its type.                                             *)
LEMMA TypeOKStep ==
    ASSUME TypeOK, [StoreNext]_storeVars
    PROVE  TypeOK'
<1> USE StoreAssumption
<1> USE DEF TypeOK
<1>1. CASE UNCHANGED storeVars
  BY <1>1 DEF storeVars
<1>2. ASSUME NEW t \in Tasks, Enqueue(t) PROVE TypeOK'
  BY <1>2 DEF Enqueue, Statuses, Queued
<1>3. ASSUME NEW t \in Tasks, RetryTask(t) PROVE TypeOK'
  BY <1>3 DEF RetryTask, Statuses, Queued, NoLease
<1>4. ASSUME NEW t \in Tasks, RetryDue(t) PROVE TypeOK'
  BY <1>4 DEF RetryDue
<1>5. ASSUME NEW c \in Claimers, ClaimCommit(c) PROVE TypeOK'
  BY <1>5 DEF ClaimCommit, NextAttempt, Statuses, Active
<1>6. ASSUME NEW c \in Claimers, ClaimAbort(c) PROVE TypeOK'
  BY <1>6 DEF ClaimAbort, rowVars
<1>7. ASSUME NEW c \in Claimers, ClaimSnapshot(c) PROVE TypeOK'
  BY <1>7 DEF ClaimSnapshot, Claimable, rowVars
<1>15. ASSUME NEW c \in Claimers, NEW t \in Tasks, ClaimLock(c, t) PROVE TypeOK'
  BY <1>15 DEF ClaimLock, rowVars
<1>16. ASSUME NEW t \in Tasks, TxAbort(t) PROVE TypeOK'
  BY <1>16 DEF TxAbort, SetTx, rowVars
<1>17. ASSUME NEW t \in Tasks, NEW a \in Attempts, RenewCheck(t, a) \/ StartCheck(t, a)
       PROVE  TypeOK'
  BY <1>17 DEF RenewCheck, StartCheck, SetTx, rowVars
<1>8. ASSUME NEW t \in Tasks, NEW a \in Attempts, Renew(t, a) PROVE TypeOK'
  BY <1>8 DEF Renew, Extends
<1>9. ASSUME NEW t \in Tasks, NEW a \in Attempts, Start(t, a) PROVE TypeOK'
  BY <1>9 DEF Start, Extends, Statuses, Active
<1>10. ASSUME NEW t \in Tasks, NEW a \in Attempts, NEW outcome \in Outcomes,
              Finish(t, a, outcome)
       PROVE  TypeOK'
  <2>1. SettledAs(t, outcome) \in Outcomes
    BY DEF SettledAs, Outcomes
  <2>2. Outcomes \subseteq Statuses
    BY DEF Outcomes, Statuses, Queued, Closed
  <2> QED
    BY <1>10, <2>1, <2>2 DEF Finish, NoLease
<1>11. ASSUME NEW t \in Tasks, NEW a \in 0..AttemptLimit, RequestCancellation(t, a)
       PROVE  TypeOK'
  BY <1>11 DEF RequestCancellation, Statuses, Closed, NoLease
<1>12. ASSUME NEW batch \in SUBSET Abandoned, RecoverCancelled(batch) PROVE TypeOK'
  BY <1>12 DEF RecoverCancelled, Statuses, Closed, Outcomes, NoLease
<1>13. ASSUME NEW batch \in SUBSET Recoverable, RecoverExpired(batch) PROVE TypeOK'
  <2>1. \A t \in Tasks : RecoveredStatus(t) \in Statuses
    BY DEF RecoveredStatus, Statuses, Queued, Closed
  <2> QED
    BY <1>13, <2>1 DEF RecoverExpired, NoLease
<1>14. ASSUME Tick PROVE TypeOK'
  BY <1>14 DEF Tick, NoLease
<1> QED
  BY <1>1, <1>2, <1>3, <1>4, <1>5, <1>6, <1>7, <1>8, <1>9, <1>10, <1>11, <1>12,
     <1>13, <1>14, <1>15, <1>16, <1>17, StoreSteps

(* The store is type correct whoever calls it.                              *)
THEOREM TypeCorrect == StoreSpec => []TypeOK
<1>1. StoreInit => TypeOK
  BY StoreAssumption DEF StoreInit, TypeOK, Statuses, NoLease, Attempts
<1> QED
  BY <1>1, TypeOKStep, PTL DEF StoreSpec

-----------------------------------------------------------------------------
(* The safety invariants are inductive together, with two additions: a task *)
(* that was never inserted has no attempt behind it, and a lease that ran   *)
(* out under a renewal or a start is on record.                             *)
AbsentIsFresh == \A t \in Tasks : status[t] = "absent" => attempt[t] = 0

OverrunIsKnown == \A t \in Tasks : tx[t] # "none" => Live(t) \/ t \in overrun

StoreInv ==
    /\ TypeOK
    /\ LeaseMatchesStatus
    /\ AttemptRowAgrees
    /\ LockedIsQueued
    /\ HeldIsOwned
    /\ NoBlindReplay
    /\ AbsentIsFresh
    /\ OverrunIsKnown

(* The groups of statuses that the statements test for do not overlap.        *)
LEMMA StatusKinds ==
    /\ Queued \cap Active = {}
    /\ Queued \cap Closed = {}
    /\ Active \cap Closed = {}
    /\ "absent" \notin Queued \cup Active \cup Closed
    /\ Outcomes \cap Active = {}
    /\ "absent" \notin Outcomes
    /\ "none" \notin Outcomes
    /\ "running" \notin Outcomes
    /\ "cancelled" \notin Queued \cup Active
    /\ Retryable \subseteq Closed
BY DEF Queued, Active, Closed, Outcomes, Retryable

(* An empty project_tasks table satisfies the invariant.                      *)
LEMMA InitInv == StoreInit => StoreInv
<1> SUFFICES ASSUME StoreInit PROVE StoreInv
  OBVIOUS
<1> USE StoreAssumption DEF StoreInit
<1>1. TypeOK
  BY DEF TypeOK, Statuses, NoLease, Attempts
<1>2. LeaseMatchesStatus
  BY DEF LeaseMatchesStatus, NoLease, Active
<1>3. AttemptRowAgrees
  BY DEF AttemptRowAgrees, Active, Attempts
<1>4. LockedIsQueued
  BY DEF LockedIsQueued
<1>5. NoBlindReplay
  BY DEF NoBlindReplay, Attempts
<1>6. AbsentIsFresh
  BY DEF AbsentIsFresh
<1>7. HeldIsOwned /\ OverrunIsKnown
  BY DEF HeldIsOwned, OverrunIsKnown
<1> QED
  BY <1>1, <1>2, <1>3, <1>4, <1>5, <1>6, <1>7 DEF StoreInv

(* A claim commits a row that was queued when it was locked and has stayed  *)
(* queued since.                                                            *)
LEMMA ClaimCommitInv ==
    ASSUME StoreInv, NEW c \in Claimers, ClaimCommit(c)
    PROVE  StoreInv'
<1> DEFINE t == locked[c]
<1>1. t \in Tasks /\ status[t] \in Queued /\ TypeOK /\ TypeOK'
  <2>1. TypeOK'
    BY TypeOKStep DEF StoreInv, StoreNext
  <2> QED
    BY <2>1 DEF StoreInv, TypeOK, LockedIsQueued, ClaimCommit
<1>2. LeaseMatchesStatus'
  BY <1>1, StoreAssumption
  DEF StoreInv, LeaseMatchesStatus, ClaimCommit, TypeOK, Active, NoLease
<1>3. AttemptRowAgrees'
  BY <1>1, StoreAssumption, StatusKinds
  DEF StoreInv, AttemptRowAgrees, ClaimCommit, NextAttempt, TypeOK, Attempts
<1>4. LockedIsQueued'
  BY <1>1, StoreAssumption DEF StoreInv, LockedIsQueued, ClaimCommit, TypeOK
<1>5. NoBlindReplay'
  BY <1>1, StoreAssumption, StatusKinds
  DEF StoreInv, NoBlindReplay, AttemptRowAgrees, ClaimCommit, NextAttempt, TypeOK,
      Attempts, Active, Queued
<1>6. AbsentIsFresh'
  BY <1>1, StatusKinds DEF StoreInv, AbsentIsFresh, ClaimCommit, TypeOK
<1>7. tx[t] = "none"
  BY <1>1, StatusKinds DEF StoreInv, HeldIsOwned
<1>8. HeldIsOwned'
  BY <1>1, <1>7 DEF StoreInv, HeldIsOwned, ClaimCommit, TypeOK
<1>9. OverrunIsKnown'
  BY <1>1, <1>7 DEF StoreInv, OverrunIsKnown, ClaimCommit, TypeOK, Live
<1> QED
  BY <1>1, <1>2, <1>3, <1>4, <1>5, <1>6, <1>8, <1>9 DEF StoreInv

(* An attempt's row of project_task_attempts changes together with the task *)
(* it belongs to, and only while that attempt owns the task.                *)
LEMMA StartInv ==
    ASSUME StoreInv, NEW t \in Tasks, NEW a \in Attempts, Start(t, a)
    PROVE  StoreInv'
<1> USE StoreAssumption DEF StoreInv
<1>0. TypeOK'
  BY TypeOKStep DEF StoreNext
<1>1. attempt[t] = a /\ status[t] = "leased" /\ "leased" \notin Queued
  BY DEF Start, Extends, HeldIsOwned, Queued
<1> USE DEF Extends
<1>2. LeaseMatchesStatus'
  BY <1>1 DEF LeaseMatchesStatus, Start, TypeOK, Active, NoLease
<1>3. AttemptRowAgrees'
  BY <1>1 DEF AttemptRowAgrees, Start, TypeOK, Attempts, Active
<1>4. LockedIsQueued'
  BY <1>1 DEF LockedIsQueued, Start, TypeOK
<1>5. NoBlindReplay'
  BY <1>1 DEF NoBlindReplay, Start, TypeOK, Attempts, Queued
<1>6. AbsentIsFresh'
  BY <1>1 DEF AbsentIsFresh, Start, TypeOK
<1>7. HeldIsOwned'
  BY <1>1 DEF HeldIsOwned, Start, TypeOK
<1>8. OverrunIsKnown'
  BY <1>1 DEF OverrunIsKnown, Start, TypeOK, Live
<1> QED
  BY <1>0, <1>2, <1>3, <1>4, <1>5, <1>6, <1>7, <1>8

(* finishAttempt, in each of its outcomes, preserves the invariant.           *)
LEMMA FinishInv ==
    ASSUME StoreInv, NEW t \in Tasks, NEW a \in Attempts,
           NEW outcome \in Outcomes, Finish(t, a, outcome)
    PROVE  StoreInv'
<1> USE StoreAssumption DEF StoreInv
<1> DEFINE settled == SettledAs(t, outcome)
<1>0. TypeOK'
  BY TypeOKStep DEF StoreNext
<1>1. attempt[t] = a /\ status[t] \in Active /\ Unlocked(t)
  BY DEF Finish, Finishable, Owns
<1>2. /\ settled \in Outcomes
      /\ status'  = [status EXCEPT ![t] = settled]
      /\ lease'   = [lease EXCEPT ![t] = NoLease]
      /\ history' = [history EXCEPT ![t][a] = settled]
      /\ cancel'  = [cancel EXCEPT ![t] = settled = "cancelled"]
      /\ UNCHANGED <<attempt, locked, tx, overrun, retried>>
  BY DEF Finish, SettledAs, Outcomes
<1> HIDE DEF settled
<1>3. LeaseMatchesStatus'
  BY <1>1, <1>2, StatusKinds DEF LeaseMatchesStatus, TypeOK
<1>4. AttemptRowAgrees'
  BY <1>1, <1>2, StatusKinds DEF AttemptRowAgrees, TypeOK, Attempts, Active
<1>5. LockedIsQueued'
  BY <1>1, <1>2 DEF LockedIsQueued, TypeOK, Unlocked
<1>6. NoBlindReplay'
  <2> SUFFICES ASSUME NEW u \in Tasks, NEW b \in Attempts,
                      history'[u][b] = "running",
                      b < attempt'[u] \/ status'[u] \in Queued
               PROVE  b \in retried'[u]
    BY DEF NoBlindReplay
  <2>1. CASE u # t
    BY <1>2, <2>1 DEF NoBlindReplay, TypeOK
  <2>2. CASE u = t
    <3>1. b # a /\ history[t][b] = "running"
      BY <1>2, <2>2, StatusKinds DEF TypeOK
    <3>2. b < attempt[t]
      <4>1. ~(b > attempt[t])
        BY <3>1 DEF AttemptRowAgrees
      <4>2. b \in Int /\ attempt[t] \in Int /\ b # attempt[t]
        BY <1>1, <3>1 DEF TypeOK, Attempts
      <4> QED
        BY <4>1, <4>2
    <3> QED
      BY <1>2, <2>2, <3>1, <3>2 DEF NoBlindReplay
  <2> QED
    BY <2>1, <2>2
<1>7. AbsentIsFresh'
  BY <1>1, <1>2, StatusKinds DEF AbsentIsFresh, TypeOK
<1>8. HeldIsOwned' /\ OverrunIsKnown'
  <2>1. tx'[t] = "none"
    BY <1>1, <1>2 DEF Unlocked
  <2>2. ASSUME NEW u \in Tasks, u # t
        PROVE  /\ status'[u] = status[u] /\ cancel'[u] = cancel[u]
               /\ lease'[u] = lease[u] /\ tx'[u] = tx[u]
    BY <1>2, <2>2 DEF TypeOK
  <2>3. HeldIsOwned'
    BY <2>1, <2>2 DEF HeldIsOwned
  <2>4. OverrunIsKnown'
    BY <1>2, <2>1, <2>2 DEF OverrunIsKnown, Live
  <2> QED
    BY <2>3, <2>4
<1> QED
  BY <1>0, <1>3, <1>4, <1>5, <1>6, <1>7, <1>8

(* The sweep of cancelled tasks preserves the invariant.                      *)
LEMMA RecoverCancelledInv ==
    ASSUME StoreInv, NEW batch \in SUBSET Abandoned, RecoverCancelled(batch)
    PROVE  StoreInv'
<1> USE StoreAssumption DEF StoreInv
<1>0. TypeOK'
  BY TypeOKStep DEF StoreNext
<1>1. \A t \in batch : t \in Tasks /\ status[t] \in Active /\ tx[t] = "none"
  BY DEF Abandoned, Unlocked
<1>2. LeaseMatchesStatus'
  BY <1>1, StatusKinds DEF LeaseMatchesStatus, RecoverCancelled, TypeOK
<1>3. AttemptRowAgrees'
  BY <1>1, StatusKinds
  DEF AttemptRowAgrees, RecoverCancelled, TypeOK, Attempts, Active
<1>4. LockedIsQueued'
  BY <1>1, StatusKinds DEF LockedIsQueued, RecoverCancelled, TypeOK
<1>5. NoBlindReplay'
  BY <1>1, StatusKinds DEF NoBlindReplay, RecoverCancelled, TypeOK, Attempts
<1>6. AbsentIsFresh'
  BY <1>1, StatusKinds DEF AbsentIsFresh, RecoverCancelled, TypeOK
<1>7. HeldIsOwned' /\ OverrunIsKnown'
  BY <1>1 DEF HeldIsOwned, OverrunIsKnown, RecoverCancelled, TypeOK, Live
<1> QED
  BY <1>0, <1>2, <1>3, <1>4, <1>5, <1>6, <1>7

(* Lease recovery queues a task again only when its attempt was never       *)
(* started, which AttemptRowAgrees turns into: it has no row.               *)
LEMMA RecoverExpiredInv ==
    ASSUME StoreInv, NEW batch \in SUBSET Recoverable, RecoverExpired(batch)
    PROVE  StoreInv'
<1> USE StoreAssumption DEF StoreInv
<1>0. TypeOK'
  BY TypeOKStep DEF StoreNext
<1>1. \A t \in batch :
         /\ t \in Tasks
         /\ status[t] \in Active
         /\ tx[t] = "none"
         /\ RecoveredStatus(t) \in {"retry_scheduled", "dead_lettered"}
         /\ RecoveredStatus(t) = "retry_scheduled" => status[t] = "leased"
  BY DEF Recoverable, RecoveredStatus, Unlocked
<1>2. /\ \A t \in Tasks :
           status'[t] = IF t \in batch THEN RecoveredStatus(t) ELSE status[t]
      /\ \A t \in Tasks :
           lease'[t] = IF t \in batch THEN NoLease ELSE lease[t]
      /\ UNCHANGED <<attempt, cancel, history, locked, tx, overrun, retried>>
  BY DEF RecoverExpired
<1>3. LeaseMatchesStatus'
  BY <1>1, <1>2, StatusKinds DEF LeaseMatchesStatus, Active
<1>4. AttemptRowAgrees'
  BY <1>1, <1>2, StatusKinds DEF AttemptRowAgrees, Active
<1>5. LockedIsQueued'
  BY <1>1, <1>2, StatusKinds DEF LockedIsQueued, TypeOK
<1>6. NoBlindReplay'
  BY <1>1, <1>2, StatusKinds DEF NoBlindReplay, AttemptRowAgrees, TypeOK, Attempts, Queued
<1>7. AbsentIsFresh'
  BY <1>1, <1>2, StatusKinds DEF AbsentIsFresh
<1>8. HeldIsOwned' /\ OverrunIsKnown'
  BY <1>1, <1>2 DEF HeldIsOwned, OverrunIsKnown, Live
<1> QED
  BY <1>0, <1>3, <1>4, <1>5, <1>6, <1>7, <1>8

(* A request that is accepted closes a queued task and leaves an owned one  *)
(* with its owner; a retry records that it was asked for.                   *)
LEMMA RequestCancellationInv ==
    ASSUME StoreInv, NEW t \in Tasks, NEW a \in 0..AttemptLimit,
           RequestCancellation(t, a)
    PROVE  StoreInv'
<1> USE StoreAssumption DEF StoreInv
<1>0. TypeOK'
  BY TypeOKStep DEF StoreNext
<1>1. Unlocked(t) /\ status[t] \in Queued \cup Active
  BY DEF RequestCancellation, Owns
<1>2. LeaseMatchesStatus'
  BY <1>1, StatusKinds DEF LeaseMatchesStatus, RequestCancellation, TypeOK
<1>3. AttemptRowAgrees'
  BY <1>1, StatusKinds
  DEF AttemptRowAgrees, RequestCancellation, TypeOK, Attempts, Active
<1>4. LockedIsQueued'
  BY <1>1 DEF LockedIsQueued, RequestCancellation, TypeOK, Unlocked
<1>5. NoBlindReplay'
  BY <1>1, StatusKinds DEF NoBlindReplay, RequestCancellation, TypeOK, Attempts
<1>6. AbsentIsFresh'
  BY <1>1, StatusKinds DEF AbsentIsFresh, RequestCancellation, TypeOK
<1>7. HeldIsOwned' /\ OverrunIsKnown'
  BY <1>1 DEF HeldIsOwned, OverrunIsKnown, RequestCancellation, TypeOK, Unlocked, Live
<1> QED
  BY <1>0, <1>2, <1>3, <1>4, <1>5, <1>6, <1>7

(* An explicit retry, which opens a new attempt, preserves the invariant.     *)
LEMMA RetryTaskInv ==
    ASSUME StoreInv, NEW t \in Tasks, RetryTask(t)
    PROVE  StoreInv'
<1> USE StoreAssumption DEF StoreInv
<1>0. TypeOK'
  BY TypeOKStep DEF StoreNext
<1>1. Unlocked(t) /\ status[t] \in Closed
  BY StatusKinds DEF RetryTask
<1>2. LeaseMatchesStatus'
  BY <1>1 DEF LeaseMatchesStatus, RetryTask, TypeOK, Active
<1>3. AttemptRowAgrees'
  BY <1>1 DEF AttemptRowAgrees, RetryTask, TypeOK, Attempts, Active
<1>4. LockedIsQueued'
  BY <1>1 DEF LockedIsQueued, RetryTask, TypeOK, Unlocked
<1>5. NoBlindReplay'
  BY <1>1 DEF NoBlindReplay, AttemptRowAgrees, RetryTask, TypeOK, Attempts
<1>6. AbsentIsFresh'
  BY <1>1 DEF AbsentIsFresh, RetryTask, TypeOK
<1>7. HeldIsOwned' /\ OverrunIsKnown'
  BY <1>1 DEF HeldIsOwned, OverrunIsKnown, RetryTask, TypeOK, Unlocked, Live
<1> QED
  BY <1>0, <1>2, <1>3, <1>4, <1>5, <1>6, <1>7

(* The steps that change neither an attempt nor its row.                    *)
LEMMA EnqueueInv ==
    ASSUME StoreInv, NEW t \in Tasks, Enqueue(t)
    PROVE  StoreInv'
<1> USE StoreAssumption DEF StoreInv
<1>0. TypeOK'
  BY TypeOKStep DEF StoreNext
<1>1. LeaseMatchesStatus'
  BY DEF LeaseMatchesStatus, Enqueue, TypeOK, Active
<1>2. AttemptRowAgrees'
  BY DEF AttemptRowAgrees, Enqueue, TypeOK, Attempts, Active
<1>3. LockedIsQueued'
  BY DEF LockedIsQueued, Enqueue, TypeOK, Queued
<1>4. NoBlindReplay'
  BY DEF NoBlindReplay, AttemptRowAgrees, AbsentIsFresh, Enqueue, TypeOK, Attempts
<1>5. AbsentIsFresh'
  BY DEF AbsentIsFresh, Enqueue, TypeOK
<1>6. HeldIsOwned' /\ OverrunIsKnown'
  BY DEF HeldIsOwned, OverrunIsKnown, Enqueue, TypeOK, Active, Live
<1> QED
  BY <1>0, <1>1, <1>2, <1>3, <1>4, <1>5, <1>6

(* A claim takes its snapshot, and rolls back, without touching a row.      *)
LEMMA ClaimSnapshotInv ==
    ASSUME StoreInv, NEW c \in Claimers, ClaimSnapshot(c) \/ ClaimAbort(c)
    PROVE  StoreInv'
<1> USE StoreAssumption DEF StoreInv
<1>0. TypeOK'
  BY TypeOKStep DEF StoreNext
<1>1. UNCHANGED <<status, attempt, lease, cancel, history, tx, overrun, retried>>
  BY DEF ClaimSnapshot, ClaimAbort, rowVars
<1>2. \A d \in Claimers : locked'[d] # NoTask => locked'[d] = locked[d]
  BY DEF ClaimSnapshot, ClaimAbort, TypeOK
<1>3. LockedIsQueued'
  BY <1>1, <1>2 DEF LockedIsQueued
<1>4. LeaseMatchesStatus' /\ AttemptRowAgrees' /\ NoBlindReplay' /\ AbsentIsFresh'
  BY <1>1 DEF LeaseMatchesStatus, AttemptRowAgrees, NoBlindReplay, AbsentIsFresh
<1>5. HeldIsOwned' /\ OverrunIsKnown'
  BY <1>1 DEF HeldIsOwned, OverrunIsKnown, Live
<1> QED
  BY <1>0, <1>3, <1>4, <1>5

(* A claim that has chosen its row preserves the invariant: the row still   *)
(* qualifies when it is locked.                                             *)
LEMMA ClaimLockInv ==
    ASSUME StoreInv, NEW c \in Claimers, NEW t \in Tasks, ClaimLock(c, t)
    PROVE  StoreInv'
<1> USE StoreAssumption DEF StoreInv
<1>0. TypeOK'
  BY TypeOKStep DEF StoreNext
<1>1. /\ UNCHANGED <<status, attempt, lease, cancel, history, tx, overrun, retried>>
      /\ locked' = [locked EXCEPT ![c] = t]
      /\ status[t] \in Queued
      /\ \A d \in Claimers : locked[d] = NoTask
  BY DEF ClaimLock, Lockable, Waiting, rowVars
<1>2. LockedIsQueued'
  BY <1>1 DEF LockedIsQueued, TypeOK
<1>3. LeaseMatchesStatus' /\ AttemptRowAgrees' /\ NoBlindReplay' /\ AbsentIsFresh'
  BY <1>1 DEF LeaseMatchesStatus, AttemptRowAgrees, NoBlindReplay, AbsentIsFresh
<1>4. HeldIsOwned' /\ OverrunIsKnown'
  BY <1>1 DEF HeldIsOwned, OverrunIsKnown, Live
<1> QED
  BY <1>0, <1>2, <1>3, <1>4

(* A transaction takes hold of a row whose lease it found live, or lets go. *)
LEMMA HoldInv ==
    ASSUME StoreInv, NEW t \in Tasks,
           TxAbort(t) \/ (\E a \in Attempts : RenewCheck(t, a) \/ StartCheck(t, a))
    PROVE  StoreInv'
<1> USE StoreAssumption DEF StoreInv
<1>0. TypeOK'
  BY TypeOKStep DEF StoreNext
<1>1. /\ UNCHANGED <<status, attempt, lease, cancel, history, locked, overrun, retried>>
      /\ \E kind \in {"none", "renew", "start"} : tx' = [tx EXCEPT ![t] = kind]
  BY DEF TxAbort, RenewCheck, StartCheck, SetTx, rowVars
<1>2. tx'[t] # "none" => /\ status[t] \in Active /\ ~cancel[t] /\ Live(t)
                         /\ tx'[t] = "start" => status[t] = "leased"
  BY DEF TxAbort, RenewCheck, StartCheck, SetTx, Renewable, Startable, Active, TypeOK
<1>3. \A u \in Tasks : u # t => tx'[u] = tx[u]
  BY <1>1 DEF TypeOK
<1>4. HeldIsOwned'
  BY <1>1, <1>2, <1>3 DEF HeldIsOwned
<1>5. OverrunIsKnown'
  BY <1>1, <1>2, <1>3 DEF OverrunIsKnown, Live
<1>6. /\ LeaseMatchesStatus' /\ AttemptRowAgrees' /\ NoBlindReplay' /\ AbsentIsFresh'
      /\ LockedIsQueued'
  BY <1>1 DEF LeaseMatchesStatus, AttemptRowAgrees, NoBlindReplay, AbsentIsFresh,
              LockedIsQueued
<1> QED
  BY <1>0, <1>4, <1>5, <1>6

(* A renewal that commits, even of a lease that has run out meanwhile.      *)
LEMMA RenewInv ==
    ASSUME StoreInv, NEW t \in Tasks, NEW a \in Attempts, Renew(t, a)
    PROVE  StoreInv'
<1> USE StoreAssumption DEF StoreInv
<1>0. TypeOK'
  BY TypeOKStep DEF StoreNext
<1>1. /\ UNCHANGED <<status, attempt, cancel, history, locked, overrun, retried>>
      /\ lease' = [lease EXCEPT ![t] = LeaseTicks]
      /\ tx' = [tx EXCEPT ![t] = "none"]
      /\ status[t] \in Active
  BY DEF Renew, Extends, HeldIsOwned
<1>2. LeaseMatchesStatus'
  BY <1>1 DEF LeaseMatchesStatus, TypeOK, NoLease
<1>3. LockedIsQueued' /\ AttemptRowAgrees' /\ NoBlindReplay' /\ AbsentIsFresh'
  BY <1>1 DEF LockedIsQueued, AttemptRowAgrees, NoBlindReplay, AbsentIsFresh
<1>4. HeldIsOwned' /\ OverrunIsKnown'
  BY <1>1 DEF HeldIsOwned, OverrunIsKnown, TypeOK, Live
<1> QED
  BY <1>0, <1>2, <1>3, <1>4

(* Time, which only shortens leases and records those that run out under a  *)
(* transaction, preserves the invariant.                                    *)
LEMMA ClockInv ==
    ASSUME StoreInv,
           \/ Tick
           \/ \E t \in Tasks : RetryDue(t)
           \/ UNCHANGED storeVars
    PROVE  StoreInv'
<1> USE StoreAssumption DEF StoreInv
<1>0. TypeOK'
  BY TypeOKStep DEF StoreNext
<1>1. UNCHANGED <<status, attempt, cancel, history, locked, tx, retried>>
  BY DEF Tick, RetryDue, storeVars
<1>2. \A t \in Tasks : lease'[t] = NoLease <=> lease[t] = NoLease
  BY DEF Tick, RetryDue, storeVars, TypeOK, NoLease
<1>3. LeaseMatchesStatus'
  BY <1>1, <1>2 DEF LeaseMatchesStatus
<1>4. /\ LockedIsQueued' /\ AttemptRowAgrees' /\ NoBlindReplay' /\ AbsentIsFresh'
      /\ HeldIsOwned'
  BY <1>1 DEF LockedIsQueued, AttemptRowAgrees, NoBlindReplay, AbsentIsFresh, HeldIsOwned
<1>5. OverrunIsKnown'
  BY <1>1 DEF OverrunIsKnown, Tick, RetryDue, storeVars, Live, TypeOK, NoLease
<1> QED
  BY <1>0, <1>3, <1>4, <1>5

(* Every committed transaction of the store preserves the invariant.          *)
LEMMA StoreInvStep ==
    ASSUME StoreInv, [StoreNext]_storeVars
    PROVE  StoreInv'
BY StoreSteps, EnqueueInv, RetryTaskInv, ClaimSnapshotInv, ClaimLockInv, ClaimCommitInv,
   HoldInv, RenewInv, StartInv, FinishInv, RequestCancellationInv, RecoverCancelledInv,
   RecoverExpiredInv, ClockInv

(* The conjunction is invariant, whoever calls the store in whatever order. *)
THEOREM StoreInvariant == StoreSpec => []StoreInv
BY InitInv, StoreInvStep, PTL DEF StoreSpec

-----------------------------------------------------------------------------
(* No task row is Active without a lease_until, and none that is not Active *)
(* keeps one; project_tasks and project_task_attempts never disagree about  *)
(* an attempt; what a claim locked is still queued, and its own, when it    *)
(* commits.  Under any calls to the store and any number of recoveries.     *)
THEOREM StoreIsConsistent == StoreSpec => []StoreConsistent
<1>1. StoreInv => StoreConsistent
  BY DEF StoreInv, StoreConsistent
<1> QED
  BY <1>1, StoreInvariant, PTL

(* An invocation whose outcome is unknown is never replayed by the platform *)
(* itself: for any number of tasks, claims in flight and attempts.          *)
THEOREM UnknownOutcomeNotReplayed == StoreSpec => []NoBlindReplay
<1>1. StoreInv => NoBlindReplay
  BY DEF StoreInv
<1> QED
  BY <1>1, StoreInvariant, PTL

(* A verdict is written once, by the attempt that owns the task.            *)
THEOREM VerdictsAreFenced == StoreSpec => HistoryIsFenced
<1> DEFINE Fenced ==
      \A t \in Tasks, a \in Attempts :
          history'[t][a] # history[t][a] =>
              /\ a = attempt[t]
              /\ status[t] \in Active
              /\ history[t][a] \notin Outcomes
<1>1. ASSUME StoreInv, [StoreNext]_storeVars PROVE Fenced
  <2> USE DEF StoreInv
  <2>1. ASSUME NEW t \in Tasks, NEW a \in Attempts, Start(t, a) PROVE Fenced
    BY <1>1, <2>1, StatusKinds DEF Start, Extends, HeldIsOwned, TypeOK, Active
  <2>2. ASSUME NEW t \in Tasks, NEW a \in Attempts, NEW outcome \in Outcomes,
               Finish(t, a, outcome)
        PROVE  Fenced
    BY <1>1, <2>2, StatusKinds DEF Finish, Finishable, Owns, TypeOK
  <2>3. ASSUME NEW batch \in SUBSET Abandoned, RecoverCancelled(batch) PROVE Fenced
    BY <1>1, <2>3, StatusKinds DEF RecoverCancelled, Abandoned, TypeOK
  <2>4. CASE UNCHANGED history
    BY <1>1, <2>4
  <2> QED
    BY <1>1, <2>1, <2>2, <2>3, <2>4, StoreSteps
    DEF Enqueue, RetryTask, RetryDue, ClaimCommit, ClaimAbort, ClaimSnapshot, ClaimLock,
        TxAbort, RenewCheck, StartCheck, SetTx, Renew, RequestCancellation,
        RecoverExpired, Tick, rowVars, storeVars
<1> QED
  BY <1>1, StoreInvariant, PTL DEF StoreSpec, HistoryIsFenced

(* Nothing overtakes an accepted cancellation of an owned task.  The claim  *)
(* is the case that needs the invariant: the row it overwrites is queued.   *)
THEOREM CancellationIsFinal == StoreSpec => CancellationWins
<1> DEFINE Wins ==
      \A t \in Tasks :
          status[t] \in Active /\ cancel[t] =>
              \/ status'[t] = status[t] /\ cancel'[t]
              \/ status'[t] = "cancelled"
<1>1. ASSUME StoreInv, [StoreNext]_storeVars PROVE Wins
  <2> USE DEF StoreInv
  <2>1. ASSUME NEW t \in Tasks, Enqueue(t) PROVE Wins
    BY <1>1, <2>1 DEF Enqueue, TypeOK, Active
  <2>2. ASSUME NEW t \in Tasks, RetryTask(t) PROVE Wins
    BY <1>1, <2>2, StatusKinds DEF RetryTask, TypeOK
  <2>3. ASSUME NEW c \in Claimers, ClaimCommit(c) PROVE Wins
    BY <1>1, <2>3, StatusKinds DEF ClaimCommit, LockedIsQueued, TypeOK
  <2>4. ASSUME NEW t \in Tasks, NEW a \in Attempts, Start(t, a) PROVE Wins
    BY <1>1, <2>4 DEF Start, Extends, HeldIsOwned, TypeOK
  <2>5. ASSUME NEW t \in Tasks, NEW a \in Attempts, NEW outcome \in Outcomes,
               Finish(t, a, outcome)
        PROVE  Wins
    BY <1>1, <2>5 DEF Finish, SettledAs, TypeOK
  <2>6. ASSUME NEW t \in Tasks, NEW a \in 0..AttemptLimit, RequestCancellation(t, a)
        PROVE  Wins
    BY <1>1, <2>6, StatusKinds DEF RequestCancellation, TypeOK
  <2>7. ASSUME NEW batch \in SUBSET Abandoned, RecoverCancelled(batch) PROVE Wins
    BY <1>1, <2>7 DEF RecoverCancelled, TypeOK
  <2>8. ASSUME NEW batch \in SUBSET Recoverable, RecoverExpired(batch) PROVE Wins
    BY <1>1, <2>8 DEF RecoverExpired, Recoverable, TypeOK
  <2>9. CASE UNCHANGED <<status, cancel>>
    BY <2>9
  <2> QED
    BY <1>1, <2>1, <2>2, <2>3, <2>4, <2>5, <2>6, <2>7, <2>8, <2>9, StoreSteps
    DEF RetryDue, ClaimAbort, ClaimSnapshot, ClaimLock, TxAbort, RenewCheck, StartCheck,
        SetTx, Renew, Extends, Tick, rowVars, storeVars
<1> QED
  BY <1>1, StoreInvariant, PTL DEF StoreSpec, CancellationWins

-----------------------------------------------------------------------------
(* The store implements AttemptLedger.  How one task moves is read off its  *)
(* own columns: first the moves that keep the attempt and its verdicts.     *)
LEMMA MoveIsTaskStep ==
    ASSUME NEW u \in Tasks, TypeOK,
           attempt'[u] = attempt[u],
           \A a \in Attempts : VerdictOf(history'[u][a]) = VerdictOf(history[u][a]),
           \/ status'[u] = status[u]
           \/ status[u] = "absent" /\ status'[u] \in Queued
           \/ status[u] \in Queued /\ status'[u] = "cancelled"
           \/ status[u] = "leased" /\ status'[u] = "running"
           \/ status[u] = "leased"
              /\ status'[u] \in {"retry_scheduled", "dead_lettered", "cancelled"}
           \/ status[u] = "running" /\ status'[u] \in {"dead_lettered", "cancelled"}
           \/ status[u] \in Retryable /\ status'[u] = "pending"
    PROVE  Ledger!TaskStep(u)
<1> DEFINE P == [t \in Tasks |-> PhaseOf(status[t])]
           V == [t \in Tasks |-> [a \in Attempts |-> VerdictOf(history[t][a])]]
<1>1. V'[u] = V[u]
  BY DEF VerdictOf
<1>2. P[u] = PhaseOf(status[u]) /\ P'[u] = PhaseOf(status'[u])
  BY DEF PhaseOf
<1>3. \/ P'[u] = P[u]
      \/ P[u] = "absent" /\ P'[u] = "queued"
      \/ P[u] = "queued" /\ P'[u] = "closed"
      \/ P[u] = "owned"  /\ P'[u] = "executing"
      \/ P[u] = "owned"  /\ P'[u] = "queued"
      \/ P[u] = "owned"  /\ P'[u] = "closed"
      \/ P[u] = "executing" /\ P'[u] = "closed"
      \/ P[u] = "closed" /\ P'[u] = "queued"
  BY <1>2 DEF PhaseOf, Queued, Retryable
<1> QED
  BY <1>1, <1>3
  DEF Ledger!TaskStep, Ledger!Submit, Ledger!Begin, Ledger!Withdraw, Ledger!Reopen,
      Ledger!Abandon, Ledger!Moves, Ledger!Keeps

(* Then the verdict of the current attempt.                                 *)
LEMMA VerdictIsTaskStep ==
    ASSUME NEW u \in Tasks, StoreInv, NEW v \in Outcomes,
           status[u] \in Active, status'[u] = v,
           attempt'[u] = attempt[u],
           history'[u] = [history[u] EXCEPT ![attempt[u]] = v]
    PROVE  Ledger!TaskStep(u)
<1> DEFINE P == [t \in Tasks |-> PhaseOf(status[t])]
           V == [t \in Tasks |-> [a \in Attempts |-> VerdictOf(history[t][a])]]
<1>1. /\ attempt[u] \in Attempts
      /\ history[u] \in [Attempts -> {"none", "running"} \cup Outcomes]
      /\ history[u][attempt[u]] \in {"none", "running"}
  BY DEF StoreInv, AttemptRowAgrees, TypeOK, Active
<1>2. P[u] \in {"owned", "executing"}
  BY DEF PhaseOf, Active, Queued
<1>3. P'[u] = Ledger!PhaseAfter(v)
  BY DEF PhaseOf, Ledger!PhaseAfter, Outcomes, Queued
<1>4. V[u][attempt[u]] = "none"
  BY <1>1 DEF VerdictOf
<1>5. V'[u] = [V[u] EXCEPT ![attempt[u]] = v]
  <2>1. V'[u] = [a \in Attempts |-> VerdictOf(history'[u][a])]
    BY DEF VerdictOf
  <2>2. V[u] = [a \in Attempts |-> VerdictOf(history[u][a])]
    BY DEF VerdictOf
  <2> QED
    BY <1>1, <2>1, <2>2, StatusKinds DEF VerdictOf
<1>6. Ledger!Settle(u, v)
  BY <1>2, <1>3, <1>4, <1>5 DEF Ledger!Settle
<1>7. v \in Ledger!Verdicts
  BY DEF Ledger!Verdicts, Outcomes
<1> QED
  BY <1>6, <1>7 DEF Ledger!TaskStep

(* And the claim, which opens the next attempt of a queued task.            *)
LEMMA ClaimIsTaskStep ==
    ASSUME NEW u \in Tasks, status[u] \in Queued, status'[u] = "leased",
           attempt'[u] = attempt[u] + 1, history'[u] = history[u]
    PROVE  Ledger!TaskStep(u)
<1> DEFINE P == [t \in Tasks |-> PhaseOf(status[t])]
           V == [t \in Tasks |-> [a \in Attempts |-> VerdictOf(history[t][a])]]
<1>1. P[u] = "queued" /\ P'[u] = "owned"
  BY DEF PhaseOf, Queued
<1>2. V'[u] = V[u]
  BY DEF VerdictOf
<1> QED
  BY <1>1, <1>2 DEF Ledger!TaskStep, Ledger!Own

(* Every transaction is, for every task, a ledger step or no change.          *)
LEMMA StoreStepIsLedgerStep ==
    ASSUME StoreInv, [StoreNext]_storeVars
    PROVE  Ledger!LedgerNext
<1> SUFFICES ASSUME NEW u \in Tasks PROVE Ledger!TaskStep(u)
  BY DEF Ledger!LedgerNext
<1>0. TypeOK
  BY DEF StoreInv
<1>1. ASSUME NEW t \in Tasks, Enqueue(t) PROVE Ledger!TaskStep(u)
  BY <1>0, <1>1, MoveIsTaskStep DEF Enqueue, TypeOK, Queued
<1>2. ASSUME NEW t \in Tasks, RetryTask(t) PROVE Ledger!TaskStep(u)
  BY <1>0, <1>2, MoveIsTaskStep DEF RetryTask, TypeOK
<1>3. ASSUME NEW c \in Claimers, ClaimCommit(c) PROVE Ledger!TaskStep(u)
  <2>1. CASE u = locked[c]
    <3>1. status[u] \in Queued
      BY <1>3, <2>1 DEF StoreInv, LockedIsQueued, ClaimCommit
    <3> QED
      BY <1>0, <1>3, <2>1, <3>1, ClaimIsTaskStep DEF ClaimCommit, NextAttempt, TypeOK
  <2>2. CASE u # locked[c]
    BY <1>0, <1>3, <2>2, MoveIsTaskStep DEF ClaimCommit, TypeOK
  <2> QED
    BY <2>1, <2>2
<1>4. ASSUME NEW t \in Tasks, NEW a \in Attempts, Start(t, a)
      PROVE  Ledger!TaskStep(u)
  <2>1. status[t] = "leased"
    BY <1>4 DEF StoreInv, HeldIsOwned, Start, Extends
  <2> QED
    BY <1>0, <1>4, <2>1, MoveIsTaskStep DEF Start, Extends, TypeOK, VerdictOf
<1>5. ASSUME NEW t \in Tasks, NEW a \in Attempts, NEW outcome \in Outcomes,
             Finish(t, a, outcome)
      PROVE  Ledger!TaskStep(u)
  <2>1. CASE u = t
    <3>1. SettledAs(t, outcome) \in Outcomes
      BY DEF SettledAs, Outcomes
    <3>2. /\ status[u] \in Active
          /\ status'[u] = SettledAs(t, outcome)
          /\ attempt'[u] = attempt[u]
          /\ history'[u] = [history[u] EXCEPT ![attempt[u]] = SettledAs(t, outcome)]
      BY <1>0, <1>5, <2>1 DEF Finish, Finishable, Owns, TypeOK
    <3> QED
      BY <3>1, <3>2, VerdictIsTaskStep
  <2>2. CASE u # t
    BY <1>0, <1>5, <2>2, MoveIsTaskStep DEF Finish, TypeOK
  <2> QED
    BY <2>1, <2>2
<1>6. ASSUME NEW t \in Tasks, NEW a \in 0..AttemptLimit, RequestCancellation(t, a)
      PROVE  Ledger!TaskStep(u)
  BY <1>0, <1>6, MoveIsTaskStep DEF RequestCancellation, TypeOK
<1>7. ASSUME NEW batch \in SUBSET Abandoned, RecoverCancelled(batch)
      PROVE  Ledger!TaskStep(u)
  <2>1. CASE u \in batch /\ status[u] = "running"
    <3>1. history[u][attempt[u]] = "running" /\ attempt[u] \in Attempts
      BY <2>1 DEF StoreInv, AttemptRowAgrees, Active
    <3>2. /\ status'[u] = "cancelled"
          /\ attempt'[u] = attempt[u]
          /\ history'[u] = [history[u] EXCEPT ![attempt[u]] = "cancelled"]
      BY <1>0, <1>7, <2>1, <3>1 DEF RecoverCancelled, TypeOK
    <3> QED
      BY <2>1, <3>2, VerdictIsTaskStep DEF Active, Outcomes
  <2>2. CASE u \in batch /\ status[u] = "leased"
    <3>1. history[u][attempt[u]] = "none"
      BY <2>2 DEF StoreInv, AttemptRowAgrees
    <3>2. history'[u] = history[u]
      BY <1>0, <1>7, <3>1 DEF RecoverCancelled, TypeOK
    <3> QED
      BY <1>0, <1>7, <2>2, <3>2, MoveIsTaskStep DEF RecoverCancelled
  <2>3. CASE u \notin batch
    <3>1. history'[u] = history[u]
      BY <1>0, <1>7, <2>3 DEF RecoverCancelled, TypeOK
    <3> QED
      BY <1>0, <1>7, <2>3, <3>1, MoveIsTaskStep DEF RecoverCancelled
  <2> QED
    BY <2>1, <2>2, <2>3 DEF Abandoned, Active
<1>8. ASSUME NEW batch \in SUBSET Recoverable, RecoverExpired(batch)
      PROVE  Ledger!TaskStep(u)
  <2>1. CASE u \in batch
    BY <1>0, <1>8, <2>1, MoveIsTaskStep
    DEF RecoverExpired, Recoverable, RecoveredStatus, Active
  <2>2. CASE u \notin batch
    BY <1>0, <1>8, <2>2, MoveIsTaskStep DEF RecoverExpired
  <2> QED
    BY <2>1, <2>2
<1>9. CASE UNCHANGED <<status, attempt, history>>
  BY <1>0, <1>9, MoveIsTaskStep
<1> QED
  BY <1>1, <1>2, <1>3, <1>4, <1>5, <1>6, <1>7, <1>8, <1>9, StoreSteps
  DEF RetryDue, ClaimAbort, ClaimSnapshot, ClaimLock, TxAbort, RenewCheck, StartCheck,
      SetTx, Renew, Extends, Tick, rowVars, storeVars

(* The store implements the ledger: every statement of it, whoever issues   *)
(* it and with whatever attempt number, moves each task as AttemptLedger    *)
(* allows.                                                                  *)
THEOREM StoreImplementsLedger == StoreSpec => ImplementsLedger
<1>1. StoreInit => Ledger!LedgerInit
  <2> SUFFICES ASSUME StoreInit PROVE Ledger!LedgerInit
    OBVIOUS
  <2>1. [t \in Tasks |-> PhaseOf(status[t])] = [t \in Tasks |-> "absent"]
    BY DEF StoreInit, PhaseOf, Queued
  <2>2. [t \in Tasks |-> [a \in Attempts |-> VerdictOf(history[t][a])]]
          = [t \in Tasks |-> [g \in Ledger!Generations |-> "none"]]
    BY DEF StoreInit, VerdictOf, Ledger!Generations, Attempts
  <2> QED
    BY <2>1, <2>2 DEF StoreInit, Ledger!LedgerInit
<1>2. ASSUME StoreInv, [StoreNext]_storeVars
      PROVE  [Ledger!LedgerNext]_(Ledger!ledgerVars)
  BY <1>2, StoreStepIsLedgerStep
<1> QED
  BY <1>1, <1>2, StoreInvariant, PTL DEF StoreSpec, ImplementsLedger, Ledger!LedgerSpec

-----------------------------------------------------------------------------
(* A claim that has locked its row is done with its candidates.             *)
LockedHasChosen == \A c \in Claimers : locked[c] # NoTask => seen[c] = {}

(* Only a claim's own steps touch its candidates and its lock.              *)
LEMMA LockedHasChosenStep ==
    ASSUME TypeOK, LockedHasChosen, [StoreNext]_storeVars
    PROVE  LockedHasChosen'
<1> USE DEF LockedHasChosen, TypeOK
<1>1. CASE UNCHANGED <<seen, locked>>
  BY <1>1
<1>2. ASSUME NEW c \in Claimers, ClaimCommit(c) PROVE LockedHasChosen'
  BY <1>2 DEF ClaimCommit
<1>3. ASSUME NEW c \in Claimers, ClaimAbort(c) PROVE LockedHasChosen'
  BY <1>3 DEF ClaimAbort
<1>4. ASSUME NEW c \in Claimers, ClaimSnapshot(c) PROVE LockedHasChosen'
  BY <1>4 DEF ClaimSnapshot, Idle
<1>5. ASSUME NEW c \in Claimers, NEW t \in Tasks, ClaimLock(c, t)
      PROVE  LockedHasChosen'
  BY <1>5 DEF ClaimLock, Lockable
<1> QED
  BY <1>1, <1>2, <1>3, <1>4, <1>5, StoreSteps
  DEF Enqueue, RetryTask, RetryDue, TxAbort, RenewCheck, StartCheck, SetTx, Renew, Start,
      Extends, Finish, RequestCancellation, RecoverCancelled, RecoverExpired, Tick, storeVars

(* The claims that have taken their snapshot and are not committed.         *)
InFlight == {c \in Claimers : ~Idle(c)}

(* A claim in flight counts for a place that it may still take.             *)
AdmissionBounded ==
    /\ IsFiniteSet(LiveLeases)
    /\ Cardinality(Admitted) + Cardinality(InFlight)
          <= ConcurrencyLimit + Cardinality(Claimers) - 1

(* The sets that are counted are finite.                                    *)
LEMMA Counted ==
    ASSUME IsFiniteSet(Claimers), IsFiniteSet(LiveLeases)
    PROVE  /\ IsFiniteSet(InFlight) /\ IsFiniteSet(Admitted)
           /\ Cardinality(InFlight) \in Nat /\ Cardinality(Admitted) \in Nat
           /\ Cardinality(LiveLeases) \in Nat
           /\ Cardinality(Admitted) <= Cardinality(LiveLeases)
           /\ Cardinality(InFlight) <= Cardinality(Claimers)
           /\ Cardinality(Claimers) \in Nat /\ ConcurrencyLimit \in Nat
<1>1. InFlight \in SUBSET Claimers /\ Admitted \in SUBSET LiveLeases
  BY DEF InFlight, Admitted
<1>2. /\ IsFiniteSet(InFlight) /\ Cardinality(InFlight) <= Cardinality(Claimers)
      /\ IsFiniteSet(Admitted) /\ Cardinality(Admitted) <= Cardinality(LiveLeases)
  BY <1>1, FS_Subset
<1> QED
  BY <1>2, FS_CardinalityType, StoreAssumption

(* A step that admits no lease and begins no claim.  It may bring back one  *)
(* lease that had run out under a transaction.                              *)
LEMMA AdmissionShrinks ==
    ASSUME IsFiniteSet(Claimers), AdmissionBounded,
           NEW t, LiveLeases' \subseteq LiveLeases \cup {t},
           Admitted' \subseteq Admitted, InFlight' \subseteq InFlight
    PROVE  AdmissionBounded'
<1>1. IsFiniteSet(LiveLeases) /\ IsFiniteSet(InFlight) /\ IsFiniteSet(Admitted)
  BY Counted DEF AdmissionBounded
<1>2. IsFiniteSet(LiveLeases \cup {t})
  BY <1>1, FS_AddElement
<1>3. /\ IsFiniteSet(LiveLeases')
      /\ IsFiniteSet(Admitted') /\ Cardinality(Admitted') <= Cardinality(Admitted)
      /\ IsFiniteSet(InFlight') /\ Cardinality(InFlight') <= Cardinality(InFlight)
  BY <1>1, <1>2, FS_Subset
<1>4. /\ Cardinality(Admitted) \in Nat /\ Cardinality(Admitted') \in Nat
      /\ Cardinality(InFlight) \in Nat /\ Cardinality(InFlight') \in Nat
      /\ Cardinality(Claimers) \in Nat /\ ConcurrencyLimit \in Nat
  BY <1>1, <1>3, FS_CardinalityType, StoreAssumption
<1> QED
  BY <1>3, <1>4 DEF AdmissionBounded

(* In particular one that makes no lease live and takes none off the record *)
(* of those that ran out.                                                   *)
LEMMA AdmissionKept ==
    ASSUME IsFiniteSet(Claimers), AdmissionBounded,
           LiveLeases' \subseteq LiveLeases, overrun \subseteq overrun',
           InFlight' \subseteq InFlight
    PROVE  AdmissionBounded'
<1>1. Admitted' \subseteq Admitted /\ LiveLeases' \subseteq LiveLeases \cup {NoTask}
  BY DEF Admitted
<1> QED
  BY <1>1, AdmissionShrinks

(* A claim is begun only when its snapshot has a place left.                *)
LEMMA SnapshotBounded ==
    ASSUME IsFiniteSet(Claimers), TypeOK, AdmissionBounded,
           NEW c \in Claimers, ClaimSnapshot(c)
    PROVE  AdmissionBounded'
<1>1. LiveLeases' = LiveLeases /\ Admitted' = Admitted
  BY DEF ClaimSnapshot, rowVars, LiveLeases, Live, Admitted
<1>2. Cardinality(LiveLeases) < ConcurrencyLimit
  BY DEF ClaimSnapshot, Claimable
<1>3. /\ Cardinality(Admitted) <= Cardinality(LiveLeases)
      /\ Cardinality(Admitted) \in Nat /\ Cardinality(LiveLeases) \in Nat
      /\ Cardinality(Claimers) \in Nat /\ ConcurrencyLimit \in Nat
  BY Counted DEF AdmissionBounded
<1>4. InFlight' \in SUBSET Claimers
  BY DEF InFlight
<1>5. IsFiniteSet(InFlight') /\ Cardinality(InFlight') <= Cardinality(Claimers)
  BY <1>4, FS_Subset
<1>6. Cardinality(InFlight') \in Nat
  BY <1>5, FS_CardinalityType
<1> QED
  BY <1>1, <1>2, <1>3, <1>5, <1>6 DEF AdmissionBounded

(* A claim that commits takes the place that it was counted for.            *)
LEMMA CommitBounded ==
    ASSUME IsFiniteSet(Claimers), StoreInv, LockedHasChosen, AdmissionBounded,
           NEW c \in Claimers, ClaimCommit(c)
    PROVE  AdmissionBounded'
<1>1. PICK t \in Tasks : t = locked[c]
  BY DEF ClaimCommit, StoreInv, TypeOK
<1>2. t \notin LiveLeases /\ t # NoTask
  BY <1>1, StoreAssumption DEF StoreInv, LockedIsQueued, LiveLeases, Queued, Active, ClaimCommit
<1>3. LiveLeases' \subseteq LiveLeases \cup {t}
  BY <1>1 DEF ClaimCommit, LiveLeases, Live, StoreInv, TypeOK
<1>4. t \notin Admitted /\ Admitted' \subseteq Admitted \cup {t}
  BY <1>1, <1>2, <1>3 DEF ClaimCommit, Admitted
<1>5. c \in InFlight /\ InFlight' \subseteq InFlight
  BY <1>1, <1>2 DEF ClaimCommit, InFlight, Idle, StoreInv, TypeOK
<1>6. /\ IsFiniteSet(InFlight) /\ IsFiniteSet(LiveLeases) /\ IsFiniteSet(Admitted)
      /\ Cardinality(Admitted) \in Nat /\ Cardinality(InFlight) \in Nat
      /\ Cardinality(Claimers) \in Nat /\ ConcurrencyLimit \in Nat
  BY Counted DEF AdmissionBounded
<1>7. seen[c] = {}
  BY <1>1, <1>2 DEF LockedHasChosen
<1>8. InFlight' \subseteq InFlight \ {c}
  BY <1>1, <1>5, <1>7 DEF ClaimCommit, InFlight, Idle, StoreInv, TypeOK
<1>9. /\ IsFiniteSet(LiveLeases \cup {t})
      /\ IsFiniteSet(Admitted \cup {t})
      /\ Cardinality(Admitted \cup {t}) = Cardinality(Admitted) + 1
      /\ IsFiniteSet(InFlight \ {c}) /\ Cardinality(InFlight \ {c}) = Cardinality(InFlight) - 1
  BY <1>4, <1>5, <1>6, FS_AddElement, FS_RemoveElement
<1>10. /\ IsFiniteSet(LiveLeases')
       /\ IsFiniteSet(Admitted') /\ Cardinality(Admitted') <= Cardinality(Admitted \cup {t})
       /\ IsFiniteSet(InFlight') /\ Cardinality(InFlight') <= Cardinality(InFlight \ {c})
  BY <1>3, <1>4, <1>8, <1>9, FS_Subset
<1>11. Cardinality(Admitted') \in Nat /\ Cardinality(InFlight') \in Nat
  BY <1>10, FS_CardinalityType
<1> QED
  BY <1>6, <1>9, <1>10, <1>11 DEF AdmissionBounded

(* A renewal or a start that commits: its lease is live, or it ran out      *)
(* under the transaction and is on record.                                  *)
LEMMA ExtendBounded ==
    ASSUME IsFiniteSet(Claimers), StoreInv, AdmissionBounded,
           NEW t \in Tasks, NEW a \in Attempts, Renew(t, a) \/ Start(t, a)
    PROVE  AdmissionBounded'
<1>1. /\ status[t] \in Active
      /\ Live(t) \/ t \in overrun
      /\ TypeOK
  BY DEF StoreInv, HeldIsOwned, OverrunIsKnown, Renew, Start, Extends
<1>2. /\ \A u \in Tasks : u # t => status'[u] = status[u] /\ lease'[u] = lease[u]
      /\ UNCHANGED <<seen, locked, overrun>>
  BY <1>1 DEF Renew, Start, Extends, TypeOK
<1>3. LiveLeases' \subseteq LiveLeases \cup {t}
  BY <1>2 DEF LiveLeases, Live
<1>4. Admitted' \subseteq Admitted
  BY <1>1, <1>2, <1>3 DEF Admitted, LiveLeases
<1>5. InFlight' \subseteq InFlight
  BY <1>2 DEF InFlight, Idle
<1> QED
  BY <1>3, <1>4, <1>5, AdmissionShrinks

(* Nothing else makes a lease live.                                         *)
LEMMA AdmissionStep ==
    ASSUME IsFiniteSet(Claimers), StoreInv, LockedHasChosen, AdmissionBounded,
           [StoreNext]_storeVars
    PROVE  AdmissionBounded'
<1>1. TypeOK
  BY DEF StoreInv
<1> USE DEF rowVars
<1>2. CASE UNCHANGED <<status, lease, seen, locked, overrun>>
  BY <1>2, AdmissionKept DEF LiveLeases, Live, InFlight, Idle
<1>3. ASSUME NEW t \in Tasks, Enqueue(t) \/ RetryTask(t) PROVE AdmissionBounded'
  <2>1. LiveLeases' \subseteq LiveLeases
    BY <1>1, <1>3 DEF Enqueue, RetryTask, LiveLeases, Live, TypeOK, Active
  <2>2. InFlight' \subseteq InFlight /\ overrun' = overrun
    BY <1>3 DEF Enqueue, RetryTask, InFlight, Idle
  <2> QED
    BY <2>1, <2>2, AdmissionKept
<1>4. ASSUME NEW c \in Claimers, ClaimAbort(c) PROVE AdmissionBounded'
  <2>1. /\ LiveLeases' \subseteq LiveLeases /\ overrun' = overrun
        /\ InFlight' \subseteq InFlight
    BY <1>1, <1>4 DEF ClaimAbort, LiveLeases, Live, InFlight, Idle, TypeOK
  <2> QED
    BY <2>1, AdmissionKept
<1>5. ASSUME NEW c \in Claimers, NEW t \in Tasks, ClaimLock(c, t) PROVE AdmissionBounded'
  <2>1. LiveLeases' \subseteq LiveLeases /\ overrun' = overrun
    BY <1>5 DEF ClaimLock, LiveLeases, Live
  <2>2. seen[c] # {}
    BY <1>5 DEF ClaimLock, Lockable
  <2>3. InFlight' \subseteq InFlight
    BY <1>1, <1>5, <2>2 DEF ClaimLock, InFlight, Idle, TypeOK
  <2> QED
    BY <2>1, <2>3, AdmissionKept
<1>6. ASSUME NEW t \in Tasks, NEW a \in Attempts, NEW outcome \in Outcomes, Finish(t, a, outcome)
      PROVE  AdmissionBounded'
  <2>1. LiveLeases' \subseteq LiveLeases
    BY <1>1, <1>6 DEF Finish, LiveLeases, Live, TypeOK, NoLease
  <2>2. InFlight' \subseteq InFlight /\ overrun' = overrun
    BY <1>6 DEF Finish, InFlight, Idle
  <2> QED
    BY <2>1, <2>2, AdmissionKept
<1>7. ASSUME NEW t \in Tasks, NEW a \in 0..AttemptLimit, RequestCancellation(t, a)
      PROVE  AdmissionBounded'
  <2>1. LiveLeases' \subseteq LiveLeases
    BY <1>1, <1>7 DEF RequestCancellation, LiveLeases, Live, TypeOK, NoLease, Active, Queued
  <2>2. InFlight' \subseteq InFlight /\ overrun' = overrun
    BY <1>7 DEF RequestCancellation, InFlight, Idle
  <2> QED
    BY <2>1, <2>2, AdmissionKept
<1>8. ASSUME NEW batch \in SUBSET Abandoned, RecoverCancelled(batch) PROVE AdmissionBounded'
  <2>1. LiveLeases' \subseteq LiveLeases
    BY <1>8 DEF RecoverCancelled, LiveLeases, Live, NoLease
  <2>2. InFlight' \subseteq InFlight /\ overrun' = overrun
    BY <1>8 DEF RecoverCancelled, InFlight, Idle
  <2> QED
    BY <2>1, <2>2, AdmissionKept
<1>9. ASSUME Tick \/ (\E batch \in SUBSET Recoverable : RecoverExpired(batch))
      PROVE  AdmissionBounded'
  <2>1. LiveLeases' \subseteq LiveLeases
    BY <1>1, <1>9 DEF RecoverExpired, Tick, LiveLeases, Live, NoLease, TypeOK
  <2>2. InFlight' \subseteq InFlight /\ overrun \subseteq overrun'
    BY <1>9 DEF RecoverExpired, Tick, InFlight, Idle
  <2> QED
    BY <2>1, <2>2, AdmissionKept
<1> QED
  BY <1>1, <1>2, <1>3, <1>4, <1>5, <1>6, <1>7, <1>8, <1>9, SnapshotBounded, CommitBounded,
     ExtendBounded, StoreSteps
  DEF RetryDue, TxAbort, RenewCheck, StartCheck, SetTx, storeVars

(* With n processes that claim, at most n - 1 tasks more than the limit     *)
(* hold a lease that the claim admitted: each claim may overlook those that *)
(* commit between its snapshot and its lock, and nothing else adds to them. *)
(* Leases that ran out under a renewal or a start past its check, and that  *)
(* it brought back, come on top.                                            *)
THEOREM ExcessIsBounded ==
    ASSUME IsFiniteSet(Claimers), Claimers # {}
    PROVE  StoreSpec => []AdmissionBounded
<1>1. StoreInit => AdmissionBounded
  <2> SUFFICES ASSUME StoreInit PROVE AdmissionBounded
    OBVIOUS
  <2>1. LiveLeases = {} /\ Admitted = {} /\ InFlight = {}
    BY DEF StoreInit, LiveLeases, Admitted, InFlight, Idle, Active
  <2>2. Cardinality(Claimers) \in Nat \ {0}
    BY FS_CardinalityType, FS_EmptySet
  <2> QED
    BY <2>1, <2>2, FS_EmptySet, StoreAssumption DEF AdmissionBounded
<1>2. StoreInit => LockedHasChosen
  BY DEF StoreInit, LockedHasChosen
<1>3. StoreInv /\ LockedHasChosen /\ [StoreNext]_storeVars => LockedHasChosen'
  BY LockedHasChosenStep DEF StoreInv
<1>4. StoreInv /\ LockedHasChosen /\ AdmissionBounded /\ [StoreNext]_storeVars
        => AdmissionBounded'
  BY AdmissionStep
<1> QED
  BY <1>1, <1>2, <1>3, <1>4, StoreInvariant, PTL DEF StoreSpec

(* One process that claims keeps the limit, but for the leases that ran out *)
(* under a renewal or a start past its check.                               *)
THEOREM OneClaimerKeepsTheLimit ==
    ASSUME NEW c, Claimers = {c}
    PROVE  StoreSpec => []ConcurrencyRespected
<1>1. IsFiniteSet(Claimers) /\ Claimers # {} /\ Cardinality(Claimers) = 1
  BY FS_Singleton
<1>2. ASSUME AdmissionBounded PROVE ConcurrencyRespected
  <2>1. Cardinality(InFlight) \in Nat /\ Cardinality(Admitted) \in Nat
    BY <1>1, <1>2, Counted DEF AdmissionBounded
  <2> QED
    BY <1>1, <1>2, <2>1, StoreAssumption DEF AdmissionBounded, ConcurrencyRespected
<1> QED
  BY <1>1, <1>2, ExcessIsBounded, PTL
=============================================================================
