------------------------- MODULE UserDeletionProofs -------------------------
(***************************************************************************)
(* Proofs about the deletion of a user, for any number of requests and     *)
(* tasks, and however long a DELETE is under way.                          *)
(***************************************************************************)
EXTENDS UserDeletion, TLAPS

(* What the lifecycle lock protects.  A task transaction that holds it has  *)
(* found no fence; a request that holds it is about to write the fence, and *)
(* what it has read still stands.                                           *)
LockProtects ==
    /\ lock \in Tasks => fence.status \in {"none", "failed"}
    /\ \A r \in Requests : pc[r] \in {"begin", "resuming"} <=> lock = r
    /\ \A r \in Requests :
          /\ pc[r] = "begin" => fence.status \in {"none", "failed"} /\ ActiveTasks = {}
          /\ pc[r] = "resuming" => fence.status \in Open /\ ~fence.active

(* A handler about to record a deletion has read it back, and a deletion    *)
(* is not undone.                                                           *)
Confirmed ==
    \A r \in Requests :
        /\ pc[r] = "complete" => ReadsDeleted(r)
        /\ pc[r] = "completeStale" => ReadsDeleted(stale[r])

DeletionInv ==
    /\ TypeOK
    /\ LockProtects
    /\ FenceExcludesTasks
    /\ Confirmed
    /\ RecordedDeletionIsReal
    /\ AnswersAreHonest

-----------------------------------------------------------------------------
(* The steps of the system, one case each.                                  *)
LEMMA DeletionSteps ==
    ASSUME Next
    PROVE  \/ \E t \in Tasks : ActivateCommit(t)
           \/ \E t \in Tasks : Close(t)
           \/ \E t \in Tasks, s \in ActiveStatus : Activate(t, s)
           \/ \E r \in Requests : BeginFinds(r)
           \/ \E r \in Requests : BeginChecks(r)
           \/ \E r \in Requests : BeginCommit(r)
           \/ \E r \in Requests : ReconcileReadback(r)
           \/ \E r \in Requests : CompleteStale(r)
           \/ \E r \in Requests : Resume(r)
           \/ \E r \in Requests : ResumeCommit(r)
           \/ \E r \in Requests : Mark(r)
           \/ \E r \in Requests : Send(r)
           \/ \E r \in Requests : Timeout(r)
           \/ \E r \in Requests : Readback(r)
           \/ \E r \in Requests : Complete(r)
           \/ \E r \in Requests : Fail(r)
           \/ \E r \in Requests : DeleteApplied(r)
           \/ \E r \in Requests : DeleteDropped(r)
           \/ \E r \in Requests : ProxyAnswers(r)
           \/ \E r \in Requests : Crash(r)
           \/ Expire
BY DEF Next, Handler, Environment

(* Nothing changes by a stuttering step.                                    *)
LEMMA DeletionStutters ==
    ASSUME DeletionInv, UNCHANGED vars
    PROVE  DeletionInv'
BY DEF DeletionInv, TypeOK, LockProtects, FenceExcludesTasks, Confirmed,
       RecordedDeletionIsReal, AnswersAreHonest, ActiveTasks, ReadsDeleted, vars

(* With no fence row, no task and no request, the invariant holds.            *)
LEMMA DeletionInitially ==
    ASSUME Init
    PROVE  DeletionInv
<1> USE DeletionAssumption DEF Init
<1>1. TypeOK
  BY DEF TypeOK, FenceStates, TaskStatus, ActiveStatus, Places, Answers
<1>2. LockProtects
  BY DEF LockProtects
<1>3. FenceExcludesTasks
  BY DEF FenceExcludesTasks, Open
<1>4. Confirmed /\ RecordedDeletionIsReal /\ AnswersAreHonest
  BY DEF Confirmed, RecordedDeletionIsReal, AnswersAreHonest
<1> QED BY <1>1, <1>2, <1>3, <1>4 DEF DeletionInv

-----------------------------------------------------------------------------
(* The rows, the places of the handlers and their answers keep their types. *)
LEMMA DeletionTypeStep ==
    ASSUME TypeOK, Next
    PROVE  TypeOK'
<1> USE DeletionAssumption
<1> USE DEF TypeOK, Goto, Reply
<1>1. ASSUME NEW t \in Tasks, ActivateCommit(t) PROVE TypeOK'
  BY <1>1 DEF ActivateCommit, TaskStatus
<1>2. ASSUME NEW t \in Tasks, Close(t) PROVE TypeOK'
  BY <1>2 DEF Close, TaskStatus
<1>3. ASSUME NEW t \in Tasks, NEW s \in ActiveStatus, Activate(t, s) PROVE TypeOK'
  BY <1>3 DEF Activate
<1>4. ASSUME NEW r \in Requests, BeginFinds(r) PROVE TypeOK'
  BY <1>4 DEF BeginFinds, Places, Answers
<1>5. ASSUME NEW r \in Requests, BeginChecks(r) PROVE TypeOK'
  BY <1>5 DEF BeginChecks, Places, Answers
<1>6. ASSUME NEW r \in Requests, BeginCommit(r) PROVE TypeOK'
  BY <1>6 DEF BeginCommit, Requested, FenceStates, Open, Places
<1>7. ASSUME NEW r \in Requests, ReconcileReadback(r) PROVE TypeOK'
  BY <1>7 DEF ReconcileReadback, Places, Answers
<1>8. ASSUME NEW r \in Requests, CompleteStale(r) PROVE TypeOK'
  BY <1>8 DEF CompleteStale, Settle, FenceStates, Open, Places, Answers
<1>9. ASSUME NEW r \in Requests, Resume(r) PROVE TypeOK'
  BY <1>9 DEF Resume, Places, Answers
<1>10. ASSUME NEW r \in Requests, ResumeCommit(r) PROVE TypeOK'
  BY <1>10 DEF ResumeCommit, Requested, FenceStates, Open, Places
<1>11. ASSUME NEW r \in Requests, Mark(r) PROVE TypeOK'
  <2>1. CASE fence' = fence
    BY <1>11, <2>1 DEF Mark, Markable, Places, Answers
  <2>2. CASE fence' = [status |-> "deleting", op |-> r, active |-> TRUE]
    BY <1>11, <2>2 DEF Mark, Markable, FenceStates, Open, Places, Answers
  <2> QED BY <1>11, <2>1, <2>2 DEF Mark, Markable
<1>12. ASSUME NEW r \in Requests, Send(r) PROVE TypeOK'
  BY <1>12 DEF Send, Places
<1>13. ASSUME NEW r \in Requests, Timeout(r) PROVE TypeOK'
  BY <1>13 DEF Timeout, Places
<1>14. ASSUME NEW r \in Requests, Readback(r) PROVE TypeOK'
  BY <1>14 DEF Readback, Places, Answers
<1>15. ASSUME NEW r \in Requests, Complete(r) PROVE TypeOK'
  BY <1>15 DEF Complete, Settle, FenceStates, Open, Places, Answers
<1>16. ASSUME NEW r \in Requests, Fail(r) PROVE TypeOK'
  BY <1>16 DEF Fail, Settle, FenceStates, Open, Places, Answers
<1>17. ASSUME NEW r \in Requests, DeleteApplied(r) PROVE TypeOK'
  BY <1>17 DEF DeleteApplied, Responds, Places
<1>18. ASSUME NEW r \in Requests, DeleteDropped(r) PROVE TypeOK'
  BY <1>18 DEF DeleteDropped, Responds, Places
<1>19. ASSUME NEW r \in Requests, ProxyAnswers(r) PROVE TypeOK'
  BY <1>19 DEF ProxyAnswers, Places
<1>20. ASSUME NEW r \in Requests, Crash(r) PROVE TypeOK'
  BY <1>20 DEF Crash, LockAfter, Places
<1>21. CASE Expire
  BY <1>21 DEF Expire
<1> QED
  BY <1>1, <1>2, <1>3, <1>4, <1>5, <1>6, <1>7, <1>8, <1>9, <1>10, <1>11, <1>12,
     <1>13, <1>14, <1>15, <1>16, <1>17, <1>18, <1>19, <1>20, <1>21, DeletionSteps

-----------------------------------------------------------------------------
(* The lock keeps what its holder has read: the transaction of a task sees  *)
(* no fence, that of a request no active task or an expired operation,      *)
(* until it commits or rolls back.                                          *)
LEMMA LockProtectsStep ==
    ASSUME DeletionInv, Next
    PROVE  LockProtects'
<1> USE DeletionAssumption
<1> USE DEF DeletionInv, TypeOK, LockProtects, Goto, Reply, Open
<1>1. ASSUME NEW t \in Tasks, ActivateCommit(t) PROVE LockProtects'
  BY <1>1 DEF ActivateCommit, ActiveTasks
<1>2. ASSUME NEW t \in Tasks, Close(t) PROVE LockProtects'
  BY <1>2 DEF Close, ActiveTasks
<1>3. ASSUME NEW t \in Tasks, NEW s \in ActiveStatus, Activate(t, s) PROVE LockProtects'
  BY <1>3 DEF Activate, Fenced, Activation, FenceStates, ActiveTasks
<1>4. ASSUME NEW r \in Requests, BeginFinds(r) PROVE LockProtects'
  BY <1>4 DEF BeginFinds, AlreadyDeleted, ActiveTasks
<1>5. ASSUME NEW r \in Requests, BeginChecks(r) PROVE LockProtects'
  BY <1>5 DEF BeginChecks, ActiveTasks
<1>6. ASSUME NEW r \in Requests, BeginCommit(r) PROVE LockProtects'
  BY <1>6 DEF BeginCommit, Requested, ActiveTasks
<1>7. ASSUME NEW r \in Requests, ReconcileReadback(r) PROVE LockProtects'
  BY <1>7 DEF ReconcileReadback, ActiveTasks
<1>8. ASSUME NEW r \in Requests, CompleteStale(r) PROVE LockProtects'
  BY <1>8 DEF CompleteStale, Settle, RowFree, ActiveTasks
<1>9. ASSUME NEW r \in Requests, Resume(r) PROVE LockProtects'
  BY <1>9 DEF Resume, Resumable, ActiveTasks
<1>10. ASSUME NEW r \in Requests, ResumeCommit(r) PROVE LockProtects'
  BY <1>10 DEF ResumeCommit, Requested, ActiveTasks
<1>11. ASSUME NEW r \in Requests, Mark(r) PROVE LockProtects'
  BY <1>11 DEF Mark, Markable, RowFree, ActiveTasks
<1>12. ASSUME NEW r \in Requests, Send(r) PROVE LockProtects'
  BY <1>12 DEF Send, ActiveTasks
<1>13. ASSUME NEW r \in Requests, Timeout(r) PROVE LockProtects'
  BY <1>13 DEF Timeout, ActiveTasks
<1>14. ASSUME NEW r \in Requests, Readback(r) PROVE LockProtects'
  BY <1>14 DEF Readback, ActiveTasks
<1>15. ASSUME NEW r \in Requests, Complete(r) PROVE LockProtects'
  BY <1>15 DEF Complete, Settle, RowFree, ActiveTasks
<1>16. ASSUME NEW r \in Requests, Fail(r) PROVE LockProtects'
  BY <1>16 DEF Fail, Settle, RowFree, ActiveTasks
<1>17. ASSUME NEW r \in Requests, DeleteApplied(r) PROVE LockProtects'
  BY <1>17 DEF DeleteApplied, Responds, ActiveTasks
<1>18. ASSUME NEW r \in Requests, DeleteDropped(r) PROVE LockProtects'
  BY <1>18 DEF DeleteDropped, Responds, ActiveTasks
<1>19. ASSUME NEW r \in Requests, ProxyAnswers(r) PROVE LockProtects'
  BY <1>19 DEF ProxyAnswers, ActiveTasks
<1>20. ASSUME NEW r \in Requests, Crash(r) PROVE LockProtects'
  BY <1>20 DEF Crash, LockAfter, ActiveTasks
<1>21. CASE Expire
  BY <1>21 DEF Expire, ActiveTasks
<1> QED
  BY <1>1, <1>2, <1>3, <1>4, <1>5, <1>6, <1>7, <1>8, <1>9, <1>10, <1>11, <1>12,
     <1>13, <1>14, <1>15, <1>16, <1>17, <1>18, <1>19, <1>20, <1>21, DeletionSteps

(* Deletions are not undone, and only a read-back leads to a completion.    *)
LEMMA ConfirmedStep ==
    ASSUME DeletionInv, Next
    PROVE  Confirmed'
<1> USE DeletionAssumption
<1> USE DEF DeletionInv, TypeOK, Confirmed, Goto, Reply, ReadsDeleted
<1>1. ASSUME NEW t \in Tasks, ActivateCommit(t) PROVE Confirmed'
  BY <1>1 DEF ActivateCommit
<1>2. ASSUME NEW t \in Tasks, Close(t) PROVE Confirmed'
  BY <1>2 DEF Close
<1>3. ASSUME NEW t \in Tasks, NEW s \in ActiveStatus, Activate(t, s) PROVE Confirmed'
  BY <1>3 DEF Activate, Fenced, Activation
<1>4. ASSUME NEW r \in Requests, BeginFinds(r) PROVE Confirmed'
  BY <1>4 DEF BeginFinds, AlreadyDeleted
<1>5. ASSUME NEW r \in Requests, BeginChecks(r) PROVE Confirmed'
  BY <1>5 DEF BeginChecks
<1>6. ASSUME NEW r \in Requests, BeginCommit(r) PROVE Confirmed'
  BY <1>6 DEF BeginCommit, Requested
<1>7. ASSUME NEW r \in Requests, ReconcileReadback(r) PROVE Confirmed'
  BY <1>7 DEF ReconcileReadback
<1>8. ASSUME NEW r \in Requests, CompleteStale(r) PROVE Confirmed'
  BY <1>8 DEF CompleteStale, Settle, RowFree
<1>9. ASSUME NEW r \in Requests, Resume(r) PROVE Confirmed'
  BY <1>9 DEF Resume, Resumable
<1>10. ASSUME NEW r \in Requests, ResumeCommit(r) PROVE Confirmed'
  BY <1>10 DEF ResumeCommit, Requested
<1>11. ASSUME NEW r \in Requests, Mark(r) PROVE Confirmed'
  BY <1>11 DEF Mark, Markable, RowFree
<1>12. ASSUME NEW r \in Requests, Send(r) PROVE Confirmed'
  BY <1>12 DEF Send
<1>13. ASSUME NEW r \in Requests, Timeout(r) PROVE Confirmed'
  BY <1>13 DEF Timeout
<1>14. ASSUME NEW r \in Requests, Readback(r) PROVE Confirmed'
  BY <1>14 DEF Readback
<1>15. ASSUME NEW r \in Requests, Complete(r) PROVE Confirmed'
  BY <1>15 DEF Complete, Settle, RowFree
<1>16. ASSUME NEW r \in Requests, Fail(r) PROVE Confirmed'
  BY <1>16 DEF Fail, Settle, RowFree
<1>17. ASSUME NEW r \in Requests, DeleteApplied(r) PROVE Confirmed'
  BY <1>17 DEF DeleteApplied, Responds
<1>18. ASSUME NEW r \in Requests, DeleteDropped(r) PROVE Confirmed'
  BY <1>18 DEF DeleteDropped, Responds
<1>19. ASSUME NEW r \in Requests, ProxyAnswers(r) PROVE Confirmed'
  BY <1>19 DEF ProxyAnswers
<1>20. ASSUME NEW r \in Requests, Crash(r) PROVE Confirmed'
  BY <1>20 DEF Crash, LockAfter
<1>21. CASE Expire
  BY <1>21 DEF Expire
<1> QED
  BY <1>1, <1>2, <1>3, <1>4, <1>5, <1>6, <1>7, <1>8, <1>9, <1>10, <1>11, <1>12,
     <1>13, <1>14, <1>15, <1>16, <1>17, <1>18, <1>19, <1>20, <1>21, DeletionSteps

(* No activation passes a fence and no fence is written over an active      *)
(* task.                                                                    *)
LEMMA FenceExcludesTasksStep ==
    ASSUME DeletionInv, Next
    PROVE  FenceExcludesTasks'
<1> USE DeletionAssumption
<1> USE DEF DeletionInv, TypeOK, LockProtects, FenceExcludesTasks, ActiveTasks, Open
<1>1. ASSUME NEW t \in Tasks, ActivateCommit(t) PROVE FenceExcludesTasks'
  BY <1>1 DEF ActivateCommit
<1>2. ASSUME NEW t \in Tasks, Close(t) PROVE FenceExcludesTasks'
  BY <1>2 DEF Close
<1>3. ASSUME NEW t \in Tasks, NEW s \in ActiveStatus, Activate(t, s) PROVE FenceExcludesTasks'
  BY <1>3 DEF Activate, Fenced, Activation
<1>4. ASSUME NEW r \in Requests, BeginFinds(r) PROVE FenceExcludesTasks'
  BY <1>4 DEF BeginFinds, AlreadyDeleted
<1>5. ASSUME NEW r \in Requests, BeginChecks(r) PROVE FenceExcludesTasks'
  BY <1>5 DEF BeginChecks
<1>6. ASSUME NEW r \in Requests, BeginCommit(r) PROVE FenceExcludesTasks'
  BY <1>6 DEF BeginCommit, Requested
<1>7. ASSUME NEW r \in Requests, ReconcileReadback(r) PROVE FenceExcludesTasks'
  BY <1>7 DEF ReconcileReadback
<1>8. ASSUME NEW r \in Requests, CompleteStale(r) PROVE FenceExcludesTasks'
  BY <1>8 DEF CompleteStale, Settle, RowFree
<1>9. ASSUME NEW r \in Requests, Resume(r) PROVE FenceExcludesTasks'
  BY <1>9 DEF Resume, Resumable
<1>10. ASSUME NEW r \in Requests, ResumeCommit(r) PROVE FenceExcludesTasks'
  BY <1>10 DEF ResumeCommit, Requested
<1>11. ASSUME NEW r \in Requests, Mark(r) PROVE FenceExcludesTasks'
  BY <1>11 DEF Mark, Markable, RowFree
<1>12. ASSUME NEW r \in Requests, Send(r) PROVE FenceExcludesTasks'
  BY <1>12 DEF Send
<1>13. ASSUME NEW r \in Requests, Timeout(r) PROVE FenceExcludesTasks'
  BY <1>13 DEF Timeout
<1>14. ASSUME NEW r \in Requests, Readback(r) PROVE FenceExcludesTasks'
  BY <1>14 DEF Readback
<1>15. ASSUME NEW r \in Requests, Complete(r) PROVE FenceExcludesTasks'
  BY <1>15 DEF Complete, Settle, RowFree
<1>16. ASSUME NEW r \in Requests, Fail(r) PROVE FenceExcludesTasks'
  BY <1>16 DEF Fail, Settle, RowFree
<1>17. ASSUME NEW r \in Requests, DeleteApplied(r) PROVE FenceExcludesTasks'
  BY <1>17 DEF DeleteApplied, Responds
<1>18. ASSUME NEW r \in Requests, DeleteDropped(r) PROVE FenceExcludesTasks'
  BY <1>18 DEF DeleteDropped, Responds
<1>19. ASSUME NEW r \in Requests, ProxyAnswers(r) PROVE FenceExcludesTasks'
  BY <1>19 DEF ProxyAnswers
<1>20. ASSUME NEW r \in Requests, Crash(r) PROVE FenceExcludesTasks'
  BY <1>20 DEF Crash, LockAfter
<1>21. CASE Expire
  BY <1>21 DEF Expire
<1> QED
  BY <1>1, <1>2, <1>3, <1>4, <1>5, <1>6, <1>7, <1>8, <1>9, <1>10, <1>11, <1>12,
     <1>13, <1>14, <1>15, <1>16, <1>17, <1>18, <1>19, <1>20, <1>21, DeletionSteps

(* What is recorded, and what clients are told, was read back.              *)
LEMMA HonestStep ==
    ASSUME DeletionInv, Next
    PROVE  RecordedDeletionIsReal' /\ AnswersAreHonest'
<1> USE DeletionAssumption
<1> USE DEF DeletionInv, TypeOK, LockProtects, Confirmed, RecordedDeletionIsReal,
            AnswersAreHonest, Goto, Reply, Open
<1>1. ASSUME NEW t \in Tasks, ActivateCommit(t) PROVE RecordedDeletionIsReal' /\ AnswersAreHonest'
  BY <1>1 DEF ActivateCommit
<1>2. ASSUME NEW t \in Tasks, Close(t) PROVE RecordedDeletionIsReal' /\ AnswersAreHonest'
  BY <1>2 DEF Close
<1>3. ASSUME NEW t \in Tasks, NEW s \in ActiveStatus, Activate(t, s) PROVE RecordedDeletionIsReal' /\ AnswersAreHonest'
  BY <1>3 DEF Activate, Fenced, Activation
<1>4. ASSUME NEW r \in Requests, BeginFinds(r) PROVE RecordedDeletionIsReal' /\ AnswersAreHonest'
  BY <1>4 DEF BeginFinds, AlreadyDeleted
<1>5. ASSUME NEW r \in Requests, BeginChecks(r) PROVE RecordedDeletionIsReal' /\ AnswersAreHonest'
  BY <1>5 DEF BeginChecks
<1>6. ASSUME NEW r \in Requests, BeginCommit(r) PROVE RecordedDeletionIsReal' /\ AnswersAreHonest'
  BY <1>6 DEF BeginCommit, Requested
<1>7. ASSUME NEW r \in Requests, ReconcileReadback(r) PROVE RecordedDeletionIsReal' /\ AnswersAreHonest'
  BY <1>7 DEF ReconcileReadback
<1>8. ASSUME NEW r \in Requests, CompleteStale(r) PROVE RecordedDeletionIsReal' /\ AnswersAreHonest'
  BY <1>8 DEF CompleteStale, Settle, RowFree, ReadsDeleted
<1>9. ASSUME NEW r \in Requests, Resume(r) PROVE RecordedDeletionIsReal' /\ AnswersAreHonest'
  BY <1>9 DEF Resume, Resumable
<1>10. ASSUME NEW r \in Requests, ResumeCommit(r) PROVE RecordedDeletionIsReal' /\ AnswersAreHonest'
  BY <1>10 DEF ResumeCommit, Requested
<1>11. ASSUME NEW r \in Requests, Mark(r) PROVE RecordedDeletionIsReal' /\ AnswersAreHonest'
  BY <1>11 DEF Mark, Markable, RowFree
<1>12. ASSUME NEW r \in Requests, Send(r) PROVE RecordedDeletionIsReal' /\ AnswersAreHonest'
  BY <1>12 DEF Send
<1>13. ASSUME NEW r \in Requests, Timeout(r) PROVE RecordedDeletionIsReal' /\ AnswersAreHonest'
  BY <1>13 DEF Timeout
<1>14. ASSUME NEW r \in Requests, Readback(r) PROVE RecordedDeletionIsReal' /\ AnswersAreHonest'
  BY <1>14 DEF Readback
<1>15. ASSUME NEW r \in Requests, Complete(r) PROVE RecordedDeletionIsReal' /\ AnswersAreHonest'
  BY <1>15 DEF Complete, Settle, RowFree, ReadsDeleted
<1>16. ASSUME NEW r \in Requests, Fail(r) PROVE RecordedDeletionIsReal' /\ AnswersAreHonest'
  BY <1>16 DEF Fail, Settle, RowFree
<1>17. ASSUME NEW r \in Requests, DeleteApplied(r) PROVE RecordedDeletionIsReal' /\ AnswersAreHonest'
  BY <1>17 DEF DeleteApplied, Responds
<1>18. ASSUME NEW r \in Requests, DeleteDropped(r) PROVE RecordedDeletionIsReal' /\ AnswersAreHonest'
  BY <1>18 DEF DeleteDropped, Responds
<1>19. ASSUME NEW r \in Requests, ProxyAnswers(r) PROVE RecordedDeletionIsReal' /\ AnswersAreHonest'
  BY <1>19 DEF ProxyAnswers
<1>20. ASSUME NEW r \in Requests, Crash(r) PROVE RecordedDeletionIsReal' /\ AnswersAreHonest'
  BY <1>20 DEF Crash, LockAfter
<1>21. CASE Expire
  BY <1>21 DEF Expire
<1> QED
  BY <1>1, <1>2, <1>3, <1>4, <1>5, <1>6, <1>7, <1>8, <1>9, <1>10, <1>11, <1>12,
     <1>13, <1>14, <1>15, <1>16, <1>17, <1>18, <1>19, <1>20, <1>21, DeletionSteps

-----------------------------------------------------------------------------
(* No handler, trigger or GoTrue step breaks the invariant.                   *)
LEMMA DeletionInvStep ==
    ASSUME DeletionInv, [Next]_vars
    PROVE  DeletionInv'
<1>1. CASE Next
  BY <1>1, DeletionTypeStep, LockProtectsStep, ConfirmedStep, FenceExcludesTasksStep,
     HonestStep DEF DeletionInv
<1>2. CASE UNCHANGED vars
  BY <1>2, DeletionStutters
<1> QED BY <1>1, <1>2

(* DeletionInv is an inductive invariant of the deletion protocol.          *)
THEOREM DeletionInvariant == Spec => []DeletionInv
<1>1. Init => DeletionInv
  BY DeletionInitially
<1>2. DeletionInv /\ [Next]_vars => DeletionInv'
  BY DeletionInvStep
<1> QED BY <1>1, <1>2, PTL DEF Spec

(* The fence row, the handlers and their answers keep their types, and no   *)
(* task of a user is active while a deletion of the user is requested,      *)
(* under way or done, for any number of requests and tasks: the trigger of  *)
(* project_tasks never raises for a task that was active already.           *)
THEOREM FenceSeparates == Spec => []FenceConsistent
<1>1. DeletionInv => FenceConsistent
  BY DEF DeletionInv, FenceConsistent
<1> QED BY <1>1, DeletionInvariant, PTL

(* completeUserDeletion records only deletions that took place, even for an *)
(* operation that another request reconciles.                               *)
THEOREM RecordsAreReal == Spec => []RecordedDeletionIsReal
<1>1. DeletionInv => RecordedDeletionIsReal
  BY DEF DeletionInv
<1> QED BY <1>1, DeletionInvariant, PTL

(* A client that is told of a deletion is told the truth.                   *)
THEOREM ClientsAreToldTheTruth == Spec => []AnswersAreHonest
<1>1. DeletionInv => AnswersAreHonest
  BY DEF DeletionInv
<1> QED BY <1>1, DeletionInvariant, PTL

-----------------------------------------------------------------------------
(* A live operation keeps the fence and a finished deletion is final.       *)
LEMMA OperationKeptStep ==
    ASSUME DeletionInv, [Next]_vars
    PROVE  [/\ fence.status = "deleted" => fence' = fence
            /\ fence.status \in Open /\ fence.active => fence'.op = fence.op]_vars
<1> DEFINE Kept ==
      /\ fence.status = "deleted" => fence' = fence
      /\ fence.status \in Open /\ fence.active => fence'.op = fence.op
<1>0. SUFFICES ASSUME Next PROVE Kept
  BY <1>0
<1> USE DEF DeletionInv, TypeOK, LockProtects, Open
<1>1. ASSUME NEW t \in Tasks, ActivateCommit(t) PROVE Kept
  BY <1>1 DEF ActivateCommit
<1>2. ASSUME NEW t \in Tasks, Close(t) PROVE Kept
  BY <1>2 DEF Close
<1>3. ASSUME NEW t \in Tasks, NEW s \in ActiveStatus, Activate(t, s) PROVE Kept
  BY <1>3 DEF Activate
<1>4. ASSUME NEW r \in Requests, BeginFinds(r) PROVE Kept
  BY <1>4 DEF BeginFinds, AlreadyDeleted
<1>5. ASSUME NEW r \in Requests, BeginChecks(r) PROVE Kept
  BY <1>5 DEF BeginChecks
<1>6. ASSUME NEW r \in Requests, BeginCommit(r) PROVE Kept
  BY <1>6 DEF BeginCommit, Requested
<1>7. ASSUME NEW r \in Requests, ReconcileReadback(r) PROVE Kept
  BY <1>7 DEF ReconcileReadback
<1>8. ASSUME NEW r \in Requests, CompleteStale(r) PROVE Kept
  BY <1>8 DEF CompleteStale, Settle
<1>9. ASSUME NEW r \in Requests, Resume(r) PROVE Kept
  BY <1>9 DEF Resume, Resumable
<1>10. ASSUME NEW r \in Requests, ResumeCommit(r) PROVE Kept
  BY <1>10 DEF ResumeCommit, Requested
<1>11. ASSUME NEW r \in Requests, Mark(r) PROVE Kept
  BY <1>11 DEF Mark, Markable
<1>12. ASSUME NEW r \in Requests, Send(r) PROVE Kept
  BY <1>12 DEF Send
<1>13. ASSUME NEW r \in Requests, Timeout(r) PROVE Kept
  BY <1>13 DEF Timeout
<1>14. ASSUME NEW r \in Requests, Readback(r) PROVE Kept
  BY <1>14 DEF Readback
<1>15. ASSUME NEW r \in Requests, Complete(r) PROVE Kept
  BY <1>15 DEF Complete, Settle
<1>16. ASSUME NEW r \in Requests, Fail(r) PROVE Kept
  BY <1>16 DEF Fail, Settle
<1>17. ASSUME NEW r \in Requests, DeleteApplied(r) PROVE Kept
  BY <1>17 DEF DeleteApplied, Responds
<1>18. ASSUME NEW r \in Requests, DeleteDropped(r) PROVE Kept
  BY <1>18 DEF DeleteDropped, Responds
<1>19. ASSUME NEW r \in Requests, ProxyAnswers(r) PROVE Kept
  BY <1>19 DEF ProxyAnswers
<1>20. ASSUME NEW r \in Requests, Crash(r) PROVE Kept
  BY <1>20 DEF Crash, LockAfter
<1>21. CASE Expire
  BY <1>21 DEF Expire
<1> QED
  BY <1>0, <1>1, <1>2, <1>3, <1>4, <1>5, <1>6, <1>7, <1>8, <1>9, <1>10, <1>11, <1>12,
     <1>13, <1>14, <1>15, <1>16, <1>17, <1>18, <1>19, <1>20, <1>21, DeletionSteps

(* No request takes the fence from an operation whose lease runs, and       *)
(* nothing changes a finished deletion.                                     *)
THEOREM OperationsAreFenced == Spec => OperationKept
<1>1. DeletionInv /\ [Next]_vars =>
         [/\ fence.status = "deleted" => fence' = fence
          /\ fence.status \in Open /\ fence.active => fence'.op = fence.op]_vars
  BY OperationKeptStep
<1> QED BY <1>1, DeletionInvariant, PTL DEF Spec, OperationKept
=============================================================================
