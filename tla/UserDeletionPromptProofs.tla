----------------------- MODULE UserDeletionPromptProofs -----------------------
(***************************************************************************)
(* What the fence is for, proved for as long as the environment is timely: *)
(* no DELETE has outlived the operation it was sent under, and no proxy    *)
(* has answered one.  The user is then never deleted while one of its      *)
(* tasks is active, and two DELETEs are never under way together.          *)
(***************************************************************************)
EXTENDS UserDeletionProofs, FiniteSetTheorems

(* Where the handler of an operation that has held the fence may be.        *)
Past == {"mark", "send", "await", "verify", "verifyBlind", "fail", "complete",
         "done", "dead"}

Reconciling == {"reconcile", "completeStale", "resume", "resuming"}

(* An operation id that was written, or read, is never minted again.        *)
IdsAreSpent ==
    /\ fence.op \in Requests => pc[fence.op] \in Past
    /\ \A r \in Requests : stale[r] \in Requests => pc[stale[r]] \in Past
    /\ \A r \in Requests : pc[r] \in Reconciling => stale[r] \in Requests

(* An operation that was found expired is never renewed.                    *)
StaleStaysExpired ==
    \A r \in Requests :
        fence.op = stale[r] /\ fence.status \in Open => ~fence.active

(* Whoever may still have the user deleted owns an active fence.            *)
SenderOwnsFence ==
    \A r \in Requests :
        r \in inflight \/ pc[r] \in {"send", "await"} =>
            fence.op = r /\ fence.status = "deleting" /\ fence.active

(* A handler that had a response has no DELETE under way.                   *)
ResponseIsFinal ==
    \A r \in inflight : pc[r] \in {"await", "verifyBlind", "done", "dead"}

(* A deleted user is behind a fence whose own operation deleted it, and no  *)
(* further DELETE is to come.                                               *)
DeletedBehindFence ==
    user # "active" =>
        /\ inflight = {}
        /\ fence.status \in {"deleting", "deleted"}
        /\ ReadsDeleted(fence.op)
        /\ \A r \in Requests : pc[r] # "send"

(* What a read-back found of the fence's own operation stays true.          *)
VerdictStands ==
    \A r \in Requests :
        /\ pc[r] = "fail" /\ fence.op = r /\ fence.status \in Open => user = "active"
        /\ /\ pc[r] \in {"resume", "resuming"}
           /\ fence.op = stale[r]
           /\ fence.status \in Open
           => user = "active"
        /\ pc[r] = "resuming" => fence.op = stale[r]

PromptInv ==
    /\ IdsAreSpent
    /\ StaleStaysExpired
    /\ SenderOwnsFence
    /\ ResponseIsFinal
    /\ DeletedBehindFence
    /\ VerdictStands

-----------------------------------------------------------------------------
(* The additional invariant holds before the first request.                   *)
LEMMA PromptInitially ==
    ASSUME Init
    PROVE  PromptInv
BY DeletionAssumption
DEF Init, PromptInv, IdsAreSpent, StaleStaysExpired, SenderOwnsFence, ResponseIsFinal,
    DeletedBehindFence, VerdictStands, Reconciling, Open

(* It speaks of the variables only, so it survives steps of others.           *)
LEMMA PromptStutters ==
    ASSUME PromptInv, UNCHANGED vars
    PROVE  PromptInv'
BY DEF PromptInv, IdsAreSpent, StaleStaysExpired, SenderOwnsFence, ResponseIsFinal,
       DeletedBehindFence, VerdictStands, ReadsDeleted, vars

(* A handler never goes back to where it mints an id.                       *)
LEMMA IdsAreSpentStep ==
    ASSUME DeletionInv, PromptInv, timely', Next
    PROVE  IdsAreSpent'
<1> USE DeletionAssumption
<1> USE DEF DeletionInv, TypeOK, LockProtects, PromptInv, Open, Goto, Reply,
            IdsAreSpent, Past, Reconciling
<1>1. ASSUME NEW t \in Tasks, ActivateCommit(t) PROVE IdsAreSpent'
  BY <1>1 DEF ActivateCommit
<1>2. ASSUME NEW t \in Tasks, Close(t) PROVE IdsAreSpent'
  BY <1>2 DEF Close
<1>3. ASSUME NEW t \in Tasks, NEW s \in ActiveStatus, Activate(t, s) PROVE IdsAreSpent'
  BY <1>3 DEF Activate
<1>4. ASSUME NEW r \in Requests, BeginFinds(r) PROVE IdsAreSpent'
  BY <1>4 DEF BeginFinds, AlreadyDeleted
<1>5. ASSUME NEW r \in Requests, BeginChecks(r) PROVE IdsAreSpent'
  BY <1>5 DEF BeginChecks
<1>6. ASSUME NEW r \in Requests, BeginCommit(r) PROVE IdsAreSpent'
  BY <1>6 DEF BeginCommit, Requested
<1>7. ASSUME NEW r \in Requests, ReconcileReadback(r) PROVE IdsAreSpent'
  BY <1>7 DEF ReconcileReadback
<1>8. ASSUME NEW r \in Requests, CompleteStale(r) PROVE IdsAreSpent'
  BY <1>8 DEF CompleteStale, Settle
<1>9. ASSUME NEW r \in Requests, Resume(r) PROVE IdsAreSpent'
  BY <1>9 DEF Resume, Resumable
<1>10. ASSUME NEW r \in Requests, ResumeCommit(r) PROVE IdsAreSpent'
  BY <1>10 DEF ResumeCommit, Requested
<1>11. ASSUME NEW r \in Requests, Mark(r) PROVE IdsAreSpent'
  BY <1>11 DEF Mark, Markable
<1>12. ASSUME NEW r \in Requests, Send(r) PROVE IdsAreSpent'
  BY <1>12 DEF Send
<1>13. ASSUME NEW r \in Requests, Timeout(r) PROVE IdsAreSpent'
  BY <1>13 DEF Timeout
<1>14. ASSUME NEW r \in Requests, Readback(r) PROVE IdsAreSpent'
  BY <1>14 DEF Readback
<1>15. ASSUME NEW r \in Requests, Complete(r) PROVE IdsAreSpent'
  BY <1>15 DEF Complete, Settle
<1>16. ASSUME NEW r \in Requests, Fail(r) PROVE IdsAreSpent'
  BY <1>16 DEF Fail, Settle
<1>17. ASSUME NEW r \in Requests, DeleteApplied(r) PROVE IdsAreSpent'
  BY <1>17 DEF DeleteApplied, Responds
<1>18. ASSUME NEW r \in Requests, DeleteDropped(r) PROVE IdsAreSpent'
  BY <1>18 DEF DeleteDropped, Responds
<1>19. ASSUME NEW r \in Requests, ProxyAnswers(r) PROVE IdsAreSpent'
  BY <1>19 DEF ProxyAnswers
<1>20. ASSUME NEW r \in Requests, Crash(r) PROVE IdsAreSpent'
  BY <1>20 DEF Crash, LockAfter
<1>21. CASE Expire
  BY <1>21 DEF Expire
<1> QED
  BY <1>1, <1>2, <1>3, <1>4, <1>5, <1>6, <1>7, <1>8, <1>9, <1>10, <1>11, <1>12,
     <1>13, <1>14, <1>15, <1>16, <1>17, <1>18, <1>19, <1>20, <1>21, DeletionSteps

(* Only an operation that is active is renewed.                             *)
LEMMA StaleStaysExpiredStep ==
    ASSUME DeletionInv, PromptInv, timely', Next
    PROVE  StaleStaysExpired'
<1> USE DeletionAssumption
<1> USE DEF DeletionInv, TypeOK, LockProtects, PromptInv, Open, Goto, Reply,
            IdsAreSpent, Past, StaleStaysExpired
<1>1. ASSUME NEW t \in Tasks, ActivateCommit(t) PROVE StaleStaysExpired'
  BY <1>1 DEF ActivateCommit
<1>2. ASSUME NEW t \in Tasks, Close(t) PROVE StaleStaysExpired'
  BY <1>2 DEF Close
<1>3. ASSUME NEW t \in Tasks, NEW s \in ActiveStatus, Activate(t, s) PROVE StaleStaysExpired'
  BY <1>3 DEF Activate
<1>4. ASSUME NEW r \in Requests, BeginFinds(r) PROVE StaleStaysExpired'
  BY <1>4 DEF BeginFinds, AlreadyDeleted
<1>5. ASSUME NEW r \in Requests, BeginChecks(r) PROVE StaleStaysExpired'
  BY <1>5 DEF BeginChecks
<1>6. ASSUME NEW r \in Requests, BeginCommit(r) PROVE StaleStaysExpired'
  BY <1>6 DEF BeginCommit, Requested
<1>7. ASSUME NEW r \in Requests, ReconcileReadback(r) PROVE StaleStaysExpired'
  BY <1>7 DEF ReconcileReadback
<1>8. ASSUME NEW r \in Requests, CompleteStale(r) PROVE StaleStaysExpired'
  BY <1>8 DEF CompleteStale, Settle
<1>9. ASSUME NEW r \in Requests, Resume(r) PROVE StaleStaysExpired'
  BY <1>9 DEF Resume, Resumable
<1>10. ASSUME NEW r \in Requests, ResumeCommit(r) PROVE StaleStaysExpired'
  BY <1>10 DEF ResumeCommit, Requested
<1>11. ASSUME NEW r \in Requests, Mark(r) PROVE StaleStaysExpired'
  BY <1>11 DEF Mark, Markable
<1>12. ASSUME NEW r \in Requests, Send(r) PROVE StaleStaysExpired'
  BY <1>12 DEF Send
<1>13. ASSUME NEW r \in Requests, Timeout(r) PROVE StaleStaysExpired'
  BY <1>13 DEF Timeout
<1>14. ASSUME NEW r \in Requests, Readback(r) PROVE StaleStaysExpired'
  BY <1>14 DEF Readback
<1>15. ASSUME NEW r \in Requests, Complete(r) PROVE StaleStaysExpired'
  BY <1>15 DEF Complete, Settle
<1>16. ASSUME NEW r \in Requests, Fail(r) PROVE StaleStaysExpired'
  BY <1>16 DEF Fail, Settle
<1>17. ASSUME NEW r \in Requests, DeleteApplied(r) PROVE StaleStaysExpired'
  BY <1>17 DEF DeleteApplied, Responds
<1>18. ASSUME NEW r \in Requests, DeleteDropped(r) PROVE StaleStaysExpired'
  BY <1>18 DEF DeleteDropped, Responds
<1>19. ASSUME NEW r \in Requests, ProxyAnswers(r) PROVE StaleStaysExpired'
  BY <1>19 DEF ProxyAnswers
<1>20. ASSUME NEW r \in Requests, Crash(r) PROVE StaleStaysExpired'
  BY <1>20 DEF Crash, LockAfter
<1>21. CASE Expire
  BY <1>21 DEF Expire
<1> QED
  BY <1>1, <1>2, <1>3, <1>4, <1>5, <1>6, <1>7, <1>8, <1>9, <1>10, <1>11, <1>12,
     <1>13, <1>14, <1>15, <1>16, <1>17, <1>18, <1>19, <1>20, <1>21, DeletionSteps

(* The fence is not taken, settled or left to expire under a sender.        *)
LEMMA SenderOwnsFenceStep ==
    ASSUME DeletionInv, PromptInv, timely', Next
    PROVE  SenderOwnsFence'
<1> USE DeletionAssumption
<1> USE DEF DeletionInv, TypeOK, LockProtects, PromptInv, Open, Goto, Reply,
            Confirmed, ReadsDeleted, IdsAreSpent, Past, Reconciling, StaleStaysExpired,
            SenderOwnsFence, ResponseIsFinal, DeletedBehindFence
<1>1. ASSUME NEW t \in Tasks, ActivateCommit(t) PROVE SenderOwnsFence'
  BY <1>1 DEF ActivateCommit
<1>2. ASSUME NEW t \in Tasks, Close(t) PROVE SenderOwnsFence'
  BY <1>2 DEF Close
<1>3. ASSUME NEW t \in Tasks, NEW s \in ActiveStatus, Activate(t, s) PROVE SenderOwnsFence'
  BY <1>3 DEF Activate
<1>4. ASSUME NEW r \in Requests, BeginFinds(r) PROVE SenderOwnsFence'
  BY <1>4 DEF BeginFinds, AlreadyDeleted
<1>5. ASSUME NEW r \in Requests, BeginChecks(r) PROVE SenderOwnsFence'
  BY <1>5 DEF BeginChecks
<1>6. ASSUME NEW r \in Requests, BeginCommit(r) PROVE SenderOwnsFence'
  BY <1>6 DEF BeginCommit, Requested
<1>7. ASSUME NEW r \in Requests, ReconcileReadback(r) PROVE SenderOwnsFence'
  BY <1>7 DEF ReconcileReadback
<1>8. ASSUME NEW r \in Requests, CompleteStale(r) PROVE SenderOwnsFence'
  BY <1>8 DEF CompleteStale, Settle
<1>9. ASSUME NEW r \in Requests, Resume(r) PROVE SenderOwnsFence'
  BY <1>9 DEF Resume, Resumable
<1>10. ASSUME NEW r \in Requests, ResumeCommit(r) PROVE SenderOwnsFence'
  BY <1>10 DEF ResumeCommit, Requested
<1>11. ASSUME NEW r \in Requests, Mark(r) PROVE SenderOwnsFence'
  BY <1>11 DEF Mark, Markable
<1>12. ASSUME NEW r \in Requests, Send(r) PROVE SenderOwnsFence'
  BY <1>12 DEF Send
<1>13. ASSUME NEW r \in Requests, Timeout(r) PROVE SenderOwnsFence'
  BY <1>13 DEF Timeout
<1>14. ASSUME NEW r \in Requests, Readback(r) PROVE SenderOwnsFence'
  BY <1>14 DEF Readback
<1>15. ASSUME NEW r \in Requests, Complete(r) PROVE SenderOwnsFence'
  BY <1>15 DEF Complete, Settle
<1>16. ASSUME NEW r \in Requests, Fail(r) PROVE SenderOwnsFence'
  BY <1>16 DEF Fail, Settle
<1>17. ASSUME NEW r \in Requests, DeleteApplied(r) PROVE SenderOwnsFence'
  BY <1>17 DEF DeleteApplied, Responds
<1>18. ASSUME NEW r \in Requests, DeleteDropped(r) PROVE SenderOwnsFence'
  BY <1>18 DEF DeleteDropped, Responds
<1>19. ASSUME NEW r \in Requests, ProxyAnswers(r) PROVE SenderOwnsFence'
  BY <1>19 DEF ProxyAnswers
<1>20. ASSUME NEW r \in Requests, Crash(r) PROVE SenderOwnsFence'
  BY <1>20 DEF Crash, LockAfter
<1>21. CASE Expire
  BY <1>21 DEF Expire
<1> QED
  BY <1>1, <1>2, <1>3, <1>4, <1>5, <1>6, <1>7, <1>8, <1>9, <1>10, <1>11, <1>12,
     <1>13, <1>14, <1>15, <1>16, <1>17, <1>18, <1>19, <1>20, <1>21, DeletionSteps

(* A response ends the DELETE it answers.                                   *)
LEMMA ResponseIsFinalStep ==
    ASSUME DeletionInv, PromptInv, timely', Next
    PROVE  ResponseIsFinal'
<1> USE DeletionAssumption
<1> USE DEF DeletionInv, TypeOK, LockProtects, PromptInv, Open, Goto, Reply,
            ResponseIsFinal, Confirmed, ReadsDeleted, DeletedBehindFence
<1>1. ASSUME NEW t \in Tasks, ActivateCommit(t) PROVE ResponseIsFinal'
  BY <1>1 DEF ActivateCommit
<1>2. ASSUME NEW t \in Tasks, Close(t) PROVE ResponseIsFinal'
  BY <1>2 DEF Close
<1>3. ASSUME NEW t \in Tasks, NEW s \in ActiveStatus, Activate(t, s) PROVE ResponseIsFinal'
  BY <1>3 DEF Activate
<1>4. ASSUME NEW r \in Requests, BeginFinds(r) PROVE ResponseIsFinal'
  BY <1>4 DEF BeginFinds, AlreadyDeleted
<1>5. ASSUME NEW r \in Requests, BeginChecks(r) PROVE ResponseIsFinal'
  BY <1>5 DEF BeginChecks
<1>6. ASSUME NEW r \in Requests, BeginCommit(r) PROVE ResponseIsFinal'
  BY <1>6 DEF BeginCommit, Requested
<1>7. ASSUME NEW r \in Requests, ReconcileReadback(r) PROVE ResponseIsFinal'
  BY <1>7 DEF ReconcileReadback
<1>8. ASSUME NEW r \in Requests, CompleteStale(r) PROVE ResponseIsFinal'
  BY <1>8 DEF CompleteStale, Settle
<1>9. ASSUME NEW r \in Requests, Resume(r) PROVE ResponseIsFinal'
  BY <1>9 DEF Resume, Resumable
<1>10. ASSUME NEW r \in Requests, ResumeCommit(r) PROVE ResponseIsFinal'
  BY <1>10 DEF ResumeCommit, Requested
<1>11. ASSUME NEW r \in Requests, Mark(r) PROVE ResponseIsFinal'
  BY <1>11 DEF Mark, Markable
<1>12. ASSUME NEW r \in Requests, Send(r) PROVE ResponseIsFinal'
  BY <1>12 DEF Send
<1>13. ASSUME NEW r \in Requests, Timeout(r) PROVE ResponseIsFinal'
  BY <1>13 DEF Timeout
<1>14. ASSUME NEW r \in Requests, Readback(r) PROVE ResponseIsFinal'
  BY <1>14 DEF Readback
<1>15. ASSUME NEW r \in Requests, Complete(r) PROVE ResponseIsFinal'
  BY <1>15 DEF Complete, Settle
<1>16. ASSUME NEW r \in Requests, Fail(r) PROVE ResponseIsFinal'
  BY <1>16 DEF Fail, Settle
<1>17. ASSUME NEW r \in Requests, DeleteApplied(r) PROVE ResponseIsFinal'
  BY <1>17 DEF DeleteApplied, Responds
<1>18. ASSUME NEW r \in Requests, DeleteDropped(r) PROVE ResponseIsFinal'
  BY <1>18 DEF DeleteDropped, Responds
<1>19. ASSUME NEW r \in Requests, ProxyAnswers(r) PROVE ResponseIsFinal'
  BY <1>19 DEF ProxyAnswers
<1>20. ASSUME NEW r \in Requests, Crash(r) PROVE ResponseIsFinal'
  BY <1>20 DEF Crash, LockAfter
<1>21. CASE Expire
  BY <1>21 DEF Expire
<1> QED
  BY <1>1, <1>2, <1>3, <1>4, <1>5, <1>6, <1>7, <1>8, <1>9, <1>10, <1>11, <1>12,
     <1>13, <1>14, <1>15, <1>16, <1>17, <1>18, <1>19, <1>20, <1>21, DeletionSteps

(* The DELETE that succeeds is the fence's own and the only one.            *)
LEMMA DeletedBehindFenceStep ==
    ASSUME DeletionInv, PromptInv, timely', Next
    PROVE  DeletedBehindFence'
<1> USE DeletionAssumption
<1> USE DEF DeletionInv, TypeOK, LockProtects, PromptInv, Open, Goto, Reply,
            SenderOwnsFence, ResponseIsFinal, DeletedBehindFence, VerdictStands, ReadsDeleted
<1>1. ASSUME NEW t \in Tasks, ActivateCommit(t) PROVE DeletedBehindFence'
  BY <1>1 DEF ActivateCommit
<1>2. ASSUME NEW t \in Tasks, Close(t) PROVE DeletedBehindFence'
  BY <1>2 DEF Close
<1>3. ASSUME NEW t \in Tasks, NEW s \in ActiveStatus, Activate(t, s) PROVE DeletedBehindFence'
  BY <1>3 DEF Activate
<1>4. ASSUME NEW r \in Requests, BeginFinds(r) PROVE DeletedBehindFence'
  BY <1>4 DEF BeginFinds, AlreadyDeleted
<1>5. ASSUME NEW r \in Requests, BeginChecks(r) PROVE DeletedBehindFence'
  BY <1>5 DEF BeginChecks
<1>6. ASSUME NEW r \in Requests, BeginCommit(r) PROVE DeletedBehindFence'
  BY <1>6 DEF BeginCommit, Requested
<1>7. ASSUME NEW r \in Requests, ReconcileReadback(r) PROVE DeletedBehindFence'
  BY <1>7 DEF ReconcileReadback
<1>8. ASSUME NEW r \in Requests, CompleteStale(r) PROVE DeletedBehindFence'
  BY <1>8 DEF CompleteStale, Settle
<1>9. ASSUME NEW r \in Requests, Resume(r) PROVE DeletedBehindFence'
  BY <1>9 DEF Resume, Resumable
<1>10. ASSUME NEW r \in Requests, ResumeCommit(r) PROVE DeletedBehindFence'
  BY <1>10 DEF ResumeCommit, Requested
<1>11. ASSUME NEW r \in Requests, Mark(r) PROVE DeletedBehindFence'
  BY <1>11 DEF Mark, Markable
<1>12. ASSUME NEW r \in Requests, Send(r) PROVE DeletedBehindFence'
  BY <1>12 DEF Send
<1>13. ASSUME NEW r \in Requests, Timeout(r) PROVE DeletedBehindFence'
  BY <1>13 DEF Timeout
<1>14. ASSUME NEW r \in Requests, Readback(r) PROVE DeletedBehindFence'
  BY <1>14 DEF Readback
<1>15. ASSUME NEW r \in Requests, Complete(r) PROVE DeletedBehindFence'
  BY <1>15 DEF Complete, Settle
<1>16. ASSUME NEW r \in Requests, Fail(r) PROVE DeletedBehindFence'
  BY <1>16 DEF Fail, Settle
<1>17. ASSUME NEW r \in Requests, DeleteApplied(r) PROVE DeletedBehindFence'
  BY <1>17 DEF DeleteApplied, Responds
<1>18. ASSUME NEW r \in Requests, DeleteDropped(r) PROVE DeletedBehindFence'
  BY <1>18 DEF DeleteDropped, Responds
<1>19. ASSUME NEW r \in Requests, ProxyAnswers(r) PROVE DeletedBehindFence'
  BY <1>19 DEF ProxyAnswers
<1>20. ASSUME NEW r \in Requests, Crash(r) PROVE DeletedBehindFence'
  BY <1>20 DEF Crash, LockAfter
<1>21. CASE Expire
  BY <1>21 DEF Expire
<1> QED
  BY <1>1, <1>2, <1>3, <1>4, <1>5, <1>6, <1>7, <1>8, <1>9, <1>10, <1>11, <1>12,
     <1>13, <1>14, <1>15, <1>16, <1>17, <1>18, <1>19, <1>20, <1>21, DeletionSteps

(* No DELETE is under way that could overturn a verdict.                    *)
LEMMA VerdictStandsStep ==
    ASSUME DeletionInv, PromptInv, timely', Next
    PROVE  VerdictStands'
<1> USE DeletionAssumption
<1> USE DEF DeletionInv, TypeOK, LockProtects, PromptInv, Open, Goto, Reply,
            IdsAreSpent, Past, Reconciling, StaleStaysExpired, SenderOwnsFence,
            ResponseIsFinal, DeletedBehindFence, VerdictStands, ReadsDeleted
<1>1. ASSUME NEW t \in Tasks, ActivateCommit(t) PROVE VerdictStands'
  BY <1>1 DEF ActivateCommit
<1>2. ASSUME NEW t \in Tasks, Close(t) PROVE VerdictStands'
  BY <1>2 DEF Close
<1>3. ASSUME NEW t \in Tasks, NEW s \in ActiveStatus, Activate(t, s) PROVE VerdictStands'
  BY <1>3 DEF Activate
<1>4. ASSUME NEW r \in Requests, BeginFinds(r) PROVE VerdictStands'
  BY <1>4 DEF BeginFinds, AlreadyDeleted
<1>5. ASSUME NEW r \in Requests, BeginChecks(r) PROVE VerdictStands'
  BY <1>5 DEF BeginChecks
<1>6. ASSUME NEW r \in Requests, BeginCommit(r) PROVE VerdictStands'
  BY <1>6 DEF BeginCommit, Requested
<1>7. ASSUME NEW r \in Requests, ReconcileReadback(r) PROVE VerdictStands'
  BY <1>7 DEF ReconcileReadback
<1>8. ASSUME NEW r \in Requests, CompleteStale(r) PROVE VerdictStands'
  BY <1>8 DEF CompleteStale, Settle
<1>9. ASSUME NEW r \in Requests, Resume(r) PROVE VerdictStands'
  BY <1>9 DEF Resume, Resumable
<1>10. ASSUME NEW r \in Requests, ResumeCommit(r) PROVE VerdictStands'
  BY <1>10 DEF ResumeCommit, Requested
<1>11. ASSUME NEW r \in Requests, Mark(r) PROVE VerdictStands'
  BY <1>11 DEF Mark, Markable
<1>12. ASSUME NEW r \in Requests, Send(r) PROVE VerdictStands'
  BY <1>12 DEF Send
<1>13. ASSUME NEW r \in Requests, Timeout(r) PROVE VerdictStands'
  BY <1>13 DEF Timeout
<1>14. ASSUME NEW r \in Requests, Readback(r) PROVE VerdictStands'
  BY <1>14 DEF Readback
<1>15. ASSUME NEW r \in Requests, Complete(r) PROVE VerdictStands'
  BY <1>15 DEF Complete, Settle
<1>16. ASSUME NEW r \in Requests, Fail(r) PROVE VerdictStands'
  BY <1>16 DEF Fail, Settle
<1>17. ASSUME NEW r \in Requests, DeleteApplied(r) PROVE VerdictStands'
  BY <1>17 DEF DeleteApplied, Responds
<1>18. ASSUME NEW r \in Requests, DeleteDropped(r) PROVE VerdictStands'
  BY <1>18 DEF DeleteDropped, Responds
<1>19. ASSUME NEW r \in Requests, ProxyAnswers(r) PROVE VerdictStands'
  BY <1>19 DEF ProxyAnswers
<1>20. ASSUME NEW r \in Requests, Crash(r) PROVE VerdictStands'
  BY <1>20 DEF Crash, LockAfter
<1>21. CASE Expire
  BY <1>21 DEF Expire
<1> QED
  BY <1>1, <1>2, <1>3, <1>4, <1>5, <1>6, <1>7, <1>8, <1>9, <1>10, <1>11, <1>12,
     <1>13, <1>14, <1>15, <1>16, <1>17, <1>18, <1>19, <1>20, <1>21, DeletionSteps

(* A behaviour that has been timely so far was timely before its last step. *)
LEMMA TimelyBefore ==
    ASSUME [Next]_vars, timely'
    PROVE  timely
<1>1. CASE Next
  BY <1>1, DeletionSteps
  DEF ActivateCommit, Close, Activate, BeginFinds, BeginChecks, BeginCommit,
      ReconcileReadback, CompleteStale, Complete, Fail, Settle, Resume, ResumeCommit,
      Mark, Send, Timeout, Readback, DeleteApplied, DeleteDropped, ProxyAnswers,
      Crash, Expire
<1>2. CASE UNCHANGED vars
  BY <1>2 DEF vars
<1> QED BY <1>1, <1>2

(* No step breaks it as long as DELETEs land within their operation.          *)
LEMMA PromptInvStep ==
    ASSUME DeletionInv, timely => PromptInv, timely', [Next]_vars
    PROVE  PromptInv'
<1>0. PromptInv
  BY TimelyBefore
<1>1. CASE Next
  BY <1>0, <1>1, IdsAreSpentStep, StaleStaysExpiredStep, SenderOwnsFenceStep,
     ResponseIsFinalStep, DeletedBehindFenceStep, VerdictStandsStep DEF PromptInv
<1>2. CASE UNCHANGED vars
  BY <1>0, <1>2, PromptStutters
<1> QED BY <1>1, <1>2

-----------------------------------------------------------------------------
(* As long as the environment is timely, the deleted user is behind its      *)
(* fence and every sender owns the fence.                                    *)
THEOREM PromptInvariant == Spec => [](timely => PromptInv)
<1>1. Init => (timely => PromptInv)
  BY PromptInitially
<1>2. DeletionInv /\ (timely => PromptInv) /\ [Next]_vars => (timely => PromptInv)'
  BY PromptInvStep
<1> QED BY <1>1, <1>2, DeletionInvariant, PTL DEF Spec

(* A user is only ever deleted while none of its background tasks is        *)
(* active, if no DELETE outlives its operation: what the fence, its lease   *)
(* and the read-backs of the handler are for.                               *)
LEMMA UsersDeletedWithoutTasks == Spec => []DeletedUserHasNoTasks
<1>1. DeletionInv /\ (timely => PromptInv) => DeletedUserHasNoTasks
  BY DEF DeletionInv, PromptInv, DeletedBehindFence, DeletedUserHasNoTasks,
         FenceExcludesTasks, Open
<1> QED BY <1>1, PromptInvariant, DeletionInvariant, PTL

(* At most one DELETE of the user is under way, under the same assumption.  *)
LEMMA DeletesDoNotOverlap == Spec => []OneDeleteInFlight
<1>1. ASSUME DeletionInv, timely => PromptInv PROVE OneDeleteInFlight
  <2>1. SUFFICES ASSUME timely PROVE Cardinality(inflight) <= 1
    BY DEF OneDeleteInFlight
  <2>2. inflight \subseteq {fence.op}
    BY <1>1, <2>1 DEF DeletionInv, TypeOK, PromptInv, SenderOwnsFence
  <2>3. IsFiniteSet({fence.op}) /\ Cardinality({fence.op}) = 1
    BY FS_Singleton
  <2> QED BY <2>2, <2>3, FS_Subset
<1> QED BY <1>1, PromptInvariant, DeletionInvariant, PTL

(* Both together, for any number of requests and tasks.                     *)
THEOREM UsersDeletedSafely == Spec => []DeletedSafely
<1>1. DeletedUserHasNoTasks /\ OneDeleteInFlight => DeletedSafely
  BY DEF DeletedSafely
<1> QED BY <1>1, UsersDeletedWithoutTasks, DeletesDoNotOverlap, PTL
===============================================================================
