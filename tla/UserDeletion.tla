---------------------------- MODULE UserDeletion ----------------------------
(***************************************************************************)
(* Deletion of one GoTrue user: the DELETE handler of auth-users.ts, the   *)
(* fence row of user-safety.service.ts and the trigger on project_tasks    *)
(* that keeps the user's background tasks and the deletion apart.  GoTrue, *)
(* which holds the user, is another process: a DELETE sent to it may be    *)
(* lost, refused, answered late, or carried out after its sender gave up.  *)
(*                                                                         *)
(* A request mints at most one operation id, so the request stands for the *)
(* id, and should_soft_delete, which is written together with the id, is   *)
(* the request's own wish.  fence.active is operation_expires_at > NOW().  *)
(* Of the four active task statuses the trigger treats pending and         *)
(* retry_scheduled alike ("queued"), and leased and running ("owned").     *)
(***************************************************************************)
EXTENDS Naturals, FiniteSets

CONSTANTS
    Requests,      \* requests to delete the user
    SoftRequests,  \* those with should_soft_delete
    Tasks,         \* tasks that this user invokes
    Nobody         \* no operation, no holder of the lock

ASSUME DeletionAssumption ==
    /\ SoftRequests \subseteq Requests
    /\ Nobody \notin Requests \cup Tasks
    /\ Requests \cap Tasks = {}

VARIABLES
    fence,     \* the row of project_user_deletion_fences
    user,      \* the user in GoTrue
    task,      \* project_tasks.status of each task
    lock,      \* who holds the user's lifecycle lock
    target,    \* the status that the holding task transaction will commit
    pc,        \* where each request's handler is
    stale,     \* the expired operation a handler reconciles
    inflight,  \* DELETEs that GoTrue may still carry out
    answer,    \* what the client of each request was told
    timely     \* auxiliary: no DELETE has outlived its operation so far, and
               \* only GoTrue has answered one

vars == <<fence, user, task, lock, target, pc, stale, inflight, answer, timely>>

Open         == {"requested", "deleting"}
FenceStates  == {"none", "failed", "deleted"} \cup Open
ActiveStatus == {"queued", "owned"}
TaskStatus   == {"absent", "closed"} \cup ActiveStatus
Places  == {"idle", "begin", "reconcile", "completeStale", "resume", "resuming",
            "mark", "send", "await", "verify", "verifyBlind", "fail", "complete",
            "done", "dead"}
Answers == {"none", "blocked", "in_progress", "changed", "unavailable", "failed",
            "deleted"}

TypeOK ==
    /\ fence \in [status : FenceStates, op : Requests \cup {Nobody}, active : BOOLEAN]
    /\ (fence.op = Nobody) <=> (fence.status = "none")
    /\ user \in {"active", "soft", "gone"}
    /\ task \in [Tasks -> TaskStatus]
    /\ lock \in Requests \cup Tasks \cup {Nobody}
    /\ target \in ActiveStatus
    /\ pc \in [Requests -> Places]
    /\ stale \in [Requests -> Requests \cup {Nobody}]
    /\ inflight \subseteq Requests
    /\ answer \in [Requests -> Answers]
    /\ timely \in BOOLEAN

Init ==
    /\ fence = [status |-> "none", op |-> Nobody, active |-> FALSE]
    /\ user = "active"
    /\ task = [t \in Tasks |-> "absent"]
    /\ lock = Nobody
    /\ target = "queued"
    /\ pc = [r \in Requests |-> "idle"]
    /\ stale = [r \in Requests |-> Nobody]
    /\ inflight = {}
    /\ answer = [r \in Requests |-> "none"]
    /\ timely = TRUE

-----------------------------------------------------------------------------
(* Tasks of the user.  The trigger lets a row become active, or stay so,    *)
(* only when no fence stands; it holds the lifecycle lock from its check to *)
(* the commit of the statement that fired it.                               *)

(* Fault: a finished deletion no longer fences.                             *)
FencedWhileOpen == fence.status \in Open

Fenced == fence.status \in Open \cup {"deleted"}

ActiveTasks == {t \in Tasks : task[t] \in ActiveStatus}

\* The activations: enqueue, operator retry, claim or start, requeue.
Activation(t, s) ==
    \/ task[t] \in {"absent", "closed"} /\ s = "queued"
    \/ task[t] \in ActiveStatus         /\ s \in ActiveStatus

Activate(t, s) ==
    /\ lock = Nobody
    /\ Activation(t, s)
    /\ ~Fenced
    /\ lock' = t
    /\ target' = s
    /\ UNCHANGED <<fence, user, task, pc, stale, inflight, answer, timely>>

ActivateCommit(t) ==
    /\ lock = t
    /\ task' = [task EXCEPT ![t] = target]
    /\ lock' = Nobody
    /\ UNCHANGED <<fence, user, target, pc, stale, inflight, answer, timely>>

\* A task ends: the trigger returns before it takes the lock.
Close(t) ==
    /\ task[t] \in ActiveStatus
    /\ lock # t
    /\ task' = [task EXCEPT ![t] = "closed"]
    /\ UNCHANGED <<fence, user, lock, target, pc, stale, inflight, answer, timely>>

-----------------------------------------------------------------------------
(* The handler of a request.                                                *)
Goto(r, place) == pc' = [pc EXCEPT ![r] = place]

Reply(r, a) ==
    /\ Goto(r, "done")
    /\ answer' = [answer EXCEPT ![r] = a]

\* A transaction that read the fence row FOR UPDATE keeps it until it commits.
RowFree == lock \notin Requests

(* Fault: a deletion under way is taken for a finished one.                 *)
StartedCounts == fence.status \in {"deleted", "deleting"}

AlreadyDeleted == fence.status = "deleted"

\* beginUserDeletion, when it finds a deletion on record and writes nothing.
BeginFinds(r) ==
    /\ pc[r] = "idle"
    /\ lock = Nobody
    /\ \/ /\ AlreadyDeleted
          /\ Reply(r, "deleted")
          /\ UNCHANGED stale
       \/ /\ ~AlreadyDeleted
          /\ fence.status \in Open
          /\ fence.active
          /\ Reply(r, "in_progress")
          /\ UNCHANGED stale
       \/ /\ ~AlreadyDeleted
          /\ fence.status \in Open
          /\ ~fence.active
          /\ stale' = [stale EXCEPT ![r] = fence.op]
          /\ Goto(r, "reconcile")
          /\ UNCHANGED answer
    /\ UNCHANGED <<fence, user, task, lock, target, inflight, timely>>

\* beginUserDeletion, when no deletion stands in the way.
BeginChecks(r) ==
    /\ pc[r] = "idle"
    /\ lock = Nobody
    /\ fence.status \in {"none", "failed"}
    /\ \/ /\ ActiveTasks # {}
          /\ Reply(r, "blocked")
          /\ UNCHANGED lock
       \/ /\ ActiveTasks = {}
          /\ lock' = r
          /\ Goto(r, "begin")
          /\ UNCHANGED answer
    /\ UNCHANGED <<fence, user, task, target, stale, inflight, timely>>

\* The fence changes hands; operation_id is new and so is its lease.
Requested(r) == [status |-> "requested", op |-> r, active |-> TRUE]

BeginCommit(r) ==
    /\ pc[r] = "begin"
    /\ fence' = Requested(r)
    /\ lock' = Nobody
    /\ Goto(r, "mark")
    /\ UNCHANGED <<user, task, target, stale, inflight, answer, timely>>

\* GET /admin/users/:id.  A hard deletion is only believed on a 404 or 410,
\* a soft one also when the user carries deleted_at.
(* Fault: deleted_at is believed whatever was asked for.                    *)
ReadsDeletedEither(r) == user # "active"

ReadsDeleted(r) == user = "gone" \/ (user = "soft" /\ r \in SoftRequests)

ReconcileReadback(r) ==
    /\ pc[r] = "reconcile"
    /\ \/ Reply(r, "unavailable")
       \/ /\ ReadsDeleted(stale[r])
          /\ Goto(r, "completeStale")
          /\ UNCHANGED answer
       \/ /\ ~ReadsDeleted(stale[r])
          /\ Goto(r, "resume")
          /\ UNCHANGED answer
    /\ UNCHANGED <<fence, user, task, lock, target, stale, inflight, timely>>

\* completeUserDeletion and failUserDeletion: only the fence's own operation.
Settle(r, op, status, told) ==
    /\ RowFree
    /\ IF fence.op = op /\ fence.status \in Open
       THEN /\ fence' = [fence EXCEPT !.status = status]
            /\ Reply(r, told)
       ELSE /\ Reply(r, "unavailable")
            /\ UNCHANGED fence
    /\ UNCHANGED <<user, task, lock, target, stale, inflight, timely>>

CompleteStale(r) == pc[r] = "completeStale" /\ Settle(r, stale[r], "deleted", "deleted")
Complete(r)      == pc[r] = "complete"      /\ Settle(r, r, "deleted", "deleted")
Fail(r)          == pc[r] = "fail"          /\ Settle(r, r, "failed", "failed")

\* resumeUserDeletionAfterReconcile: an operation that expired is replaced.
Resumable(r) ==
    /\ fence.op = stale[r]
    /\ ~fence.active
    /\ fence.status \in Open

Resume(r) ==
    /\ pc[r] = "resume"
    /\ lock = Nobody
    /\ \/ /\ ~Resumable(r) \/ ActiveTasks # {}
          /\ Reply(r, IF Resumable(r) THEN "blocked" ELSE "changed")
          /\ UNCHANGED lock
       \/ /\ Resumable(r)
          /\ ActiveTasks = {}
          /\ lock' = r
          /\ Goto(r, "resuming")
          /\ UNCHANGED answer
    /\ UNCHANGED <<fence, user, task, target, stale, inflight, timely>>

ResumeCommit(r) ==
    /\ pc[r] = "resuming"
    /\ fence' = Requested(r)
    /\ lock' = Nobody
    /\ Goto(r, "mark")
    /\ UNCHANGED <<user, task, target, stale, inflight, answer, timely>>

(* Fault: the start is recorded in whatever fence is open.                  *)
MarkableOpen(r) == fence.status \in Open

Markable(r) == fence.op = r /\ fence.status = "requested" /\ fence.active

\* markUserDeletionStarted renews the operation's lease.
Mark(r) ==
    /\ pc[r] = "mark"
    /\ RowFree
    /\ IF Markable(r)
       THEN /\ fence' = [status |-> "deleting", op |-> r, active |-> TRUE]
            /\ Goto(r, "send")
            /\ UNCHANGED answer
       ELSE /\ Reply(r, "unavailable")
            /\ UNCHANGED fence
    /\ UNCHANGED <<user, task, lock, target, stale, inflight, timely>>

\* DELETE /admin/users/:id leaves; its fate is GoTrue's.
Send(r) ==
    /\ pc[r] = "send"
    /\ inflight' = inflight \cup {r}
    /\ Goto(r, "await")
    /\ UNCHANGED <<fence, user, task, lock, target, stale, answer, timely>>

\* No response: the timeout of gotrueFetch, or a broken connection.
(* Fault: silence is treated as an answer.                                  *)
TimeoutAsAnswer(r) ==
    /\ pc[r] = "await"
    /\ Goto(r, "verify")
    /\ UNCHANGED <<fence, user, task, lock, target, stale, inflight, answer, timely>>

Timeout(r) ==
    /\ pc[r] = "await"
    /\ Goto(r, "verifyBlind")
    /\ UNCHANGED <<fence, user, task, lock, target, stale, inflight, answer, timely>>

\* The read-back after the DELETE; "fail" needs a response to the DELETE.
Readback(r) ==
    /\ pc[r] \in {"verify", "verifyBlind"}
    /\ \/ Reply(r, "unavailable")
       \/ /\ ReadsDeleted(r)
          /\ Goto(r, "complete")
          /\ UNCHANGED answer
       \/ /\ ~ReadsDeleted(r)
          /\ pc[r] = "verify"
          /\ Goto(r, "fail")
          /\ UNCHANGED answer
       \/ /\ ~ReadsDeleted(r)
          /\ pc[r] = "verifyBlind"
          /\ Reply(r, "unavailable")
    /\ UNCHANGED <<fence, user, task, lock, target, stale, inflight, timely>>

-----------------------------------------------------------------------------
(* GoTrue and the world.                                                    *)

\* The response reaches the handler only if it still waits.
Responds(r) ==
    pc' = IF pc[r] = "await" THEN [pc EXCEPT ![r] = "verify"] ELSE pc

DeleteApplied(r) ==
    /\ r \in inflight
    /\ inflight' = inflight \ {r}
    /\ user' = IF user = "active" /\ r \in SoftRequests THEN "soft"
               ELSE IF r \in SoftRequests THEN user ELSE "gone"
    /\ \/ Responds(r)
       \/ UNCHANGED pc
    /\ UNCHANGED <<fence, task, lock, target, stale, answer, timely>>

\* Refused by GoTrue, or lost on the way.
DeleteDropped(r) ==
    /\ r \in inflight
    /\ inflight' = inflight \ {r}
    /\ \/ Responds(r)
       \/ UNCHANGED pc
    /\ UNCHANGED <<fence, user, task, lock, target, stale, answer, timely>>

\* A proxy answers for a GoTrue that is still at work.
ProxyAnswers(r) ==
    /\ r \in inflight
    /\ pc[r] = "await"
    /\ Goto(r, "verify")
    /\ timely' = FALSE
    /\ UNCHANGED <<fence, user, task, lock, target, stale, inflight, answer>>

\* Five minutes without a renewal.
Expire ==
    /\ fence.status \in Open
    /\ fence.active
    /\ fence' = [fence EXCEPT !.active = FALSE]
    /\ timely' = (timely /\ inflight = {} /\ \A r \in Requests : pc[r] \notin {"send", "await"})
    /\ UNCHANGED <<user, task, lock, target, pc, stale, inflight, answer>>

\* The process dies, or its database connection does: the transaction rolls
\* back and the lock, which is the transaction's, goes with it.
(* Fault: the lock is the session's.                                        *)
KeepsLock(r) == lock

LockAfter(r) == IF lock = r THEN Nobody ELSE lock

Crash(r) ==
    /\ pc[r] \notin {"idle", "done", "dead"}
    /\ Goto(r, "dead")
    /\ lock' = LockAfter(r)
    /\ UNCHANGED <<fence, user, task, target, stale, inflight, answer, timely>>

-----------------------------------------------------------------------------
Handler(r) ==
    \/ BeginFinds(r) \/ BeginChecks(r) \/ BeginCommit(r)
    \/ ReconcileReadback(r) \/ CompleteStale(r) \/ Resume(r) \/ ResumeCommit(r)
    \/ Mark(r) \/ Send(r) \/ Timeout(r) \/ Readback(r) \/ Complete(r) \/ Fail(r)

Environment(r) ==
    \/ DeleteApplied(r) \/ DeleteDropped(r) \/ ProxyAnswers(r) \/ Crash(r)

Next ==
    \/ \E t \in Tasks : ActivateCommit(t) \/ Close(t)
    \/ \E t \in Tasks, s \in ActiveStatus : Activate(t, s)
    \/ \E r \in Requests : Handler(r) \/ Environment(r)
    \/ Expire

Spec == Init /\ [][Next]_vars

\* A handler runs on; those who wait for the lock are served in turn, which
\* PostgreSQL's queue of waiters guarantees; transactions commit.
FairSpec ==
    /\ Spec
    /\ \A r \in Requests : SF_vars(Handler(r))
    /\ \A t \in Tasks : WF_vars(ActivateCommit(t))

-----------------------------------------------------------------------------
(* The trigger and the locked check of beginUserDeletion together keep the  *)
(* two sides apart: while a deletion is requested, under way or done, no    *)
(* task of the user is active.  Hence a claim, a start or a recovery never  *)
(* meets the trigger's exception.                                           *)
FenceExcludesTasks ==
    fence.status \in Open \cup {"deleted"} => ActiveTasks = {}

(* So the handlers, the trigger and GoTrue leave the fence, its types too.  *)
FenceConsistent == TypeOK /\ FenceExcludesTasks

(* A fence on record as deleted is right: the user is gone, or soft-deleted *)
(* if the operation that holds the fence asked for no more.                 *)
RecordedDeletionIsReal ==
    fence.status = "deleted" =>
        \/ user = "gone"
        \/ user = "soft" /\ fence.op \in SoftRequests

(* A client is told of a deletion only when one happened, whichever request *)
(* carried it out.                                                          *)
AnswersAreHonest == \A r \in Requests : answer[r] = "deleted" => user # "active"

(* No request takes the fence from an operation whose lease runs, and       *)
(* nothing changes a finished deletion.                                     *)
OperationKept ==
    [][/\ fence.status = "deleted" => fence' = fence
       /\ fence.status \in Open /\ fence.active => fence'.op = fence.op]_vars

(* As long as no DELETE outlives its operation, a user is only ever deleted *)
(* while none of its tasks is active: the reason for the fence.             *)
DeletedUserHasNoTasks == timely /\ user # "active" => ActiveTasks = {}

(* Nor are two DELETEs of the same user ever under way together.            *)
OneDeleteInFlight == timely => Cardinality(inflight) <= 1

(* What the fence, its lease and the read-backs of the handler are for.     *)
DeletedSafely == DeletedUserHasNoTasks /\ OneDeleteInFlight

(* Every request ends in an answer unless its process dies: no lock is left *)
(* behind, whatever crashes.                                                *)
RequestsConclude ==
    \A r \in Requests : (pc[r] # "idle") ~> (pc[r] \in {"done", "dead"})
=============================================================================
