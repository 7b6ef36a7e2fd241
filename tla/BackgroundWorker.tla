-------------------------- MODULE BackgroundWorker --------------------------
(***************************************************************************)
(* The management-api processes that run background functions              *)
(* (background-function-worker.ts) on top of the attempt store.  A process *)
(* is a Claimer: its poll loop sweeps, recovers and claims, one at a time  *)
(* (isPolling); each claimed attempt is executed concurrently with it, so  *)
(* an execution is identified by its task and its attempt.                 *)
(*                                                                         *)
(* Every await is a step boundary.  The outcomes of a call that leaves the *)
(* process are all possible: a commit whose acknowledgement is lost, a     *)
(* transaction that rolls back, a project that is not active, an invoker   *)
(* that is gone or cannot be looked up, a provider that answers or fails.  *)
(* Aborting an invocation only hastens a failure that is possible anyway.  *)
(* Crashes and lost calls draw on one bounded budget.                      *)
(***************************************************************************)
EXTENDS AttemptStore

CONSTANTS
    MaxFaults,    \* crashes, stops, failed calls and lost acknowledgements
    MaxRetries,   \* explicit retries per task
    NoWorker

ASSUME WorkerAssumption ==
    /\ MaxFaults \in Nat
    /\ MaxRetries \in Nat
    /\ NoWorker \notin Claimers

VARIABLES
    mode,       \* of each process: isRunning, stopped, or dead
    poll,       \* where its poll loop is
    exec,       \* the execution of each attempt, a record (see Executions)
    mirror,     \* attempt in the tenant's background_task_mirrors, 0 if no row
    announced,  \* last status broadcast for each attempt
    faults      \* faults so far

workerVars == <<mode, poll, exec, mirror, announced, faults>>
vars == <<storeVars, workerVars>>

(* Where the execution is, the process it runs in, whether its heartbeat    *)
(* has failed (leaseLost), and the completion it is about to record.        *)
Steps == {"none", "polled", "admit", "renew", "renewing", "check", "mirror",
          "start", "starting", "recheck", "invoke", "settle", "clean"}

PollSteps == {"idle", "recover", "claim", "lock", "commit", "admit"}

Executions == [pc: Steps, by: Claimers \cup {NoWorker}, lost: BOOLEAN,
               plan: {"none"} \cup Outcomes]

NoExecution == [pc |-> "none", by |-> NoWorker, lost |-> FALSE, plan |-> "none"]

WorkerTypeOK ==
    /\ mode      \in [Claimers -> {"running", "stopped", "down"}]
    /\ poll      \in [Claimers -> PollSteps]
    /\ exec      \in [Tasks -> [Attempts -> Executions]]
    /\ mirror    \in [Tasks -> 0..AttemptLimit]
    /\ announced \in [Tasks -> [Attempts -> {"none", "running"} \cup Outcomes]]
    /\ faults    \in 0..MaxFaults

ForAttempts(v) == [t \in Tasks |-> [a \in Attempts |-> v]]

WorkerInit ==
    /\ StoreInit
    /\ mode      = [w \in Claimers |-> "running"]
    /\ poll      = [w \in Claimers |-> "idle"]
    /\ exec      = ForAttempts(NoExecution)
    /\ mirror    = [t \in Tasks |-> 0]
    /\ announced = ForAttempts("none")
    /\ faults    = 0

-----------------------------------------------------------------------------
Fault == faults < MaxFaults /\ faults' = faults + 1
Fine  == faults' = faults

ProcessKept   == UNCHANGED <<mode, poll>>
ExecutionKept == UNCHANGED <<exec, mirror, announced>>

At(t, a, step)      == exec[t][a].pc = step
Become(t, a, e)     == exec' = [exec EXCEPT ![t][a] = e]
Goto(t, a, step)    == Become(t, a, [exec[t][a] EXCEPT !.pc = step])
Leave(t, a)         == Become(t, a, NoExecution)
Plan(t, a, outcome) ==
    Become(t, a, [pc |-> "settle", by |-> exec[t][a].by, lost |-> exec[t][a].lost,
                  plan |-> outcome])

(* The poll loop goes on only while the worker is running.                  *)
NextRound(w) == IF mode[w] = "running" THEN "recover" ELSE "idle"
PollGoto(w, step) == poll' = [poll EXCEPT ![w] = step] /\ UNCHANGED mode

(* finishAttempt: only a committed receipt is broadcast; a stale attempt    *)
(* gets no receipt; a call that throws may or may not have committed.       *)
(* Fault: the requested outcome is broadcast.                              *)
AnnouncementAsked(t, outcome) == outcome

Announcement(t, outcome) == SettledAs(t, outcome)

FinishAttempt(t, a, outcome, cleanup) ==
    \/ /\ Finish(t, a, outcome)
       /\ announced' = [announced EXCEPT ![t][a] = Announcement(t, outcome)]
       /\ IF cleanup THEN Goto(t, a, "clean") ELSE Leave(t, a)
       /\ Fine
    \/ /\ Answers(t, a) /\ ~Finishable(t, a)
       /\ UNCHANGED <<storeVars, announced>>
       /\ Leave(t, a)
       /\ Fine
    \/ /\ Finish(t, a, outcome) \/ UNCHANGED storeVars
       /\ UNCHANGED announced
       /\ Leave(t, a)
       /\ Fault

(* failureOutcome: a failure that may be retried is, while attempts remain. *)
FailureOutcome(a, retryable) ==
    IF retryable /\ a < MaxAttempts THEN "retry_scheduled" ELSE "dead_lettered"

-----------------------------------------------------------------------------
(* poll: the cancelled sweep, then claims until there is nothing to claim.  *)
PollSweep(w) ==
    /\ mode[w] = "running" /\ poll[w] = "idle"
    /\ IF Abandoned = {} THEN UNCHANGED storeVars ELSE RecoverCancelled(Abandoned)
    /\ PollGoto(w, "recover")
    /\ ExecutionKept /\ Fine

(* claimNextTask: recoverExpiredLeases, then the claim.  The recovery may   *)
(* leave rows that expired while it waited for another's lock.              *)
PollRecover(w) ==
    /\ poll[w] = "recover"
    /\ \E batch \in SUBSET Recoverable :
          /\ IF batch = {} THEN UNCHANGED storeVars ELSE RecoverExpired(batch)
          /\ IF batch = Recoverable THEN Fine ELSE Fault
    /\ PollGoto(w, "claim")
    /\ ExecutionKept

PollSnapshot(w) ==
    /\ poll[w] = "claim"
    /\ \/ ClaimSnapshot(w) /\ PollGoto(w, "lock")
       \/ Claimable = {} /\ UNCHANGED storeVars /\ PollGoto(w, "idle")
    /\ ExecutionKept /\ Fine

PollLock(w) ==
    /\ poll[w] = "lock"
    /\ \/ (\E t \in Tasks : ClaimLock(w, t)) /\ PollGoto(w, "commit")
       \/ /\ \A t \in Tasks : ~Lockable(w, t)
          /\ ClaimAbort(w)
          /\ PollGoto(w, "idle")
    /\ ExecutionKept /\ Fine

PollCommit(w) ==
    LET t == locked[w] IN
    /\ poll[w] = "commit"
    /\ ClaimCommit(w)
    /\ PollGoto(w, "admit")
    /\ Become(t, NextAttempt(t),
              [pc |-> "polled", by |-> w, lost |-> FALSE, plan |-> "none"])
    /\ UNCHANGED <<mirror, announced>> /\ Fine

(* The claim fails, before or after its commit; withRetry claims again, and *)
(* gives the poll up when its retries are used up.                          *)
PollClaimFails(w) ==
    /\ poll[w] \in {"lock", "commit"}
    /\ ClaimCommit(w) \/ ClaimAbort(w)
    /\ PollGoto(w, "claim") \/ PollGoto(w, "idle")
    /\ ExecutionKept /\ Fault

(* The recovery or the snapshot fails for good: the poll ends.             *)
PollGivesUp(w) ==
    /\ poll[w] \in {"recover", "claim"}
    /\ PollGoto(w, "idle")
    /\ UNCHANGED storeVars
    /\ ExecutionKept /\ Fault

(* The project of the claimed task is looked up: execute is started, or the *)
(* attempt is finished as cancelled.                                        *)
PollAdmit(w) ==
    /\ poll[w] = "admit"
    /\ \E t \in Tasks, a \in Attempts :
          /\ exec[t][a].by = w /\ At(t, a, "polled")
          /\ \/ /\ Goto(t, a, "admit") /\ Fine
                /\ UNCHANGED <<storeVars, announced>>
             \/ FinishAttempt(t, a, "cancelled", FALSE)
    /\ PollGoto(w, IF faults' = faults THEN NextRound(w) ELSE "idle")
    /\ UNCHANGED mirror

-----------------------------------------------------------------------------
(* execute *)
(* The project is looked up again.                                          *)
ExecAdmit(t, a) ==
    /\ At(t, a, "admit")
    /\ \/ Goto(t, a, "renew") /\ Fine /\ UNCHANGED <<storeVars, announced>>
       \/ FinishAttempt(t, a, "cancelled", FALSE)
    /\ ProcessKept /\ UNCHANGED mirror

(* renew returns true, returns false, or throws: the execution goes on only *)
(* with a renewal that it knows to be committed.                            *)
ExecRenew(t, a) ==
    /\ At(t, a, "renew")
    /\ \/ RenewCheck(t, a) /\ Goto(t, a, "renewing") /\ Fine
       \/ /\ Answers(t, a) /\ ~Renewable(t, a)
          /\ UNCHANGED storeVars /\ Leave(t, a) /\ Fine
       \/ UNCHANGED storeVars /\ Leave(t, a) /\ Fault
    /\ ProcessKept /\ UNCHANGED <<mirror, announced>>

ExecRenewed(t, a) ==
    /\ At(t, a, "renewing")
    /\ \/ Renew(t, a) /\ Goto(t, a, "check") /\ Fine
       \/ (Renew(t, a) \/ TxAbort(t)) /\ Leave(t, a) /\ Fault
    /\ ProcessKept /\ UNCHANGED <<mirror, announced>>

(* assertBackgroundInvokerUserExists: the user is gone, or the lookup fails *)
(* (the circuit breaker turns a lookup into such a failure).                *)
ExecCheck(t, a) ==
    /\ At(t, a, "check")
    /\ \/ Goto(t, a, "mirror") /\ Fine /\ UNCHANGED <<storeVars, announced>>
       \/ \E retryable \in BOOLEAN :
             FinishAttempt(t, a, FailureOutcome(a, retryable), FALSE)
    /\ ProcessKept /\ UNCHANGED mirror

(* createBackgroundTaskMirrorIfUserExists: evidence never moves backwards.  *)
MirrorAdmits(t, a) == mirror[t] <= a

ExecMirror(t, a) ==
    /\ At(t, a, "mirror")
    /\ \/ mirror' = [mirror EXCEPT ![t] = IF MirrorAdmits(t, a) THEN a ELSE @]
       \/ UNCHANGED mirror
    /\ Goto(t, a, "start")
    /\ ProcessKept /\ Fine
    /\ UNCHANGED <<storeVars, announced>>

(* start returns true, returns false, or throws: nothing was sent yet, so a *)
(* throw follows the retry policy even if the start did commit.             *)
(* Fault: the answer of start is ignored.                                  *)
StartIgnored(t, a) == Answers(t, a) /\ ~Startable(t, a) /\ Goto(t, a, "recheck")

StartRefused(t, a) == Answers(t, a) /\ ~Startable(t, a) /\ Leave(t, a)

ExecStart(t, a) ==
    /\ At(t, a, "start")
    /\ \/ StartCheck(t, a) /\ Goto(t, a, "starting") /\ Fine
       \/ StartRefused(t, a) /\ UNCHANGED storeVars /\ Fine
       \/ UNCHANGED storeVars /\ Plan(t, a, FailureOutcome(a, TRUE)) /\ Fault
    /\ ProcessKept /\ UNCHANGED <<mirror, announced>>

ExecStarted(t, a) ==
    /\ At(t, a, "starting")
    /\ \/ Start(t, a) /\ Goto(t, a, "recheck") /\ Fine
       \/ /\ Start(t, a) \/ TxAbort(t)
          /\ Plan(t, a, FailureOutcome(a, TRUE)) /\ Fault
    /\ ProcessKept /\ UNCHANGED <<mirror, announced>>

(* The invoker is checked again immediately before the request is sent.     *)
ExecDispatch(t, a) ==
    /\ At(t, a, "recheck")
    /\ \/ /\ Goto(t, a, "invoke")
          /\ announced' = [announced EXCEPT ![t][a] = "running"]
       \/ \E retryable \in BOOLEAN :
             /\ Plan(t, a, FailureOutcome(a, retryable))
             /\ UNCHANGED announced
    /\ ProcessKept /\ Fine
    /\ UNCHANGED <<storeVars, mirror>>

(* The heartbeat renews the lease, one renewal at a time; the first refusal *)
(* or failure is final.                                                     *)
LoseLease(t, a) == Become(t, a, [exec[t][a] EXCEPT !.lost = TRUE])

Heartbeat(t, a) ==
    /\ At(t, a, "invoke")
    /\ ~exec[t][a].lost
    /\ \/ RenewCheck(t, a) /\ UNCHANGED exec /\ Fine
       \/ /\ (Answers(t, a) /\ ~Renewable(t, a) /\ Fine) \/ Fault
          /\ LoseLease(t, a)
          /\ UNCHANGED storeVars
    /\ ProcessKept /\ UNCHANGED <<mirror, announced>>

HeartbeatEnds(t, a) ==
    /\ At(t, a, "invoke")
    /\ \/ Renew(t, a) /\ UNCHANGED exec /\ Fine
       \/ (Renew(t, a) \/ TxAbort(t)) /\ LoseLease(t, a) /\ Fault
    /\ ProcessKept /\ UNCHANGED <<mirror, announced>>

(* A transaction nobody waits for any more, because the heartbeat was       *)
(* stopped or the process is gone, still commits or is rolled back.         *)
Unawaited(t, a) ==
    /\ exec[t][a].pc \notin {"renewing", "starting", "invoke"}
    /\ Renew(t, a) \/ Start(t, a) \/ (attempt[t] = a /\ TxAbort(t))
    /\ ProcessKept /\ ExecutionKept /\ Fine

(* The provider answers 2xx or 499, or the invocation fails.                *)
FailedInvocation(t, a, retryable) ==
    IF exec[t][a].lost THEN "dead_lettered" ELSE FailureOutcome(a, retryable)

ExecReturn(t, a) ==
    /\ At(t, a, "invoke")
    /\ \E outcome \in {"succeeded", "cancelled"}
                         \cup {FailedInvocation(t, a, r) : r \in BOOLEAN} :
          Plan(t, a, outcome)
    /\ ProcessKept /\ Fine
    /\ UNCHANGED <<storeVars, mirror, announced>>

ExecSettle(t, a) ==
    /\ At(t, a, "settle")
    /\ FinishAttempt(t, a, exec[t][a].plan, TRUE)
    /\ ProcessKept /\ UNCHANGED mirror

(* removeBackgroundTaskMirror deletes the evidence of this attempt only.    *)
(* Fault: the evidence of the task is deleted, whichever attempt it is of. *)
MirrorRemovesAll(t, a) == mirror[t] # 0

MirrorRemoves(t, a) == mirror[t] = a

ExecClean(t, a) ==
    /\ At(t, a, "clean")
    /\ \/ mirror' = [mirror EXCEPT ![t] = IF MirrorRemoves(t, a) THEN 0 ELSE @]
       \/ UNCHANGED mirror
    /\ Leave(t, a)
    /\ ProcessKept /\ Fine
    /\ UNCHANGED <<storeVars, announced>>

Progress(t, a) ==
    \/ ExecAdmit(t, a) \/ ExecRenew(t, a) \/ ExecRenewed(t, a)
    \/ ExecCheck(t, a) \/ ExecMirror(t, a)
    \/ ExecStart(t, a) \/ ExecStarted(t, a) \/ ExecDispatch(t, a)
    \/ ExecReturn(t, a) \/ ExecSettle(t, a) \/ ExecClean(t, a)

-----------------------------------------------------------------------------
(* Processes stop (executions go on), die (they do not) and are restarted.  *)
(* A claim in flight on a dead process's connection is rolled back; its     *)
(* renewals and starts become Unawaited.                                    *)
Stop(w) ==
    /\ mode[w] = "running"
    /\ mode' = [mode EXCEPT ![w] = "stopped"]
    /\ UNCHANGED <<storeVars, poll>> /\ ExecutionKept /\ Fault

Die(w) ==
    /\ (mode[w] = "stopped" /\ Fine) \/ (mode[w] = "running" /\ Fault)
    /\ mode' = [mode EXCEPT ![w] = "down"]
    /\ poll' = [poll EXCEPT ![w] = "idle"]
    /\ seen' = [seen EXCEPT ![w] = {}]
    /\ locked' = [locked EXCEPT ![w] = NoTask]
    /\ exec' = [t \in Tasks |-> [a \in Attempts |->
                  IF exec[t][a].by = w THEN NoExecution ELSE exec[t][a]]]
    /\ UNCHANGED <<rowVars, tx, overrun, retried>>
    /\ UNCHANGED <<mirror, announced>>

Restart(w) ==
    /\ mode[w] = "down"
    /\ mode' = [mode EXCEPT ![w] = "running"]
    /\ UNCHANGED <<storeVars, poll>> /\ ExecutionKept /\ Fine

(* The API: enqueue, cancel (edge_function branch of cancel), retry.        *)
(*                                                                          *)
(* Fault: the cancellation of the other task types, by id, is used.        *)
CancelById(t) ==
    /\ status[t] \in Queued \cup Active
    /\ status' = [status EXCEPT ![t] = "cancelled"]
    /\ cancel' = [cancel EXCEPT ![t] = TRUE]
    /\ lease'  = [lease EXCEPT ![t] = NoLease]
    /\ UNCHANGED <<attempt, due, history, seen, locked, tx, overrun, retried>>

(* The attempt read before the call may be stale: then nothing happens.     *)
Cancel(t) == RequestCancellation(t, attempt[t])

Request(t) ==
    /\ \/ Enqueue(t)
       \/ Cancel(t)
       \/ RetryTask(t) /\ Cardinality(retried[t]) < MaxRetries
    /\ ProcessKept /\ ExecutionKept /\ Fine

PassTime ==
    /\ Tick \/ \E t \in Tasks : RetryDue(t)
    /\ ProcessKept /\ ExecutionKept /\ Fine

PollStep(w) ==
    \/ PollSweep(w) \/ PollRecover(w) \/ PollSnapshot(w) \/ PollLock(w)
    \/ PollCommit(w) \/ PollAdmit(w)

WorkerNext ==
    \/ \E w \in Claimers :
          \/ PollStep(w) \/ PollClaimFails(w) \/ PollGivesUp(w)
          \/ Stop(w) \/ Die(w) \/ Restart(w)
    \/ \E t \in Tasks, a \in Attempts :
          \/ Progress(t, a) \/ Heartbeat(t, a)
          \/ HeartbeatEnds(t, a) \/ Unawaited(t, a)
    \/ \E t \in Tasks : Request(t)
    \/ PassTime

(* A live process keeps polling (the interval timer), a stopped one ends    *)
(* and is restarted by its supervisor; executions go on (an invocation has  *)
(* a timeout) and the database ends every transaction; time passes.         *)
(* Nothing is assumed of the callers.                                       *)
Fairness ==
    /\ \A w \in Claimers :
          WF_vars(PollStep(w) \/ Restart(w) \/ (mode[w] = "stopped" /\ Die(w)))
    /\ \A t \in Tasks, a \in Attempts : WF_vars(Progress(t, a) \/ Unawaited(t, a))
    /\ WF_vars(PassTime)

WorkerSpec == WorkerInit /\ [][WorkerNext]_vars /\ Fairness

-----------------------------------------------------------------------------
(* A broadcast of a final status repeats the recorded verdict: whoever      *)
(* listens never hears of a success that cancellation or recovery overrode. *)
AnnouncedMatchesHistory ==
    \A t \in Tasks, a \in Attempts :
        announced[t][a] \in Outcomes => history[t][a] = announced[t][a]

(* A task is claimed beyond max_attempts only right after an explicit       *)
(* retry: no mix of failures, crashes and lost acknowledgements buys an     *)
(* automatic attempt more.                                                  *)
AttemptBudget ==
    \A t \in Tasks :
        attempt[t] > MaxAttempts => attempt[t] - 1 \in retried[t]

(* While an invocation is under way nobody else owns the task, unless an    *)
(* operator retried it after its lease was lost.                            *)
SoleInvocation ==
    \A t \in Tasks, a \in Attempts :
        At(t, a, "invoke") /\ attempt[t] # a => a \in retried[t]

(* An attempt is announced as running, and its request sent, only when a    *)
(* durable row says so: no invocation escapes the history.                  *)
SentIsRecorded ==
    \A t \in Tasks, a \in Attempts :
        announced[t][a] = "running" => history[t][a] # "none"

(* What the processes keep of the budget and of the history, through every  *)
(* crash, stop and lost acknowledgement.                                    *)
WorkerConsistent == WorkerTypeOK /\ AttemptBudget /\ SentIsRecorded

(* The tenant-side evidence of an attempt disappears only for a later       *)
(* attempt's, or after the attempt has its verdict: a delayed writer or a   *)
(* delayed cleanup never takes the evidence of a newer attempt.             *)
EvidenceIsKept ==
    [][\A t \in Tasks, a \in Attempts :
          mirror[t] = a /\ mirror'[t] # a =>
              mirror'[t] > a \/ history[t][a] \in Outcomes]_vars

(* The processes change the store only through its operations, so what      *)
(* holds of the store for arbitrary callers holds of this system.           *)
UsesStore == StoreInit /\ [][StoreNext]_storeVars

(* Every task that was enqueued is closed in the end, whichever process     *)
(* dies wherever, as long as faults and explicit retries cease.             *)
TaskCloses ==
    \A t \in Tasks : status[t] \in Queued \cup Active ~> status[t] \in Closed
=============================================================================
