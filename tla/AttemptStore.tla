---------------------------- MODULE AttemptStore ----------------------------
(***************************************************************************)
(* The control-plane side of background functions: the edge_function rows  *)
(* of project_tasks and their project_task_attempts, as changed by         *)
(* background-attempt-store.ts and by the statements of task.repository.ts *)
(* that touch such rows.  An action is a committed transaction, or the     *)
(* part of one up to a point at which others may step in: a claim takes    *)
(* its snapshot, locks its row and commits; a renewal and a start look at  *)
(* the lease, under the row's lock, and write it in a later statement.     *)
(*                                                                         *)
(* The callers are arbitrary: an operation that takes an attempt number    *)
(* may be called with any attempt at any time, so whatever holds here      *)
(* holds for every worker, however late, slow or duplicated.               *)
(*                                                                         *)
(* Tasks are the edge_function tasks of one project: the claim's           *)
(* concurrency limit counts within a project and a task type.  A variable  *)
(* is a column; lease[t] is the time left until lease_until, NoLease when  *)
(* the column is NULL; due[t] says that next_run_at has passed.            *)
(***************************************************************************)
EXTENDS Integers, FiniteSets

CONSTANTS
    Tasks,             \* task ids
    Claimers,          \* connections that run claimNextTask
    MaxAttempts,       \* project_tasks.max_attempts
    AttemptLimit,      \* largest value of the integer column attempt
    LeaseTicks,        \* length of a lease
    ConcurrencyLimit,  \* tasks of the project that may hold a live lease
    NoTask             \* no row is locked

ASSUME StoreAssumption ==
    /\ MaxAttempts \in Nat \ {0}
    /\ AttemptLimit \in Nat \ {0}
    /\ LeaseTicks \in Nat \ {0}
    /\ ConcurrencyLimit \in Nat \ {0}
    /\ NoTask \notin Tasks

VARIABLES
    status,    \* project_tasks.status
    attempt,   \* project_tasks.attempt
    lease,     \* time left until project_tasks.lease_until
    cancel,    \* project_tasks.cancel_requested_at IS NOT NULL
    due,       \* project_tasks.next_run_at <= NOW()
    history,   \* project_task_attempts.status by attempt_no, "none" if no row
    seen,      \* the candidates in the snapshot of each claim in flight
    locked,    \* the row each claim in flight has locked
    tx,        \* the renewal or start that holds a row and found its lease live
    overrun,   \* tasks whose lease ran out under such a transaction (audit)
    retried    \* attempts after which an operator asked for a retry (audit)

rowVars   == <<status, attempt, lease, cancel, due, history>>
storeVars == <<status, attempt, lease, cancel, due, history,
               seen, locked, tx, overrun, retried>>

NoLease  == -1
Attempts == 1..AttemptLimit
Queued   == {"pending", "retry_scheduled"}
Active   == {"leased", "running"}
Outcomes == {"succeeded", "retry_scheduled", "dead_lettered", "cancelled"}
Closed   == {"succeeded", "failed", "dead_lettered", "cancelled"}
Statuses == {"absent"} \cup Queued \cup Active \cup Closed

TypeOK ==
    /\ status  \in [Tasks -> Statuses]
    /\ attempt \in [Tasks -> 0..AttemptLimit]
    /\ lease   \in [Tasks -> {NoLease} \cup 0..LeaseTicks]
    /\ cancel  \in [Tasks -> BOOLEAN]
    /\ due     \in [Tasks -> BOOLEAN]
    /\ history \in [Tasks -> [Attempts -> {"none", "running"} \cup Outcomes]]
    /\ seen    \in [Claimers -> SUBSET Tasks]
    /\ locked  \in [Claimers -> Tasks \cup {NoTask}]
    /\ tx      \in [Tasks -> {"none", "renew", "start"}]
    /\ overrun \subseteq Tasks
    /\ retried \in [Tasks -> SUBSET (0..AttemptLimit)]

StoreInit ==
    /\ status  = [t \in Tasks |-> "absent"]
    /\ attempt = [t \in Tasks |-> 0]
    /\ lease   = [t \in Tasks |-> NoLease]
    /\ cancel  = [t \in Tasks |-> FALSE]
    /\ due     = [t \in Tasks |-> FALSE]
    /\ history = [t \in Tasks |-> [a \in Attempts |-> "none"]]
    /\ seen    = [c \in Claimers |-> {}]
    /\ locked  = [c \in Claimers |-> NoTask]
    /\ tx      = [t \in Tasks |-> "none"]
    /\ overrun = {}
    /\ retried = [t \in Tasks |-> {}]

-----------------------------------------------------------------------------
(* A row locked by a claim or by a transaction of the attempt store makes   *)
(* every other writer of that row wait.                                     *)
(* Fault: writers do not wait.                                              *)
NeverLocked(t) == TRUE

Unlocked(t) == tx[t] = "none" /\ \A c \in Claimers : locked[c] # t

Live(t)    == lease[t] > 0
Expired(t) == lease[t] = 0

(* enqueueBackgroundFunctionTask: the insert.                               *)
Enqueue(t) ==
    /\ status[t] = "absent"
    /\ status' = [status EXCEPT ![t] = "pending"]
    /\ due'    = [due EXCEPT ![t] = TRUE]
    /\ UNCHANGED <<attempt, lease, cancel, history>>
    /\ UNCHANGED <<seen, locked, tx, overrun, retried>>

(* claimNextTask is one statement.  Its candidates and its count of live    *)
(* leases come from the statement's snapshot.  It then locks the first      *)
(* candidate that it can, passing over locked rows and rows that have       *)
(* changed so that they no longer qualify; the count is not taken again.    *)
(* FOR UPDATE covers the joined projects row as well: while one claim holds *)
(* a task of the project, no other claim locks any.                         *)
LiveLeases == {t \in Tasks : status[t] \in Active /\ Live(t)}

Waiting(t) == status[t] \in Queued /\ due[t] /\ ~cancel[t]

Claimable == {t \in Tasks : Waiting(t) /\ Cardinality(LiveLeases) < ConcurrencyLimit}

Idle(c) == seen[c] = {} /\ locked[c] = NoTask

ClaimSnapshot(c) ==
    /\ Idle(c)
    /\ Claimable # {}
    /\ seen' = [seen EXCEPT ![c] = Claimable]
    /\ UNCHANGED <<rowVars, locked, tx, overrun, retried>>

Lockable(c, t) ==
    /\ t \in seen[c]
    /\ Waiting(t)
    /\ Unlocked(t)
    /\ \A d \in Claimers : locked[d] = NoTask

ClaimLock(c, t) ==
    /\ Lockable(c, t)
    /\ seen'   = [seen EXCEPT ![c] = {}]
    /\ locked' = [locked EXCEPT ![c] = t]
    /\ UNCHANGED <<rowVars, tx, overrun, retried>>

NextAttempt(t) == attempt[t] + 1

ClaimCommit(c) ==
    LET t == locked[c] IN
    /\ t # NoTask
    /\ NextAttempt(t) <= AttemptLimit
    /\ status'  = [status EXCEPT ![t] = "leased"]
    /\ attempt' = [attempt EXCEPT ![t] = NextAttempt(t)]
    /\ lease'   = [lease EXCEPT ![t] = LeaseTicks]
    /\ locked'  = [locked EXCEPT ![c] = NoTask]
    /\ overrun' = overrun \ {t}
    /\ UNCHANGED <<cancel, due, history, seen, tx, retried>>

(* The statement finds no candidate it can lock, fails, or loses its        *)
(* connection before the commit.                                            *)
ClaimAbort(c) ==
    /\ ~Idle(c)
    /\ seen'   = [seen EXCEPT ![c] = {}]
    /\ locked' = [locked EXCEPT ![c] = NoTask]
    /\ UNCHANGED <<rowVars, tx, overrun, retried>>

(* recoverExpiredLeases: one UPDATE of the expired rows that nobody asked   *)
(* to cancel.  It waits for a locked row and looks at it again, and leaves  *)
(* a row that expires while it waits to the next call: a batch.  A running  *)
(* invocation has an unknown outcome and is not replayed; a lease that was  *)
(* never started is.                                                        *)
Recoverable ==
    {t \in Tasks : status[t] \in Active /\ Expired(t) /\ ~cancel[t] /\ Unlocked(t)}

(* Fault: recovery treats a running invocation like one never started.     *)
RecoveredAlike(t) ==
    IF attempt[t] < MaxAttempts THEN "retry_scheduled" ELSE "dead_lettered"

RecoveredStatus(t) ==
    IF status[t] = "leased" /\ attempt[t] < MaxAttempts
    THEN "retry_scheduled" ELSE "dead_lettered"

RecoverExpired(batch) ==
    /\ batch # {}
    /\ batch \subseteq Recoverable
    /\ status' = [t \in Tasks |->
                    IF t \in batch THEN RecoveredStatus(t) ELSE status[t]]
    /\ lease'  = [t \in Tasks |-> IF t \in batch THEN NoLease ELSE lease[t]]
    /\ due'    = [t \in Tasks |->
                    due[t] \/ (t \in batch /\ RecoveredStatus(t) = "retry_scheduled")]
    /\ UNCHANGED <<attempt, cancel, history, seen, locked, tx, overrun, retried>>

-----------------------------------------------------------------------------
(* background-attempt-store.ts.  locked() selects the row of exactly this   *)
(* attempt and holds it for the transaction; hasLiveLease is read after,    *)
(* and what follows is written later still.                                 *)
(* Fault: an earlier attempt passes for the owner.                         *)
OwnsSince(t, a) == a <= attempt[t] /\ Unlocked(t)

Owns(t, a) == attempt[t] = a /\ Unlocked(t)

(* The row is selected by its attempt: nothing waits for another's.         *)
Answers(t, a) == attempt[t] = a => Unlocked(t)

(* Fault: the lease is renewed without looking whether it is still live.   *)
RenewableLate(t, a) == Owns(t, a) /\ status[t] \in Active /\ ~cancel[t]

Renewable(t, a) == Owns(t, a) /\ status[t] \in Active /\ ~cancel[t] /\ Live(t)
Startable(t, a) == Owns(t, a) /\ status[t] = "leased" /\ ~cancel[t] /\ Live(t)

SetTx(t, kind) ==
    /\ tx' = [tx EXCEPT ![t] = kind]
    /\ UNCHANGED <<rowVars, seen, locked, overrun, retried>>

RenewCheck(t, a) == Renewable(t, a) /\ SetTx(t, "renew")
StartCheck(t, a) == Startable(t, a) /\ SetTx(t, "start")

(* The write and the commit: the lease may have expired since the check.    *)
Extends(t, a, kind) ==
    /\ tx[t] = kind
    /\ attempt[t] = a
    /\ lease'   = [lease EXCEPT ![t] = LeaseTicks]
    /\ tx'      = [tx EXCEPT ![t] = "none"]
    /\ UNCHANGED <<attempt, cancel, due, seen, locked, overrun, retried>>

Renew(t, a) ==
    /\ Extends(t, a, "renew")
    /\ UNCHANGED <<status, history>>

Start(t, a) ==
    /\ Extends(t, a, "start")
    /\ history[t][a] = "none"
    /\ history' = [history EXCEPT ![t][a] = "running"]
    /\ status'  = [status EXCEPT ![t] = "running"]

TxAbort(t) == tx[t] # "none" /\ SetTx(t, "none")

(* finish also reads the lease and writes later, but it only ends the lease *)
(* and nobody writes the row in between: it takes effect at its check.      *)
Finishable(t, a) == Owns(t, a) /\ status[t] \in Active /\ Live(t)

(* A cancellation request that is already committed wins over the outcome.  *)
(* Fault: the cancellation request is not looked at.                       *)
SettledAsAsked(t, outcome) == outcome

SettledAs(t, outcome) == IF cancel[t] THEN "cancelled" ELSE outcome

Finish(t, a, outcome) ==
    LET settled == SettledAs(t, outcome) IN
    /\ Finishable(t, a)
    /\ history[t][a] \in {"none", "running"}
    /\ status'  = [status EXCEPT ![t] = settled]
    /\ lease'   = [lease EXCEPT ![t] = NoLease]
    /\ due'     = [due EXCEPT ![t] = due[t] /\ settled # "retry_scheduled"]
    /\ cancel'  = [cancel EXCEPT ![t] = settled = "cancelled"]
    /\ history' = [history EXCEPT ![t][a] = settled]
    /\ UNCHANGED <<attempt, seen, locked, tx, overrun, retried>>

RequestCancellation(t, a) ==
    /\ Owns(t, a)
    /\ status[t] \in Queued \cup Active
    /\ cancel' = [cancel EXCEPT ![t] = TRUE]
    /\ status' = [status EXCEPT ![t] = IF @ \in Queued THEN "cancelled" ELSE @]
    /\ lease'  = [lease EXCEPT ![t] = IF status[t] \in Queued THEN NoLease ELSE @]
    /\ UNCHANGED <<attempt, due, history, seen, locked, tx, overrun, retried>>

(* recoverCancelled sweeps a bounded batch of the rows whose cancellation   *)
(* was accepted and whose owner let the lease run out, but for locked ones. *)
(* Fault: the sweep looks only at tasks that were started.                 *)
AbandonedStarted ==
    {t \in Tasks : status[t] = "running" /\ Expired(t) /\ cancel[t] /\ Unlocked(t)}

Abandoned ==
    {t \in Tasks : status[t] \in Active /\ Expired(t) /\ cancel[t] /\ Unlocked(t)}

RecoverCancelled(batch) ==
    /\ batch # {}
    /\ batch \subseteq Abandoned
    /\ status'  = [t \in Tasks |-> IF t \in batch THEN "cancelled" ELSE status[t]]
    /\ lease'   = [t \in Tasks |-> IF t \in batch THEN NoLease ELSE lease[t]]
    /\ history' = [t \in Tasks |-> [a \in Attempts |->
                     IF t \in batch /\ a = attempt[t] /\ history[t][a] = "running"
                     THEN "cancelled" ELSE history[t][a]]]
    /\ UNCHANGED <<attempt, cancel, due, seen, locked, tx, overrun, retried>>

(* retryTask, the operator's explicit retry: the attempt is not reset.      *)
(* Fault: any closed task can be retried.                                  *)
RetryableClosed == Closed

Retryable == {"failed", "dead_lettered", "cancelled"}

RetryTask(t) ==
    /\ status[t] \in Retryable
    /\ Unlocked(t)
    /\ status'  = [status EXCEPT ![t] = "pending"]
    /\ lease'   = [lease EXCEPT ![t] = NoLease]
    /\ due'     = [due EXCEPT ![t] = TRUE]
    /\ cancel'  = [cancel EXCEPT ![t] = FALSE]
    /\ retried' = [retried EXCEPT ![t] = @ \cup {attempt[t]}]
    /\ UNCHANGED <<attempt, history, seen, locked, tx, overrun>>

(* Time passes for every lease alike; next_run_at of a queued row passes.   *)
Tick ==
    /\ \E t \in Tasks : lease[t] > 0
    /\ lease' = [t \in Tasks |-> IF lease[t] > 0 THEN lease[t] - 1 ELSE lease[t]]
    /\ overrun' = overrun \cup {t \in Tasks : lease[t] = 1 /\ tx[t] # "none"}
    /\ UNCHANGED <<status, attempt, cancel, due, history, seen, locked, tx, retried>>

RetryDue(t) ==
    /\ status[t] = "retry_scheduled"
    /\ ~due[t]
    /\ due' = [due EXCEPT ![t] = TRUE]
    /\ UNCHANGED <<status, attempt, lease, cancel, history>>
    /\ UNCHANGED <<seen, locked, tx, overrun, retried>>

-----------------------------------------------------------------------------
StoreNext ==
    \/ \E t \in Tasks : Enqueue(t) \/ RetryTask(t) \/ RetryDue(t)
    \/ \E c \in Claimers : ClaimSnapshot(c) \/ ClaimCommit(c) \/ ClaimAbort(c)
    \/ \E c \in Claimers, t \in Tasks : ClaimLock(c, t)
    \/ \E t \in Tasks : TxAbort(t)
    \/ \E t \in Tasks, a \in Attempts :
          \/ RenewCheck(t, a) \/ Renew(t, a)
          \/ StartCheck(t, a) \/ Start(t, a)
          \/ \E outcome \in Outcomes : Finish(t, a, outcome)
    \/ \E t \in Tasks, a \in 0..AttemptLimit : RequestCancellation(t, a)
    \/ \E batch \in SUBSET Abandoned : RecoverCancelled(batch)
    \/ \E batch \in SUBSET Recoverable : RecoverExpired(batch)
    \/ Tick

StoreSpec == StoreInit /\ [][StoreNext]_storeVars

-----------------------------------------------------------------------------
(* A lease is held exactly while an attempt owns the task: no settlement,   *)
(* recovery, cancellation or retry leaves a lease behind or forgets one,    *)
(* so no row is Active without a lease_until that some recovery will see.   *)
LeaseMatchesStatus ==
    \A t \in Tasks : lease[t] # NoLease <=> status[t] \in Active

(* project_tasks and project_task_attempts agree: a leased task has no row  *)
(* for its attempt, a running one has a running row, and no row exists for  *)
(* an attempt not yet claimed.  So "Background attempt already started" and *)
(* "history conflicts with task state" are never thrown.                    *)
AttemptRowAgrees ==
    \A t \in Tasks :
        /\ status[t] \in Active => attempt[t] \in Attempts
        /\ status[t] = "leased"  => history[t][attempt[t]] = "none"
        /\ status[t] = "running" => history[t][attempt[t]] = "running"
        /\ \A a \in Attempts : a > attempt[t] => history[t][a] = "none"

(* A row that a claim has locked stays queued until the claim commits, and  *)
(* one claim at a time locks it: cancellation, recovery and retry wait, so  *)
(* the claim never overwrites what they decided in the meantime.            *)
LockedIsQueued ==
    \A c \in Claimers :
        locked[c] # NoTask =>
            /\ status[locked[c]] \in Queued
            /\ \A d \in Claimers : locked[d] = locked[c] => d = c

(* A renewal or a start that found its lease live owns the row until it     *)
(* ends, however long it takes: even when the lease has run out meanwhile,  *)
(* no recovery, cancellation or claim has taken the task from it.           *)
HeldIsOwned ==
    \A t \in Tasks :
        /\ tx[t] # "none"  => status[t] \in Active /\ ~cancel[t]
        /\ tx[t] = "start" => status[t] = "leased"

(* What any sequence of operations leaves behind, whoever calls them with   *)
(* whatever attempt number: typed rows, leases where attempts own, histories*)
(* that match, and claims, renewals and starts that nobody overwrites.      *)
StoreConsistent ==
    /\ TypeOK
    /\ LeaseMatchesStatus
    /\ AttemptRowAgrees
    /\ LockedIsQueued
    /\ HeldIsOwned

(* An invocation that was started and has no recorded verdict may have had  *)
(* any effect.  The task is queued or claimed again after it only because   *)
(* an operator retried it explicitly: never by recovery, whatever expires.  *)
NoBlindReplay ==
    \A t \in Tasks, a \in Attempts :
        /\ history[t][a] = "running"
        /\ a < attempt[t] \/ status[t] \in Queued
        => a \in retried[t]

(* The leases that the claim admitted, as opposed to those that ran out     *)
(* under a renewal or a start that was past its check and brought them back.*)
Admitted == LiveLeases \ overrun

(* The claim's admission limit: at most ConcurrencyLimit tasks of a project *)
(* hold a live lease (docs/background-functions.md, "Project-level          *)
(* concurrency [...] limits still apply"), but for the leases that ran out  *)
(* under a transaction: a claim may have counted them as over before they   *)
(* were brought back.  No other operation goes beyond the limit.            *)
ConcurrencyRespected == Cardinality(Admitted) <= ConcurrencyLimit

(* Only the attempt that owns the task writes its own history row, and a    *)
(* verdict, once recorded, is never replaced: a slow, duplicated or overrun *)
(* owner of an earlier attempt changes nothing.                             *)
HistoryIsFenced ==
    [][\A t \in Tasks, a \in Attempts :
          history'[t][a] # history[t][a] =>
              /\ a = attempt[t]
              /\ status[t] \in Active
              /\ history[t][a] \notin Outcomes]_storeVars

(* Once cancellation of an owned task is accepted, the task stays owned     *)
(* with the request standing, or ends cancelled: a late success, failure or *)
(* lease recovery does not overtake it.                                     *)
CancellationWins ==
    [][\A t \in Tasks :
          status[t] \in Active /\ cancel[t] =>
              \/ status'[t] = status[t] /\ cancel'[t]
              \/ status'[t] = "cancelled"]_storeVars

-----------------------------------------------------------------------------
(* The store implements the ledger: a lease is ownership, a started row is  *)
(* execution, and a row of project_task_attempts is a verdict once settled. *)
PhaseOf(s) ==
    CASE s \in Queued    -> "queued"
      [] s = "leased"    -> "owned"
      [] s = "running"   -> "executing"
      [] s = "succeeded" -> "done"
      [] s = "absent"    -> "absent"
      [] OTHER           -> "closed"

VerdictOf(h) == IF h = "running" THEN "none" ELSE h

Ledger == INSTANCE AttemptLedger WITH
    GenerationLimit <- AttemptLimit,
    phase   <- [t \in Tasks |-> PhaseOf(status[t])],
    gen     <- attempt,
    verdict <- [t \in Tasks |-> [a \in Attempts |-> VerdictOf(history[t][a])]]

(* Every task moves only as AttemptLedger allows, whoever calls the store   *)
(* with whatever attempt number.                                            *)
ImplementsLedger == Ledger!LedgerSpec
=============================================================================
