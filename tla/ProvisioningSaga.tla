-------------------------- MODULE ProvisioningSaga --------------------------
(***************************************************************************)
(* Creating and deleting a project: task.worker.ts drives a pipeline of    *)
(* project_tasks, each stage enqueueing the next one after it succeeded,   *)
(* and a permanent failure of an early stage enqueueing the clean-up.      *)
(* Unlike background functions these tasks are not fenced by attempt: the  *)
(* worker settles its row by id, whatever became of it meanwhile.          *)
(*                                                                         *)
(* One project and one task worker, which runs one task at a time          *)
(* (isProcessing).  rows is project_tasks in order of creation; a row's    *)
(* lease is "none", "live" or "expired"; its turn orders the rows that are *)
(* pending as next_run_at does, while the delay of a retry may pass at any *)
(* time.  What a stage does outside the database is abstracted to the      *)
(* resources it leaves behind.  A database call that fails for good and a  *)
(* crash both drop what the worker had left to do.                         *)
(***************************************************************************)
EXTENDS Integers, Sequences, FiniteSets

CONSTANTS
    StageRetries,    \* handleTaskFailure's maxRetries of provision_ tasks
    CleanupRetries,  \* and of cleanup_ tasks
    MaxAttempts,     \* max_attempts of createTask
    MaxRows,         \* tasks of the project
    MaxFailures,     \* stages that fail
    MaxFaults,       \* crashes, lost calls and contended activations
    MaxOrders,       \* tasks that are cancelled or retried through the API
    MaxLocks,        \* pauses and restores of the project
    MaxEvents,       \* all of these, and the deletion, together
    MayDelete        \* whether the project is deleted at some time

ASSUME SagaAssumption ==
    /\ {StageRetries, CleanupRetries, MaxAttempts, MaxRows} \subseteq Nat \ {0}
    /\ {MaxFailures, MaxFaults, MaxOrders, MaxLocks, MaxEvents} \subseteq Nat
    /\ MayDelete \in BOOLEAN

VARIABLES
    project,    \* projects.status
    resources,  \* what exists outside the control database
    rows,       \* project_tasks
    worker,     \* what the worker is doing
    api,        \* calls the API process still has to make
    admin,      \* pause or restore that holds the project database lock
    canceller,  \* a cancellation under way
    failures, faults, orders, locks,
    dropped     \* steps that somebody had left to do and never did (audit)

tally    == <<failures, faults, orders, locks, dropped>>
sagaVars == <<project, resources, rows, worker, api, admin, canceller, tally>>

\* There is room for another disturbance, the deletion being one.
deletions == IF project = "deleted" THEN 1 ELSE 0
Calm      == failures + faults + orders + locks + deletions < MaxEvents

Stages == {"provision_db", "provision_s3", "provision_runtime", "provision_realtime",
           "provision_router", "provision_gateway", "provision_secrets"}
Cleanups == {"cleanup_runtime", "cleanup_realtime", "cleanup_s3", "cleanup_db",
             "cleanup_router"}
Kinds == Stages \cup Cleanups

Queued == {"pending", "retry_scheduled"}
Active == {"leased", "running"}
Ended  == {"succeeded", "failed", "dead_lettered", "cancelled"}

(* executeTask, by what a completed stage adds and removes.                 *)
Provides == [provision_db |-> {"db"}, provision_s3 |-> {"s3"},
             provision_runtime |-> {"runtime"}, provision_realtime |-> {"realtime"},
             provision_router |-> {"router"}, provision_gateway |-> {"gateway"},
             provision_secrets |-> {"secrets"}]
Routes   == {"router", "gateway"}
Removes  == [cleanup_runtime |-> {"runtime"} \cup Routes,
             cleanup_realtime |-> {"realtime"}, cleanup_s3 |-> {"s3"},
             cleanup_db |-> {"db"}, cleanup_router |-> Routes]

Effect(kind) ==
    IF kind \in Stages THEN resources \cup Provides[kind] ELSE resources \ Removes[kind]

(* Two clean-ups remove the gateway's routes and neither looks at whether   *)
(* that worked: they succeed with the routes still there.                   *)
EffectButRoutes(kind) == Effect(kind) \cup (resources \cap Routes)

(* handleTaskCompletion: what is left to do after a stage succeeded.        *)
FollowUp == [provision_db |-> <<"provision_s3">>,
             provision_s3 |-> <<"provision_runtime">>,
             provision_runtime |-> <<"provision_realtime">>,
             provision_realtime |-> <<"provision_router">>,
             provision_router |-> <<"provision_gateway">>,
             provision_gateway |-> <<"provision_secrets">>,
             provision_secrets |-> <<"activate">>,
             cleanup_runtime |-> <<"cleanup_realtime">>,
             cleanup_realtime |-> <<"cleanup_s3">>,
             cleanup_s3 |-> <<"cleanup_db">>,
             cleanup_db |-> <<"cleanup_router">>,
             cleanup_router |-> <<>>]

(* handleTaskFailure: what is left to do after a stage failed for good.     *)
(* Fault: the project is not paused.                                       *)
CompensationSilent(kind) ==
    CASE kind = "provision_realtime" -> <<"provision_router">>
      [] kind \in {"provision_s3", "provision_runtime"} ->
            <<"cleanup_runtime", "cleanup_s3", "cleanup_db">>
      [] OTHER -> <<>>

Compensation(kind) ==
    CASE kind = "provision_realtime" -> <<"provision_router">>
      [] kind = "provision_db" -> <<"pause">>
      [] kind \in {"provision_s3", "provision_runtime"} ->
            <<"pause", "cleanup_runtime", "cleanup_s3", "cleanup_db">>
      [] OTHER -> <<>>

(* Fault: a clean-up is tried once.                                        *)
RetryLimitOnce(kind) ==
    IF kind = "provision_realtime" THEN 0
    ELSE IF kind \in Cleanups THEN 1 ELSE StageRetries

RetryLimit(kind) ==
    IF kind = "provision_realtime" THEN 0
    ELSE IF kind \in Cleanups THEN CleanupRetries ELSE StageRetries

Idle   == [pc |-> "idle", row |-> 0, retries |-> 0, todo |-> <<>>]
NoCall == [pc |-> "none", row |-> 0]

SagaInit ==
    /\ project = "creating"
    /\ resources = {}
    /\ rows = <<>>
    /\ worker = Idle
    /\ api = <<"provision_db">>
    /\ admin = "none"
    /\ canceller = NoCall
    /\ failures = 0 /\ faults = 0 /\ orders = 0 /\ locks = 0
    /\ dropped = {}

-----------------------------------------------------------------------------
(* Repository operations.                                                   *)
NewRow(kind) == [kind |-> kind, status |-> "pending", attempt |-> 0,
                 lease |-> "none", cancel |-> FALSE, turn |-> 2 * Len(rows)]

createTask(kind) ==
    /\ Len(rows) < MaxRows
    /\ rows' = Append(rows, NewRow(kind))

\* A row that nobody holds any longer.
Released(row, status, cancel) ==
    [kind |-> row.kind, status |-> status, attempt |-> row.attempt,
     lease |-> "none", cancel |-> cancel, turn |-> row.turn]

(* The settlements write by id: no status, attempt or lease is compared.    *)
Settled(r, status) == [rows EXCEPT ![r] = Released(@, status, FALSE)]

Recovered(row) ==
    IF row.status \in Active /\ row.lease = "expired" /\ ~row.cancel
    THEN Released(row, IF row.attempt < MaxAttempts
                       THEN "retry_scheduled" ELSE "dead_lettered", FALSE)
    ELSE row

(* concurrencyByProject is 1 and counts the live leases of the same type.   *)
Due(r) ==
    /\ rows[r].status \in Queued
    /\ ~rows[r].cancel
    /\ \A q \in DOMAIN rows :
          ~(/\ rows[q].kind = rows[r].kind
            /\ rows[q].status \in Active
            /\ rows[q].lease = "live")

Claimable(r) ==
    /\ Due(r)
    /\ rows[r].status = "pending" =>
          \A q \in DOMAIN rows :
             Due(q) /\ rows[q].status = "pending" => rows[r].turn <= rows[q].turn

-----------------------------------------------------------------------------
(* The worker *)
Fault ==
    /\ Calm /\ faults < MaxFaults /\ faults' = faults + 1
    /\ UNCHANGED <<failures, orders, locks>>

Goto(pc) == worker' = [worker EXCEPT !.pc = pc]
Leave    == worker' = Idle

Follow(todo) ==
    IF todo = <<>> THEN Leave
    ELSE worker' = [pc |-> "todo", row |-> worker.row, retries |-> worker.retries,
                    todo |-> todo]

(* claimNextTask, first half: recoverExpiredLeases.                         *)
PollRecover ==
    /\ worker.pc = "idle"
    /\ rows' = [r \in DOMAIN rows |-> Recovered(rows[r])]
    /\ Goto("claim")
    /\ UNCHANGED <<project, resources, api, admin, canceller, tally>>

Leased(row) ==
    [kind |-> row.kind, status |-> "leased", attempt |-> row.attempt + 1,
     lease |-> "live", cancel |-> row.cancel, turn |-> row.turn]

PollClaim ==
    /\ worker.pc = "claim"
    /\ \/ \E r \in DOMAIN rows :
             /\ Claimable(r)
             /\ rows' = [rows EXCEPT ![r] = Leased(@)]
             /\ worker' = [pc |-> "claimed", row |-> r, retries |-> rows[r].attempt + 1,
                           todo |-> <<>>]
       \/ /\ \A r \in DOMAIN rows : ~Claimable(r)
          /\ Leave
          /\ UNCHANGED rows
    /\ UNCHANGED <<project, resources, api, admin, canceller, tally>>

markTaskRunning ==
    LET r == worker.row IN
    /\ worker.pc = "claimed"
    /\ rows' = [rows EXCEPT ![r].status = "running"]
    /\ Goto("running")
    /\ UNCHANGED <<project, resources, api, admin, canceller, tally>>

(* executeTask: the project is looked up, then the stage is carried out.  A *)
(* stage of a project that is gone fails; a stage that fails otherwise may  *)
(* have done its work or not.                                               *)
findProject ==
    LET kind == rows[worker.row].kind IN
    /\ worker.pc = "running"
    /\ Goto(IF project = "deleted" /\ kind \in Stages THEN "failed" ELSE "acting")
    /\ UNCHANGED <<project, resources, rows, api, admin, canceller, tally>>

executeTask ==
    LET kind == rows[worker.row].kind IN
    /\ worker.pc = "acting"
    /\ \/ /\ resources' = Effect(kind)
          /\ Goto("succeeded")
          /\ UNCHANGED failures
       \/ /\ Calm
          /\ failures < MaxFailures
          /\ failures' = failures + 1
          /\ \/ resources' \in {resources, Effect(kind)} /\ Goto("failed")
             \/ /\ kind \in {"cleanup_runtime", "cleanup_router"}
                /\ resources' = EffectButRoutes(kind)
                /\ Goto("succeeded")
    /\ UNCHANGED <<project, rows, api, admin, canceller>>
    /\ UNCHANGED <<faults, orders, locks, dropped>>

markTaskSucceeded ==
    LET r == worker.row IN
    /\ worker.pc = "succeeded"
    /\ rows' = Settled(r, "succeeded")
    /\ Follow(FollowUp[rows[r].kind])
    /\ UNCHANGED <<project, resources, api, admin, canceller, tally>>

(* retries is the attempt as the claim returned it.                         *)
handleTaskFailure ==
    LET r == worker.row IN
    /\ worker.pc = "failed"
    /\ IF worker.retries < RetryLimit(rows[r].kind)
       THEN /\ rows' = Settled(r, "retry_scheduled")
            /\ Leave
       ELSE /\ rows' = Settled(r, "failed")
            /\ Follow(Compensation(rows[r].kind))
    /\ UNCHANGED <<project, resources, api, admin, canceller, tally>>

(* activateCreatingProject: refused while somebody holds the project's      *)
(* database lock, and it changes a project that is still being created.     *)
(* Fault: whatever its status, the project is activated.                   *)
ActivatedAlways == IF project = "deleted" THEN project ELSE "active"

(* Fault: the update looks for a project that is paused.                   *)
ActivatedPaused == IF project = "paused" THEN "active" ELSE project

Activated == IF project = "creating" THEN "active" ELSE project
Paused    == IF project = "deleted" THEN project ELSE "paused"

Contended == admin # "none"

todoStep ==
    LET step == Head(worker.todo) IN
    /\ worker.pc = "todo"
    /\ \/ step \in Kinds /\ createTask(step) /\ UNCHANGED project
       \/ step = "pause" /\ project' = Paused /\ UNCHANGED rows
       \/ /\ step = "activate"
          /\ project' = IF Contended THEN project ELSE Activated
          /\ UNCHANGED rows
    /\ dropped' = IF step = "activate" /\ Contended THEN dropped \cup {step} ELSE dropped
    /\ Follow(Tail(worker.todo))
    /\ UNCHANGED <<resources, api, admin, canceller, failures, faults, orders, locks>>

(* A crash, or an exception that ends the poll.  A stage under way may have *)
(* had its effect.  A worker that holds nothing loses nothing.              *)
Crash ==
    /\ worker.pc \notin {"idle", "claim"}
    /\ Leave
    /\ \/ UNCHANGED resources
       \/ worker.pc = "acting" /\ resources' = Effect(rows[worker.row].kind)
    /\ dropped' = dropped \cup {worker.todo[i] : i \in DOMAIN worker.todo}
    /\ Fault
    /\ UNCHANGED <<project, rows, api, admin, canceller>>

(* Nobody but the worker looks at the leases, so it matters only that the   *)
(* lease of a task it has dropped runs out.                                 *)
LeaseExpires(r) ==
    /\ rows[r].lease = "live"
    /\ worker.row # r
    /\ rows' = [rows EXCEPT ![r].lease = "expired"]
    /\ UNCHANGED <<project, resources, worker, api, admin, canceller, tally>>

-----------------------------------------------------------------------------
(* The API.  deleteProject and restoreProject answer before the task that   *)
(* carries them out is enqueued.                                            *)
Order ==
    /\ Calm /\ orders < MaxOrders /\ orders' = orders + 1
    /\ UNCHANGED <<failures, faults, locks, dropped>>

apiStep ==
    /\ api # <<>>
    /\ createTask(Head(api))
    /\ api' = Tail(api)
    /\ UNCHANGED <<project, resources, worker, admin, canceller, tally>>

(* The task cannot be enqueued (the project is paused if the pipeline was   *)
(* to start), or the process dies before it is.                             *)
apiFails ==
    /\ api # <<>>
    /\ api' = Tail(api)
    /\ \/ Head(api) = "provision_db" /\ project' = Paused /\ UNCHANGED dropped
       \/ UNCHANGED project /\ dropped' = dropped \cup {Head(api)}
    /\ Fault
    /\ UNCHANGED <<resources, rows, worker, admin, canceller>>

deleteProject ==
    /\ MayDelete /\ Calm /\ project # "deleted"
    /\ project' = "deleted"
    /\ api' = Append(api, "cleanup_runtime")
    /\ UNCHANGED <<resources, rows, worker, admin, canceller, tally>>

(* pauseProject and restoreProject hold the project's database lock from    *)
(* the lookup to the update of the status.                                  *)
lockProject ==
    /\ admin = "none" /\ project # "deleted"
    /\ admin' \in {"pause", IF "db" \in resources THEN "resume" ELSE "rebuild"}
    /\ Calm /\ locks < MaxLocks /\ locks' = locks + 1
    /\ UNCHANGED <<project, resources, rows, worker, api, canceller>>
    /\ UNCHANGED <<failures, faults, orders, dropped>>

NewStatus == [pause |-> "paused", resume |-> "active", rebuild |-> "creating"]

unlockProject ==
    /\ admin # "none"
    /\ admin' = "none"
    /\ project' = IF project = "deleted" THEN project ELSE NewStatus[admin]
    /\ api' = IF admin = "rebuild" THEN Append(api, "provision_db") ELSE api
    /\ UNCHANGED <<resources, rows, worker, canceller, tally>>

(* The runtime could not be paused: the project keeps its status.           *)
pauseFails ==
    /\ admin = "pause"
    /\ admin' = "none"
    /\ Calm /\ failures < MaxFailures /\ failures' = failures + 1
    /\ UNCHANGED <<project, resources, rows, worker, api, canceller>>
    /\ UNCHANGED <<faults, orders, locks, dropped>>

(* cancel of a task that is not an edge function: the row is read, then     *)
(* flagged, then, if it was queued when it was read, cancelled by id.       *)
cancelRead(r) ==
    /\ canceller = NoCall
    /\ rows[r].status \notin Ended
    /\ canceller' = [pc |-> IF rows[r].status \in Queued THEN "flag" ELSE "flagOnly",
                     row |-> r]
    /\ Order
    /\ UNCHANGED <<project, resources, rows, worker, api, admin>>

requestTaskCancellation ==
    /\ canceller.pc \in {"flag", "flagOnly"}
    /\ rows' = [rows EXCEPT ![canceller.row].cancel = TRUE]
    /\ canceller' = IF canceller.pc = "flag" THEN [canceller EXCEPT !.pc = "cancel"]
                                             ELSE NoCall
    /\ UNCHANGED <<project, resources, worker, api, admin, tally>>

cancelTask ==
    /\ canceller.pc = "cancel"
    /\ rows' = [rows EXCEPT ![canceller.row] = Released(@, "cancelled", TRUE)]
    /\ canceller' = NoCall
    /\ UNCHANGED <<project, resources, worker, api, admin, tally>>

retryTask(r) ==
    /\ rows[r].status \in {"failed", "dead_lettered", "cancelled"}
    /\ rows' = [Settled(r, "pending") EXCEPT ![r].turn = 2 * Len(rows) - 1]
    /\ Order
    /\ UNCHANGED <<project, resources, worker, api, admin, canceller>>

-----------------------------------------------------------------------------
WorkerStep ==
    \/ PollRecover \/ PollClaim \/ markTaskRunning \/ findProject
    \/ executeTask \/ markTaskSucceeded \/ handleTaskFailure \/ todoStep

ApiStep == apiStep \/ unlockProject \/ requestTaskCancellation \/ cancelTask

SagaNext ==
    \/ WorkerStep \/ Crash
    \/ \E r \in DOMAIN rows : LeaseExpires(r) \/ cancelRead(r) \/ retryTask(r)
    \/ ApiStep \/ apiFails \/ deleteProject \/ lockProject \/ pauseFails

(* A worker keeps polling and finishes what it is doing, the API process    *)
(* makes the calls it has to make, and the leases of the dead run out.      *)
SagaFairness ==
    /\ WF_sagaVars(WorkerStep)
    /\ WF_sagaVars(ApiStep)
    /\ WF_sagaVars(\E r \in DOMAIN rows : LeaseExpires(r))

SagaSpec == SagaInit /\ [][SagaNext]_sagaVars /\ SagaFairness

-----------------------------------------------------------------------------
Core == {"db", "s3", "runtime", "router", "gateway", "secrets"}

\* No task is run more often, unless it is retried through the API.
RunLimit == StageRetries + CleanupRetries + MaxAttempts

SagaTypeOK ==
    /\ project \in {"creating", "active", "paused", "deleted"}
    /\ resources \subseteq Core \cup {"realtime"}
    /\ Len(rows) <= MaxRows
    /\ \A r \in DOMAIN rows :
          rows[r] \in [kind: Kinds, status: Queued \cup Active \cup Ended,
                       attempt: 0..(RunLimit + MaxOrders),
                       lease: {"none", "live", "expired"}, cancel: BOOLEAN,
                       turn: 0..(2 * MaxRows)]
    /\ admin \in {"none"} \cup DOMAIN NewStatus

(* A project that became active through the pipeline has everything but     *)
(* the optional realtime, whatever failed, was retried, cancelled or rolled *)
(* back on the way.  (restoreProject activates a project whose database     *)
(* exists, whatever else is missing, so this ends with the first restore.)  *)
ActiveIsProvisioned == locks = 0 /\ project = "active" => Core \subseteq resources

(* Every row and the project keep their types besides.                      *)
SagaConsistent == SagaTypeOK /\ ActiveIsProvisioned

(* Resources are taken away only from a project that is already paused or   *)
(* deleted: no clean-up overtakes the change of status that announces it,   *)
(* unless the project was restored during the clean-up.                     *)
NoTeardownWhileLive ==
    [][\/ resources \subseteq resources'
       \/ project \in {"paused", "deleted"}
       \/ locks > 0]_sagaVars

(* A project somebody paused, or the saga paused, stays so until it is      *)
(* restored or deleted: a pipeline that finishes late does not revive it.   *)
PauseIsRespected ==
    [][project = "paused" =>
          project' \in {"paused", "deleted"} \/ admin \in {"resume", "rebuild"}]_sagaVars

(* A row that nobody will carry on from: it is cancelled or flagged so that *)
(* no claim takes it, recovery gave it up, or it has failed as often as its *)
(* kind is tried and nothing follows.                                       *)
Tries(kind) == IF kind \in Cleanups THEN CleanupRetries ELSE StageRetries

Ends(r) ==
    \/ rows[r].cancel
    \/ rows[r].status = "dead_lettered"
    \/ /\ rows[r].status = "failed"
       /\ rows[r].attempt >= Tries(rows[r].kind)
       /\ Compensation(rows[r].kind) = <<>>

(* Creation comes to an end through any mix of failures, crashes, lost      *)
(* calls, cancellations, retries, pauses and restores: the project leaves   *)
(* "creating", by its activation or by the pause that compensates a failed  *)
(* stage, unless a stage of it ended as above or somebody dropped the very  *)
(* step that would have carried it on.  There is no other stall.            *)
PipelineNeverStalls ==
    project = "creating" ~>
        \/ project # "creating"
        \/ dropped \cap (Stages \cup {"pause", "activate"}) # {}
        \/ \E r \in DOMAIN rows : rows[r].kind \in Stages /\ Ends(r)

Critical == {"provision_db", "provision_s3", "provision_runtime"}

(* A stage that was given up leads to its compensation ("Without this [...] *)
(* the saga compensation below is never reached, stalling the whole         *)
(* pipeline"): the project is paused, or deleted meanwhile.                 *)
GivenUp == {"failed", "dead_lettered"}

FailedStageIsCompensated ==
    (\E r \in DOMAIN rows : rows[r].kind \in Critical /\ rows[r].status \in GivenUp)
    ~> project \in {"paused", "deleted"}

(* Deleting a project frees its resources in the end, even if it was being  *)
(* created, and whatever failed, unless a clean-up ended as above or was    *)
(* dropped.                                                                 *)
DeletedIsFreed ==
    project = "deleted" ~>
        \/ resources \subseteq {"secrets"}
        \/ dropped \cap Cleanups # {}
        \/ \E r \in DOMAIN rows : rows[r].kind \in Cleanups /\ Ends(r)
=============================================================================
