# SupaCloud: TLA+ models, model checking and proofs

This directory specifies the parts of SupaCloud whose correctness depends on the
order in which processes, database transactions, crashes and retries meet. The
modules follow the code under `src/`; `PROJECT.json` gives, for every definition,
the file and lines it stands for.

## The system

SupaCloud runs many isolated projects from one control plane. The parts, the state
they keep and how they meet:

| Part | State | Operations | Meets |
| --- | --- | --- | --- |
| Attempt store (`repositories/background-attempt-store.ts`, `task.repository.ts`) | `project_tasks`, `project_task_attempts` | claim, renew, start, finish, request cancellation, recover expired leases, sweep cancelled, retry | every worker process, the tasks API |
| Background worker (`services/background-function-worker.ts`) | poll loop, executions and heartbeats of a process; the tenant's `background_task_mirrors` | poll, execute, heartbeat, cancel, stop | attempt store, GoTrue's `auth.users`, the edge runtime |
| Provisioning saga (`services/task.worker.ts`, `project.service.ts`) | `projects.status`, `project_tasks` rows, the resources outside the database | stages, compensation, delete, pause, restore | task repository, advisory lock of the project's database |
| User deletion (`routes/auth-users.ts`, `services/user-safety.service.ts`, the trigger in `db/platform-v2.ts`) | `project_user_deletion_fences` | begin, mark started, complete, fail, reconcile, resume | `project_tasks` (the trigger), GoTrue |
| Branch replacement (`services/branch.service.ts`, `branch-replacement-*.ts`, `migration-lock.ts`) | databases by name, `branch_replacement_journal`, a session lock | replace, roll back, recover, sweep | migrations, the tenant's runtime |
| Application activation (`services/application-activation.ts`, `application-deployment.ts`, `project-mutation.service.ts`) | `project_mutations`, `active.json`, units, routes, `application_runtime_allocations` | activate, deactivate, reconcile, retire | gateway, systemd |
| Webhook delivery (`services/webhook-delivery.service.ts`, `workers/webhook-delivery.worker.ts`) | `project_webhooks`, `webhook_outbox`, `webhook_deliveries`, managed secrets | create, change, delete, rotate, enqueue, test, replay, claim, sign, send, record | customers' endpoints |
| Edge function deployment | active version, manifests | upload, activate, roll back | edge runtime |
| Edge runtime (`packages/edge-runtime`) | worker pool | dispatch, evict, time out | background worker |
| Realtime gateway (`crates/realtime-gateway`) | channels, subscriptions | join, leave, broadcast | tenant databases |
| Approvals, commands, delivery, worker, pgredis (`packages/*`) | tables of the application's database | durable steps, idempotent commands, release contracts, queue worker, cache registry | applications |
| Framework, clients, console, CLI, Lite, installation | none shared with the above, or a separate product | | |

What is hard in it: several management-api processes poll one table; a claim counts
leases from a snapshot; an execution crosses nine awaits, at each of which the
process may die, the lease may run out or a cancellation may be committed; the
acknowledgement of a commit may be lost; a provider's effects cannot be undone or
queried; provisioning rows are settled by id, without a fence; two different limits
decide when a task is given up; an administrator pauses, restores or deletes a
project while its pipeline runs; a user is deleted in another service, by a request
that may die or be overtaken, while its tasks try to start; a database is swapped by
two renames that are no transaction; an application is switched by effects in four
places, of which any call may fail after it took effect; locks that belong to a
connection are lost under their holder; webhook results are recorded by id after the
claim may have passed on. `PROJECT.json` lists these hazards with the line each bites
at and the properties aimed at it.

What makes each modelled part correct, in a sentence: a background invocation is made
once and its verdict belongs to the attempt that owns the task; a project is active
only when it is provisioned and is freed when deleted; a user is deleted only while no
task acts for it; a replaced database is never lost and never half there; an
application has one release, and nothing interrupted is replayed; an event is
delivered or given up, with every attempt told apart.

## Modules

| Module | Models | How |
| --- | --- | --- |
| `AttemptLedger` | what background tasks promise | one function per task: phase, generation, verdicts; no leases, clocks or workers |
| `AttemptStore` | `edge_function` rows under every store operation | a variable per column; an action per committed transaction, or per part of one that others can see; callers are arbitrary |
| `AttemptStoreProofs` | proofs about `AttemptStore` | see Proofs |
| `MCAttemptStore` | symmetry of the tasks and the claiming connections | |
| `BackgroundWorker` | the processes that use the store | extends `AttemptStore`; every await is a step boundary |
| `MCBackgroundWorker` | symmetry of the processes | |
| `BackgroundWorkerProofs` | proofs about `BackgroundWorker` | extends `AttemptStoreProofs`; see Proofs |
| `ProvisioningSaga` | creation, clean-up, pause, restore and deletion of one project | rows, worker, API calls and resources |
| `ProvisioningSagaProofs` | proofs about `ProvisioningSaga` | see Proofs |
| `UserDeletion` | deletion of one user against the user's tasks | the fence row, the lifecycle lock, the handlers and GoTrue |
| `UserDeletionProofs`, `UserDeletionPromptProofs` | proofs about `UserDeletion` | see Proofs |
| `BranchReplacement` | replacement of a project's database by a copy of a branch's | the cluster's database names, journal, lock, handlers, sweep, migrations |
| `BranchReplacementProofs` | proofs about `BranchReplacement` | see Proofs |
| `ApplicationActivation`, `MCApplicationActivation` | activation, deactivation, reconciliation and retirement of releases | the mutation journal with its leases and epochs, the effects under the row lock; the MC module has the symmetry of the processes and the activations |
| `ApplicationActivationProofs` | proofs about `ApplicationActivation` | see Proofs |
| `WebhookDelivery` | webhooks and their outbox | rows by webhook and idempotency key, workers, the transactions beside them |
| `WebhookDeliveryProofs` | proofs about `WebhookDelivery` | see Proofs |

`AttemptStore`. `lease[t]` is the time left until `lease_until` (`NoLease` for NULL)
and `Tick` lets time pass for all; `due` stands for `next_run_at <= NOW()`. The
claim is one statement of the code and three steps of the model. `ClaimSnapshot`
takes the statement's snapshot, from which both the candidates (`seen`) and the count of
live leases come. `ClaimLock` locks a candidate that is still waiting; the bare
`FOR UPDATE SKIP LOCKED` covers the joined row of `projects` too, so no claim locks a
task of the project while another holds one, but the count is not taken again. The row
lock (`locked`) keeps other writers of the row out until `ClaimCommit`. A renewal and a
start are two steps: under the row's lock (`tx`) they find the lease live, and write it
in a later statement, before which it may run out; the claim's counting read does not
wait for the row. `finish` also checks before it writes, but only ends the lease, and is
one step. Operations that take an attempt are enabled for every attempt number, so the
properties hold for any worker, late or duplicated. `retried` is an auxiliary record of
explicit retries and `overrun` one of the leases that ran out under such a transaction;
neither is a column.

`BackgroundWorker`. A process is a claimer with a poll loop (`poll`) and any number
of executions (`exec`, by task and attempt). A step is what happens between two
awaits. A call that leaves the process has all its outcomes: a commit whose
acknowledgement is lost, a rollback, an inactive project, an invoker that is gone or
cannot be looked up, a provider that answers, fails or never answers. A renewal or a
start whose caller is gone still commits or is rolled back (`Unawaited`). The
announcements (`announced`) and the mirror (`mirror`) are the effects seen outside.

`ProvisioningSaga`. `rows` is `project_tasks` in order of creation. A stage is
claimed, marked running, carried out and settled by id; what is left to do after it
(`todo`: enqueue, pause, activate) is carried out one call at a time, so a crash may
drop any suffix of it. `dropped` is an auxiliary record of the steps lost that way, by a
failed call or by a contended activation. `api` holds the calls that `provisionResources` and
`cleanupResources` make after the request was answered, `admin` is the pause or
restore that holds the project's advisory lock, `canceller` a cancellation between
its three statements. Two clean-ups ignore whether the gateway's routes were removed
(`EffectButRoutes`).

`UserDeletion`. A request mints at most one operation id, so the request stands for
the id; `fence.active` is `operation_expires_at > NOW()`. A transaction that takes
the advisory lock of the user is two steps, its check and its commit, with `lock`
held in between; the trigger on `project_tasks` takes the same lock (`Activate`,
`ActivateCommit`). Statements without that lock still wait for a row that such a
transaction read `FOR UPDATE` (`RowFree`). `Crash` covers a process that dies and a
database call that fails: in both the transaction is rolled back and the handler
writes no more. A DELETE that left for GoTrue may be refused, lost, carried out
late, or answered by a proxy before it is carried out. The auxiliary variable `timely`
turns false when that has happened: a DELETE outlived its operation's five-minute
lease (the client waits ten seconds for it), or somebody other than GoTrue answered
it. The fence row itself is right all the same (`FenceExcludesTasks`,
`RecordedDeletionIsReal`); a DELETE that outlives the fence it was sent under can meet
active tasks, so `DeletedSafely` is stated while `timely` holds.
The clock is read when the step runs, where the code reads the time at which the
transaction began.

`BranchReplacement`. A database is known by its name and holds the original, a copy
made for a request, or a copy restored halfway. A handler drops and creates the
temporary database, restores the dump, stops the runtime, closes the parent to
connections, renames the parent to the backup and the copy to the parent, marks the
journal between, and on failure rolls back what it did; `Recovery` is what both a new
request and the sweep do with an entry they find. Recovery looks at the databases and
not at the phase, so of the journal's columns the request and
`replacement_committed` remain. Every call has three outcomes: done, failed, and done
with an error seen by the caller. `exclusive` records that no lock was lost so far:
without the lock only `PreviousDataKept` and `ParentIsWhole` are claimed.
`RestartElsewhere` is `restartRuntime` as the other parts of the API call it (restart by
the user, changed settings, keys or domains, diagnosis): it takes neither the lock nor
the journal and may come at any moment. `runtime` tells what it started ("restarted")
from what the replacement found or left running.

`ApplicationActivation`. A mutation is a row with status, epoch, lease and the phase
of its last checkpoint. `Begin` and the claim are one transaction (a unique index
allows one active row per resource); an effect runs while its row is locked (`held`)
and after the epoch was compared. `running`, `route`, `active` and `alloc` are the
units, the gateway, the authority on disk and the ports. A failure before the first
effect is terminal, later ones leave the outcome unknown; reconciliation compares the
checkpoint, observes, and confirms. Retirement takes no lock and no mutation, as in
the code; `hasty` remembers a retirement asked for while its activation was not
concluded, and `intact` that no transaction was lost under its holder.

`WebhookDelivery`. A row of the outbox is its webhook and its idempotency key. A worker
claims a row (the attempt is counted with the claim), reads the secret, sends, and
records the result by the id of the row, whatever became of it. `late` remembers the
rows that got a result after their claim was gone, `orphans` the webhooks deleted while
a rotation or an enqueueing transaction had seen them active. `Overrun` is a worker
held up beyond the five minutes after which its claim is taken over.

The modules keep a type invariant and small consistency facts as named parts of one
invariant (`StoreConsistent`, `WorkerConsistent`, `SagaConsistent`, `FenceConsistent`,
`BranchConsistent`, `ActivationConsistent`, `WebhookConsistent`); the properties that
take several actors to break are stated by themselves.

Operators introduced by a comment beginning "Fault:" are not part of the
specifications. Each is a plausible mistake in the definition that follows it, and
`PROJECT.json` names the property that notices it.

## Runs

| Run | Configuration | Shows |
| --- | --- | --- |
| `attempt_store` | 2 tasks, 1 place, 1 claimer, 2 attempts, leases of 1 tick | consistency of rows, leases, claims and transactions in flight, fencing, cancellation, no blind replay, the claim's concurrency limit with one process, refinement of `AttemptLedger` |
| `claim_limit_two_processes` | the same with 2 claimers | the limit is exceeded (violation expected) |
| `worker_safety` | 1 task, 2 processes, 1 fault, 1 automatic attempt and 1 retry | announcements repeat verdicts, budget and history are kept, evidence of newer attempts survives |
| `worker_liveness` | 1 task, 1 process that is restarted, 3 faults, 2 attempts, fair | one invocation at a time; every task is closed; the store is used only through its operations |
| `saga_safety` | any 3 of: 2 failures, a crash, a cancelled or retried task, a pause or restore | an active project is provisioned; nothing is torn down while live; a late pipeline does not revive a paused project |
| `saga_concludes` | any 2 of: a failure, a crash or lost call, a cancelled or retried task, a pause or restore, the deletion; fair | creation ends and a deleted project is freed, unless the step that carries on was dropped, cancelled, dead-lettered or failed for good without compensation |
| `saga_stalls` | a failure and a crash | a critical stage is given up without compensation (violation expected) |
| `user_deletion` | 2 requests (1 soft), 1 task, fair | the fence keeps tasks out, records are real, clients are told the truth, operations are not stolen, deletions are safe while `timely`, every request is answered unless its process dies |
| `branch_replacement` | 2 replacements, a migration of each kind, 3 failures or 1 lost lock, restarts from elsewhere, fair | data kept, parent whole, commits real, journal and lock consistent, every interrupted replacement concluded |
| `branch_sql_route` | 1 replacement, `POST /sql`, 1 crash | a migration runs during a recovery (violation expected) |
| `application_activation` | 2 activations, 1 deactivation, 2 processes, 4 requests, 3 failures | authority, units and gateway agree when nothing is open; one release; no replay; verdicts stand; retired ports are out of service |
| `webhook_delivery` | 1 webhook, 1 event, 1 test or replay, 2 workers, 2 attempts, 1 place, 1 change, 1 fault, fair | attempts distinct, results stay, deleted webhooks idle, limits kept, every event concluded |

Bounds. The properties of the store speak of one task or, for the limit, of two that
compete for one place. Two attempts give a first and a recovered one; in `worker_safety`
the second is an explicit retry. A lease of one tick distinguishes live from expired, and
runs out between any check and its write. `worker_safety` has two processes at once and
one fault; `worker_liveness` one process, with enough faults to lose a claim's
acknowledgement, die and lose another call. Faults are few but placed at every step:
`MaxFaults`,
`MaxRetries`, `MaxFailures`, `MaxOrders`, `MaxLocks`, `MaxEvents`, `MaxRows`,
`MaxRequests` and `MaxChanges` name the bounds in the guards. Two deletion requests let
a second one reconcile or overtake the first. The saga runs use small retry limits, two
for stages and two or three for clean-ups (the code: three and ten). In `saga_concludes`
two events are enough for every kind of stall that the code has, and for a stage to be
given up: its first attempt is lost with a crash, its second fails.
Three faults in a branch replacement let a call fail, its rollback fail and the
recovery fail once; a lost lock costs all three (`LossCost`), since two actors at work
at once are a case of their own. Four requests of an application let a release be
activated, replaced, reconciled after an interruption and retired. One webhook with one
place fills the outbox, and its two rows compete for it. Deadlock is not checked: a
system whose work is done and whose budgets are used up may stop.

Fairness. `Fairness` lets a live process go on polling (the interval timer of
`start`), an execution go on (an invocation has a timeout and every database call a
statement timeout), a stopped process exit, a dead one be restarted by its
supervisor, the database end every transaction, and time pass. Nothing is assumed of callers or of the provider's
verdict. `SagaFairness` lets the worker and the API process continue and the leases
of dropped tasks run out. `FairSpec` of `UserDeletion` is strongly fair to each
handler, because PostgreSQL serves the waiters for a lock in turn and the calls to
GoTrue time out, and weakly fair to the commit of a task's transaction. `FairSpec` of
`BranchReplacement` lets handlers and migrations go on, and is strongly fair to the
sweep, which comes every minute and does not find the lock taken each time. In
`WebhookDelivery` the workers go on polling and time passes; nothing is assumed of the
endpoints. `ApplicationActivation` has no fairness: an interrupted activation waits for
an operator by design.

## Findings

* `claim_limit_two_processes`: `claimNextTask` counts live leases in a subquery over its
  snapshot. A claim that meets another in flight takes nothing, because the project's row
  is locked with the task's; but when its snapshot precedes the other's commit and its
  locking follows it, both rows are free and unchanged, nothing is counted again, and the
  limit is exceeded. `docs/background-functions.md:63` promises that project-level limits
  apply.
* `saga_stalls`: the worker dies in the last attempt of a critical stage;
  `recoverExpiredLeases` dead-letters the row, `handleTaskFailure` never runs, the
  project stays in creation.
* `branch_sql_route`: `POST /sql` consults the journal before it takes the migration
  lock and not again under it, so a migration can run while a replacement waits for its
  recovery. `branch-replacement-journal.ts:38` says that migrations are blocked then.

Met while modelling, without a run.

Background tasks and provisioning:
* A renewal or a start finds its lease live and writes the new one in a later statement
  (`background-attempt-store.ts:69-106`). When the lease runs out in between, a claim that
  counts then lets another task in, and two leases are live with a single claiming
  process. `ConcurrencyRespected` leaves such a lease out (`Admitted`, `overrun`); the task
  itself stays its owner's (`HeldIsOwned`).
* `max_attempts` is 3 for clean-ups too, so a clean-up whose worker dies in its third
  attempt is dead-lettered by lease recovery, long before the ten retries that
  `task.worker.ts:447` grants it.
* A worker that dies between marking a stage succeeded and enqueueing the next one
  leaves no row behind (`task.worker.ts:157`), and the project stays in creation. So does
  one whose activation finds the project's lock taken, or whose stage was cancelled.
  `PipelineNeverStalls` names these exemptions (`dropped`, `Ends`) and shows that there are
  no others.
* A running provisioning task whose cancellation was flagged and whose worker dies is
  skipped by both recoveries (`task.repository.ts:593`).
* `restoreProject` makes a project active because its database exists, although other
  resources may be missing and a clean-up may be under way; `ActiveIsProvisioned` and
  `NoTeardownWhileLive` end with the first pause or restore.

Branch replacement:
* `restartRuntime` (`tenant-runtime.service.ts:3001`) looks at neither the migration lock
  nor the journal: called from `project.service.ts`, `project-crud.ts`,
  `project-ops.service.ts` or a diagnosis after `branch.service.ts:1004` stopped the
  runtime, it brings services up on a parent that is closed or away. `startRuntime`, from
  `task.worker.ts:221`, does the same. `RunningIsServed` is about what the replacement
  itself starts.
* A failed switch whose rollback succeeds, but whose restart of the runtime fails,
  clears the journal and answers `recovery_required: false` with the runtime down
  (`branch.service.ts:1109`).
* Lost acknowledgements: of closing the parent to connections, the parent stays closed
  with the journal cleared; of the first rename, `recovery_database` may name a database
  that is not there; of the second, the client is told that nothing was committed
  although the switch is kept later. A failed `setPhase("prepared")` leaves the
  temporary database behind.

Applications:
* `retireConfigured` (`application-deployment.ts:277`) takes neither the lifecycle lock
  nor a mutation: overlapping an activation that is not concluded it can retire the ports
  of a release that then serves. `RetiredIsGone` leaves these (`hasty`) out.
* An activation interrupted between its first effect and the switch of the route stays
  `outcome_unknown`, and keeps the application from every other activation until an
  operator decides.

Webhooks:
* `persistDeliveryAttempt` (`webhook-delivery.service.ts:809`) records by id alone. A
  result that arrives after a deletion or a takeover turns a cancelled or delivered row
  into `retry_scheduled`; such a row of a deleted webhook is never claimed, yet counts
  towards the limit of unfinished rows for ever. Events queued while their webhook is
  deleted stay pending likewise. (`late`, `orphans`.)
* The key id is read with the claim and the secret when signing: after a rotation in
  between the header names an older version than the one that signed.
* `rotateSecret` racing `deleteWebhook` leaves a secret for a deleted webhook, and
  `updateWebhook` may land on a deleted one. A claim does not look at `max_attempts`, so
  each death of a worker buys an attempt more.

## Proofs

`AttemptStoreProofs` proves, with TLAPS, for every set of tasks and claimers and
every limit (`StoreAssumption`: the limits are positive, `NoTask` is no task):

* `TypeCorrect`;
* `StoreIsConsistent` and `UnknownOutcomeNotReplayed`: the safety invariants of
  `attempt_store`;
* `VerdictsAreFenced` and `CancellationIsFinal`: its action properties;
* `StoreImplementsLedger`: the refinement of `AttemptLedger`;
* `OneClaimerKeepsTheLimit`: one claiming process admits no task beyond the concurrency
  limit, and `ExcessIsBounded`: n of them admit at most n - 1. Leases that ran out between
  the check and the write of a renewal or start are not counted.

None of the invariants but `TypeOK` is inductive alone. `NoBlindReplay` needs
`AttemptRowAgrees` (a leased task has no row for its attempt, so requeueing it
replays nothing; no row exists for an attempt not yet claimed, so a new claim starts
clean) and `LockedIsQueued` (what a claim overwrites is queued, hence covered by the
retry recorded for it). `AttemptRowAgrees` needs `LockedIsQueued`, and the first
insert of a task needs `AbsentIsFresh`. A renewal or a start writes what it checked a
step before: `HeldIsOwned` says that the row is still its own, and `OverrunIsKnown` that
its lease is live or on record as overrun. Their conjunction `StoreInv` is inductive:
one lemma per operation, each with a step per conjunct. `CancellationWins` follows
step by step; the claim is the case that uses the invariant. For the refinement,
three lemmas say which changes of a task's own columns are ledger steps (a move, a
verdict, a claim), and every store action falls under one of them for every task.
`ExcessIsBounded` says exactly how wrong `claim_limit_two_processes` can go.
`ConcurrencyRespected` is not inductive, even for one process: a claim in flight has
counted the leases and will add one. `AdmissionBounded` counts the admitted leases and the
claims in flight together (a claim is in flight from its snapshot, and is done with its
candidates when it has locked one: `LockedHasChosen`). A claim takes its snapshot below
the limit, so with it at most one for each other process lies beyond. A renewal or a start
extends a lease that is live, and was counted, or one that is overrun (`OverrunIsKnown`),
so it adds none. The limit for one process is the case n = 1.

`UserDeletionProofs` proves, for all sets of requests and tasks
(`DeletionAssumption`), `FenceSeparates` (with the types), `RecordsAreReal`,
`ClientsAreToldTheTruth` and the action property `OperationsAreFenced`. The
invariant is `DeletionInv`: `FenceExcludesTasks` needs `LockProtects` (between check
and commit the lock is held and what was checked still holds) and the truth of the
records needs `Confirmed` (a handler about to record a deletion has seen it, and
users do not come back). `UserDeletionPromptProofs` adds `UsersDeletedSafely`, for as
long as `timely` holds. Its `PromptInv` says that operation
ids are not reused (`IdsAreSpent`), that an operation found expired stays so
(`StaleStaysExpired`), that whoever has a DELETE under way owns a running operation
(`SenderOwnsFence`), that nothing is under way after a response
(`ResponseIsFinal`), and hence that a deleted user is behind a fence
(`DeletedBehindFence`, `VerdictStands`).

`BackgroundWorkerProofs` extends these to the processes, for any number of them and any
number of tasks, attempts, faults and retries. `WorkersUseStore` comes first: every step
of a process is a step of the store or leaves it alone, so `StoreInv` holds throughout.
Hence what is proved of the store holds of the processes: `WorkersImplementLedger`, a
refinement in two steps, and `WorkersKeepVerdicts`.
`WorkerInv` adds what an execution knows at each await (`Knows`): from the start of its
attempt to the provider's answer the attempt has a row, and it is still the task's own
and running unless the cancelled sweep closed the task or an operator retried it
(`Sent`); after the settlement it has a verdict. `AttemptBudget` needs `QueuedInBudget`
(a task that has used its attempts up is queued only by an operator) and that a retry is
planned only within the budget (`Planned`). From it follow `WorkersAreConsistent`,
`AnnouncementsAreTrue`, `InvocationsAreSole` and the action property `EvidenceKept`.

`ProvisioningSagaProofs` proves, for all limits (`SagaAssumption`), `SagaIsConsistent` and
the action properties `TeardownWaits` and `PauseStands`. `ActiveIsProvisioned` says
nothing of a project in creation, so it is not inductive. `Provisioned` follows the
pipeline: while nobody has paused or restored the project (`Live`), a row of a stage
exists only after what the stages before it provide (`Fed`), a clean-up is planned only
behind a pause (`Planned`), and no row of a clean-up exists. `RunsBounded` counts how
often a row can be run: the two limits decide at different moments, the worker's at a
failure and `max_attempts` at a recovered lease, so the bound is their sum and the
retries of an operator (`RunLimit`, `Allowed`).

`BranchReplacementProofs` proves, for any requests, migrations and faults,
`DataSurvives` and `ParentNeverPartial` without the lock, `LockAndJournalProtect` and the
action property `CommitsAreReal` while `exclusive` holds. Two invariants correspond to
the two claims. `DataInv` speaks of the names alone: the original is under the parent's
or a backup name, a copy halfway restored only under a temporary one, and whoever is
about to rename a copy has one that is whole; every call preserves it whoever else is at
work, because PostgreSQL refuses to rename onto a name that exists. `Orderly` says who
holds the lock (`LockHeld`), how databases, journal and the runtime as the replacement
left it fit (`WorldOK`; a restart from elsewhere only weakens what is known), and what
a handler and a recovery know at each place (`RequestOK`, `RecoveryOK`), with the three
outcomes of every call. `ReplacementInv` is the first, and the second while `exclusive`.

`ApplicationActivationProofs` proves, for any activations, deactivations, processes,
requests and faults, all invariants of `application_activation` (`ActivationIsConsistent`,
`RestIsSettled`, `ReleasesExclude`, `EffectsAreNotReplayed`, `PortsAreFree`) and its action
property `VerdictsAreFinal`. `ActivationInv` has the rows (one active mutation, epochs
that tell claims apart, the checkpoint that each phase implies), the world (`WorldAt`:
what runs, is routed and is active while the mutation's process is at a place), what a
process knows at each place (`ProcessOK`), and that of two processes on one mutation only
one has begun its effects (`Apart`). The difficulty is a process whose claim was taken
over: it knows little, but may still be about an effect. It is kept apart from the others
by the checkpoint: once that says that the effects have begun, a later claim does not
carry them out again, and until then the epoch stops the process that was overtaken.

`WebhookDeliveryProofs` proves, for any webhooks, keys and workers and for all bounds
(`WebhookAssumption`), `AttemptsAreDistinct`, `DeletedWebhooksAreIdle`,
`WebhooksAreConsistent` and the action property `FinishedRowsStay`.
`AttemptsDistinct` needs `Numbered`: whoever holds or recorded an attempt has a number
that its row has given out, so a new claim's number is new. `DeletedIsIdle` needs
`Unseen`: a webhook that no transaction had seen active when it was deleted is not seen
active again. `KeyNeverAhead` needs `Versioned`: a secret that is there is the one of the
version on record, and a claim knows a version that was reached. `RowSteps` says once
what a step can make of a row; `FinishedStays` and the bound of the outbox
(`OutboxIsBounded`) follow from it, the latter with the library's theorems on cardinality.
`AttemptsBounded` needs an account (`Funded`): the first attempt belongs to the row, and
every other is paid for by an attempt on record as failed or by a failure of ours. A row
that will be claimed again (`Owed`: waiting, or claimed by nobody who still works on it)
must have one payment in hand. Attempts on record are distinct, so each result pays once,
and only numbers below the limit are recorded as failed. The types then follow, because
their bounds on the counters (`Ranged`) rest on it.

Only model-checked: all liveness (`TaskCloses`, `PipelineNeverStalls`,
`FailedStageIsCompensated`, `DeletedIsFreed`, `RequestsConclude`, `RecoveryConcludes`,
`EventsConclude`), which is out of the prover's reach under fairness. Every invariant and
action property of a passing run is proved. The modules declare no recursive operator.

## Not modelled

Payloads, signatures, logs, tracing and notifications that merely hasten a poll; the
idempotent replay of enqueue; queue messages; a second task worker (`task.repository.ts:412`
settles by id, so one that recovered an expired lease would be overwritten); duplicated
saga rows after a lost acknowledgement; a 404 that a proxy answers when GoTrue is asked
whether the user is gone (`auth-users.ts:173`); creation of branches and promotion of single
migrations; promotions that carry an activation inside a parent mutation, previews, the
choice of ports, and the clock comparison of a reconciliation's evidence; the filter of
webhooks by event type and the limit on their number; and the components
`PROJECT.json` lists as not modelled, with the reason. Three merged steps: the check that a
webhook is active and the lock of the outbox in a test and a replay
(`webhook-delivery.service.ts:499` and `585`; a deletion in between leaves
the same row behind as one a moment later, see `orphans`), `verify()` and `begin` of a deactivation, and a rejection that escapes
the un-awaited `return completedAttempt` (`webhook-delivery.service.ts:766`), which is a
`Crash`: nothing is recorded and the claim runs out. Most of the repository's lines
are of that kind: the compiler and its code generation, the command line, the console
and client libraries, SupaCloud Lite, configuration of Caddy and systemd, and the
installer transform text or drive other programs, and keep no state that two actors
share.

## Plan

1. Idempotent enqueue: the transaction, its unique index and its retries, against
   "one task per key"; the queue routes of `routes/tasks.ts` over PGMQ.
2. `UserDeletion` composed with `BackgroundWorker`, whose re-check of the invoker the
   fence should make redundant; the invoker's circuit breaker.
3. A second task worker and duplicated rows in `ProvisioningSaga`.
4. Promotions over `ApplicationActivation` (`activatePromotion`); activation of edge
   functions with an expected active version.
5. Idempotent commands (`packages/commands`); admission and shutdown of the queue
   worker (`packages/worker`); the edge runtime's worker pool; the realtime
   gateway's subscriptions.
6. Proofs of what 1 to 5 add; for `UserDeletion` composed with `BackgroundWorker`, that the
   fence alone keeps a deleted user's tasks from being invoked.
