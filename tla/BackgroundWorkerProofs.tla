----------------------- MODULE BackgroundWorkerProofs -----------------------
(***************************************************************************)
(* Proofs about the processes that run background functions, for any       *)
(* number of processes, tasks, attempts, faults and retries.  The store's  *)
(* invariant is reused: every step of a process is a step of the store or  *)
(* leaves it alone.                                                        *)
(***************************************************************************)
EXTENDS BackgroundWorker, AttemptStoreProofs

-----------------------------------------------------------------------------
(* What an execution knows about its attempt.                               *)
(*                                                                          *)
(* From the start of attempt a to the answer of the provider: the row is    *)
(* there, and either an operator has retried a, or a is still the task's    *)
(* attempt and is running unless the cancelled sweep closed the task.       *)
Sent(t, a) ==
    /\ history[t][a] # "none"
    /\ \/ a \in retried[t]
       \/ attempt[t] = a /\ (history[t][a] = "running" \/ status[t] = "cancelled")

(* An outcome that an execution of attempt a may ask for.                   *)
Planned(a, outcome) ==
    /\ outcome \in Outcomes
    /\ outcome = "retry_scheduled" => a < MaxAttempts

Knows(t, a, e) ==
    /\ e.pc \in {"recheck", "invoke"} => Sent(t, a)
    /\ e.pc = "settle" => Planned(a, e.plan)
    /\ e.pc = "clean" => history[t][a] \in Outcomes

ExecutionsKnow == \A t \in Tasks, a \in Attempts : Knows(t, a, exec[t][a])

(* A task that has used its attempts up is queued only by an operator.      *)
QueuedInBudget ==
    \A t \in Tasks :
        status[t] \in Queued /\ attempt[t] >= MaxAttempts => attempt[t] \in retried[t]

WorkerInv ==
    /\ StoreInv
    /\ WorkerTypeOK
    /\ QueuedInBudget
    /\ AttemptBudget
    /\ ExecutionsKnow
    /\ SentIsRecorded
    /\ AnnouncedMatchesHistory

-----------------------------------------------------------------------------
(* The steps of the store that settle nothing, as opposed to Finish.        *)
Unsettling ==
    \/ UNCHANGED storeVars
    \/ \E t \in Tasks : Enqueue(t) \/ RetryTask(t) \/ RetryDue(t)
    \/ \E c \in Claimers : ClaimSnapshot(c) \/ ClaimCommit(c) \/ ClaimAbort(c)
    \/ \E c \in Claimers, t \in Tasks : ClaimLock(c, t)
    \/ \E t \in Tasks : TxAbort(t)
    \/ \E t \in Tasks, a \in Attempts :
          RenewCheck(t, a) \/ Renew(t, a) \/ StartCheck(t, a) \/ Start(t, a)
    \/ \E t \in Tasks, a \in 0..AttemptLimit : RequestCancellation(t, a)
    \/ \E batch \in SUBSET Abandoned : RecoverCancelled(batch)
    \/ \E batch \in SUBSET Recoverable : RecoverExpired(batch)
    \/ Tick

(* They are steps of the store.                                             *)
LEMMA UnsettlingIsStore == Unsettling => [StoreNext]_storeVars
BY DEF Unsettling, StoreNext

(* A row of project_task_attempts is never deleted and a verdict never      *)
(* changes.                                                                 *)
LEMMA HistoryGrows ==
    ASSUME StoreInv, [StoreNext]_storeVars, NEW u \in Tasks, NEW b \in Attempts
    PROVE  /\ history[u][b] # "none" => history'[u][b] # "none"
           /\ history[u][b] \in Outcomes => history'[u][b] = history[u][b]
<1> DEFINE Grows == /\ history[u][b] # "none" => history'[u][b] # "none"
                    /\ history[u][b] \in Outcomes => history'[u][b] = history[u][b]
<1> SUFFICES Grows
  OBVIOUS
<1>0. TypeOK
  BY DEF StoreInv
<1>1. ASSUME NEW t \in Tasks, NEW a \in Attempts, Start(t, a) PROVE Grows
  BY <1>0, <1>1, StatusKinds DEF Start, Extends, TypeOK
<1>2. ASSUME NEW t \in Tasks, NEW a \in Attempts, NEW outcome \in Outcomes,
             Finish(t, a, outcome)
      PROVE  Grows
  <2>1. SettledAs(t, outcome) \in Outcomes
    BY DEF SettledAs, Outcomes
  <2> QED
    BY <1>0, <1>2, <2>1, StatusKinds DEF Finish, TypeOK
<1>3. ASSUME NEW batch \in SUBSET Abandoned, RecoverCancelled(batch) PROVE Grows
  BY <1>0, <1>3, StatusKinds DEF RecoverCancelled, TypeOK
<1>4. CASE UNCHANGED history
  BY <1>4
<1> QED
  BY <1>1, <1>2, <1>3, <1>4, StoreSteps
  DEF Enqueue, RetryTask, RetryDue, ClaimCommit, ClaimAbort, ClaimSnapshot, ClaimLock,
      TxAbort, RenewCheck, StartCheck, SetTx, Renew, RequestCancellation, RecoverExpired,
      Tick, rowVars, storeVars

(* Whatever the others do to the store, an attempt that was sent stays      *)
(* accounted for: a claim needs the explicit retry (NoBlindReplay), the     *)
(* sweep that cancels its row closes its task.                              *)
LEMMA SentStays ==
    ASSUME StoreInv, Unsettling, NEW u \in Tasks, NEW b \in Attempts, Sent(u, b)
    PROVE  Sent(u, b)'
<1> USE DEF Sent
<1>0. TypeOK /\ AttemptRowAgrees /\ LockedIsQueued /\ HeldIsOwned /\ NoBlindReplay
  BY DEF StoreInv
<1>1. ASSUME NEW t \in Tasks, Enqueue(t) PROVE Sent(u, b)'
  BY <1>0, <1>1 DEF Enqueue, TypeOK
<1>2. ASSUME NEW t \in Tasks, RetryTask(t) PROVE Sent(u, b)'
  BY <1>0, <1>2 DEF RetryTask, TypeOK
<1>3. ASSUME NEW c \in Claimers, ClaimCommit(c) PROVE Sent(u, b)'
  <2>1. locked[c] \in Tasks /\ status[locked[c]] \in Queued
    BY <1>0, <1>3 DEF ClaimCommit, LockedIsQueued, TypeOK
  <2>2. CASE locked[c] = u
    <3>1. b \in retried[u]
      BY <1>0, <2>1, <2>2, StatusKinds DEF NoBlindReplay
    <3> QED
      BY <1>3, <3>1 DEF ClaimCommit
  <2>3. CASE locked[c] # u
    BY <1>0, <1>3, <2>1, <2>3 DEF ClaimCommit, TypeOK
  <2> QED
    BY <2>2, <2>3
<1>4. ASSUME NEW t \in Tasks, NEW a \in Attempts, Start(t, a) PROVE Sent(u, b)'
  BY <1>0, <1>4 DEF Start, Extends, HeldIsOwned, TypeOK
<1>5. ASSUME NEW t \in Tasks, NEW a \in 0..AttemptLimit, RequestCancellation(t, a)
      PROVE  Sent(u, b)'
  BY <1>0, <1>5, StatusKinds DEF RequestCancellation, TypeOK
<1>6. ASSUME NEW batch \in SUBSET Abandoned, RecoverCancelled(batch)
      PROVE  Sent(u, b)'
  BY <1>0, <1>6 DEF RecoverCancelled, TypeOK
<1>7. ASSUME NEW batch \in SUBSET Recoverable, RecoverExpired(batch) PROVE Sent(u, b)'
  BY <1>0, <1>7, StatusKinds DEF RecoverExpired, Recoverable, TypeOK
<1>8. CASE UNCHANGED <<status, attempt, history, retried>>
  BY <1>8
<1> QED
  BY <1>1, <1>2, <1>3, <1>4, <1>5, <1>6, <1>7, <1>8
  DEF Unsettling, RetryDue, ClaimAbort, ClaimSnapshot, ClaimLock, TxAbort, RenewCheck,
      StartCheck, SetTx, Renew, Extends, Tick, rowVars, storeVars

(* The verdict of one attempt leaves every other attempt accounted for.     *)
LEMMA SentStaysBesides ==
    ASSUME StoreInv, NEW t \in Tasks, NEW a \in Attempts, NEW outcome \in Outcomes,
           Finish(t, a, outcome),
           NEW u \in Tasks, NEW b \in Attempts, u # t \/ b # a, Sent(u, b)
    PROVE  Sent(u, b)'
<1> USE DEF Sent
<1>1. TypeOK
  BY DEF StoreInv
<1>2. CASE u # t
  BY <1>1, <1>2 DEF Finish, TypeOK
<1>3. CASE u = t /\ b # a
  BY <1>1, <1>3 DEF Finish, Finishable, Owns, TypeOK
<1> QED
  BY <1>2, <1>3

(* No step of the store that settles nothing stretches the budget: the      *)
(* claim takes a queued task, recovery reschedules only below the limit.    *)
LEMMA BudgetStays ==
    ASSUME StoreInv, QueuedInBudget, AttemptBudget, Unsettling
    PROVE  QueuedInBudget' /\ AttemptBudget'
<1> USE StoreAssumption DEF QueuedInBudget, AttemptBudget
<1>0. TypeOK /\ LockedIsQueued /\ AbsentIsFresh
  BY DEF StoreInv
<1>1. ASSUME NEW t \in Tasks, Enqueue(t) PROVE QueuedInBudget' /\ AttemptBudget'
  BY <1>0, <1>1 DEF Enqueue, TypeOK, AbsentIsFresh
<1>2. ASSUME NEW t \in Tasks, RetryTask(t) PROVE QueuedInBudget' /\ AttemptBudget'
  BY <1>0, <1>2 DEF RetryTask, TypeOK
<1>3. ASSUME NEW c \in Claimers, ClaimCommit(c)
      PROVE  QueuedInBudget' /\ AttemptBudget'
  <2>1. locked[c] \in Tasks /\ status[locked[c]] \in Queued
    BY <1>0, <1>3 DEF ClaimCommit, LockedIsQueued, TypeOK
  <2>2. "leased" \notin Queued
    BY DEF Queued
  <2>3. ASSUME NEW u \in Tasks, u # locked[c]
        PROVE  attempt'[u] = attempt[u] /\ status'[u] = status[u]
    BY <1>0, <1>3, <2>1, <2>3 DEF ClaimCommit, TypeOK
  <2>4. /\ attempt'[locked[c]] = attempt[locked[c]] + 1
        /\ status'[locked[c]] = "leased"
        /\ retried' = retried
    BY <1>0, <1>3, <2>1 DEF ClaimCommit, NextAttempt, TypeOK
  <2>5. attempt[locked[c]] >= MaxAttempts => attempt[locked[c]] \in retried[locked[c]]
    BY <2>1
  <2>6. \A u \in Tasks : attempt[u] \in Nat
    BY <1>0 DEF TypeOK
  <2>7. QueuedInBudget'
    BY <2>2, <2>3, <2>4
  <2>8. AttemptBudget'
    BY <2>1, <2>3, <2>4, <2>5, <2>6
  <2> QED
    BY <2>7, <2>8
<1>4. ASSUME NEW t \in Tasks, NEW a \in Attempts, Start(t, a)
      PROVE  QueuedInBudget' /\ AttemptBudget'
  <2>1. "running" \notin Queued
    BY DEF Queued
  <2> QED
    BY <1>0, <1>4, <2>1 DEF Start, Extends, TypeOK
<1>5. ASSUME NEW t \in Tasks, NEW a \in 0..AttemptLimit, RequestCancellation(t, a)
      PROVE  QueuedInBudget' /\ AttemptBudget'
  BY <1>0, <1>5, StatusKinds DEF RequestCancellation, TypeOK
<1>6. ASSUME NEW batch \in SUBSET Abandoned, RecoverCancelled(batch)
      PROVE  QueuedInBudget' /\ AttemptBudget'
  BY <1>0, <1>6, StatusKinds DEF RecoverCancelled, TypeOK
<1>7. ASSUME NEW batch \in SUBSET Recoverable, RecoverExpired(batch)
      PROVE  QueuedInBudget' /\ AttemptBudget'
  <2>1. "dead_lettered" \notin Queued
    BY DEF Queued
  <2>2. ASSUME NEW t \in Tasks, RecoveredStatus(t) \in Queued
        PROVE  attempt[t] < MaxAttempts
    BY <2>1, <2>2 DEF RecoveredStatus
  <2> QED
    BY <1>0, <1>7, <2>2 DEF RecoverExpired, TypeOK
<1>8. CASE UNCHANGED <<status, attempt, retried>>
  BY <1>8
<1> QED
  BY <1>1, <1>2, <1>3, <1>4, <1>5, <1>6, <1>7, <1>8
  DEF Unsettling, RetryDue, ClaimAbort, ClaimSnapshot, ClaimLock, TxAbort, RenewCheck,
      StartCheck, SetTx, Renew, Extends, Tick, rowVars, storeVars

(* Nor does a verdict that an execution may plan.                           *)
LEMMA BudgetStaysFinishing ==
    ASSUME StoreInv, QueuedInBudget, AttemptBudget,
           NEW t \in Tasks, NEW a \in Attempts, NEW outcome,
           Planned(a, outcome), Finish(t, a, outcome)
    PROVE  QueuedInBudget' /\ AttemptBudget'
<1> USE StoreAssumption DEF QueuedInBudget, AttemptBudget
<1>0. TypeOK /\ attempt[t] = a
  BY DEF StoreInv, Finish, Finishable, Owns
<1>1. SettledAs(t, outcome) \in Queued => attempt[t] < MaxAttempts
  BY <1>0 DEF SettledAs, Planned, Queued, Outcomes
<1> QED
  BY <1>0, <1>1 DEF Finish, TypeOK, Attempts

-----------------------------------------------------------------------------
(* What the fields of an execution are after it has moved.                  *)
LEMMA MovedExecution ==
    ASSUME NEW e \in Executions, NEW step \in Steps
    PROVE  /\ [e EXCEPT !.pc = step] \in Executions
           /\ [e EXCEPT !.pc = step].pc = step
           /\ [e EXCEPT !.pc = step].plan = e.plan
           /\ [e EXCEPT !.pc = step].by = e.by
BY DEF Executions

(* A failed heartbeat marks the execution and moves it nowhere.             *)
LEMMA LostExecution ==
    ASSUME NEW e \in Executions
    PROVE  /\ [e EXCEPT !.lost = TRUE] \in Executions
           /\ [e EXCEPT !.lost = TRUE].pc = e.pc
           /\ [e EXCEPT !.lost = TRUE].plan = e.plan
BY DEF Executions

(* The execution that is over.                                              *)
LEMMA EndedExecution ==
    /\ NoExecution \in Executions
    /\ NoExecution.pc = "none"
BY DEF NoExecution, Executions, Steps

(* The execution that has an outcome to record.                             *)
LEMMA PlannedExecution ==
    ASSUME NEW e \in Executions, NEW outcome \in Outcomes
    PROVE  LET p == [pc |-> "settle", by |-> e.by, lost |-> e.lost, plan |-> outcome]
           IN  p \in Executions /\ p.pc = "settle" /\ p.plan = outcome
BY DEF Executions, Steps

(* The execution of an attempt that was just claimed.                       *)
LEMMA PolledExecution ==
    ASSUME NEW w \in Claimers
    PROVE  LET p == [pc |-> "polled", by |-> w, lost |-> FALSE, plan |-> "none"]
           IN  p \in Executions /\ p.pc = "polled"
BY DEF Executions, Steps

(* The outcomes that failureOutcome chooses respect the budget.             *)
LEMMA FailureIsPlanned ==
    ASSUME NEW a \in Attempts, NEW retryable
    PROVE  Planned(a, FailureOutcome(a, retryable))
BY DEF Planned, FailureOutcome, Outcomes

(* The other outcomes are within the budget whatever the attempt.           *)
LEMMA CancelledIsPlanned ==
    ASSUME NEW a PROVE Planned(a, "cancelled") /\ Planned(a, "succeeded")
                                               /\ Planned(a, "dead_lettered")
BY DEF Planned, Outcomes

(* An execution changes alone, but for a process that dies.                 *)
LEMMA BecomeOne ==
    ASSUME WorkerTypeOK, NEW t \in Tasks, NEW a \in Attempts, NEW e \in Executions,
           Become(t, a, e)
    PROVE  /\ exec' \in [Tasks -> [Attempts -> Executions]]
           /\ exec'[t][a] = e
           /\ \A u \in Tasks, b \in Attempts :
                 u # t \/ b # a => exec'[u][b] = exec[u][b]
BY DEF WorkerTypeOK, Become

(* So it moves to another step, ends, or gets a plan.                       *)
LEMMA GotoOne ==
    ASSUME WorkerTypeOK, NEW t \in Tasks, NEW a \in Attempts, NEW step \in Steps,
           Goto(t, a, step)
    PROVE  /\ exec' \in [Tasks -> [Attempts -> Executions]]
           /\ exec'[t][a].pc = step
           /\ exec'[t][a].plan = exec[t][a].plan
           /\ \A u \in Tasks, b \in Attempts :
                 u # t \/ b # a => exec'[u][b] = exec[u][b]
<1> DEFINE e == [exec[t][a] EXCEPT !.pc = step]
<1>1. exec[t][a] \in Executions
  BY DEF WorkerTypeOK
<1>2. e \in Executions /\ e.pc = step /\ e.plan = exec[t][a].plan
  BY <1>1, MovedExecution
<1>3. Become(t, a, e)
  BY DEF Goto
<1> HIDE DEF e
<1> QED
  BY <1>2, <1>3, BecomeOne

(* The execution that ends leaves the others alone.                         *)
LEMMA LeaveOne ==
    ASSUME WorkerTypeOK, NEW t \in Tasks, NEW a \in Attempts, Leave(t, a)
    PROVE  /\ exec' \in [Tasks -> [Attempts -> Executions]]
           /\ exec'[t][a].pc = "none"
           /\ \A u \in Tasks, b \in Attempts :
                 u # t \/ b # a => exec'[u][b] = exec[u][b]
BY BecomeOne, EndedExecution DEF Leave

(* So does the one that plans its outcome.                                  *)
LEMMA PlanOne ==
    ASSUME WorkerTypeOK, NEW t \in Tasks, NEW a \in Attempts,
           NEW outcome \in Outcomes, Plan(t, a, outcome)
    PROVE  /\ exec' \in [Tasks -> [Attempts -> Executions]]
           /\ exec'[t][a].pc = "settle"
           /\ exec'[t][a].plan = outcome
           /\ \A u \in Tasks, b \in Attempts :
                 u # t \/ b # a => exec'[u][b] = exec[u][b]
<1> DEFINE e == [pc |-> "settle", by |-> exec[t][a].by, lost |-> exec[t][a].lost,
                 plan |-> outcome]
<1>1. exec[t][a] \in Executions
  BY DEF WorkerTypeOK
<1>2. e \in Executions /\ e.pc = "settle" /\ e.plan = outcome
  BY <1>1, PlannedExecution
<1>3. Become(t, a, e)
  BY DEF Plan
<1> HIDE DEF e
<1> QED
  BY <1>2, <1>3, BecomeOne

-----------------------------------------------------------------------------
(* A step that settles nothing preserves the invariant when every execution *)
(* that moved knows what its new place asks for, and whatever it broadcast  *)
(* is that a recorded attempt is running.                                   *)
LEMMA MoveInv ==
    ASSUME WorkerInv, Unsettling, WorkerTypeOK',
           \A u \in Tasks, b \in Attempts :
              \/ exec'[u][b] = exec[u][b]
              \/ /\ exec'[u][b].pc \in {"recheck", "invoke"} => Sent(u, b)'
                 /\ exec'[u][b].pc = "settle" => Planned(b, exec'[u][b].plan)
                 /\ exec'[u][b].pc # "clean",
           \A u \in Tasks, b \in Attempts :
              \/ announced'[u][b] = announced[u][b]
              \/ announced'[u][b] = "running" /\ history[u][b] # "none"
    PROVE  WorkerInv'
<1> USE DEF WorkerInv
<1>1. [StoreNext]_storeVars
  BY UnsettlingIsStore
<1>2. StoreInv'
  BY <1>1, StoreInvStep
<1>3. QueuedInBudget' /\ AttemptBudget'
  BY BudgetStays
<1>4. ExecutionsKnow'
  <2> SUFFICES ASSUME NEW u \in Tasks, NEW b \in Attempts
               PROVE  Knows(u, b, exec[u][b])'
    BY DEF ExecutionsKnow
  <2>1. CASE exec'[u][b] = exec[u][b]
    <3>1. Knows(u, b, exec[u][b])
      BY DEF ExecutionsKnow
    <3>2. exec'[u][b].pc \in {"recheck", "invoke"} => Sent(u, b)'
      BY <2>1, <3>1, SentStays DEF Knows
    <3>3. exec'[u][b].pc = "settle" => Planned(b, exec'[u][b].plan)
      BY <2>1, <3>1 DEF Knows
    <3>4. exec'[u][b].pc = "clean" => history'[u][b] \in Outcomes
      BY <1>1, <2>1, <3>1, HistoryGrows DEF Knows
    <3> QED
      BY <3>2, <3>3, <3>4 DEF Knows, Planned
  <2>2. CASE exec'[u][b] # exec[u][b]
    BY <2>2 DEF Knows, Planned
  <2> QED
    BY <2>1, <2>2
<1>5. SentIsRecorded'
  BY <1>1, HistoryGrows DEF SentIsRecorded
<1>6. AnnouncedMatchesHistory'
  BY <1>1, HistoryGrows, StatusKinds DEF AnnouncedMatchesHistory
<1> QED
  BY <1>2, <1>3, <1>4, <1>5, <1>6

(* The verdict of attempt a preserves it when its execution is over or has  *)
(* only the evidence left to clean, and broadcasts nothing but the verdict. *)
LEMMA SettleInv ==
    ASSUME WorkerInv, WorkerTypeOK',
           NEW t \in Tasks, NEW a \in Attempts, NEW outcome,
           Planned(a, outcome), Finish(t, a, outcome),
           exec'[t][a].pc \in {"none", "clean"},
           \A u \in Tasks, b \in Attempts :
              u # t \/ b # a => exec'[u][b] = exec[u][b],
           \/ announced' = announced
           \/ announced' = [announced EXCEPT ![t][a] = SettledAs(t, outcome)]
    PROVE  WorkerInv'
<1> USE DEF WorkerInv
<1>0. outcome \in Outcomes
  BY DEF Planned
<1>1. [StoreNext]_storeVars
  BY <1>0 DEF StoreNext
<1>2. StoreInv'
  BY <1>1, StoreInvStep
<1>3. QueuedInBudget' /\ AttemptBudget'
  BY BudgetStaysFinishing
<1>4. SettledAs(t, outcome) \in Outcomes
  BY <1>0 DEF SettledAs, Outcomes
<1>5. history'[t][a] = SettledAs(t, outcome)
  BY DEF Finish, StoreInv, TypeOK
<1>6. ExecutionsKnow'
  <2> SUFFICES ASSUME NEW u \in Tasks, NEW b \in Attempts
               PROVE  Knows(u, b, exec[u][b])'
    BY DEF ExecutionsKnow
  <2>1. CASE u # t \/ b # a
    <3>0. exec'[u][b] = exec[u][b] /\ Knows(u, b, exec[u][b])
      BY <2>1 DEF ExecutionsKnow
    <3>1. exec'[u][b].pc \in {"recheck", "invoke"} => Sent(u, b)'
      BY <1>0, <2>1, <3>0, SentStaysBesides DEF Knows
    <3>2. exec'[u][b].pc = "settle" => Planned(b, exec'[u][b].plan)
      BY <3>0 DEF Knows
    <3>3. exec'[u][b].pc = "clean" => history'[u][b] \in Outcomes
      BY <1>1, <3>0, HistoryGrows DEF Knows
    <3> QED
      BY <3>1, <3>2, <3>3 DEF Knows, Planned
  <2>2. CASE u = t /\ b = a
    BY <1>4, <1>5, <2>2 DEF Knows
  <2> QED
    BY <2>1, <2>2
<1>7. \A u \in Tasks, b \in Attempts :
         \/ announced'[u][b] = announced[u][b]
         \/ u = t /\ b = a /\ announced'[u][b] = SettledAs(t, outcome)
  BY DEF WorkerTypeOK
<1>8. SentIsRecorded'
  BY <1>1, <1>4, <1>7, HistoryGrows, StatusKinds DEF SentIsRecorded
<1>9. AnnouncedMatchesHistory'
  BY <1>1, <1>5, <1>7, HistoryGrows DEF AnnouncedMatchesHistory
<1> QED
  BY <1>2, <1>3, <1>6, <1>8, <1>9

(* finishAttempt preserves it, for an outcome the execution may plan.       *)
LEMMA FinishAttemptInv ==
    ASSUME WorkerInv, NEW t \in Tasks, NEW a \in Attempts, NEW outcome,
           NEW cleanup \in BOOLEAN,
           Planned(a, outcome), FinishAttempt(t, a, outcome, cleanup),
           mode' \in [Claimers -> {"running", "stopped", "down"}],
           poll' \in [Claimers -> PollSteps],
           mirror' \in [Tasks -> 0..AttemptLimit]
    PROVE  WorkerInv' /\ [StoreNext]_storeVars
<1>0. WorkerTypeOK /\ exec[t][a] \in Executions /\ outcome \in Outcomes
  BY DEF WorkerInv, WorkerTypeOK, Planned
<1>1. SettledAs(t, outcome) \in Outcomes
  BY <1>0 DEF SettledAs, Outcomes
<1>2. faults' \in 0..MaxFaults
  BY <1>0, WorkerAssumption DEF FinishAttempt, Fine, Fault, WorkerTypeOK
<1>3. \/ announced' = announced
      \/ announced' = [announced EXCEPT ![t][a] = SettledAs(t, outcome)]
  BY DEF FinishAttempt, Announcement
<1>4. announced' \in [Tasks -> [Attempts -> {"none", "running"} \cup Outcomes]]
  <2>1. CASE announced' = announced
    BY <1>0, <2>1 DEF WorkerTypeOK
  <2>2. CASE announced' = [announced EXCEPT ![t][a] = SettledAs(t, outcome)]
    <3>1. announced \in [Tasks -> [Attempts -> {"none", "running"} \cup Outcomes]]
      BY <1>0 DEF WorkerTypeOK
    <3> QED
      BY <1>1, <2>2, <3>1
  <2> QED
    BY <1>3, <2>1, <2>2
<1>5. Leave(t, a) \/ (Goto(t, a, "clean") /\ Finish(t, a, outcome))
  BY DEF FinishAttempt
<1>6. /\ exec' \in [Tasks -> [Attempts -> Executions]]
      /\ exec'[t][a].pc \in {"none", "clean"}
      /\ exec'[t][a].pc = "clean" => Finish(t, a, outcome)
      /\ \A u \in Tasks, b \in Attempts :
            u # t \/ b # a => exec'[u][b] = exec[u][b]
  <2>1. CASE Leave(t, a)
    BY <1>0, <2>1, LeaveOne
  <2>2. CASE Goto(t, a, "clean") /\ Finish(t, a, outcome)
    <3>1. "clean" \in Steps
      BY DEF Steps
    <3> QED
      BY <1>0, <2>2, <3>1, GotoOne
  <2> QED
    BY <1>5, <2>1, <2>2
<1>7. WorkerTypeOK'
  BY <1>2, <1>4, <1>6 DEF WorkerTypeOK
<1>8. CASE Finish(t, a, outcome)
  <2>1. WorkerInv'
    BY <1>3, <1>6, <1>7, <1>8, SettleInv
  <2> QED
    BY <1>0, <1>8, <2>1 DEF StoreNext
<1>9. CASE ~Finish(t, a, outcome)
  <2>1. UNCHANGED storeVars /\ announced' = announced
    BY <1>9 DEF FinishAttempt
  <2>2. exec'[t][a].pc = "none"
    BY <1>6, <1>9
  <2>3. Unsettling
    BY <2>1 DEF Unsettling
  <2>4. WorkerInv'
    BY <1>6, <1>7, <2>1, <2>2, <2>3, MoveInv
  <2> QED
    BY <2>1, <2>4
<1> QED
  BY <1>8, <1>9

-----------------------------------------------------------------------------
ProcessTyped ==
    /\ mode \in [Claimers -> {"running", "stopped", "down"}]
    /\ poll \in [Claimers -> PollSteps]

(* Faults are counted up to their bound.                                    *)
LEMMA FaultsTyped ==
    ASSUME WorkerTypeOK, Fine \/ Fault PROVE faults' \in 0..MaxFaults
BY WorkerAssumption DEF WorkerTypeOK, Fine, Fault

(* The poll loop moves between its steps.                                   *)
LEMMA PollTyped ==
    ASSUME WorkerTypeOK, NEW w \in Claimers,
           NEW step \in PollSteps, PollGoto(w, step)
    PROVE  ProcessTyped'
BY DEF WorkerTypeOK, PollGoto, ProcessTyped

(* What an execution does leaves modes and poll loops alone.                *)
LEMMA ProcessKeptTyped ==
    ASSUME WorkerTypeOK, ProcessKept PROVE ProcessTyped'
BY DEF WorkerTypeOK, ProcessKept, ProcessTyped

(* A step of the store or of the poll loop alone.                           *)
LEMMA ExecutionKeptInv ==
    ASSUME WorkerInv, Unsettling, ExecutionKept, ProcessTyped', Fine \/ Fault
    PROVE  WorkerInv' /\ [StoreNext]_storeVars
<1>1. WorkerTypeOK'
  BY FaultsTyped DEF WorkerInv, WorkerTypeOK, ExecutionKept, ProcessTyped
<1> QED
  BY <1>1, MoveInv, UnsettlingIsStore DEF ExecutionKept

(* A step of one execution that broadcasts nothing.                         *)
LEMMA OneMovesInv ==
    ASSUME WorkerInv, Unsettling, NEW t \in Tasks, NEW a \in Attempts,
           exec' \in [Tasks -> [Attempts -> Executions]],
           \A u \in Tasks, b \in Attempts :
              u # t \/ b # a => exec'[u][b] = exec[u][b],
           exec'[t][a].pc \in {"recheck", "invoke"} => Sent(t, a)',
           exec'[t][a].pc = "settle" => Planned(a, exec'[t][a].plan),
           exec'[t][a].pc # "clean",
           ProcessTyped', mirror' \in [Tasks -> 0..AttemptLimit],
           UNCHANGED announced, Fine \/ Fault
    PROVE  WorkerInv' /\ [StoreNext]_storeVars
<1>1. WorkerTypeOK'
  BY FaultsTyped DEF WorkerInv, WorkerTypeOK, ProcessTyped
<1>2. \A u \in Tasks, b \in Attempts :
              \/ exec'[u][b] = exec[u][b]
              \/ /\ exec'[u][b].pc \in {"recheck", "invoke"} => Sent(u, b)'
                 /\ exec'[u][b].pc = "settle" => Planned(b, exec'[u][b].plan)
                 /\ exec'[u][b].pc # "clean"
  OBVIOUS
<1> QED
  BY <1>1, <1>2, MoveInv, UnsettlingIsStore

-----------------------------------------------------------------------------
(* The poll loop, one step after the other.                                 *)
LEMMA PollInv ==
    ASSUME WorkerInv, NEW w \in Claimers,
           \/ PollSweep(w) \/ PollRecover(w) \/ PollSnapshot(w) \/ PollLock(w)
           \/ PollClaimFails(w) \/ PollGivesUp(w)
    PROVE  WorkerInv' /\ [StoreNext]_storeVars
<1>0. WorkerTypeOK
  BY DEF WorkerInv
<1>1. ProcessTyped'
  BY <1>0, PollTyped
  DEF PollSweep, PollRecover, PollSnapshot, PollLock, PollClaimFails, PollGivesUp, PollSteps
<1>2. ExecutionKept /\ (Fine \/ Fault)
  BY DEF PollSweep, PollRecover, PollSnapshot, PollLock, PollClaimFails, PollGivesUp
<1>3. Unsettling
  <2>1. CASE PollSweep(w)
    BY <2>1 DEF PollSweep, Unsettling
  <2>2. CASE PollRecover(w)
    BY <2>2 DEF PollRecover, Unsettling
  <2>3. CASE PollSnapshot(w)
    BY <2>3 DEF PollSnapshot, Unsettling
  <2>4. CASE PollLock(w)
    BY <2>4 DEF PollLock, Unsettling
  <2>5. CASE PollClaimFails(w)
    BY <2>5 DEF PollClaimFails, Unsettling
  <2>6. CASE PollGivesUp(w)
    BY <2>6 DEF PollGivesUp, Unsettling
  <2> QED
    BY <2>1, <2>2, <2>3, <2>4, <2>5, <2>6
<1> QED
  BY <1>1, <1>2, <1>3, ExecutionKeptInv

(* The claim commits and its attempt gets an execution.                     *)
LEMMA PollCommitInv ==
    ASSUME WorkerInv, NEW w \in Claimers, PollCommit(w)
    PROVE  WorkerInv' /\ [StoreNext]_storeVars
<1> DEFINE t == locked[w]
           a == NextAttempt(t)
           e == [pc |-> "polled", by |-> w, lost |-> FALSE, plan |-> "none"]
<1>0. WorkerTypeOK /\ TypeOK
  BY DEF WorkerInv, StoreInv
<1>1. ClaimCommit(w) /\ Become(t, a, e) /\ PollGoto(w, "admit")
      /\ Fine /\ UNCHANGED <<mirror, announced>>
  BY DEF PollCommit
<1>2. t \in Tasks /\ a \in Attempts
  <2>1. t \in Tasks
    BY <1>0, <1>1 DEF ClaimCommit, TypeOK
  <2> QED
    BY <1>0, <1>1, <2>1, StoreAssumption
    DEF ClaimCommit, TypeOK, NextAttempt, Attempts
<1>3. e \in Executions /\ e.pc = "polled"
  BY PolledExecution
<1>4. Unsettling
  BY <1>1 DEF Unsettling
<1>5. ProcessTyped'
  BY <1>0, <1>1, PollTyped DEF PollSteps
<1> HIDE DEF e, a, t
<1>6. /\ exec' \in [Tasks -> [Attempts -> Executions]]
      /\ exec'[t][a] = e
      /\ \A u \in Tasks, b \in Attempts :
            u # t \/ b # a => exec'[u][b] = exec[u][b]
  BY <1>0, <1>1, <1>2, <1>3, BecomeOne
<1>7. WorkerTypeOK'
  BY <1>0, <1>1, <1>5, <1>6, FaultsTyped DEF WorkerTypeOK, ProcessTyped
<1>8. \A u \in Tasks, b \in Attempts :
              \/ exec'[u][b] = exec[u][b]
              \/ /\ exec'[u][b].pc \in {"recheck", "invoke"} => Sent(u, b)'
                 /\ exec'[u][b].pc = "settle" => Planned(b, exec'[u][b].plan)
                 /\ exec'[u][b].pc # "clean"
  <2>1. ASSUME NEW u \in Tasks, NEW b \in Attempts, exec'[u][b] # exec[u][b]
        PROVE  exec'[u][b].pc = "polled"
    BY <1>2, <1>3, <1>6, <2>1
  <2> QED
    BY <2>1
<1> QED
  BY <1>1, <1>4, <1>7, <1>8, MoveInv, UnsettlingIsStore

(* The claimed attempt is executed, or finished as cancelled.               *)
LEMMA PollAdmitInv ==
    ASSUME WorkerInv, NEW w \in Claimers, PollAdmit(w)
    PROVE  WorkerInv' /\ [StoreNext]_storeVars
<1>0. WorkerTypeOK
  BY DEF WorkerInv
<1>1. ProcessTyped'
  <2>1. NextRound(w) \in {"idle", "recover"}
    BY DEF NextRound
  <2> QED
    BY <1>0, <2>1, PollTyped DEF PollAdmit, PollSteps
<1>2. mirror' \in [Tasks -> 0..AttemptLimit] /\ UNCHANGED mirror
  BY <1>0 DEF PollAdmit, WorkerTypeOK
<1>3. PICK t \in Tasks, a \in Attempts :
         \/ Goto(t, a, "admit") /\ Fine /\ UNCHANGED <<storeVars, announced>>
         \/ FinishAttempt(t, a, "cancelled", FALSE)
  BY DEF PollAdmit
<1>4. CASE Goto(t, a, "admit") /\ Fine /\ UNCHANGED <<storeVars, announced>>
  <2>1. "admit" \in Steps
    BY DEF Steps
  <2>2. /\ exec' \in [Tasks -> [Attempts -> Executions]]
        /\ exec'[t][a].pc = "admit"
        /\ \A u \in Tasks, b \in Attempts :
              u # t \/ b # a => exec'[u][b] = exec[u][b]
    BY <1>0, <1>4, <2>1, GotoOne
  <2>3. Unsettling
    BY <1>4 DEF Unsettling
  <2> QED
    BY <1>1, <1>2, <1>4, <2>2, <2>3, OneMovesInv
<1>5. CASE FinishAttempt(t, a, "cancelled", FALSE)
  BY <1>1, <1>2, <1>5, FinishAttemptInv, CancelledIsPlanned DEF ProcessTyped
<1> QED
  BY <1>3, <1>4, <1>5

-----------------------------------------------------------------------------
(* execute: the steps that move on, end, or plan an outcome without any     *)
(* broadcast and without a verdict.                                         *)
LEMMA ExecMoves ==
    ASSUME WorkerInv, Unsettling, NEW t \in Tasks, NEW a \in Attempts,
           \/ Leave(t, a)
           \/ \E step \in Steps \ {"recheck", "invoke", "settle", "clean"} :
                 Goto(t, a, step)
           \/ \E outcome : Planned(a, outcome) /\ Plan(t, a, outcome),
           ProcessTyped', mirror' \in [Tasks -> 0..AttemptLimit],
           UNCHANGED announced, Fine \/ Fault
    PROVE  WorkerInv' /\ [StoreNext]_storeVars
<1>0. WorkerTypeOK
  BY DEF WorkerInv
<1>1. CASE Leave(t, a)
  BY <1>0, <1>1, LeaveOne, OneMovesInv
<1>2. ASSUME NEW step \in Steps \ {"recheck", "invoke", "settle", "clean"},
             Goto(t, a, step)
      PROVE  WorkerInv' /\ [StoreNext]_storeVars
  <2>1. /\ exec' \in [Tasks -> [Attempts -> Executions]]
        /\ exec'[t][a].pc = step
        /\ \A u \in Tasks, b \in Attempts :
              u # t \/ b # a => exec'[u][b] = exec[u][b]
    BY <1>0, <1>2, GotoOne
  <2> QED
    BY <2>1, OneMovesInv
<1>3. ASSUME NEW outcome, Planned(a, outcome), Plan(t, a, outcome)
      PROVE  WorkerInv' /\ [StoreNext]_storeVars
  <2>1. /\ exec' \in [Tasks -> [Attempts -> Executions]]
        /\ exec'[t][a].pc = "settle"
        /\ exec'[t][a].plan = outcome
        /\ \A u \in Tasks, b \in Attempts :
              u # t \/ b # a => exec'[u][b] = exec[u][b]
    BY <1>0, <1>3, PlanOne DEF Planned
  <2> QED
    BY <1>3, <2>1, OneMovesInv
<1> QED
  BY <1>1, <1>2, <1>3

(* The two lookups before the start: go on, or finish the attempt.          *)
LEMMA ExecAdmitInv ==
    ASSUME WorkerInv, NEW t \in Tasks, NEW a \in Attempts,
           ExecAdmit(t, a) \/ ExecCheck(t, a)
    PROVE  WorkerInv' /\ [StoreNext]_storeVars
<1>0. WorkerTypeOK
  BY DEF WorkerInv
<1>1. ProcessTyped' /\ mirror' \in [Tasks -> 0..AttemptLimit]
  BY <1>0, ProcessKeptTyped DEF ExecAdmit, ExecCheck, WorkerTypeOK
<1>2. CASE /\ Goto(t, a, "renew") \/ Goto(t, a, "mirror")
           /\ Fine /\ UNCHANGED <<storeVars, announced>>
  <2>1. Unsettling
    BY <1>2 DEF Unsettling
  <2>2. {"renew", "mirror"} \subseteq Steps \ {"recheck", "invoke", "settle", "clean"}
    BY DEF Steps
  <2> QED
    BY <1>1, <1>2, <2>1, <2>2, ExecMoves
<1>3. ASSUME NEW outcome, Planned(a, outcome), FinishAttempt(t, a, outcome, FALSE)
      PROVE  WorkerInv' /\ [StoreNext]_storeVars
  BY <1>1, <1>3, FinishAttemptInv DEF ProcessTyped
<1>4. CASE ExecAdmit(t, a)
  BY <1>2, <1>3, <1>4, CancelledIsPlanned DEF ExecAdmit
<1>5. CASE ExecCheck(t, a)
  BY <1>2, <1>3, <1>5, FailureIsPlanned DEF ExecCheck
<1> QED
  BY <1>4, <1>5

(* The renewal before the lookup of the invoker, from its check to its      *)
(* commit.                                                                  *)
LEMMA ExecRenewInv ==
    ASSUME WorkerInv, NEW t \in Tasks, NEW a \in Attempts,
           ExecRenew(t, a) \/ ExecRenewed(t, a)
    PROVE  WorkerInv' /\ [StoreNext]_storeVars
<1>0. WorkerTypeOK
  BY DEF WorkerInv
<1>1. ProcessTyped' /\ mirror' \in [Tasks -> 0..AttemptLimit]
  BY <1>0, ProcessKeptTyped DEF ExecRenew, ExecRenewed, WorkerTypeOK
<1>2. Unsettling /\ (Fine \/ Fault) /\ UNCHANGED announced
  BY DEF ExecRenew, ExecRenewed, Unsettling
<1>3. {"renewing", "check"} \subseteq Steps \ {"recheck", "invoke", "settle", "clean"}
  BY DEF Steps
<1>4. Leave(t, a) \/ Goto(t, a, "renewing") \/ Goto(t, a, "check")
  BY DEF ExecRenew, ExecRenewed
<1> QED
  BY <1>1, <1>2, <1>3, <1>4, ExecMoves

(* The evidence is written before the start.                                *)
LEMMA ExecMirrorInv ==
    ASSUME WorkerInv, NEW t \in Tasks, NEW a \in Attempts, ExecMirror(t, a)
    PROVE  WorkerInv' /\ [StoreNext]_storeVars
<1>0. WorkerTypeOK
  BY DEF WorkerInv
<1>1. ProcessTyped' /\ mirror' \in [Tasks -> 0..AttemptLimit]
  <2>1. a \in 0..AttemptLimit
    BY StoreAssumption DEF Attempts
  <2> QED
    BY <1>0, <2>1, ProcessKeptTyped DEF ExecMirror, WorkerTypeOK
<1>2. Unsettling /\ Fine /\ UNCHANGED announced
  BY DEF ExecMirror, Unsettling
<1>3. "start" \in Steps \ {"recheck", "invoke", "settle", "clean"}
  BY DEF Steps
<1> QED
  BY <1>1, <1>2, <1>3, ExecMoves DEF ExecMirror

(* start, up to its commit: nothing was sent.                               *)
LEMMA ExecStartInv ==
    ASSUME WorkerInv, NEW t \in Tasks, NEW a \in Attempts, ExecStart(t, a)
    PROVE  WorkerInv' /\ [StoreNext]_storeVars
<1>0. WorkerTypeOK
  BY DEF WorkerInv
<1>1. ProcessTyped' /\ mirror' \in [Tasks -> 0..AttemptLimit]
  BY <1>0, ProcessKeptTyped DEF ExecStart, WorkerTypeOK
<1>2. Unsettling /\ (Fine \/ Fault) /\ UNCHANGED announced
  BY DEF ExecStart, Unsettling
<1>3. "starting" \in Steps \ {"recheck", "invoke", "settle", "clean"}
  BY DEF Steps
<1>4. \/ Leave(t, a) \/ Goto(t, a, "starting")
      \/ Plan(t, a, FailureOutcome(a, TRUE))
  BY DEF ExecStart, StartRefused
<1> QED
  BY <1>1, <1>2, <1>3, <1>4, ExecMoves, FailureIsPlanned

(* The execution goes on to the request only when its row was written, so   *)
(* it is accounted for.                                                     *)
LEMMA ExecStartedInv ==
    ASSUME WorkerInv, NEW t \in Tasks, NEW a \in Attempts, ExecStarted(t, a)
    PROVE  WorkerInv' /\ [StoreNext]_storeVars
<1>0. WorkerTypeOK /\ TypeOK
  BY DEF WorkerInv, StoreInv
<1>1. ProcessTyped' /\ mirror' \in [Tasks -> 0..AttemptLimit]
  BY <1>0, ProcessKeptTyped DEF ExecStarted, WorkerTypeOK
<1>2. Unsettling /\ (Fine \/ Fault) /\ UNCHANGED announced
  BY DEF ExecStarted, Unsettling
<1>3. CASE Start(t, a) /\ Goto(t, a, "recheck")
  <2>1. Sent(t, a)'
    BY <1>0, <1>3 DEF Start, Extends, Sent, TypeOK
  <2>2. "recheck" \in Steps
    BY DEF Steps
  <2>3. /\ exec' \in [Tasks -> [Attempts -> Executions]]
        /\ exec'[t][a].pc = "recheck"
        /\ \A u \in Tasks, b \in Attempts :
              u # t \/ b # a => exec'[u][b] = exec[u][b]
    BY <1>0, <1>3, <2>2, GotoOne
  <2> QED
    BY <1>1, <1>2, <2>1, <2>3, OneMovesInv
<1>4. CASE Plan(t, a, FailureOutcome(a, TRUE))
  BY <1>1, <1>2, <1>4, ExecMoves, FailureIsPlanned
<1> QED
  BY <1>3, <1>4 DEF ExecStarted

(* The request is sent, and announced, for an attempt that is accounted for. *)
LEMMA ExecDispatchInv ==
    ASSUME WorkerInv, NEW t \in Tasks, NEW a \in Attempts, ExecDispatch(t, a)
    PROVE  WorkerInv' /\ [StoreNext]_storeVars
<1>0. WorkerTypeOK /\ Knows(t, a, exec[t][a]) /\ StoreInv
  BY DEF WorkerInv, ExecutionsKnow
<1>1. ProcessTyped' /\ mirror' \in [Tasks -> 0..AttemptLimit]
  BY <1>0, ProcessKeptTyped DEF ExecDispatch, WorkerTypeOK
<1>2. UNCHANGED storeVars /\ Unsettling /\ Fine
  BY DEF ExecDispatch, Unsettling
<1>3. CASE /\ Goto(t, a, "invoke")
           /\ announced' = [announced EXCEPT ![t][a] = "running"]
  <2>1. Sent(t, a)
    BY <1>0 DEF ExecDispatch, At, Knows
  <2>2. Sent(t, a)'
    BY <1>0, <1>2, <2>1, SentStays
  <2>3. "invoke" \in Steps
    BY DEF Steps
  <2>4. /\ exec' \in [Tasks -> [Attempts -> Executions]]
        /\ exec'[t][a].pc = "invoke"
        /\ \A u \in Tasks, b \in Attempts :
              u # t \/ b # a => exec'[u][b] = exec[u][b]
    BY <1>0, <1>3, <2>3, GotoOne
  <2>5. /\ announced' \in [Tasks -> [Attempts -> {"none", "running"} \cup Outcomes]]
        /\ \A u \in Tasks, b \in Attempts :
              \/ announced'[u][b] = announced[u][b]
              \/ announced'[u][b] = "running" /\ history[u][b] # "none"
    BY <1>0, <1>3, <2>1 DEF WorkerTypeOK, Sent
  <2>6. WorkerTypeOK'
    BY <1>0, <1>1, <1>2, <2>4, <2>5, FaultsTyped DEF WorkerTypeOK, ProcessTyped
  <2>7. \A u \in Tasks, b \in Attempts :
              \/ exec'[u][b] = exec[u][b]
              \/ /\ exec'[u][b].pc \in {"recheck", "invoke"} => Sent(u, b)'
                 /\ exec'[u][b].pc = "settle" => Planned(b, exec'[u][b].plan)
                 /\ exec'[u][b].pc # "clean"
    BY <2>2, <2>4
  <2> QED
    BY <1>2, <2>5, <2>6, <2>7, MoveInv, UnsettlingIsStore
<1>4. ASSUME NEW retryable \in BOOLEAN, Plan(t, a, FailureOutcome(a, retryable)),
             UNCHANGED announced
      PROVE  WorkerInv' /\ [StoreNext]_storeVars
  BY <1>1, <1>2, <1>4, ExecMoves, FailureIsPlanned
<1> QED
  BY <1>3, <1>4 DEF ExecDispatch

(* A heartbeat renews, or marks an execution that stays accounted for.      *)
LEMMA HeartbeatInv ==
    ASSUME WorkerInv, NEW t \in Tasks, NEW a \in Attempts,
           Heartbeat(t, a) \/ HeartbeatEnds(t, a)
    PROVE  WorkerInv' /\ [StoreNext]_storeVars
<1>0. WorkerTypeOK /\ Knows(t, a, exec[t][a]) /\ StoreInv
  BY DEF WorkerInv, ExecutionsKnow
<1>1. ProcessTyped' /\ mirror' \in [Tasks -> 0..AttemptLimit]
  BY <1>0, ProcessKeptTyped DEF Heartbeat, HeartbeatEnds, WorkerTypeOK
<1>2. Unsettling /\ (Fine \/ Fault) /\ UNCHANGED <<mirror, announced>>
  BY DEF Heartbeat, HeartbeatEnds, Unsettling
<1>3. CASE UNCHANGED exec
  BY <1>1, <1>2, <1>3, ExecutionKeptInv DEF ExecutionKept
<1>4. CASE LoseLease(t, a)
  <2> DEFINE e == [exec[t][a] EXCEPT !.lost = TRUE]
  <2>1. exec[t][a] \in Executions
    BY <1>0 DEF WorkerTypeOK
  <2>2. e \in Executions /\ e.pc = exec[t][a].pc
    BY <2>1, LostExecution
  <2>3. exec[t][a].pc = "invoke" /\ Sent(t, a)
    BY <1>0 DEF Heartbeat, HeartbeatEnds, At, Knows
  <2>4. Sent(t, a)'
    BY <1>0, <1>2, <2>3, SentStays
  <2>5. Become(t, a, e)
    BY <1>4 DEF LoseLease
  <2> HIDE DEF e
  <2>6. /\ exec' \in [Tasks -> [Attempts -> Executions]]
        /\ exec'[t][a] = e
        /\ \A u \in Tasks, b \in Attempts :
              u # t \/ b # a => exec'[u][b] = exec[u][b]
    BY <1>0, <2>2, <2>5, BecomeOne
  <2>7. exec'[t][a].pc = "invoke"
    BY <2>2, <2>3, <2>6
  <2> QED
    BY <1>1, <1>2, <2>4, <2>6, <2>7, OneMovesInv
<1> QED
  BY <1>3, <1>4 DEF Heartbeat, HeartbeatEnds

(* A transaction that nobody waits for moves no execution.                  *)
LEMMA UnawaitedInv ==
    ASSUME WorkerInv, NEW t \in Tasks, NEW a \in Attempts, Unawaited(t, a)
    PROVE  WorkerInv' /\ [StoreNext]_storeVars
<1>1. ProcessTyped' /\ ExecutionKept /\ Fine
  BY ProcessKeptTyped DEF WorkerInv, Unawaited
<1>2. Unsettling
  BY DEF Unawaited, Unsettling
<1> QED
  BY <1>1, <1>2, ExecutionKeptInv

(* The provider answers: whatever it says, the plan is within the budget.   *)
LEMMA ExecReturnInv ==
    ASSUME WorkerInv, NEW t \in Tasks, NEW a \in Attempts, ExecReturn(t, a)
    PROVE  WorkerInv' /\ [StoreNext]_storeVars
<1>0. WorkerTypeOK
  BY DEF WorkerInv
<1>1. ProcessTyped' /\ mirror' \in [Tasks -> 0..AttemptLimit]
  BY <1>0, ProcessKeptTyped DEF ExecReturn, WorkerTypeOK
<1>2. Unsettling /\ Fine /\ UNCHANGED announced
  BY DEF ExecReturn, Unsettling
<1>3. PICK outcome \in {"succeeded", "cancelled"}
                         \cup {FailedInvocation(t, a, r) : r \in BOOLEAN} :
         Plan(t, a, outcome)
  BY DEF ExecReturn
<1>4. Planned(a, outcome)
  BY CancelledIsPlanned, FailureIsPlanned DEF FailedInvocation
<1> QED
  BY <1>1, <1>2, <1>3, <1>4, ExecMoves

(* The planned outcome is recorded.                                         *)
LEMMA ExecSettleInv ==
    ASSUME WorkerInv, NEW t \in Tasks, NEW a \in Attempts, ExecSettle(t, a)
    PROVE  WorkerInv' /\ [StoreNext]_storeVars
<1>0. WorkerTypeOK /\ Knows(t, a, exec[t][a])
  BY DEF WorkerInv, ExecutionsKnow
<1>1. ProcessTyped' /\ mirror' \in [Tasks -> 0..AttemptLimit]
  BY <1>0, ProcessKeptTyped DEF ExecSettle, WorkerTypeOK
<1>2. Planned(a, exec[t][a].plan)
  BY <1>0 DEF ExecSettle, At, Knows
<1>3. FinishAttempt(t, a, exec[t][a].plan, TRUE)
  BY DEF ExecSettle
<1> QED
  BY <1>1, <1>2, <1>3, FinishAttemptInv DEF ProcessTyped

(* The evidence is removed after the verdict.                               *)
LEMMA ExecCleanInv ==
    ASSUME WorkerInv, NEW t \in Tasks, NEW a \in Attempts, ExecClean(t, a)
    PROVE  WorkerInv' /\ [StoreNext]_storeVars
<1>0. WorkerTypeOK
  BY DEF WorkerInv
<1>1. ProcessTyped' /\ mirror' \in [Tasks -> 0..AttemptLimit]
  BY <1>0, StoreAssumption, ProcessKeptTyped DEF ExecClean, WorkerTypeOK
<1>2. Unsettling /\ Fine /\ UNCHANGED announced
  BY DEF ExecClean, Unsettling
<1> QED
  BY <1>1, <1>2, ExecMoves DEF ExecClean

-----------------------------------------------------------------------------
(* A process stops, dies or comes back.  Dying gives up the claim in flight *)
(* and every execution it ran; what was recorded stays.                     *)
LEMMA ProcessInv ==
    ASSUME WorkerInv, NEW w \in Claimers, Stop(w) \/ Restart(w)
    PROVE  WorkerInv' /\ [StoreNext]_storeVars
<1>1. ProcessTyped'
  BY DEF WorkerInv, WorkerTypeOK, ProcessTyped, Stop, Restart
<1>2. Unsettling /\ ExecutionKept /\ (Fine \/ Fault)
  BY DEF Stop, Restart, Unsettling
<1> QED
  BY <1>1, <1>2, ExecutionKeptInv

(* A process dies: its claim is rolled back, its executions are gone.       *)
LEMMA DieInv ==
    ASSUME WorkerInv, NEW w \in Claimers, Die(w)
    PROVE  WorkerInv' /\ [StoreNext]_storeVars
<1>0. WorkerTypeOK /\ TypeOK
  BY DEF WorkerInv, StoreInv
<1>1. Unsettling
  <2>1. CASE Idle(w)
    <3>1. locked' = locked /\ seen' = seen
      BY <1>0, <2>1 DEF Die, Idle, TypeOK
    <3> QED
      BY <3>1 DEF Die, Unsettling, rowVars, storeVars
  <2>2. CASE ~Idle(w)
    <3>1. ClaimAbort(w)
      BY <2>2 DEF Die, ClaimAbort
    <3> QED
      BY <3>1 DEF Unsettling
  <2> QED
    BY <2>1, <2>2
<1>2. \A u \in Tasks, b \in Attempts :
         exec'[u][b] = exec[u][b] \/ exec'[u][b] = NoExecution
  BY DEF Die
<1>3. exec' \in [Tasks -> [Attempts -> Executions]]
  BY <1>0, EndedExecution DEF Die, WorkerTypeOK
<1>4. ProcessTyped' /\ (Fine \/ Fault) /\ UNCHANGED <<mirror, announced>>
  BY <1>0 DEF Die, WorkerTypeOK, ProcessTyped, PollSteps
<1>5. WorkerTypeOK'
  BY <1>0, <1>3, <1>4, FaultsTyped DEF WorkerTypeOK, ProcessTyped
<1>6. \A u \in Tasks, b \in Attempts :
              \/ exec'[u][b] = exec[u][b]
              \/ /\ exec'[u][b].pc \in {"recheck", "invoke"} => Sent(u, b)'
                 /\ exec'[u][b].pc = "settle" => Planned(b, exec'[u][b].plan)
                 /\ exec'[u][b].pc # "clean"
  BY <1>2, EndedExecution
<1> QED
  BY <1>1, <1>4, <1>5, <1>6, MoveInv, UnsettlingIsStore

(* The callers of the API, and time.                                        *)
LEMMA OutsideInv ==
    ASSUME WorkerInv, (\E t \in Tasks : Request(t)) \/ PassTime
    PROVE  WorkerInv' /\ [StoreNext]_storeVars
<1>0. WorkerTypeOK /\ TypeOK
  BY DEF WorkerInv, StoreInv
<1>1. ProcessKept /\ ExecutionKept /\ Fine
  BY DEF Request, PassTime
<1>2. Unsettling
  <2>1. ASSUME NEW t \in Tasks, Request(t) PROVE Unsettling
    <3>1. attempt[t] \in 0..AttemptLimit
      BY <1>0 DEF TypeOK
    <3> QED
      BY <2>1, <3>1 DEF Request, Cancel, Unsettling
  <2>2. ASSUME PassTime PROVE Unsettling
    BY <2>2 DEF PassTime, Unsettling
  <2> QED
    BY <2>1, <2>2
<1> QED
  BY <1>0, <1>1, <1>2, ProcessKeptTyped, ExecutionKeptInv

-----------------------------------------------------------------------------
(* No process has done anything yet.                                        *)
LEMMA WorkerInitInv == WorkerInit => WorkerInv
<1> SUFFICES ASSUME WorkerInit PROVE WorkerInv
  OBVIOUS
<1> USE StoreAssumption, WorkerAssumption DEF WorkerInit, ForAttempts
<1>1. StoreInv
  BY InitInv
<1>2. WorkerTypeOK
  BY EndedExecution DEF WorkerTypeOK, PollSteps
<1>3. QueuedInBudget /\ AttemptBudget
  BY DEF QueuedInBudget, AttemptBudget, StoreInit
<1>4. ExecutionsKnow
  BY EndedExecution DEF ExecutionsKnow, Knows
<1>5. SentIsRecorded /\ AnnouncedMatchesHistory
  BY StatusKinds DEF SentIsRecorded, AnnouncedMatchesHistory
<1> QED
  BY <1>1, <1>2, <1>3, <1>4, <1>5 DEF WorkerInv

(* Every step preserves the invariant, and is a step of the store.          *)
LEMMA WorkerStep ==
    ASSUME WorkerInv, [WorkerNext]_vars
    PROVE  WorkerInv' /\ [StoreNext]_storeVars
<1>1. CASE UNCHANGED vars
  <2>1. UNCHANGED storeVars /\ UNCHANGED workerVars
    BY <1>1 DEF vars
  <2>2. ExecutionKept /\ ProcessKept /\ Fine /\ Unsettling
    BY <2>1 DEF workerVars, ExecutionKept, ProcessKept, Fine, Unsettling
  <2>3. ProcessTyped'
    BY <2>2, ProcessKeptTyped DEF WorkerInv
  <2> QED
    BY <2>2, <2>3, ExecutionKeptInv
<1>2. ASSUME NEW w \in Claimers,
             PollStep(w) \/ PollClaimFails(w) \/ PollGivesUp(w)
      PROVE  WorkerInv' /\ [StoreNext]_storeVars
  BY <1>2, PollInv, PollCommitInv, PollAdmitInv DEF PollStep
<1>3. ASSUME NEW w \in Claimers, Stop(w) \/ Die(w) \/ Restart(w)
      PROVE  WorkerInv' /\ [StoreNext]_storeVars
  BY <1>3, ProcessInv, DieInv
<1>4. ASSUME NEW t \in Tasks, NEW a \in Attempts,
             \/ Progress(t, a) \/ Heartbeat(t, a)
             \/ HeartbeatEnds(t, a) \/ Unawaited(t, a)
      PROVE  WorkerInv' /\ [StoreNext]_storeVars
  BY <1>4, ExecAdmitInv, ExecRenewInv, ExecMirrorInv, ExecStartInv, ExecStartedInv,
     ExecDispatchInv, ExecReturnInv, ExecSettleInv, ExecCleanInv, HeartbeatInv, UnawaitedInv
  DEF Progress
<1> QED
  BY <1>1, <1>2, <1>3, <1>4, OutsideInv DEF WorkerNext

(* The conjunction is invariant under every mix of crashes and retries.     *)
THEOREM WorkerInvariant == WorkerSpec => []WorkerInv
BY WorkerInitInv, WorkerStep, PTL DEF WorkerSpec

(* However many processes run, stop and die, they use the store only        *)
(* through its operations: what is proved of the store for arbitrary        *)
(* callers holds of this system.                                            *)
THEOREM WorkersUseStore == WorkerSpec => UsesStore
<1>1. WorkerInit => StoreInit
  BY DEF WorkerInit
<1> QED
  BY <1>1, WorkerStep, WorkerInvariant, PTL DEF WorkerSpec, UsesStore

(* Hence the processes together move every task as the abstract ledger      *)
(* allows: polls, heartbeats, settlements, recoveries, retries and deaths   *)
(* are steps of the ledger or none.                                         *)
THEOREM WorkersImplementLedger == WorkerSpec => ImplementsLedger
<1>1. UsesStore => StoreSpec
  BY DEF UsesStore, StoreSpec
<1> QED
  BY <1>1, WorkersUseStore, StoreImplementsLedger, PTL

(* And, whichever process dies or is overtaken: nothing whose outcome is    *)
(* unknown is replayed without being asked for, a verdict is written once   *)
(* by the attempt that owns the task, and no process overtakes an accepted  *)
(* cancellation.                                                            *)
THEOREM WorkersKeepVerdicts ==
    WorkerSpec => []NoBlindReplay /\ HistoryIsFenced /\ CancellationWins
<1>1. UsesStore => StoreSpec
  BY DEF UsesStore, StoreSpec
<1> QED
  BY <1>1, WorkersUseStore, UnknownOutcomeNotReplayed, VerdictsAreFenced, CancellationIsFinal, PTL

(* No mix of failures, crashes and lost acknowledgements buys an automatic  *)
(* attempt beyond max_attempts, and no request is sent without its row.     *)
THEOREM WorkersAreConsistent == WorkerSpec => []WorkerConsistent
<1>1. WorkerInv => WorkerConsistent
  BY DEF WorkerInv, WorkerConsistent
<1> QED
  BY <1>1, WorkerInvariant, PTL

(* A broadcast of a final status repeats the verdict that was recorded.     *)
THEOREM AnnouncementsAreTrue == WorkerSpec => []AnnouncedMatchesHistory
<1>1. WorkerInv => AnnouncedMatchesHistory
  BY DEF WorkerInv
<1> QED
  BY <1>1, WorkerInvariant, PTL

(* While an invocation is under way nobody else owns its task, unless an    *)
(* operator retried it.                                                     *)
THEOREM InvocationsAreSole == WorkerSpec => []SoleInvocation
<1>1. WorkerInv => SoleInvocation
  BY DEF WorkerInv, ExecutionsKnow, Knows, Sent, SoleInvocation, At
<1> QED
  BY <1>1, WorkerInvariant, PTL

(* The evidence of an attempt goes only for a later attempt's, or after the *)
(* attempt has its verdict.                                                 *)
THEOREM EvidenceKept == WorkerSpec => EvidenceIsKept
<1> DEFINE Kept ==
      \A t \in Tasks, a \in Attempts :
          mirror[t] = a /\ mirror'[t] # a =>
              mirror'[t] > a \/ history[t][a] \in Outcomes
<1>1. ASSUME WorkerInv, [WorkerNext]_vars PROVE Kept
  <2>0. /\ mirror \in [Tasks -> 0..AttemptLimit]
        /\ \A t \in Tasks : mirror[t] \in Int
        /\ Attempts \subseteq Int
    BY <1>1 DEF WorkerInv, WorkerTypeOK, Attempts
  <2>1. ASSUME NEW t \in Tasks, NEW a \in Attempts, ExecMirror(t, a) PROVE Kept
    BY <2>0, <2>1 DEF ExecMirror, MirrorAdmits
  <2>2. ASSUME NEW t \in Tasks, NEW a \in Attempts, ExecClean(t, a) PROVE Kept
    <3>1. history[t][a] \in Outcomes
      BY <1>1, <2>2 DEF WorkerInv, ExecutionsKnow, Knows, ExecClean, At
    <3> QED
      BY <2>0, <2>2, <3>1 DEF ExecClean, MirrorRemoves
  <2>3. CASE UNCHANGED mirror
    BY <2>3
  <2>4. ASSUME NEW w \in Claimers,
               \/ PollStep(w) \/ PollClaimFails(w) \/ PollGivesUp(w)
               \/ Stop(w) \/ Die(w) \/ Restart(w)
        PROVE  UNCHANGED mirror
    BY <2>4
    DEF PollStep, PollSweep, PollRecover, PollSnapshot, PollLock, PollCommit, PollAdmit,
        PollClaimFails, PollGivesUp, Stop, Die, Restart, ExecutionKept
  <2>5. ASSUME NEW t \in Tasks, NEW a \in Attempts, Progress(t, a),
               ~ExecMirror(t, a), ~ExecClean(t, a)
        PROVE  UNCHANGED mirror
    BY <2>5
    DEF Progress, ExecAdmit, ExecRenew, ExecRenewed, ExecCheck, ExecStart, ExecStarted,
        ExecDispatch, ExecReturn, ExecSettle
  <2>6. ASSUME NEW t \in Tasks, NEW a \in Attempts,
               Heartbeat(t, a) \/ HeartbeatEnds(t, a) \/ Unawaited(t, a)
        PROVE  UNCHANGED mirror
    BY <2>6 DEF Heartbeat, HeartbeatEnds, Unawaited, ExecutionKept
  <2>7. ASSUME (\E t \in Tasks : Request(t)) \/ PassTime \/ UNCHANGED vars
        PROVE  UNCHANGED mirror
    BY <2>7 DEF Request, PassTime, ExecutionKept, vars, workerVars
  <2> QED
    BY <1>1, <2>1, <2>2, <2>3, <2>4, <2>5, <2>6, <2>7 DEF WorkerNext
<1> QED
  BY <1>1, WorkerInvariant, PTL DEF WorkerSpec, EvidenceIsKept
=============================================================================
