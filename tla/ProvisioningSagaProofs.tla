----------------------- MODULE ProvisioningSagaProofs -----------------------
(***************************************************************************)
(* Proofs about the creation and deletion of a project, for any number of  *)
(* tasks, retries, failures and calls of the API.                          *)
(*                                                                         *)
(* The invariant follows a project that nobody has paused or restored: a   *)
(* row of a stage exists only after what the stages before it provide, and *)
(* a clean-up is planned only behind a pause.  Once the project is paused  *)
(* or deleted, or an administrator took the lock, nothing of this is left  *)
(* to show, and nothing leads back.                                        *)
(***************************************************************************)
EXTENDS ProvisioningSaga, SequenceTheorems, TLAPS

-----------------------------------------------------------------------------
(* Shapes of the rows, of what the worker holds and of what it has left to  *)
(* do.                                                                      *)
TaskRows == [kind: Kinds, status: Queued \cup Active \cup Ended, attempt: Nat,
             lease: {"none", "live", "expired"}, cancel: BOOLEAN, turn: 0..(2 * MaxRows)]
Steps    == Kinds \cup {"pause", "activate"}
Holding  == {"claimed", "running", "acting", "succeeded", "failed"}
Jobs     == [pc: {"idle", "claim", "todo"} \cup Holding, row: Nat, retries: Nat,
             todo: Seq(Steps)]
Calls    == [pc: {"none", "flag", "flagOnly", "cancel"}, row: Nat]

Shape ==
    /\ project \in {"creating", "active", "paused", "deleted"}
    /\ resources \subseteq Core \cup {"realtime"}
    /\ rows \in Seq(TaskRows) /\ Len(rows) <= MaxRows
    /\ worker \in Jobs
    /\ api \in Seq(Kinds)
    /\ admin \in {"none", "pause", "resume", "rebuild"}
    /\ canceller \in Calls
    /\ failures \in Nat /\ faults \in Nat /\ orders \in Nat /\ locks \in Nat
    /\ orders <= MaxOrders

(* The rows that are referred to exist, and the worker knows the attempt of *)
(* the row that it holds.                                                   *)
Referring ==
    /\ worker.pc \in Holding =>
          /\ worker.row \in 1..Len(rows)
          /\ worker.retries = rows[worker.row].attempt
    /\ worker.pc = "todo" => worker.todo # <<>>
    /\ canceller.pc # "none" => canceller.row \in 1..Len(rows)

(* A row is run as often as its limits and the API's retries allow.         *)
Allowed(row, n) ==
    /\ row.attempt <= RunLimit + n
    /\ row.status \in Queued => row.attempt < RunLimit + n

RunsBounded == \A r \in 1..Len(rows) : Allowed(rows[r], orders)

(* The project is on its way or in service, and nobody has paused it or     *)
(* restored it yet.                                                         *)
Live == locks = 0 /\ project \in {"creating", "active"}

(* A stage comes after everything that the stages before it provide.        *)
Fed(kind) ==
    /\ kind \in Stages
    /\ kind # "provision_db" => "db" \in resources
    /\ kind \notin {"provision_db", "provision_s3"} => "s3" \in resources
    /\ kind \notin {"provision_db", "provision_s3", "provision_runtime"} => "runtime" \in resources
    /\ kind \in {"provision_gateway", "provision_secrets"} => "router" \in resources
    /\ kind = "provision_secrets" => "gateway" \in resources

(* What the worker may have left to do: a clean-up only after the pause.    *)
Planned(todo) ==
    \/ Head(todo) = "pause"
    \/ /\ Len(todo) = 1
       /\ Fed(Head(todo)) \/ (Head(todo) = "activate" /\ Core \subseteq resources)

Provisioned ==
    /\ locks = 0 => admin = "none"
    /\ Live =>
          /\ \A i \in 1..Len(api) : api[i] = "provision_db"
          /\ \A r \in 1..Len(rows) : Fed(rows[r].kind)
          /\ worker.pc = "succeeded" => Provides[rows[worker.row].kind] \subseteq resources
          /\ worker.pc = "todo" => Planned(worker.todo)
          /\ project = "active" => Core \subseteq resources

SagaInv == Shape /\ Referring /\ RunsBounded /\ Provisioned

-----------------------------------------------------------------------------
(* The fields of rows, of the worker and of a cancellation.                 *)
LEMMA Fields ==
    ASSUME Shape
    PROVE  /\ DOMAIN rows = 1..Len(rows) /\ Len(rows) \in Nat
           /\ \A r \in 1..Len(rows) :
                 /\ rows[r] \in TaskRows /\ rows[r].kind \in Kinds
                 /\ rows[r].status \in Queued \cup Active \cup Ended
                 /\ rows[r].attempt \in Nat /\ rows[r].cancel \in BOOLEAN
                 /\ rows[r].lease \in {"none", "live", "expired"}
                 /\ rows[r].turn \in 0..(2 * MaxRows)
           /\ worker.pc \in {"idle", "claim", "todo"} \cup Holding
           /\ worker.row \in Nat /\ worker.retries \in Nat /\ worker.todo \in Seq(Steps)
           /\ canceller.pc \in {"none", "flag", "flagOnly", "cancel"} /\ canceller.row \in Nat
<1>1. DOMAIN rows = 1..Len(rows) /\ Len(rows) \in Nat
  BY LenProperties DEF Shape
<1>2. \A r \in 1..Len(rows) : rows[r] \in TaskRows
  BY ElementOfSeq DEF Shape
<1> QED
  BY <1>1, <1>2 DEF Shape, TaskRows, Jobs, Calls

(* One row is replaced.                                                     *)
LEMMA RowPut ==
    ASSUME Shape, NEW r \in 1..Len(rows), NEW new \in TaskRows,
           rows' = [rows EXCEPT ![r] = new]
    PROVE  /\ rows' \in Seq(TaskRows) /\ Len(rows') = Len(rows)
           /\ rows'[r] = new
           /\ \A q \in 1..Len(rows) : q # r => rows'[q] = rows[q]
<1>1. rows \in Seq(TaskRows)
  BY DEF Shape
<1> QED
  BY <1>1, ExceptSeq

(* createTask adds a row at the end.                                        *)
LEMMA RowAdded ==
    ASSUME Shape, NEW kind \in Kinds, createTask(kind)
    PROVE  /\ rows' \in Seq(TaskRows) /\ Len(rows') = Len(rows) + 1 /\ Len(rows') <= MaxRows
           /\ \A q \in 1..Len(rows) : rows'[q] = rows[q]
           /\ rows'[Len(rows) + 1] = NewRow(kind)
<1>1. Len(rows) \in Nat /\ MaxRows \in Nat
  BY Fields, SagaAssumption
<1>2. NewRow(kind) \in TaskRows
  BY <1>1 DEF NewRow, TaskRows, createTask, Queued
<1>3. rows \in Seq(TaskRows)
  BY DEF Shape
<1> QED
  BY <1>1, <1>2, <1>3, AppendProperties DEF createTask

(* recoverExpiredLeases keeps every row but its status and lease.           *)
LEMMA RowsRecovered ==
    ASSUME Shape, rows' = [r \in DOMAIN rows |-> Recovered(rows[r])]
    PROVE  /\ rows' \in Seq(TaskRows) /\ Len(rows') = Len(rows)
           /\ \A q \in 1..Len(rows) : rows'[q] = Recovered(rows[q])
<1>1. /\ DOMAIN rows = 1..Len(rows) /\ Len(rows) \in Nat
      /\ \A r \in 1..Len(rows) : rows[r] \in TaskRows
  BY Fields
<1>2. ASSUME NEW row \in TaskRows PROVE Recovered(row) \in TaskRows
  BY DEF Recovered, Released, TaskRows, Queued, Ended
<1>3. rows' \in [1..Len(rows) -> TaskRows]
  BY <1>1, <1>2
<1>4. rows' \in Seq(TaskRows)
  BY <1>1, <1>3, SeqDef
<1> QED
  BY <1>1, <1>3, <1>4, LenProperties

-----------------------------------------------------------------------------
(* The rows change in place, and no row is run more often than allowed.     *)
RowsMove ==
    /\ rows' \in Seq(TaskRows) /\ Len(rows') = Len(rows)
    /\ \A q \in 1..Len(rows) :
          rows'[q].kind = rows[q].kind /\ Allowed(rows'[q], orders')

(* What exists stays enough for a stage as long as nothing is removed.      *)
LEMMA FedKept ==
    ASSUME NEW kind, Fed(kind), resources \subseteq resources'
    PROVE  Fed(kind)'
BY DEF Fed

(* A live project needs to have been live, to have lost nothing, and to     *)
(* have no clean-up ahead.                                                  *)
LEMMA LiveKeeps ==
    ASSUME Shape, Provisioned, locks' = 0 => admin' = "none",
           Live' =>
              /\ Live
              /\ resources \subseteq resources'
              /\ \A i \in 1..Len(api') : api'[i] = "provision_db"
              /\ \A r \in 1..Len(rows') :
                    \/ r \in 1..Len(rows) /\ rows'[r].kind = rows[r].kind
                    \/ Fed(rows[r].kind)'
              /\ worker'.pc = "succeeded" => Provides[rows'[worker'.row].kind] \subseteq resources'
              /\ worker'.pc = "todo" => Planned(worker.todo)'
              /\ project' = "active" => project = "active" \/ Core \subseteq resources'
    PROVE  Provisioned'
<1>1. ASSUME Live' PROVE \A r \in 1..Len(rows') : Fed(rows[r].kind)'
  BY <1>1, FedKept DEF Provisioned, Fed
<1>2. ASSUME Live', project' = "active" PROVE Core \subseteq resources'
  BY <1>2 DEF Provisioned
<1> QED
  BY <1>1, <1>2 DEF Provisioned

(* A step of the worker that settles nothing: it leaves the rows to what    *)
(* they were but for one that it writes.                                    *)
LEMMA WorkerMoves ==
    ASSUME SagaInv, UNCHANGED <<project, api, admin, canceller, orders, locks>>,
           failures' \in Nat, faults' \in Nat,
           RowsMove, worker' \in Jobs, Referring', resources' \subseteq Core \cup {"realtime"},
           Live => resources \subseteq resources',
           Live /\ worker'.pc = "succeeded" =>
              Provides[rows'[worker'.row].kind] \subseteq resources',
           Live /\ worker'.pc = "todo" => Planned(worker.todo)'
    PROVE  SagaInv'
<1>1. Shape'
  BY DEF SagaInv, Shape, RowsMove
<1>2. RunsBounded'
  BY DEF RowsMove, RunsBounded
<1>3. Provisioned'
  <2>1. Shape /\ Provisioned /\ (locks' = 0 => admin' = "none") /\ (Live' => Live)
    BY DEF SagaInv, Provisioned, Live
  <2>2. Live' =>
           /\ \A i \in 1..Len(api') : api'[i] = "provision_db"
           /\ \A r \in 1..Len(rows') : r \in 1..Len(rows) /\ rows'[r].kind = rows[r].kind
           /\ project' = "active" => project = "active"
    BY <2>1 DEF Provisioned, RowsMove
  <2> QED
    BY <2>1, <2>2, LiveKeeps
<1> QED
  BY <1>1, <1>2, <1>3 DEF SagaInv

(* Rows that stay as they are.                                              *)
LEMMA RowsStay ==
    ASSUME SagaInv, UNCHANGED <<rows, orders>>
    PROVE  RowsMove
BY DEF SagaInv, Shape, RunsBounded, RowsMove

(* recoverExpiredLeases.                                                    *)
LEMMA PollRecoverKeeps == ASSUME SagaInv, PollRecover PROVE SagaInv'
<1>1. RowsMove
  <2>1. /\ rows' \in Seq(TaskRows) /\ Len(rows') = Len(rows)
        /\ \A q \in 1..Len(rows) : rows'[q] = Recovered(rows[q])
    BY RowsRecovered DEF SagaInv, PollRecover
  <2>2. ASSUME NEW row \in TaskRows, Allowed(row, orders)
        PROVE  Recovered(row).kind = row.kind /\ Allowed(Recovered(row), orders)
    <3>1. /\ row.attempt \in Nat /\ orders \in Nat /\ MaxAttempts \in Nat
          /\ StageRetries \in Nat /\ CleanupRetries \in Nat
      BY SagaAssumption DEF TaskRows, SagaInv, Shape
    <3> QED
      BY <2>2, <3>1 DEF Recovered, Released, Allowed, RunLimit, Queued
  <2>3. \A q \in 1..Len(rows) : rows[q] \in TaskRows /\ Allowed(rows[q], orders)
    BY Fields DEF SagaInv, RunsBounded
  <2> QED
    BY <2>1, <2>2, <2>3 DEF RowsMove, PollRecover, tally
<1>2. worker' \in Jobs /\ worker'.pc = "claim"
  BY DEF SagaInv, Shape, PollRecover, Goto, Jobs
<1>3. Referring'
  BY <1>1, <1>2 DEF SagaInv, Referring, Holding, RowsMove, PollRecover
<1> QED
  BY <1>1, <1>2, <1>3, WorkerMoves DEF PollRecover, SagaInv, Shape, tally

(* One row is rewritten: it keeps its kind and is run as often as allowed.  *)
LEMMA RowMoves ==
    ASSUME SagaInv, NEW r \in 1..Len(rows), NEW new \in TaskRows,
           rows' = [rows EXCEPT ![r] = new], new.kind = rows[r].kind,
           Allowed(new, orders'), orders' \in Nat, orders <= orders'
    PROVE  /\ RowsMove /\ rows'[r] = new
           /\ \A q \in 1..Len(rows) : q # r => rows'[q] = rows[q]
<1>1. /\ rows' \in Seq(TaskRows) /\ Len(rows') = Len(rows) /\ rows'[r] = new
      /\ \A q \in 1..Len(rows) : q # r => rows'[q] = rows[q]
  BY RowPut DEF SagaInv
<1>2. \A q \in 1..Len(rows) : Allowed(rows[q], orders')
  <2>1. orders \in Nat /\ RunLimit \in Nat
    BY SagaAssumption DEF RunLimit, SagaInv, Shape
  <2>2. \A q \in 1..Len(rows) : rows[q].attempt \in Nat /\ Allowed(rows[q], orders)
    BY Fields DEF SagaInv, RunsBounded
  <2> QED
    BY <2>1, <2>2 DEF Allowed
<1> QED
  BY <1>1, <1>2 DEF RowsMove

(* claimNextTask.                                                           *)
LEMMA PollClaimKeeps == ASSUME SagaInv, PollClaim PROVE SagaInv'
<1>1. CASE worker' = Idle /\ UNCHANGED rows
  <2>1. worker' \in Jobs /\ worker'.pc = "idle" /\ RowsMove
    BY <1>1, RowsStay, EmptySeq DEF Idle, Jobs, PollClaim, tally
  <2>2. Referring'
    BY <1>1, <2>1 DEF Referring, Holding, SagaInv, PollClaim
  <2> QED
    BY <2>1, <2>2, WorkerMoves DEF PollClaim, SagaInv, Shape, tally
<1>2. ASSUME NEW r \in DOMAIN rows, Claimable(r), rows' = [rows EXCEPT ![r] = Leased(@)],
             worker' = [pc |-> "claimed", row |-> r, retries |-> rows[r].attempt + 1,
                        todo |-> <<>>]
      PROVE  SagaInv'
  <2>1. r \in 1..Len(rows) /\ rows[r] \in TaskRows /\ rows[r].attempt \in Nat
    BY Fields DEF SagaInv
  <2>2. Leased(rows[r]) \in TaskRows /\ Leased(rows[r]).kind = rows[r].kind
    BY <2>1 DEF Leased, TaskRows, Active
  <2>3. Allowed(Leased(rows[r]), orders)
    <3>1. rows[r].attempt < RunLimit + orders
      BY <1>2, <2>1 DEF Claimable, Due, Allowed, SagaInv, RunsBounded
    <3>2. orders \in Nat /\ RunLimit \in Nat
      BY SagaAssumption DEF RunLimit, SagaInv, Shape
    <3> QED
      BY <2>1, <3>1, <3>2 DEF Leased, Allowed, Queued
  <2>4. orders' = orders /\ orders \in Nat
    BY DEF PollClaim, tally, SagaInv, Shape
  <2>5. RowsMove /\ rows'[r] = Leased(rows[r])
    <3>1. PICK new \in TaskRows : new = Leased(rows[r])
      BY <2>2
    <3>2. rows' = [rows EXCEPT ![r] = new] /\ new.kind = rows[r].kind
      BY <1>2, <2>2, <3>1
    <3>3. Allowed(new, orders') /\ orders' \in Nat /\ orders <= orders'
      BY <2>3, <2>4, <3>1
    <3> QED
      BY <2>1, <3>1, <3>2, <3>3, RowMoves
  <2>6. worker' \in Jobs /\ worker'.pc = "claimed" /\ worker'.row = r
        /\ worker'.retries = rows[r].attempt + 1
    BY <1>2, <2>1, EmptySeq DEF Jobs, Holding
  <2>7. Referring'
    BY <2>1, <2>5, <2>6 DEF Referring, Leased, Holding, SagaInv, PollClaim, RowsMove
  <2> QED
    BY <2>5, <2>6, <2>7, WorkerMoves DEF PollClaim, SagaInv, Shape, tally
<1> QED
  BY <1>1, <1>2 DEF PollClaim, Leave

(* A step within the stage that the worker holds.                           *)
LEMMA StageGoesOn ==
    ASSUME SagaInv, NEW pc \in Holding, worker.pc \in Holding, Goto(pc),
           UNCHANGED <<project, api, admin, canceller, orders, locks>>,
           failures' \in Nat, faults' \in Nat, RowsMove,
           rows'[worker.row].attempt = rows[worker.row].attempt,
           resources' \subseteq Core \cup {"realtime"},
           Live => resources \subseteq resources',
           Live /\ pc = "succeeded" => Provides[rows[worker.row].kind] \subseteq resources'
    PROVE  SagaInv'
<1>1. worker' \in Jobs /\ worker'.pc = pc /\ worker'.row = worker.row
      /\ worker'.retries = worker.retries
  BY DEF Goto, SagaInv, Shape, Jobs
<1>2. worker.row \in 1..Len(rows) /\ worker.retries = rows[worker.row].attempt
  BY DEF SagaInv, Referring
<1>3. Referring'
  BY <1>1, <1>2 DEF Referring, Holding, SagaInv, RowsMove
<1>4. rows'[worker'.row].kind = rows[worker.row].kind /\ worker'.pc # "todo"
  BY <1>1, <1>2 DEF RowsMove, Holding
<1> QED
  BY <1>1, <1>3, <1>4, WorkerMoves

(* markTaskRunning.                                                         *)
LEMMA RunningKeeps == ASSUME SagaInv, markTaskRunning PROVE SagaInv'
<1>1. worker.row \in 1..Len(rows) /\ worker.pc \in Holding
  BY DEF SagaInv, Referring, markTaskRunning, Holding
<1>2. PICK r \in 1..Len(rows) : r = worker.row
  BY <1>1
<1>3. rows[r] \in TaskRows /\ rows[r].attempt \in Nat /\ Allowed(rows[r], orders)
  BY Fields DEF SagaInv, RunsBounded
<1>4. [rows[r] EXCEPT !.status = "running"] \in TaskRows
  BY <1>3 DEF TaskRows, Active
<1>5. PICK new \in TaskRows : new = [rows[r] EXCEPT !.status = "running"]
  BY <1>4
<1>6. new.kind = rows[r].kind /\ new.attempt = rows[r].attempt /\ new.status = "running"
  BY <1>3, <1>5 DEF TaskRows
<1>7. Allowed(new, orders') /\ orders' \in Nat /\ orders <= orders'
  BY <1>3, <1>6 DEF Allowed, Queued, markTaskRunning, tally, SagaInv, Shape
<1>8. rows' = [rows EXCEPT ![r] = new]
  BY <1>2, <1>5 DEF markTaskRunning
<1>9. RowsMove /\ rows'[r] = new
  BY <1>6, <1>7, <1>8, RowMoves
<1>10. rows'[worker.row].attempt = rows[worker.row].attempt
  BY <1>2, <1>6, <1>9
<1> QED
  BY <1>1, <1>9, <1>10, StageGoesOn DEF markTaskRunning, SagaInv, Shape, tally, Holding

(* The lookup of the project.                                               *)
LEMMA FindProjectKeeps == ASSUME SagaInv, findProject PROVE SagaInv'
<1>1. \E pc \in {"failed", "acting"} : Goto(pc)
  BY DEF findProject
<1>2. worker.pc \in Holding /\ RowsMove
  BY RowsStay DEF findProject, Holding, tally
<1> QED
  BY <1>1, <1>2, StageGoesOn DEF findProject, SagaInv, Shape, tally, Holding

-----------------------------------------------------------------------------
(* A stage only adds to what exists.                                        *)
LEMMA EffectIs ==
    ASSUME Shape, NEW kind \in Kinds
    PROVE  /\ Effect(kind) \subseteq Core \cup {"realtime"}
           /\ EffectButRoutes(kind) \subseteq Core \cup {"realtime"}
           /\ kind \in Stages => resources \subseteq Effect(kind) /\ Provides[kind] \subseteq Effect(kind)
<1>1. kind \in Stages => Provides[kind] \subseteq Core \cup {"realtime"}
  BY DEF Stages, Provides, Core
<1>2. resources \subseteq Core \cup {"realtime"}
  BY DEF Shape
<1> QED
  BY <1>1, <1>2 DEF Effect, EffectButRoutes

(* executeTask.                                                             *)
LEMMA ExecuteKeeps == ASSUME SagaInv, executeTask PROVE SagaInv'
<1>1. /\ worker.pc \in Holding /\ worker.row \in 1..Len(rows) /\ RowsMove
      /\ rows[worker.row].kind \in Kinds
  BY RowsStay, Fields DEF executeTask, Holding, SagaInv, Referring
<1>2. PICK kind \in Kinds : kind = rows[worker.row].kind
  BY <1>1
<1>3. Live => kind \in Stages /\ kind \notin Cleanups
  BY <1>1, <1>2 DEF SagaInv, Provisioned, Fed, Stages, Cleanups
<1>4. /\ Effect(kind) \subseteq Core \cup {"realtime"}
      /\ EffectButRoutes(kind) \subseteq Core \cup {"realtime"}
      /\ resources \subseteq Core \cup {"realtime"}
      /\ kind \in Stages => resources \subseteq Effect(kind) /\ Provides[kind] \subseteq Effect(kind)
  BY EffectIs DEF SagaInv, Shape
<1>5. PICK pc \in {"succeeded", "failed"} :
         /\ Goto(pc)
         /\ \/ resources' = Effect(kind)
            \/ resources' = resources /\ pc = "failed"
            \/ kind \in Cleanups /\ resources' = EffectButRoutes(kind)
  BY <1>2 DEF executeTask, Cleanups
<1>6. /\ resources' \subseteq Core \cup {"realtime"}
      /\ Live => resources \subseteq resources'
      /\ Live /\ pc = "succeeded" => Provides[kind] \subseteq resources'
  BY <1>3, <1>4, <1>5
<1>7. failures' \in Nat /\ faults' \in Nat
  BY DEF executeTask, SagaInv, Shape
<1> QED
  BY <1>1, <1>2, <1>5, <1>6, <1>7, StageGoesOn DEF executeTask, Holding

(* A crash of the worker.                                                   *)
LEMMA CrashKeeps == ASSUME SagaInv, Crash PROVE SagaInv'
<1>1. /\ worker' \in Jobs /\ worker'.pc = "idle" /\ RowsMove /\ failures' \in Nat /\ faults' \in Nat
      /\ UNCHANGED <<orders, locks>>
  BY RowsStay, EmptySeq DEF Crash, Leave, Idle, Jobs, Fault, SagaInv, Shape
<1>2. Referring'
  BY <1>1 DEF Referring, Holding, SagaInv, Crash
<1>3. resources' \subseteq Core \cup {"realtime"} /\ (Live => resources \subseteq resources')
  <2>1. CASE UNCHANGED resources
    BY <2>1 DEF SagaInv, Shape
  <2>2. CASE worker.pc = "acting" /\ resources' = Effect(rows[worker.row].kind)
    <3>1. worker.row \in 1..Len(rows) /\ rows[worker.row].kind \in Kinds
      BY <2>2, Fields DEF SagaInv, Referring, Holding
    <3>2. Live => rows[worker.row].kind \in Stages
      BY <3>1 DEF SagaInv, Provisioned, Fed
    <3> QED
      BY <2>2, <3>1, <3>2, EffectIs DEF SagaInv
  <2> QED
    BY <2>1, <2>2 DEF Crash
<1> QED
  BY <1>1, <1>2, <1>3, WorkerMoves DEF Crash

(* What is left to do after a stage: the one that follows it, or the        *)
(* activation of a project that has everything.                             *)
LEMMA FollowUpIs ==
    ASSUME NEW kind \in Kinds
    PROVE  /\ FollowUp[kind] \in Seq(Steps)
           /\ Fed(kind) /\ Provides[kind] \subseteq resources => Planned(FollowUp[kind])
<1>1. ASSUME NEW step \in Steps PROVE <<step>> \in Seq(Steps) /\ Len(<<step>>) = 1 /\ Head(<<step>>) = step
  BY <1>1
<1>2. Kinds \subseteq Steps /\ "activate" \in Steps /\ <<>> \in Seq(Steps)
  BY EmptySeq DEF Steps
<1>3. CASE kind = "provision_db"
  BY <1>1, <1>2, <1>3 DEF FollowUp, Provides, Planned, Fed, Kinds, Stages
<1>4. CASE kind = "provision_s3"
  BY <1>1, <1>2, <1>4 DEF FollowUp, Provides, Planned, Fed, Kinds, Stages
<1>5. CASE kind = "provision_runtime"
  BY <1>1, <1>2, <1>5 DEF FollowUp, Provides, Planned, Fed, Kinds, Stages
<1>6. CASE kind = "provision_realtime"
  BY <1>1, <1>2, <1>6 DEF FollowUp, Provides, Planned, Fed, Kinds, Stages
<1>7. CASE kind = "provision_router"
  BY <1>1, <1>2, <1>7 DEF FollowUp, Provides, Planned, Fed, Kinds, Stages
<1>8. CASE kind = "provision_gateway"
  BY <1>1, <1>2, <1>8 DEF FollowUp, Provides, Planned, Fed, Kinds, Stages
<1>9. CASE kind = "provision_secrets"
  BY <1>1, <1>2, <1>9 DEF FollowUp, Provides, Planned, Fed, Kinds, Stages, Core
<1>10. CASE kind \in Cleanups
  <2>1. FollowUp[kind] \in {<<"cleanup_realtime">>, <<"cleanup_s3">>, <<"cleanup_db">>,
                            <<"cleanup_router">>, <<>>}
    BY <1>10 DEF Cleanups, FollowUp
  <2>2. kind \notin Stages
    BY <1>10 DEF Cleanups, Stages
  <2> QED
    BY <1>1, <1>2, <2>1, <2>2 DEF Fed, Kinds, Cleanups
<1> QED
  BY <1>3, <1>4, <1>5, <1>6, <1>7, <1>8, <1>9, <1>10 DEF Kinds, Stages

(* What is left to do after a stage has failed for good.                    *)
LEMMA CompensationIs ==
    ASSUME NEW kind \in Kinds
    PROVE  /\ Compensation(kind) \in Seq(Steps)
           /\ Fed(kind) => Compensation(kind) = <<>> \/ Planned(Compensation(kind))
<1>1. ASSUME NEW step \in Steps PROVE <<step>> \in Seq(Steps) /\ Len(<<step>>) = 1 /\ Head(<<step>>) = step
  BY <1>1
<1>2. "pause" \in Steps /\ "provision_router" \in Steps /\ <<>> \in Seq(Steps)
  BY EmptySeq DEF Steps, Kinds, Stages
<1>3. CASE kind = "provision_realtime"
  BY <1>1, <1>2, <1>3 DEF Compensation, Planned, Fed, Stages
<1>4. CASE kind = "provision_db"
  BY <1>1, <1>2, <1>4 DEF Compensation, Planned
<1>5. CASE kind \in {"provision_s3", "provision_runtime"}
  <2>1. Compensation(kind) = <<"pause", "cleanup_runtime", "cleanup_s3", "cleanup_db">>
    BY <1>5 DEF Compensation
  <2>2. {"pause", "cleanup_runtime", "cleanup_s3", "cleanup_db"} \subseteq Steps
    BY DEF Steps, Kinds, Cleanups
  <2>3. Compensation(kind) \in Seq(Steps) /\ Head(Compensation(kind)) = "pause"
    BY <2>1, <2>2
  <2> QED
    BY <2>3 DEF Planned
<1>6. CASE kind \notin {"provision_realtime", "provision_db", "provision_s3", "provision_runtime"}
  BY <1>2, <1>6 DEF Compensation
<1> QED
  BY <1>3, <1>4, <1>5, <1>6

-----------------------------------------------------------------------------
(* A worker without a task.                                                 *)
LEMMA IdleIs == Idle \in Jobs /\ Idle.pc = "idle"
<1>1. <<>> \in Seq(Steps)
  BY EmptySeq
<1> QED
  BY <1>1 DEF Idle, Jobs

(* A settlement writes one row by its id.                                   *)
LEMMA SettleMoves ==
    ASSUME SagaInv, NEW r \in 1..Len(rows), NEW status \in Queued \cup Active \cup Ended,
           NEW cancel \in BOOLEAN, rows' = [rows EXCEPT ![r] = Released(@, status, cancel)],
           UNCHANGED orders, status \in Queued => rows[r].attempt < RunLimit + orders
    PROVE  RowsMove /\ \A q \in 1..Len(rows) : rows'[q].attempt = rows[q].attempt
<1>1. rows[r] \in TaskRows /\ Allowed(rows[r], orders) /\ orders \in Nat
  BY Fields DEF SagaInv, RunsBounded, Shape
<1>2. Released(rows[r], status, cancel) \in TaskRows
  BY <1>1 DEF TaskRows, Released
<1>3. PICK new \in TaskRows : new = Released(rows[r], status, cancel)
  BY <1>2
<1>4. new.kind = rows[r].kind /\ new.attempt = rows[r].attempt /\ new.status = status
  BY <1>3 DEF Released
<1>5. Allowed(new, orders') /\ orders' \in Nat /\ orders <= orders'
  BY <1>1, <1>4 DEF Allowed
<1>6. rows' = [rows EXCEPT ![r] = new]
  BY <1>3
<1>7. /\ RowsMove /\ rows'[r] = new
      /\ \A q \in 1..Len(rows) : q # r => rows'[q] = rows[q]
  BY <1>4, <1>5, <1>6, RowMoves
<1> QED
  BY <1>4, <1>7

(* After a settlement the worker goes on to what is left to do.             *)
LEMMA FollowKeeps ==
    ASSUME SagaInv, RowsMove, NEW todo \in Seq(Steps), Follow(todo),
           Live => todo = <<>> \/ Planned(todo),
           UNCHANGED <<project, resources, api, admin, canceller, tally>>
    PROVE  SagaInv'
<1>1. CASE todo = <<>>
  <2>1. worker' \in Jobs /\ worker'.pc = "idle"
    BY <1>1, IdleIs DEF Follow, Leave
  <2>2. Referring'
    BY <2>1 DEF Referring, Holding, SagaInv, RowsMove
  <2> QED
    BY <2>1, <2>2, WorkerMoves DEF SagaInv, Shape, tally
<1>2. CASE todo # <<>>
  <2>1. worker' \in Jobs /\ worker'.pc = "todo" /\ worker'.todo = todo
    BY <1>2, Fields DEF Follow, Jobs, SagaInv
  <2>2. Referring'
    BY <1>2, <2>1 DEF Referring, Holding, SagaInv, RowsMove
  <2>3. Live => Planned(worker.todo)'
    BY <1>2, <2>1 DEF Planned, Fed
  <2> QED
    BY <2>1, <2>2, <2>3, WorkerMoves DEF SagaInv, Shape, tally
<1> QED
  BY <1>1, <1>2

(* markTaskSucceeded and handleTaskCompletion.                              *)
LEMMA SucceededKeeps == ASSUME SagaInv, markTaskSucceeded PROVE SagaInv'
<1>1. worker.row \in 1..Len(rows) /\ rows[worker.row].kind \in Kinds
  BY Fields DEF SagaInv, Referring, Holding, markTaskSucceeded
<1>2. RowsMove
  BY <1>1, SettleMoves DEF markTaskSucceeded, Settled, Queued, Ended, tally
<1>3. FollowUp[rows[worker.row].kind] \in Seq(Steps)
  BY <1>1, FollowUpIs
<1>4. Live => Planned(FollowUp[rows[worker.row].kind])
  BY <1>1, FollowUpIs DEF SagaInv, Provisioned, markTaskSucceeded
<1> QED
  BY <1>2, <1>3, <1>4, FollowKeeps DEF markTaskSucceeded

(* handleTaskFailure.                                                       *)
LEMMA FailureKeeps == ASSUME SagaInv, handleTaskFailure PROVE SagaInv'
<1>1. /\ worker.row \in 1..Len(rows) /\ rows[worker.row].kind \in Kinds
      /\ worker.retries = rows[worker.row].attempt /\ worker.retries \in Nat
  BY Fields DEF SagaInv, Referring, Holding, handleTaskFailure
<1>2. PICK kind \in Kinds : kind = rows[worker.row].kind
  BY <1>1
<1>3. CASE worker.retries < RetryLimit(kind)
  <2>1. rows[worker.row].attempt < RunLimit + orders
    <3>1. /\ StageRetries \in Nat /\ CleanupRetries \in Nat /\ MaxAttempts \in Nat
          /\ orders \in Nat
      BY SagaAssumption DEF SagaInv, Shape
    <3> QED
      BY <1>1, <1>3, <3>1 DEF RetryLimit, RunLimit
  <2>2. RowsMove
    BY <1>1, <1>2, <1>3, <2>1, SettleMoves DEF handleTaskFailure, Settled, Queued, tally
  <2>3. Follow(<<>>) /\ <<>> \in Seq(Steps)
    BY <1>2, <1>3, EmptySeq DEF handleTaskFailure, Follow
  <2> QED
    BY <2>2, <2>3, FollowKeeps DEF handleTaskFailure
<1>4. CASE ~(worker.retries < RetryLimit(kind))
  <2>1. RowsMove
    BY <1>1, <1>2, <1>4, SettleMoves DEF handleTaskFailure, Settled, Queued, Ended, tally
  <2>2. Follow(Compensation(kind)) /\ Compensation(kind) \in Seq(Steps)
    BY <1>2, <1>4, CompensationIs DEF handleTaskFailure
  <2>3. Live => Compensation(kind) = <<>> \/ Planned(Compensation(kind))
    BY <1>1, <1>2, CompensationIs DEF SagaInv, Provisioned
  <2> QED
    BY <2>1, <2>2, <2>3, FollowKeeps DEF handleTaskFailure
<1> QED
  BY <1>3, <1>4

-----------------------------------------------------------------------------
(* createTask leaves every row as it was and adds one that was never run.   *)
LEMMA AddedIs ==
    ASSUME SagaInv, NEW kind \in Kinds, createTask(kind), UNCHANGED orders
    PROVE  /\ rows' \in Seq(TaskRows) /\ Len(rows') <= MaxRows
           /\ Len(rows) \in Nat /\ Len(rows') = Len(rows) + 1
           /\ \A q \in 1..Len(rows) : rows'[q] = rows[q]
           /\ \A q \in 1..Len(rows') : q \notin 1..Len(rows) => rows'[q].kind = kind
           /\ RunsBounded'
<1>1. /\ rows' \in Seq(TaskRows) /\ Len(rows') = Len(rows) + 1 /\ Len(rows') <= MaxRows
      /\ \A q \in 1..Len(rows) : rows'[q] = rows[q]
      /\ rows'[Len(rows) + 1] = NewRow(kind)
      /\ Len(rows) \in Nat
  BY RowAdded, Fields DEF SagaInv
<1>2. Allowed(NewRow(kind), orders) /\ NewRow(kind).kind = kind
  <2>1. RunLimit \in Nat \ {0} /\ orders \in Nat
    BY SagaAssumption DEF RunLimit, SagaInv, Shape
  <2> QED
    BY <2>1 DEF NewRow, Allowed
<1>3. \A q \in 1..Len(rows') : q \in 1..Len(rows) \/ q = Len(rows) + 1
  BY <1>1
<1> QED
  BY <1>1, <1>2, <1>3 DEF SagaInv, RunsBounded

(* todoStep: the next stage or clean-up, the pause or the activation.       *)
LEMMA TodoKeeps == ASSUME SagaInv, todoStep PROVE SagaInv'
<1>1. PICK todo \in Seq(Steps) : todo = worker.todo
  BY Fields DEF SagaInv
<1>2. todo # <<>>
  BY <1>1 DEF SagaInv, Referring, todoStep
<1>3. Tail(todo) \in Seq(Steps) /\ Head(todo) \in Steps /\ Len(Tail(todo)) = Len(todo) - 1
  BY <1>2, HeadTailProperties
<1>4. worker' \in Jobs /\ Referring'
  <2>1. Tail(todo) = <<>> => worker' = Idle
    BY <1>1 DEF todoStep, Follow, Leave
  <2>2. Tail(todo) # <<>> => worker' = [pc |-> "todo", row |-> worker.row,
                                        retries |-> worker.retries, todo |-> Tail(todo)]
    BY <1>1 DEF todoStep, Follow
  <2>3. worker' \in Jobs /\ (worker'.pc = "idle" \/ (worker'.pc = "todo" /\ worker'.todo # <<>>))
    <3>1. CASE Tail(todo) = <<>>
      BY <2>1, <3>1, IdleIs
    <3>2. CASE Tail(todo) # <<>>
      <4>1. PICK rest \in Seq(Steps) : rest = Tail(todo)
        BY <1>3
      <4>2. /\ rest # <<>>
            /\ worker' = [pc |-> "todo", row |-> worker.row, retries |-> worker.retries,
                          todo |-> rest]
        BY <2>2, <3>2, <4>1
      <4>3. worker.row \in Nat /\ worker.retries \in Nat
        BY Fields DEF SagaInv
      <4> QED
        BY <4>2, <4>3 DEF Jobs
    <3> QED
      BY <3>1, <3>2
  <2>4. canceller.pc # "none" => canceller.row \in 1..Len(rows')
    <3>1. CASE UNCHANGED rows
      BY <3>1 DEF SagaInv, Referring
    <3>2. CASE \E kind \in Kinds : createTask(kind)
      BY <3>2, AddedIs DEF SagaInv, Referring, todoStep
    <3> QED
      BY <3>1, <3>2 DEF todoStep
  <2> QED
    BY <2>3, <2>4 DEF Referring, Holding, todoStep
<1>5. Live => Head(todo) = "pause" \/ (Tail(todo) = <<>> /\ worker'.pc = "idle")
  <2>1. Live => Head(todo) = "pause" \/ Len(todo) = 1
    BY <1>1 DEF SagaInv, Provisioned, Planned, todoStep
  <2>2. ASSUME Len(todo) = 1 PROVE Tail(todo) = <<>>
    <3>1. Tail(todo) \in Seq(Steps) /\ Len(Tail(todo)) = 0
      BY <1>3, <2>2
    <3>2. \A seq \in Seq(Steps) : Len(seq) = 0 => seq = <<>>
      BY EmptySeq
    <3> QED
      BY <3>1, <3>2, Zenon
  <2>3. Tail(todo) = <<>> => worker'.pc = "idle"
    BY <1>1 DEF todoStep, Follow, Leave, Idle
  <2> QED
    BY <2>1, <2>2, <2>3
<1>6. UNCHANGED <<resources, api, admin, canceller, failures, faults, orders, locks>>
  BY DEF todoStep
<1>7. CASE Head(todo) \in Kinds /\ createTask(Head(todo)) /\ UNCHANGED project
  <2>1. PICK kind \in Kinds : kind = Head(todo)
    BY <1>7
  <2>2. /\ rows' \in Seq(TaskRows) /\ Len(rows') <= MaxRows /\ RunsBounded'
        /\ \A q \in 1..Len(rows) : rows'[q] = rows[q]
        /\ \A q \in 1..Len(rows') : q \notin 1..Len(rows) => rows'[q].kind = kind
    BY <1>6, <1>7, <2>1, AddedIs
  <2>3. Shape'
    BY <1>4, <1>6, <1>7, <2>2 DEF SagaInv, Shape
  <2>4. Live => Fed(kind)
    <3>1. kind # "pause" /\ kind # "activate"
      BY DEF Kinds, Stages, Cleanups
    <3> QED
      BY <1>1, <2>1, <3>1 DEF SagaInv, Provisioned, Planned, todoStep
  <2>5. Provisioned'
    <3>1. (locks' = 0 => admin' = "none") /\ (Live' => Live) /\ Shape /\ Provisioned
      BY <1>6, <1>7 DEF SagaInv, Provisioned, Live
    <3>2. kind # "pause"
      BY DEF Kinds, Stages, Cleanups
    <3>3. Live' => worker'.pc = "idle"
      BY <1>5, <2>1, <3>1, <3>2
    <3>4. Live' => \A r \in 1..Len(rows') :
             \/ r \in 1..Len(rows) /\ rows'[r].kind = rows[r].kind
             \/ Fed(rows[r].kind)'
      BY <1>6, <2>2, <2>4, <3>1 DEF Fed
    <3>5. Live' => \A i \in 1..Len(api') : api'[i] = "provision_db"
      BY <1>6, <3>1 DEF Provisioned
    <3> QED
      BY <1>6, <1>7, <3>1, <3>3, <3>4, <3>5, LiveKeeps
  <2> QED
    BY <1>4, <2>2, <2>3, <2>5 DEF SagaInv
<1>8. CASE UNCHANGED rows /\ Head(todo) # "pause" /\ project' = (IF Contended THEN project ELSE Activated)
           /\ Head(todo) = "activate"
  <2>1. Shape' /\ RunsBounded'
    BY <1>4, <1>6, <1>8 DEF SagaInv, Shape, RunsBounded, Allowed, Activated
  <2>2. Provisioned'
    <3>1. (locks' = 0 => admin' = "none") /\ (Live' => Live) /\ Shape /\ Provisioned
      BY <1>6, <1>8 DEF SagaInv, Provisioned, Live, Activated
    <3>2. Live' => worker'.pc = "idle"
      BY <1>5, <1>8, <3>1
    <3>3. Live' => Core \subseteq resources
      <4>1. "activate" \notin Stages
        BY DEF Stages
      <4> QED
        BY <1>1, <1>8, <3>1, <4>1 DEF Provisioned, Planned, todoStep, Fed
    <3>4. Live' => \A i \in 1..Len(api') : api'[i] = "provision_db"
      BY <1>6, <3>1 DEF Provisioned
    <3> QED
      BY <1>6, <1>8, <3>1, <3>2, <3>3, <3>4, LiveKeeps
  <2> QED
    BY <1>4, <2>1, <2>2 DEF SagaInv
<1>9. CASE UNCHANGED rows /\ project' = Paused
  <2>1. Shape' /\ RunsBounded' /\ ~Live'
    BY <1>4, <1>6, <1>9 DEF SagaInv, Shape, RunsBounded, Allowed, Paused, Live
  <2>2. Provisioned'
    BY <1>6, <2>1 DEF SagaInv, Provisioned
  <2> QED
    BY <1>4, <2>1, <2>2 DEF SagaInv
<1> QED
  BY <1>1, <1>7, <1>8, <1>9 DEF todoStep

-----------------------------------------------------------------------------
(* A step about one row, of the clock or of the API: the worker's row may   *)
(* change under it, but not its kind and not its attempt.                   *)
LEMMA RowRequestKeeps ==
    ASSUME SagaInv, RowsMove, \A q \in 1..Len(rows) : rows'[q].attempt = rows[q].attempt,
           UNCHANGED <<project, resources, worker, api, admin, failures, faults, locks>>,
           orders' \in Nat, orders' <= MaxOrders, canceller' \in Calls,
           canceller'.pc # "none" => canceller'.row \in 1..Len(rows)
    PROVE  SagaInv'
<1>1. Shape' /\ Referring' /\ RunsBounded'
  BY DEF SagaInv, Shape, Referring, RunsBounded, RowsMove
<1>2. Provisioned'
  <2>1. Shape /\ Provisioned /\ (locks' = 0 => admin' = "none") /\ (Live' => Live)
    BY DEF SagaInv, Provisioned, Live
  <2>2. Live' /\ worker'.pc = "succeeded" =>
           Provides[rows'[worker'.row].kind] \subseteq resources'
    BY <2>1 DEF Provisioned, RowsMove, SagaInv, Referring, Holding
  <2>3. Live' /\ worker'.pc = "todo" => Planned(worker.todo)'
    BY <2>1 DEF Provisioned, Planned, Fed
  <2>4. Live' =>
           /\ \A i \in 1..Len(api') : api'[i] = "provision_db"
           /\ \A r \in 1..Len(rows') : r \in 1..Len(rows) /\ rows'[r].kind = rows[r].kind
    BY <2>1 DEF Provisioned, RowsMove
  <2> QED
    BY <2>1, <2>2, <2>3, <2>4, LiveKeeps
<1> QED
  BY <1>1, <1>2 DEF SagaInv

(* The lease of a dropped task runs out.                                    *)
LEMMA ExpiresKeeps == ASSUME SagaInv, NEW r \in DOMAIN rows, LeaseExpires(r) PROVE SagaInv'
<1>1. r \in 1..Len(rows) /\ rows[r] \in TaskRows /\ Allowed(rows[r], orders) /\ orders \in Nat
  BY Fields DEF SagaInv, RunsBounded, Shape
<1>2. [rows[r] EXCEPT !.lease = "expired"] \in TaskRows
  BY <1>1 DEF TaskRows
<1>3. PICK new \in TaskRows : new = [rows[r] EXCEPT !.lease = "expired"]
  BY <1>2
<1>4. new.kind = rows[r].kind /\ new.attempt = rows[r].attempt /\ new.status = rows[r].status
  BY <1>1, <1>3 DEF TaskRows
<1>5. Allowed(new, orders') /\ orders' \in Nat /\ orders <= orders'
  BY <1>1, <1>4 DEF Allowed, LeaseExpires, tally
<1>6. rows' = [rows EXCEPT ![r] = new]
  BY <1>3 DEF LeaseExpires
<1>7. RowsMove /\ rows'[r] = new /\ \A q \in 1..Len(rows) : q # r => rows'[q] = rows[q]
  BY <1>1, <1>4, <1>5, <1>6, RowMoves
<1>8. \A q \in 1..Len(rows) : rows'[q].attempt = rows[q].attempt
  BY <1>4, <1>7
<1> QED
  BY <1>7, <1>8, RowRequestKeeps DEF LeaseExpires, tally, SagaInv, Shape, Referring

(* A cancellation reads the row.                                            *)
LEMMA CancelReadKeeps == ASSUME SagaInv, NEW r \in DOMAIN rows, cancelRead(r) PROVE SagaInv'
<1>1. r \in 1..Len(rows) /\ r \in Nat
  BY Fields DEF SagaInv
<1>2. canceller' \in Calls /\ canceller'.row = r
  BY <1>1 DEF cancelRead, Calls
<1>3. orders' \in Nat /\ orders' <= MaxOrders /\ orders <= orders'
  BY SagaAssumption DEF cancelRead, Order, SagaInv, Shape
<1>4. RowsMove
  <2>1. \A q \in 1..Len(rows) : Allowed(rows[q], orders) /\ rows[q].attempt \in Nat
    BY Fields DEF SagaInv, RunsBounded
  <2>2. orders \in Nat /\ RunLimit \in Nat
    BY SagaAssumption DEF RunLimit, SagaInv, Shape
  <2>3. \A q \in 1..Len(rows) : Allowed(rows[q], orders')
    BY <1>3, <2>1, <2>2 DEF Allowed
  <2> QED
    BY <2>3 DEF RowsMove, cancelRead, SagaInv, Shape
<1> QED
  BY <1>1, <1>2, <1>3, <1>4, RowRequestKeeps DEF cancelRead, Order

(* A cancellation flags the row.                                            *)
LEMMA FlagKeeps == ASSUME SagaInv, requestTaskCancellation PROVE SagaInv'
<1>1. canceller.row \in 1..Len(rows)
  BY DEF SagaInv, Referring, requestTaskCancellation
<1>2. PICK r \in 1..Len(rows) : r = canceller.row
  BY <1>1
<1>3. rows[r] \in TaskRows /\ Allowed(rows[r], orders) /\ orders \in Nat
  BY Fields DEF SagaInv, RunsBounded, Shape
<1>4. [rows[r] EXCEPT !.cancel = TRUE] \in TaskRows
  BY <1>3 DEF TaskRows
<1>5. PICK new \in TaskRows : new = [rows[r] EXCEPT !.cancel = TRUE]
  BY <1>4
<1>6. new.kind = rows[r].kind /\ new.attempt = rows[r].attempt /\ new.status = rows[r].status
  BY <1>3, <1>5 DEF TaskRows
<1>7. Allowed(new, orders') /\ orders' \in Nat /\ orders <= orders'
  BY <1>3, <1>6 DEF Allowed, requestTaskCancellation, tally
<1>8. rows' = [rows EXCEPT ![r] = new]
  BY <1>2, <1>5 DEF requestTaskCancellation
<1>9. RowsMove /\ rows'[r] = new /\ \A q \in 1..Len(rows) : q # r => rows'[q] = rows[q]
  BY <1>6, <1>7, <1>8, RowMoves
<1>10. \A q \in 1..Len(rows) : rows'[q].attempt = rows[q].attempt
  BY <1>6, <1>9
<1>11. canceller' \in Calls /\ (canceller'.pc # "none" => canceller'.row \in 1..Len(rows))
  <2>1. NoCall \in Calls /\ NoCall.pc = "none"
    BY DEF NoCall, Calls
  <2>2. /\ [canceller EXCEPT !.pc = "cancel"] \in Calls
        /\ [canceller EXCEPT !.pc = "cancel"].row = canceller.row
    BY DEF Calls, SagaInv, Shape
  <2> QED
    BY <1>1, <2>1, <2>2 DEF requestTaskCancellation
<1> QED
  BY <1>9, <1>10, <1>11, RowRequestKeeps DEF requestTaskCancellation, tally, SagaInv, Shape

(* A cancellation cancels the row, whatever became of it meanwhile.         *)
LEMMA CancelKeeps == ASSUME SagaInv, cancelTask PROVE SagaInv'
<1>1. canceller.row \in 1..Len(rows)
  BY DEF SagaInv, Referring, cancelTask
<1>2. RowsMove /\ \A q \in 1..Len(rows) : rows'[q].attempt = rows[q].attempt
  BY <1>1, SettleMoves DEF cancelTask, Queued, Ended, tally
<1>3. canceller' \in Calls /\ canceller'.pc = "none"
  BY DEF cancelTask, NoCall, Calls
<1> QED
  BY <1>2, <1>3, RowRequestKeeps DEF cancelTask, tally, SagaInv, Shape

(* A task is retried through the API.                                       *)
LEMMA RetryKeeps == ASSUME SagaInv, NEW r \in DOMAIN rows, retryTask(r) PROVE SagaInv'
<1>1. /\ r \in 1..Len(rows) /\ rows[r] \in TaskRows /\ Allowed(rows[r], orders)
      /\ rows[r].attempt \in Nat /\ orders \in Nat /\ RunLimit \in Nat
      /\ Len(rows) \in Nat /\ Len(rows) >= 1 /\ Len(rows) <= MaxRows /\ MaxRows \in Nat
  <2>1. /\ r \in 1..Len(rows) /\ Len(rows) \in Nat
        /\ \A q \in 1..Len(rows) : rows[q] \in TaskRows /\ rows[q].attempt \in Nat
    BY Fields DEF SagaInv
  <2>2. RunLimit \in Nat /\ MaxRows \in Nat
    BY SagaAssumption DEF RunLimit
  <2> QED
    BY <2>1, <2>2 DEF SagaInv, RunsBounded, Shape
<1>2. 2 * Len(rows) - 1 \in 0..(2 * MaxRows)
  BY <1>1
<1>3. Released(rows[r], "pending", FALSE) \in TaskRows
  BY <1>1 DEF TaskRows, Released, Queued
<1>4. PICK row \in TaskRows : row = Released(rows[r], "pending", FALSE)
  BY <1>3
<1>5. row.kind = rows[r].kind /\ row.attempt = rows[r].attempt
  BY <1>4 DEF Released
<1>6. [row EXCEPT !.turn = 2 * Len(rows) - 1] \in TaskRows
  BY <1>2 DEF TaskRows
<1>7. PICK new \in TaskRows : new = [row EXCEPT !.turn = 2 * Len(rows) - 1]
  BY <1>6
<1>8. new.kind = rows[r].kind /\ new.attempt = rows[r].attempt
  BY <1>5, <1>7 DEF TaskRows
<1>9. rows' = [rows EXCEPT ![r] = new]
  BY <1>4, <1>7 DEF retryTask, Settled
<1>10. orders' = orders + 1 /\ orders' \in Nat /\ orders <= orders' /\ orders' <= MaxOrders
  BY <1>1, SagaAssumption DEF retryTask, Order
<1>11. Allowed(new, orders')
  BY <1>1, <1>8, <1>10 DEF Allowed
<1>12. RowsMove /\ rows'[r] = new /\ \A q \in 1..Len(rows) : q # r => rows'[q] = rows[q]
  BY <1>1, <1>8, <1>9, <1>10, <1>11, RowMoves
<1>13. \A q \in 1..Len(rows) : rows'[q].attempt = rows[q].attempt
  BY <1>8, <1>12
<1> QED
  BY <1>10, <1>12, <1>13, RowRequestKeeps DEF retryTask, Order, SagaInv, Shape, Referring

-----------------------------------------------------------------------------
(* The calls that the API still has to make, but for the first.             *)
LEMMA ApiTail ==
    ASSUME SagaInv, api # <<>>, api' = Tail(api)
    PROVE  /\ Head(api) \in Kinds /\ api' \in Seq(Kinds)
           /\ Live => Head(api) = "provision_db" /\ \A i \in 1..Len(api') : api'[i] = "provision_db"
<1>1. PICK calls \in Seq(Kinds) : calls = api
  BY DEF SagaInv, Shape
<1>2. /\ Head(calls) \in Kinds /\ Tail(calls) \in Seq(Kinds) /\ Len(Tail(calls)) = Len(calls) - 1
      /\ \A i \in 1..Len(Tail(calls)) : Tail(calls)[i] = calls[i + 1]
  BY <1>1, HeadTailProperties
<1>3. Len(calls) \in Nat \ {0} /\ Head(calls) = calls[1]
  BY <1>1, EmptySeq
<1>4. \A i \in 1..Len(Tail(calls)) : i + 1 \in 1..Len(calls)
  BY <1>2, <1>3
<1>5. Live => \A i \in 1..Len(calls) : calls[i] = "provision_db"
  BY <1>1 DEF SagaInv, Provisioned
<1> QED
  BY <1>1, <1>2, <1>3, <1>4, <1>5

(* A task is enqueued that was ordered before.                              *)
LEMMA ApiStepKeeps == ASSUME SagaInv, apiStep PROVE SagaInv'
<1>1. /\ Head(api) \in Kinds /\ api' \in Seq(Kinds)
      /\ Live => Head(api) = "provision_db" /\ \A i \in 1..Len(api') : api'[i] = "provision_db"
  BY ApiTail DEF apiStep
<1>2. PICK kind \in Kinds : kind = Head(api)
  BY <1>1
<1>3. /\ rows' \in Seq(TaskRows) /\ Len(rows') <= MaxRows /\ RunsBounded'
      /\ Len(rows) \in Nat /\ Len(rows') = Len(rows) + 1
      /\ \A q \in 1..Len(rows) : rows'[q] = rows[q]
      /\ \A q \in 1..Len(rows') : q \notin 1..Len(rows) => rows'[q].kind = kind
  BY <1>2, AddedIs DEF apiStep, tally
<1>4. Shape'
  BY <1>1, <1>3 DEF SagaInv, Shape, apiStep, tally
<1>5. Referring'
  BY <1>3 DEF SagaInv, Referring, apiStep
<1>6. Provisioned'
  <2>1. Shape /\ Provisioned /\ (locks' = 0 => admin' = "none") /\ (Live' => Live)
    BY DEF SagaInv, Provisioned, Live, apiStep, tally
  <2>2. Live' => kind = "provision_db" /\ Fed(kind)'
    BY <1>1, <1>2, <2>1 DEF Fed, Stages
  <2>3. Live' => \A r \in 1..Len(rows') :
           \/ r \in 1..Len(rows) /\ rows'[r].kind = rows[r].kind
           \/ Fed(rows[r].kind)'
    BY <1>3, <2>2 DEF Fed
  <2>4. Live' /\ worker'.pc = "succeeded" =>
           Provides[rows'[worker'.row].kind] \subseteq resources'
    BY <1>3, <2>1 DEF Provisioned, SagaInv, Referring, Holding, apiStep
  <2>5. Live' /\ worker'.pc = "todo" => Planned(worker.todo)'
    BY <2>1 DEF Provisioned, Planned, Fed, apiStep
  <2> QED
    BY <1>1, <2>1, <2>3, <2>4, <2>5, LiveKeeps DEF apiStep
<1> QED
  BY <1>3, <1>4, <1>5, <1>6 DEF SagaInv

(* A step of the API that enqueues nothing.                                 *)
LEMMA ApiCallKeeps ==
    ASSUME SagaInv, UNCHANGED <<resources, rows, worker, canceller, orders>>,
           failures' \in Nat, faults' \in Nat, locks' \in Nat, api' \in Seq(Kinds),
           admin' \in {"none", "pause", "resume", "rebuild"},
           project' \in {"creating", "active", "paused", "deleted"},
           locks' = 0 => admin' = "none",
           Live' => Live /\ \A i \in 1..Len(api') : api'[i] = "provision_db",
           project' = "active" /\ locks' = 0 => project = "active"
    PROVE  SagaInv'
<1>1. Shape' /\ Referring' /\ RunsBounded'
  BY DEF SagaInv, Shape, Referring, RunsBounded, Allowed
<1>2. Live' /\ worker'.pc = "todo" => Planned(worker.todo)'
  BY DEF SagaInv, Provisioned, Planned, Fed
<1>3. /\ Live' /\ worker'.pc = "succeeded" =>
            Provides[rows'[worker'.row].kind] \subseteq resources'
      /\ Live' /\ project' = "active" => project = "active"
  BY DEF SagaInv, Provisioned, Live
<1>4. Provisioned'
  BY <1>2, <1>3, LiveKeeps DEF SagaInv
<1> QED
  BY <1>1, <1>4 DEF SagaInv

(* The task of an order is never enqueued.                                  *)
LEMMA ApiFailsKeeps == ASSUME SagaInv, apiFails PROVE SagaInv'
<1>1. /\ api' \in Seq(Kinds)
      /\ Live => \A i \in 1..Len(api') : api'[i] = "provision_db"
  BY ApiTail DEF apiFails
<1>2. project' \in {project, Paused}
  BY DEF apiFails
<1>3. /\ project' \in {"creating", "active", "paused", "deleted"}
      /\ project' = "active" => project = "active"
      /\ Live' => Live
  BY <1>2 DEF Paused, SagaInv, Shape, Live, apiFails, Fault
<1>4. /\ locks' = 0 => admin' = "none"
      /\ failures' \in Nat /\ faults' \in Nat /\ locks' \in Nat
      /\ admin' \in {"none", "pause", "resume", "rebuild"}
  BY DEF SagaInv, Shape, Provisioned, apiFails, Fault
<1> QED
  BY <1>1, <1>3, <1>4, ApiCallKeeps DEF apiFails, Fault

(* deleteProject.                                                           *)
LEMMA DeleteKeeps == ASSUME SagaInv, deleteProject PROVE SagaInv'
<1>1. api' \in Seq(Kinds)
  <2>1. "cleanup_runtime" \in Kinds
    BY DEF Kinds, Cleanups
  <2> QED
    BY <2>1, AppendProperties DEF SagaInv, Shape, deleteProject
<1>2. ~Live' /\ project' = "deleted"
  BY DEF deleteProject, Live
<1> QED
  BY <1>1, <1>2, ApiCallKeeps DEF SagaInv, Shape, Provisioned, deleteProject, tally

(* pauseProject and restoreProject take the lock,                           *)
LEMMA LockKeeps == ASSUME SagaInv, lockProject PROVE SagaInv'
<1>1. locks' \in Nat /\ locks' # 0 /\ ~Live'
  BY DEF SagaInv, Shape, lockProject, Live
<1>2. admin' \in {"none", "pause", "resume", "rebuild"}
  BY DEF lockProject
<1> QED
  BY <1>1, <1>2, ApiCallKeeps DEF SagaInv, Shape, lockProject

(* set the status and free the lock,                                        *)
LEMMA UnlockKeeps == ASSUME SagaInv, unlockProject PROVE SagaInv'
<1>1. locks' = locks /\ locks # 0 /\ ~Live'
  BY DEF SagaInv, Shape, unlockProject, Live, Provisioned, tally
<1>2. project' \in {"creating", "active", "paused", "deleted"}
  BY DEF unlockProject, NewStatus, SagaInv, Shape
<1>3. api' \in Seq(Kinds)
  <2>1. "provision_db" \in Kinds
    BY DEF Kinds, Stages
  <2> QED
    BY <2>1, AppendProperties DEF SagaInv, Shape, unlockProject
<1> QED
  BY <1>1, <1>2, <1>3, ApiCallKeeps DEF SagaInv, Shape, unlockProject, tally

(* or give up.                                                              *)
LEMMA PauseFailsKeeps == ASSUME SagaInv, pauseFails PROVE SagaInv'
<1>1. locks' = locks /\ locks # 0 /\ ~Live'
  BY DEF SagaInv, Shape, pauseFails, Live, Provisioned
<1> QED
  BY <1>1, ApiCallKeeps DEF SagaInv, Shape, pauseFails

-----------------------------------------------------------------------------
(* The invariant holds at the start.                                        *)
LEMMA SagaInitHolds == SagaInit => SagaInv
<1> SUFFICES ASSUME SagaInit PROVE SagaInv
  OBVIOUS
<1>1. "provision_db" \in Kinds /\ <<"provision_db">> \in Seq(Kinds)
      /\ Len(<<"provision_db">>) = 1 /\ <<"provision_db">>[1] = "provision_db"
  BY DEF Kinds, Stages
<1>2. <<>> \in Seq(TaskRows) /\ Len(<<>>) = 0
  BY EmptySeq
<1>3. NoCall \in Calls /\ NoCall.pc = "none"
  BY DEF NoCall, Calls
<1>4. Shape
  BY <1>1, <1>2, <1>3, IdleIs, SagaAssumption DEF SagaInit, Shape
<1>5. Referring
  BY <1>3, IdleIs DEF SagaInit, Referring, Holding
<1>6. RunsBounded
  BY <1>2 DEF SagaInit, RunsBounded
<1>7. Provisioned
  <2>1. \A i \in 1..Len(api) : api[i] = "provision_db"
    BY <1>1 DEF SagaInit
  <2> QED
    BY <1>2, <2>1, IdleIs DEF SagaInit, Provisioned
<1> QED
  BY <1>4, <1>5, <1>6, <1>7 DEF SagaInv

(* Every step preserves the invariant.                                      *)
LEMMA SagaStepKeeps == SagaInv /\ [SagaNext]_sagaVars => SagaInv'
<1> SUFFICES ASSUME SagaInv, [SagaNext]_sagaVars PROVE SagaInv'
  OBVIOUS
<1>1. CASE WorkerStep
  BY <1>1, PollRecoverKeeps, PollClaimKeeps, RunningKeeps, FindProjectKeeps, ExecuteKeeps,
     SucceededKeeps, FailureKeeps, TodoKeeps DEF WorkerStep
<1>2. CASE Crash
  BY <1>2, CrashKeeps
<1>3. CASE \E r \in DOMAIN rows : LeaseExpires(r) \/ cancelRead(r) \/ retryTask(r)
  BY <1>3, ExpiresKeeps, CancelReadKeeps, RetryKeeps
<1>4. CASE ApiStep
  BY <1>4, ApiStepKeeps, UnlockKeeps, FlagKeeps, CancelKeeps DEF ApiStep
<1>5. CASE apiFails \/ deleteProject \/ lockProject \/ pauseFails
  BY <1>5, ApiFailsKeeps, DeleteKeeps, LockKeeps, PauseFailsKeeps
<1>6. CASE UNCHANGED sagaVars
  BY <1>6 DEF sagaVars, tally, SagaInv, Shape, Referring, RunsBounded, Allowed, Provisioned,
              Live, Planned, Fed
<1> QED
  BY <1>1, <1>2, <1>3, <1>4, <1>5, <1>6 DEF SagaNext

(* Rows, worker and project agree, and a project that nobody paused or      *)
(* restored has, at every stage, what the stages before it provide.         *)
THEOREM SagaInvariant == SagaSpec => []SagaInv
BY SagaInitHolds, SagaStepKeeps, PTL DEF SagaSpec

(* A project that became active through the pipeline has everything but the *)
(* optional realtime; a task is run as often as its limits allow.           *)
THEOREM SagaIsConsistent == SagaSpec => []SagaConsistent
<1>1. ASSUME SagaInv PROVE SagaConsistent
  <2>1. ASSUME NEW r \in DOMAIN rows
        PROVE  rows[r] \in [kind: Kinds, status: Queued \cup Active \cup Ended,
                            attempt: 0..(RunLimit + MaxOrders),
                            lease: {"none", "live", "expired"}, cancel: BOOLEAN,
                            turn: 0..(2 * MaxRows)]
    <3>1. r \in 1..Len(rows) /\ rows[r] \in TaskRows /\ rows[r].attempt \in Nat
      BY <1>1, Fields DEF SagaInv
    <3>2. rows[r].attempt \in 0..(RunLimit + MaxOrders)
      <4>1. orders \in Nat /\ orders <= MaxOrders /\ RunLimit \in Nat /\ MaxOrders \in Nat
        BY <1>1, SagaAssumption DEF SagaInv, Shape, RunLimit
      <4>2. rows[r].attempt <= RunLimit + orders
        BY <1>1, <3>1 DEF SagaInv, RunsBounded, Allowed
      <4> QED
        BY <3>1, <4>1, <4>2
    <3> QED
      BY <3>1, <3>2 DEF TaskRows
  <2>2. SagaTypeOK
    BY <1>1, <2>1 DEF SagaTypeOK, SagaInv, Shape, NewStatus
  <2>3. ActiveIsProvisioned
    BY <1>1 DEF ActiveIsProvisioned, SagaInv, Provisioned, Live
  <2> QED
    BY <2>2, <2>3 DEF SagaConsistent
<1> QED
  BY <1>1, SagaInvariant, PTL

(* Resources are taken away only from a project that is paused or deleted,  *)
(* unless it was restored during the clean-up.                              *)
THEOREM TeardownWaits == SagaSpec => NoTeardownWhileLive
<1>1. ASSUME SagaInv, [SagaNext]_sagaVars
      PROVE  resources \subseteq resources' \/ project \in {"paused", "deleted"} \/ locks > 0
  <2>1. SUFFICES ASSUME Live PROVE resources \subseteq resources'
    BY <1>1 DEF Live, SagaInv, Shape
  <2>2. CASE UNCHANGED resources
    BY <2>2
  <2>3. ASSUME worker.pc = "acting"
        PROVE  rows[worker.row].kind \in Stages /\ rows[worker.row].kind \in Kinds
               /\ rows[worker.row].kind \notin Cleanups
               /\ resources \subseteq Effect(rows[worker.row].kind)
    <3>1. worker.row \in 1..Len(rows)
      BY <1>1, <2>3 DEF SagaInv, Referring, Holding
    <3>2. rows[worker.row].kind \in Stages
      BY <1>1, <2>1, <3>1 DEF SagaInv, Provisioned, Fed
    <3>3. Stages \subseteq Kinds /\ Stages \cap Cleanups = {}
      BY DEF Kinds, Stages, Cleanups
    <3> QED
      BY <1>1, <3>2, <3>3, EffectIs DEF SagaInv
  <2>4. CASE executeTask
    BY <2>3, <2>4 DEF executeTask, Cleanups
  <2>5. CASE Crash
    BY <2>3, <2>5 DEF Crash
  <2>6. [SagaNext]_sagaVars => executeTask \/ Crash \/ UNCHANGED resources
    BY DEF SagaNext, sagaVars, WorkerStep, PollRecover, PollClaim, markTaskRunning, findProject,
           markTaskSucceeded, handleTaskFailure, todoStep, LeaseExpires, cancelRead, retryTask,
           ApiStep, apiStep, unlockProject, requestTaskCancellation, cancelTask, apiFails,
           deleteProject, lockProject, pauseFails
  <2> QED
    BY <1>1, <2>2, <2>4, <2>5, <2>6
<1>2. SagaInv /\ [SagaNext]_sagaVars =>
         [resources \subseteq resources' \/ project \in {"paused", "deleted"} \/ locks > 0]_sagaVars
  BY <1>1
<1> QED
  BY <1>2, SagaInvariant, PTL DEF SagaSpec, NoTeardownWhileLive

(* A project that is paused stays so until it is restored or deleted: a     *)
(* pipeline that finishes late does not revive it.                          *)
THEOREM PauseStands == SagaSpec => PauseIsRespected
<1>1. ASSUME SagaInv, [SagaNext]_sagaVars, project = "paused"
      PROVE  project' \in {"paused", "deleted"} \/ admin \in {"resume", "rebuild"}
  <2>1. CASE UNCHANGED project
    BY <1>1, <2>1
  <2>2. CASE todoStep
    BY <1>1, <2>2 DEF todoStep, Activated, Paused
  <2>3. CASE unlockProject
    BY <1>1, <2>3 DEF unlockProject, NewStatus, SagaInv, Shape
  <2>4. CASE apiFails \/ deleteProject
    BY <1>1, <2>4 DEF apiFails, deleteProject, Paused
  <2>5. [SagaNext]_sagaVars =>
           todoStep \/ unlockProject \/ apiFails \/ deleteProject \/ UNCHANGED project
    BY DEF SagaNext, sagaVars, WorkerStep, PollRecover, PollClaim, markTaskRunning, findProject,
           executeTask, Crash, markTaskSucceeded, handleTaskFailure, LeaseExpires, cancelRead,
           retryTask, ApiStep, apiStep, requestTaskCancellation, cancelTask, lockProject, pauseFails
  <2> QED
    BY <1>1, <2>1, <2>2, <2>3, <2>4, <2>5
<1>2. SagaInv /\ [SagaNext]_sagaVars =>
         [project = "paused" =>
             project' \in {"paused", "deleted"} \/ admin \in {"resume", "rebuild"}]_sagaVars
  BY <1>1
<1> QED
  BY <1>2, SagaInvariant, PTL DEF SagaSpec, PauseIsRespected
=============================================================================
