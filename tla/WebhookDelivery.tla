--------------------------- MODULE WebhookDelivery ---------------------------
(***************************************************************************)
(* Webhooks of one project and the outbox of their events                  *)
(* (webhook-delivery.service.ts, webhook-delivery.worker.ts).  Processes   *)
(* claim rows of the outbox, sign and send the event, and record the       *)
(* result by the id of the row; meanwhile webhooks are changed, deleted    *)
(* and given new secrets, and events are queued, tested and replayed.      *)
(*                                                                         *)
(* A row of the outbox is known by its webhook and its idempotency key,    *)
(* which a unique index makes its own.                                     *)
(***************************************************************************)
EXTENDS Naturals, FiniteSets

CONSTANTS
    Webhooks,
    Events,         \* idempotency keys that clients choose, and may use again
    Singles,        \* keys made up for one test or one replay
    Workers,        \* processes that deliver
    MaxAttempts,
    Capacity,       \* MAX_UNFINISHED_OUTBOX_ITEMS
    None,
    MaxChanges,     \* updates and rotations of webhooks
    MaxFaults       \* deaths, failed commits, claims outlived by a worker

Keys  == Events \cup Singles
Items == Webhooks \X Keys

ASSUME WebhookAssumption ==
    /\ Events \cap Singles = {}
    /\ None \notin Keys \cup Items
    /\ IsFiniteSet(Webhooks) /\ IsFiniteSet(Keys)
    /\ MaxAttempts \in Nat \ {0}
    /\ Capacity \in Nat
    /\ MaxChanges \in Nat
    /\ MaxFaults \in Nat

VARIABLES
    hook,       \* project_webhooks
    secret,     \* the version of the managed signing secret, 0 when there is none
    rotating,   \* webhooks that a rotation has found active
    out,        \* webhook_outbox
    enqueue,    \* the transaction that holds the lock of the outbox
    log,        \* webhook_deliveries
    pc,
    job,        \* what a worker claimed
    late,       \* auxiliary: items with a result recorded after the claim was gone
    orphans,    \* auxiliary: webhooks deleted under a transaction that goes on
    changes,
    faults

hooks == <<hook, secret, rotating>>
work  == <<pc, job>>
aux   == <<late, orphans>>
vars  == <<hooks, out, enqueue, log, work, aux, changes, faults>>

-----------------------------------------------------------------------------
Unfinished == {"pending", "delivering", "retry_scheduled"}
Finished   == {"delivered", "dead_lettered", "cancelled"}

Versions == 0..(MaxChanges + 1)
Attempts == 0..(MaxAttempts + MaxFaults)

\* due: next_attempt_at is past; stale: locked_at is more than five minutes ago
Rows == [status : Unfinished \cup Finished \cup {"absent"}, attempts : Attempts,
         due : BOOLEAN, stale : BOOLEAN]

Row(status, attempts, due) ==
    [status |-> status, attempts |-> attempts, due |-> due, stale |-> FALSE]

NoRow  == Row("absent", 0, FALSE)
NewRow == Row("pending", 0, TRUE)

Jobs  == [item : Items, attempt : Attempts, version : Versions, signed : Versions, ok : BOOLEAN]
NoJob == [item |-> None, attempt |-> 0, version |-> 0, signed |-> 0, ok |-> FALSE]

NoEnqueue == [key |-> None, hooks |-> {}]

WebhookTypeOK ==
    /\ hook \in [Webhooks -> [state : {"none", "active", "deleted"}, enabled : BOOLEAN,
                              version : Versions]]
    /\ secret \in [Webhooks -> Versions]
    /\ rotating \subseteq Webhooks
    /\ out \in [Items -> Rows]
    /\ enqueue \in [key : Keys \cup {None}, hooks : SUBSET Webhooks]
    /\ log \subseteq [item : Items, attempt : Attempts,
                      status : {"delivered", "failed", "dead_lettered"}]
    /\ pc \in [Workers -> {"idle", "sign", "send", "persist"}]
    /\ \A p \in Workers : job[p] \in Jobs \cup {NoJob}
    /\ late \subseteq Items
    /\ orphans \subseteq Webhooks
    /\ changes \in 0..MaxChanges
    /\ faults \in 0..MaxFaults
    /\ \A i \in Items : out[i].stale => out[i].status = "delivering"
    /\ \A p \in Workers : pc[p] = "idle" <=> job[p] = NoJob

Init ==
    /\ hook = [w \in Webhooks |-> [state |-> "none", enabled |-> FALSE, version |-> 0]]
    /\ secret = [w \in Webhooks |-> 0]
    /\ rotating = {}
    /\ out = [i \in Items |-> NoRow]
    /\ enqueue = NoEnqueue
    /\ log = {}
    /\ pc = [p \in Workers |-> "idle"]
    /\ job = [p \in Workers |-> NoJob]
    /\ late = {}
    /\ orphans = {}
    /\ changes = 0
    /\ faults = 0

Active(w) == hook[w].state = "active"
Fault     == faults < MaxFaults /\ faults' = faults + 1

-----------------------------------------------------------------------------
(* Webhooks.                                                                *)
CreateWebhook(w) ==
    /\ hook[w].state = "none"
    /\ \E on \in BOOLEAN :
          hook' = [hook EXCEPT ![w] = [state |-> "active", enabled |-> on, version |-> 1]]
    /\ secret' = [secret EXCEPT ![w] = 1]
    /\ UNCHANGED <<rotating, out, enqueue, log, work, aux, changes, faults>>

\* the statement does not look at deleted_at: it may land after a deletion
UpdateWebhook(w) ==
    /\ hook[w].state # "none"
    /\ changes < MaxChanges /\ changes' = changes + 1
    /\ \E on \in BOOLEAN : hook' = [hook EXCEPT ![w].enabled = on]
    /\ UNCHANGED <<secret, rotating, out, enqueue, log, work, aux, faults>>

(* Fault: rows that are finished are cancelled too.                         *)
CancelledAll(w) ==
    [i \in Items |-> IF i[1] = w /\ out[i].status # "absent"
                     THEN Row("cancelled", out[i].attempts, out[i].due) ELSE out[i]]

(* Fault: a row that is being delivered is left to its worker.              *)
CancelledWaiting(w) ==
    [i \in Items |-> IF i[1] = w /\ out[i].status \in {"pending", "retry_scheduled"}
                     THEN [out[i] EXCEPT !.status = "cancelled"] ELSE out[i]]

Cancelled(w) ==
    [i \in Items |-> IF i[1] = w /\ out[i].status \in Unfinished
                     THEN Row("cancelled", out[i].attempts, out[i].due) ELSE out[i]]

DeleteWebhook(w) ==
    /\ Active(w)
    /\ hook' = [hook EXCEPT ![w] = [@ EXCEPT !.state = "deleted", !.enabled = FALSE]]
    /\ out' = Cancelled(w)
    /\ secret' = [secret EXCEPT ![w] = 0]
    /\ orphans' = IF w \in rotating \cup enqueue.hooks THEN orphans \cup {w} ELSE orphans
    /\ UNCHANGED <<rotating, enqueue, log, work, late, changes, faults>>

(* rotateSecret: finds the webhook active, then writes without a lock on it *)
(* in between.                                                              *)
RotateBegin(w) ==
    /\ Active(w) /\ w \notin rotating
    /\ changes < MaxChanges /\ changes' = changes + 1
    /\ rotating' = rotating \cup {w}
    /\ UNCHANGED <<hook, secret, out, enqueue, log, work, aux, faults>>

NewSecret(w) == [secret EXCEPT ![w] = hook[w].version + 1]

RotateCommit(w) ==
    /\ w \in rotating
    /\ rotating' = rotating \ {w}
    /\ secret' = NewSecret(w)
    /\ hook' = [hook EXCEPT ![w].version = @ + 1]
    /\ UNCHANGED <<out, enqueue, log, work, aux, changes, faults>>

-----------------------------------------------------------------------------
(* The outbox.  One transaction at a time adds to it, and sees the webhooks *)
(* as they were when its statement began.                                   *)
Begin(key, ws) ==
    /\ enqueue = NoEnqueue
    /\ enqueue' = [key |-> key, hooks |-> ws]
    /\ UNCHANGED <<hooks, out, log, work, aux, changes, faults>>

EnqueueEvent(k) == Begin(k, {w \in Webhooks : Active(w) /\ hook[w].enabled})

Unused(k) == \A i \in Items : i[2] = k => out[i].status = "absent"

EnqueueTest(w, k) == Active(w) /\ Unused(k) /\ Begin(k, {w})

ReplayDelivery(w, k) ==
    Active(w) /\ Unused(k) /\ (\E d \in log : d.item[1] = w) /\ Begin(k, {w})

\* ON CONFLICT DO NOTHING
Added == {i \in Items : i[1] \in enqueue.hooks /\ i[2] = enqueue.key /\ out[i].status = "absent"}

Queued == {i \in Items : out[i].status \in Unfinished}

(* Fault: the rows to be added are not counted.                             *)
FitsBefore == Cardinality(Queued) <= Capacity

Fits == Cardinality(Queued) + Cardinality(Added) <= Capacity

EnqueueCommit ==
    /\ enqueue # NoEnqueue
    /\ enqueue' = NoEnqueue
    /\ out' = IF Fits THEN [i \in Items |-> IF i \in Added THEN NewRow ELSE out[i]] ELSE out
    /\ UNCHANGED <<hooks, log, work, aux, changes, faults>>

-----------------------------------------------------------------------------
(* processOneWebhookDelivery.                                               *)
Goto(p, place) == pc' = [pc EXCEPT ![p] = place]

Drop(p) == Goto(p, "idle") /\ job' = [job EXCEPT ![p] = NoJob]

(* Fault: a claim is never taken over.                                      *)
ClaimableFresh(i) ==
    out[i].status \in {"pending", "retry_scheduled"} /\ out[i].due /\ Active(i[1])

Claimable(i) ==
    /\ \/ out[i].status \in {"pending", "retry_scheduled"} /\ out[i].due
       \/ out[i].status = "delivering" /\ out[i].stale
    /\ Active(i[1])

(* Fault: an attempt is counted when it is recorded, not when it is claimed.*)
ClaimedUncounted(i) == Row("delivering", out[i].attempts, out[i].due)

Claimed(i) == Row("delivering", out[i].attempts + 1, out[i].due)

\* an acknowledgement that is lost leaves the row to the next claim
Claim(p) ==
    \E i \in Items :
        /\ pc[p] = "idle"
        /\ Claimable(i)
        /\ out' = [out EXCEPT ![i] = Claimed(i)]
        /\ \/ /\ Goto(p, "sign")
              /\ job' = [job EXCEPT ![p] = [item |-> i, attempt |-> Claimed(i).attempts,
                                            version |-> hook[i[1]].version,
                                            signed |-> 0, ok |-> FALSE]]
              /\ UNCHANGED faults
           \/ UNCHANGED work /\ Fault
        /\ UNCHANGED <<hooks, enqueue, log, aux, changes>>

Mine(p) == job[p].item

\* the address is refused or the secret is missing: a failed attempt
Sign(p) ==
    /\ pc[p] = "sign"
    /\ \/ /\ secret[Mine(p)[1]] # 0
          /\ job' = [job EXCEPT ![p].signed = secret[Mine(p)[1]]]
          /\ Goto(p, "send")
       \/ Goto(p, "persist") /\ UNCHANGED job
    /\ UNCHANGED <<hooks, out, enqueue, log, aux, changes, faults>>

\* a success, an answer that is none, or no answer in time
Send(p) ==
    /\ pc[p] = "send"
    /\ Goto(p, "persist")
    /\ \E ok \in BOOLEAN : job' = [job EXCEPT ![p].ok = ok]
    /\ UNCHANGED <<hooks, out, enqueue, log, aux, changes, faults>>

Exhausted(p) == job[p].attempt >= MaxAttempts

Outcome(p) ==
    IF job[p].ok THEN "delivered" ELSE IF Exhausted(p) THEN "dead_lettered" ELSE "retry_scheduled"

Recorded(p) == IF Outcome(p) = "retry_scheduled" THEN "failed" ELSE Outcome(p)

InTime(p) == out[Mine(p)].status = "delivering" /\ out[Mine(p)].attempts = job[p].attempt

Settled(p) ==
    Row(Outcome(p), out[Mine(p)].attempts,
        out[Mine(p)].due /\ Outcome(p) # "retry_scheduled")

(* persistDeliveryAttempt: by the id of the row, whatever became of it.     *)
Persist(p) ==
    /\ pc[p] = "persist"
    /\ log' = log \cup {[item |-> Mine(p), attempt |-> job[p].attempt, status |-> Recorded(p)]}
    /\ out' = [out EXCEPT ![Mine(p)] = Settled(p)]
    /\ late' = IF InTime(p) THEN late ELSE late \cup {Mine(p)}
    /\ Drop(p)
    /\ UNCHANGED <<hooks, enqueue, orphans, changes, faults>>

\* a death at any point, or a result that could not be recorded
Crash(p) ==
    /\ pc[p] # "idle"
    /\ Fault
    /\ Drop(p)
    /\ UNCHANGED <<hooks, out, enqueue, log, aux, changes>>

-----------------------------------------------------------------------------
(* Time.                                                                    *)
Due(i) ==
    /\ out[i].status = "retry_scheduled" /\ ~out[i].due
    /\ out' = [out EXCEPT ![i].due = TRUE]
    /\ UNCHANGED <<hooks, enqueue, log, work, aux, changes, faults>>

AtWork(i) == \E p \in Workers : job[p].item = i /\ job[p].attempt = out[i].attempts

\* a send is given up after ten seconds: five minutes outlive a worker that lives
Expire(i) ==
    /\ out[i].status = "delivering" /\ ~out[i].stale
    /\ ~AtWork(i)
    /\ out' = [out EXCEPT ![i].stale = TRUE]
    /\ UNCHANGED <<hooks, enqueue, log, work, aux, changes, faults>>

Overrun(i) ==
    /\ out[i].status = "delivering" /\ ~out[i].stale
    /\ AtWork(i)
    /\ Fault
    /\ out' = [out EXCEPT ![i].stale = TRUE]
    /\ UNCHANGED <<hooks, enqueue, log, work, aux, changes>>

Deliver(p) == Claim(p) \/ Sign(p) \/ Send(p) \/ Persist(p)

Next ==
    \/ \E w \in Webhooks :
          \/ CreateWebhook(w) \/ UpdateWebhook(w) \/ DeleteWebhook(w)
          \/ RotateBegin(w) \/ RotateCommit(w)
          \/ \E k \in Singles : EnqueueTest(w, k) \/ ReplayDelivery(w, k)
    \/ \E k \in Events : EnqueueEvent(k)
    \/ EnqueueCommit
    \/ \E p \in Workers : Deliver(p) \/ Crash(p)
    \/ \E i \in Items : Due(i) \/ Expire(i) \/ Overrun(i)

\* startWebhookDeliveryWorker polls for ever; time passes.
Spec ==
    /\ Init /\ [][Next]_vars
    /\ \A p \in Workers : WF_vars(Deliver(p))
    /\ \A i \in Items : WF_vars(Due(i)) /\ WF_vars(Expire(i))

-----------------------------------------------------------------------------
(* A row says delivered or dead-lettered only if an attempt of it is on     *)
(* record with that result, and dead-lettered only after the attempts it is *)
(* entitled to.                                                             *)
StatusIsEarned ==
    \A i \in Items :
        /\ out[i].status = "dead_lettered" => out[i].attempts >= MaxAttempts
        /\ out[i].status \in {"delivered", "dead_lettered"} =>
              \E d \in log : d.item = i /\ d.status = out[i].status

(* However often a claim is taken over, no attempt has two workers or two   *)
(* entries in the log.                                                      *)
AttemptsDistinct ==
    /\ \A d, e \in log : d.item = e.item /\ d.attempt = e.attempt => d = e
    /\ \A p, q \in Workers : p # q /\ job[p] # NoJob /\ job[q] # NoJob =>
          <<job[p].item, job[p].attempt>> # <<job[q].item, job[q].attempt>>
    /\ \A p \in Workers, d \in log :
          <<job[p].item, job[p].attempt>> # <<d.item, d.attempt>>

(* Only a failure of ours costs an endpoint more than its attempts.         *)
AttemptsBounded == \A i \in Items : out[i].attempts <= MaxAttempts + faults

(* A request is never signed with an older secret than the one its key id   *)
(* names.                                                                   *)
KeyNeverAhead ==
    \A p \in Workers : pc[p] = "send" => job[p].signed >= job[p].version

(* The outbox holds no more unfinished rows than it may, but for those that *)
(* a result recorded too late brought back.                                 *)
QueueBounded == Cardinality(Queued \ late) <= Capacity

(* What claims, records and rotations keep of rows, attempts and secrets.   *)
WebhookConsistent ==
    /\ WebhookTypeOK
    /\ StatusIsEarned /\ AttemptsBounded /\ KeyNeverAhead /\ QueueBounded

(* Once a webhook is deleted nothing of it is left to do, but for what a    *)
(* transaction or a worker that had already begun brings back.              *)
DeletedIsIdle ==
    \A w \in Webhooks \ orphans : hook[w].state = "deleted" =>
        /\ secret[w] = 0
        /\ \A i \in Queued \ late : i[1] # w

(* A row that is finished stays so, unless a result is recorded too late.   *)
FinishedStays ==
    [][\A i \in Items : out[i].status \in Finished /\ i \notin late' =>
          out'[i].status = out[i].status]_vars

(* Every event of a webhook that is not deleted is delivered or given up.   *)
EventsConclude ==
    \A i \in Items :
        out[i].status \in Unfinished ~> (out[i].status \in Finished \/ ~Active(i[1]))
=============================================================================
