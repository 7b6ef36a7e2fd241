------------------------ MODULE WebhookDeliveryProofs ------------------------
(***************************************************************************)
(* Proofs about the delivery of webhooks, for any number of webhooks,      *)
(* events and processes, and any number of deaths, claims that are taken   *)
(* over and results that come late.                                        *)
(***************************************************************************)
EXTENDS WebhookDelivery, FiniteSetTheorems, TLAPS

(* The types that the counters have when nothing bounds them.               *)
HookRecords == [state : {"none", "active", "deleted"}, enabled : BOOLEAN, version : Nat]
RowRecords  == [status : Unfinished \cup Finished \cup {"absent"}, attempts : Nat,
                due : BOOLEAN, stale : BOOLEAN]
JobRecords  == [item : Items, attempt : Nat, version : Nat, signed : Nat, ok : BOOLEAN]

Shape ==
    /\ hook \in [Webhooks -> HookRecords]
    /\ secret \in [Webhooks -> Nat]
    /\ out \in [Items -> RowRecords]
    /\ log \subseteq [item : Items, attempt : Nat, status : {"delivered", "failed", "dead_lettered"}]
    /\ pc \in [Workers -> {"idle", "sign", "send", "persist"}]
    /\ job \in [Workers -> JobRecords \cup {NoJob}]
    /\ \A p \in Workers : pc[p] # "idle" => job[p] \in JobRecords
    /\ \A p \in Workers : pc[p] = "idle" => job[p] = NoJob
    /\ enqueue \in [key : Keys \cup {None}, hooks : SUBSET Webhooks]

-----------------------------------------------------------------------------
(* What the operations write is of the right shape.                         *)
LEMMA HookDeleted ==
    ASSUME NEW h \in HookRecords
    PROVE  LET g == [h EXCEPT !.state = "deleted", !.enabled = FALSE]
           IN  g \in HookRecords /\ g.state = "deleted" /\ g.version = h.version
BY DEF HookRecords

(* A row that is claimed.                                                   *)
LEMMA ClaimedRow ==
    ASSUME Shape, NEW i \in Items
    PROVE  /\ Claimed(i) \in RowRecords
           /\ Claimed(i).status = "delivering"
           /\ Claimed(i).attempts = out[i].attempts + 1
BY DEF Claimed, Row, Shape, RowRecords, Unfinished

(* The rows that a deletion leaves.                                         *)
LEMMA CancelledRows ==
    ASSUME Shape, NEW w \in Webhooks, NEW i \in Items
    PROVE  /\ Cancelled(w)[i].attempts = out[i].attempts
           /\ IF i[1] = w /\ out[i].status \in Unfinished
              THEN Cancelled(w)[i].status = "cancelled"
              ELSE Cancelled(w)[i] = out[i]
BY DEF Cancelled, Row, Shape, RowRecords

(* The row that a result is recorded in.                                    *)
LEMMA SettledRow ==
    ASSUME Shape, NEW p \in Workers, Persist(p)
    PROVE  /\ Mine(p) \in Items /\ job[p] \in JobRecords
           /\ Settled(p) \in RowRecords
           /\ Settled(p).status = Outcome(p)
           /\ Settled(p).attempts = out[Mine(p)].attempts
           /\ Outcome(p) \in {"delivered", "dead_lettered", "retry_scheduled"}
<1>1. job[p] \in JobRecords /\ Mine(p) \in Items
  BY DEF Persist, Mine, JobRecords, Shape
<1>2. out[Mine(p)] \in RowRecords
  BY <1>1 DEF Shape
<1>3. Outcome(p) \in {"delivered", "dead_lettered", "retry_scheduled"}
  BY DEF Outcome
<1>4. Outcome(p) \in Unfinished \cup Finished
  BY <1>3 DEF Finished, Unfinished
<1> QED
  BY <1>1, <1>2, <1>3, <1>4 DEF Settled, Row, RowRecords

(* The steps of the system, one case each.                                  *)
LEMMA WebhookSteps ==
    ASSUME Next
    PROVE  \/ \E w \in Webhooks : CreateWebhook(w)
           \/ \E w \in Webhooks : UpdateWebhook(w)
           \/ \E w \in Webhooks : DeleteWebhook(w)
           \/ \E w \in Webhooks : RotateBegin(w)
           \/ \E w \in Webhooks : RotateCommit(w)
           \/ \E k \in Keys, ws \in SUBSET {w \in Webhooks : Active(w)} : Begin(k, ws)
           \/ EnqueueCommit
           \/ \E p \in Workers : Claim(p)
           \/ \E p \in Workers : Sign(p)
           \/ \E p \in Workers : Send(p)
           \/ \E p \in Workers : Persist(p)
           \/ \E p \in Workers : Crash(p)
           \/ \E i \in Items : Due(i)
           \/ \E i \in Items : Expire(i)
           \/ \E i \in Items : Overrun(i)
<1>1. ASSUME NEW w \in Webhooks, NEW k \in Singles, EnqueueTest(w, k)
      PROVE  Begin(k, {w}) /\ k \in Keys /\ {w} \in SUBSET {v \in Webhooks : Active(v)}
  BY <1>1 DEF EnqueueTest, Keys
<1>2. ASSUME NEW w \in Webhooks, NEW k \in Singles, ReplayDelivery(w, k)
      PROVE  Begin(k, {w}) /\ k \in Keys /\ {w} \in SUBSET {v \in Webhooks : Active(v)}
  BY <1>2 DEF ReplayDelivery, Keys
<1>3. ASSUME NEW k \in Events, EnqueueEvent(k)
      PROVE  \E ws \in SUBSET {w \in Webhooks : Active(w)} : Begin(k, ws) /\ k \in Keys
  BY <1>3 DEF EnqueueEvent, Keys
<1> QED
  BY <1>1, <1>2, <1>3 DEF Next, Deliver

(* Every step keeps the shape of the state.                                 *)
LEMMA ShapeKept ==
    ASSUME Shape, Next
    PROVE  Shape'
<1> USE WebhookAssumption DEF Shape
<1>1. ASSUME NEW w \in Webhooks, CreateWebhook(w) PROVE Shape'
  BY <1>1 DEF CreateWebhook, work, HookRecords
<1>2. ASSUME NEW w \in Webhooks, UpdateWebhook(w) PROVE Shape'
  BY <1>2 DEF UpdateWebhook, work, HookRecords
<1>3. ASSUME NEW w \in Webhooks, DeleteWebhook(w) PROVE Shape'
  <2>1. Cancelled(w) \in [Items -> RowRecords]
    BY DEF Cancelled, Row, RowRecords, Finished
  <2> QED
    BY <1>3, <2>1, HookDeleted DEF DeleteWebhook, work
<1>4. ASSUME NEW w \in Webhooks, RotateBegin(w) PROVE Shape'
  BY <1>4 DEF RotateBegin, work
<1>5. ASSUME NEW w \in Webhooks, RotateCommit(w) PROVE Shape'
  BY <1>5 DEF RotateCommit, NewSecret, work, HookRecords
<1>6. ASSUME NEW k \in Keys, NEW ws \in SUBSET {w \in Webhooks : Active(w)}, Begin(k, ws)
      PROVE  Shape'
  BY <1>6 DEF Begin, hooks, work
<1>7. ASSUME EnqueueCommit PROVE Shape'
  <2>1. out' \in [Items -> RowRecords]
    BY <1>7 DEF EnqueueCommit, NewRow, Row, RowRecords, Unfinished
  <2> QED
    BY <1>7, <2>1 DEF EnqueueCommit, NoEnqueue, hooks, work
<1>8. ASSUME NEW p \in Workers, Claim(p) PROVE Shape'
  <2>1. PICK i \in Items :
          /\ pc[p] = "idle"
          /\ out' = [out EXCEPT ![i] = Claimed(i)]
          /\ \/ /\ Goto(p, "sign")
                /\ job' = [job EXCEPT ![p] = [item |-> i, attempt |-> Claimed(i).attempts,
                                              version |-> hook[i[1]].version,
                                              signed |-> 0, ok |-> FALSE]]
             \/ UNCHANGED work
          /\ UNCHANGED <<hooks, enqueue, log>>
    BY <1>8 DEF Claim
  <2>2. Claimed(i) \in RowRecords /\ Claimed(i).attempts \in Nat
    BY ClaimedRow DEF RowRecords
  <2>3. i[1] \in Webhooks /\ hook[i[1]].version \in Nat
    BY DEF Items, HookRecords
  <2>4. out' \in [Items -> RowRecords]
    BY <2>1, <2>2
  <2>5. CASE UNCHANGED work
    BY <2>1, <2>4, <2>5 DEF hooks, work
  <2>6. CASE Goto(p, "sign") /\ job' = [job EXCEPT ![p] = [item |-> i, attempt |-> Claimed(i).attempts,
                                              version |-> hook[i[1]].version,
                                              signed |-> 0, ok |-> FALSE]]
    <3>1. [item |-> i, attempt |-> Claimed(i).attempts, version |-> hook[i[1]].version,
           signed |-> 0, ok |-> FALSE] \in JobRecords
      BY <2>2, <2>3 DEF JobRecords
    <3> QED
      BY <2>1, <2>4, <2>6, <3>1 DEF hooks, Goto
  <2> QED
    BY <2>1, <2>5, <2>6
<1>9. ASSUME NEW p \in Workers, Sign(p) PROVE Shape'
  <2>1. job[p] \in JobRecords /\ Mine(p)[1] \in Webhooks
    BY <1>9 DEF Sign, Mine, JobRecords, Items
  <2> QED
    BY <1>9, <2>1 DEF Sign, Mine, Goto, hooks, JobRecords
<1>10. ASSUME NEW p \in Workers, Send(p) PROVE Shape'
  <2>1. job[p] \in JobRecords
    BY <1>10 DEF Send
  <2> QED
    BY <1>10, <2>1 DEF Send, Goto, hooks, JobRecords
<1>11. ASSUME NEW p \in Workers, Persist(p) PROVE Shape'
  <2>1. job[p] \in JobRecords /\ Mine(p) \in Items /\ job[p].attempt \in Nat
    BY <1>11, SettledRow DEF JobRecords
  <2>2. Settled(p) \in RowRecords
    BY <1>11, SettledRow
  <2>3. Recorded(p) \in {"delivered", "failed", "dead_lettered"}
    BY DEF Recorded, Outcome
  <2> QED
    BY <1>11, <2>1, <2>2, <2>3 DEF Persist, Drop, Goto, hooks
<1>12. ASSUME NEW p \in Workers, Crash(p) PROVE Shape'
  BY <1>12 DEF Crash, Drop, Goto, hooks
<1>13. ASSUME NEW i \in Items, Due(i) PROVE Shape'
  BY <1>13 DEF Due, hooks, work, RowRecords
<1>14. ASSUME NEW i \in Items, Expire(i) PROVE Shape'
  BY <1>14 DEF Expire, hooks, work, RowRecords
<1>15. ASSUME NEW i \in Items, Overrun(i) PROVE Shape'
  BY <1>15 DEF Overrun, hooks, work, RowRecords
<1> QED
  BY <1>1, <1>2, <1>3, <1>4, <1>5, <1>6, <1>7, <1>8, <1>9, <1>10, <1>11, <1>12, <1>13,
     <1>14, <1>15, WebhookSteps

-----------------------------------------------------------------------------
(* Attempts are numbered by the row: whoever holds or recorded one has a    *)
(* number that the row has given out.                                       *)
Numbered ==
    /\ \A i \in Items : out[i].status = "absent" => out[i].attempts = 0
    /\ \A p \in Workers : pc[p] # "idle" =>
          job[p].attempt > 0 /\ job[p].attempt <= out[job[p].item].attempts
    /\ \A d \in log : d.attempt > 0 /\ d.attempt <= out[d.item].attempts

(* A step that neither claims nor records.                                  *)
LEMMA QuietStep ==
    ASSUME Shape, Shape', Numbered, AttemptsDistinct, UNCHANGED <<log, pc, job>>,
           \A i \in Items : /\ out'[i].attempts >= out[i].attempts
                            /\ out'[i].status = "absent" => out'[i].attempts = 0
    PROVE  Numbered' /\ AttemptsDistinct'
<1>1. \A i \in Items : out[i].attempts \in Nat /\ out'[i].attempts \in Nat
  BY DEF Shape, RowRecords
<1>2. \A p \in Workers : pc[p] # "idle" => job[p].item \in Items /\ job[p].attempt \in Nat
  BY DEF Shape, JobRecords
<1>3. \A d \in log : d.item \in Items /\ d.attempt \in Nat
  BY DEF Shape
<1>4. Numbered'
  BY <1>1, <1>2, <1>3 DEF Numbered
<1> QED
  BY <1>4 DEF AttemptsDistinct

(* Every step keeps the attempts of a row numbered and distinct.            *)
LEMMA DistinctKept ==
    ASSUME Shape, Shape', Numbered, AttemptsDistinct, Next
    PROVE  Numbered' /\ AttemptsDistinct'
<1> USE WebhookAssumption
<1>a. \A i \in Items : out[i].attempts \in Nat
  BY DEF Shape, RowRecords
<1>b. \A p \in Workers : pc[p] # "idle" =>
        job[p].item \in Items /\ job[p].attempt \in Nat /\ job[p] # NoJob
  BY DEF Shape, JobRecords, NoJob
<1>c. \A d \in log : d.item \in Items /\ d.attempt \in Nat
  BY DEF Shape
<1>d. ASSUME UNCHANGED <<out, log, pc, job>> PROVE Numbered' /\ AttemptsDistinct'
  BY <1>d, <1>a, QuietStep DEF Numbered
<1>1. ASSUME NEW w \in Webhooks, CreateWebhook(w) PROVE Numbered' /\ AttemptsDistinct'
  BY <1>1, <1>d DEF CreateWebhook, work
<1>2. ASSUME NEW w \in Webhooks, UpdateWebhook(w) PROVE Numbered' /\ AttemptsDistinct'
  BY <1>2, <1>d DEF UpdateWebhook, work
<1>3. ASSUME NEW w \in Webhooks, DeleteWebhook(w) PROVE Numbered' /\ AttemptsDistinct'
  <2>1. \A i \in Items : out'[i].attempts = out[i].attempts
                         /\ (out'[i].status = "absent" => out[i].status = "absent")
    BY <1>3, CancelledRows DEF DeleteWebhook
  <2> QED
    BY <1>3, <1>a, <2>1, QuietStep DEF DeleteWebhook, work, Numbered
<1>4. ASSUME NEW w \in Webhooks, RotateBegin(w) PROVE Numbered' /\ AttemptsDistinct'
  BY <1>4, <1>d DEF RotateBegin, work
<1>5. ASSUME NEW w \in Webhooks, RotateCommit(w) PROVE Numbered' /\ AttemptsDistinct'
  BY <1>5, <1>d DEF RotateCommit, work
<1>6. ASSUME NEW k \in Keys, NEW ws \in SUBSET {w \in Webhooks : Active(w)}, Begin(k, ws)
      PROVE  Numbered' /\ AttemptsDistinct'
  BY <1>6, <1>d DEF Begin, work
<1>7. ASSUME EnqueueCommit PROVE Numbered' /\ AttemptsDistinct'
  <2>1. \A i \in Items : out'[i] = out[i] \/ (out[i].status = "absent" /\ out'[i] = NewRow)
    BY <1>7 DEF EnqueueCommit, Added, Shape
  <2>2. \A i \in Items : /\ out'[i].attempts = out[i].attempts
                         /\ out'[i].status = "absent" => out'[i].attempts = 0
    BY <2>1 DEF Numbered, NewRow, Row
  <2> QED
    BY <1>7, <1>a, <2>2, QuietStep DEF EnqueueCommit, work
<1>8. ASSUME NEW p \in Workers, Claim(p) PROVE Numbered' /\ AttemptsDistinct'
  <2>1. PICK i \in Items :
          /\ pc[p] = "idle"
          /\ out' = [out EXCEPT ![i] = Claimed(i)]
          /\ \/ /\ Goto(p, "sign")
                /\ job' = [job EXCEPT ![p] = [item |-> i, attempt |-> Claimed(i).attempts,
                                              version |-> hook[i[1]].version,
                                              signed |-> 0, ok |-> FALSE]]
             \/ UNCHANGED work
          /\ UNCHANGED log
    BY <1>8 DEF Claim
  <2>2. \A j \in Items : j # i => out'[j] = out[j]
    BY <2>1 DEF Shape
  <2>3. out'[i].attempts = out[i].attempts + 1 /\ out'[i].status = "delivering"
    BY <2>1, ClaimedRow DEF Shape
  <2>4. \A j \in Items : /\ out'[j].attempts >= out[j].attempts
                         /\ out'[j].status = "absent" => out'[j].attempts = 0
    BY <1>a, <2>2, <2>3 DEF Numbered
  <2>5. CASE UNCHANGED work
    BY <2>1, <2>4, <2>5, QuietStep DEF work
  <2>6. CASE ~UNCHANGED work
    <3>1. /\ pc' = [pc EXCEPT ![p] = "sign"]
          /\ \A q \in Workers : q # p => job'[q] = job[q] /\ pc'[q] = pc[q]
          /\ job'[p].item = i /\ job'[p].attempt = out[i].attempts + 1
      BY <2>1, <2>6, ClaimedRow DEF Goto, Shape
    <3>2. \A q \in Workers : q # p /\ job[q] # NoJob =>
            /\ pc[q] # "idle"
            /\ job[q].item = i => job[q].attempt <= out[i].attempts
      BY DEF Shape, Numbered
    <3>3. \A d \in log : d.item = i => d.attempt <= out[i].attempts
      BY DEF Numbered
    <3>4. Numbered'
      <4>1. \A q \in Workers : pc'[q] # "idle" =>
              job'[q].attempt > 0 /\ job'[q].attempt <= out'[job'[q].item].attempts
        BY <1>a, <1>b, <2>2, <2>3, <2>4, <3>1 DEF Numbered
      <4>2. \A d \in log' : d.attempt > 0 /\ d.attempt <= out'[d.item].attempts
        BY <1>a, <1>c, <2>1, <2>2, <2>3 DEF Numbered
      <4> QED
        BY <2>4, <4>1, <4>2 DEF Numbered
    <3>5. \A d, e \in log' : d.item = e.item /\ d.attempt = e.attempt => d = e
      BY <2>1 DEF AttemptsDistinct
    <3>6. \A q \in Workers : q # p /\ job[q] # NoJob =>
            <<job'[q].item, job'[q].attempt>> # <<job'[p].item, job'[p].attempt>>
      BY <1>a, <1>b, <3>1, <3>2
    <3>7. \A q \in Workers, d \in log' :
            <<job'[q].item, job'[q].attempt>> # <<d.item, d.attempt>>
      BY <1>a, <1>c, <2>1, <3>1, <3>3 DEF AttemptsDistinct
    <3>8. \A q, r \in Workers : q # r /\ job'[q] # NoJob /\ job'[r] # NoJob =>
            <<job'[q].item, job'[q].attempt>> # <<job'[r].item, job'[r].attempt>>
      BY <3>1, <3>6 DEF AttemptsDistinct
    <3> QED
      BY <3>4, <3>5, <3>7, <3>8 DEF AttemptsDistinct
  <2> QED
    BY <2>5, <2>6
<1>9. ASSUME NEW p \in Workers, Sign(p) \/ Send(p) PROVE Numbered' /\ AttemptsDistinct'
  <2>1. job[p] \in JobRecords /\ pc[p] # "idle" /\ pc'[p] # "idle"
    BY <1>9 DEF Sign, Send, Goto, Shape
  <2>2. job'[p].item = job[p].item /\ job'[p].attempt = job[p].attempt
    BY <1>9, <2>1 DEF Sign, Send, Shape, JobRecords
  <2>3. \A q \in Workers : q # p => job'[q] = job[q] /\ pc'[q] = pc[q]
    BY <1>9 DEF Sign, Send, Goto, Shape
  <2>4. UNCHANGED <<out, log>>
    BY <1>9 DEF Sign, Send
  <2>5. job[p] # NoJob
    BY <1>b, <2>1
  <2>6. Numbered'
    BY <2>1, <2>2, <2>3, <2>4 DEF Numbered
  <2> QED
    BY <2>2, <2>3, <2>4, <2>5, <2>6 DEF AttemptsDistinct
<1>10. ASSUME NEW p \in Workers, Persist(p) PROVE Numbered' /\ AttemptsDistinct'
  <2>1. /\ Mine(p) \in Items /\ job[p] \in JobRecords /\ pc[p] # "idle"
        /\ out' = [out EXCEPT ![Mine(p)] = Settled(p)]
        /\ Settled(p).attempts = out[Mine(p)].attempts
        /\ Settled(p).status # "absent"
    BY <1>10, SettledRow DEF Persist
  <2>2. \A i \in Items : /\ out'[i].attempts = out[i].attempts
                         /\ out'[i].status = "absent" => out'[i].attempts = 0
    BY <2>1 DEF Shape, Numbered
  <2>3. /\ pc'[p] = "idle" /\ job'[p] = NoJob
        /\ \A q \in Workers : q # p => job'[q] = job[q] /\ pc'[q] = pc[q]
    BY <1>10 DEF Persist, Drop, Goto, Shape
  <2> DEFINE new == [item |-> Mine(p), attempt |-> job[p].attempt, status |-> Recorded(p)]
  <2>4. log' = log \cup {new}
    BY <1>10 DEF Persist
  <2>5. new.item = job[p].item /\ new.attempt = job[p].attempt
    BY DEF Mine
  <2> HIDE DEF new
  <2>6. job[p] # NoJob
    BY <1>b, <2>1
  <2>7. Numbered'
    <3>1. \A q \in Workers : pc'[q] # "idle" =>
            job'[q].attempt > 0 /\ job'[q].attempt <= out'[job'[q].item].attempts
      BY <1>b, <2>2, <2>3 DEF Numbered
    <3>2. \A d \in log' : d.attempt > 0 /\ d.attempt <= out'[d.item].attempts
      BY <1>b, <1>c, <2>1, <2>2, <2>4, <2>5 DEF Numbered
    <3> QED
      BY <2>2, <3>1, <3>2 DEF Numbered
  <2>8. \A d, e \in log' : d.item = e.item /\ d.attempt = e.attempt => d = e
    BY <2>4, <2>5 DEF AttemptsDistinct
  <2>9. \A q, r \in Workers : q # r /\ job'[q] # NoJob /\ job'[r] # NoJob =>
          <<job'[q].item, job'[q].attempt>> # <<job'[r].item, job'[r].attempt>>
    BY <2>3 DEF AttemptsDistinct
  <2>10. \A q \in Workers, d \in log' :
           <<job'[q].item, job'[q].attempt>> # <<d.item, d.attempt>>
    <3>1. SUFFICES ASSUME NEW q \in Workers, NEW d \in log'
                   PROVE  <<job'[q].item, job'[q].attempt>> # <<d.item, d.attempt>>
      OBVIOUS
    <3>2. d.item \in Items
      BY <1>c, <2>1, <2>4, <2>5 DEF Mine
    <3>3. CASE job'[q] = NoJob
      BY <3>2, <3>3 DEF NoJob
    <3>4. CASE job'[q] # NoJob /\ d \in log
      BY <2>3, <3>4 DEF AttemptsDistinct
    <3>5. CASE job'[q] # NoJob /\ d = new
      BY <2>3, <2>5, <2>6, <3>5 DEF AttemptsDistinct
    <3> QED
      BY <2>4, <3>3, <3>4, <3>5
  <2> QED
    BY <2>7, <2>8, <2>9, <2>10 DEF AttemptsDistinct
<1>11. ASSUME NEW p \in Workers, Crash(p) PROVE Numbered' /\ AttemptsDistinct'
  <2>1. /\ pc'[p] = "idle" /\ job'[p] = NoJob
        /\ \A q \in Workers : q # p => job'[q] = job[q] /\ pc'[q] = pc[q]
        /\ UNCHANGED <<out, log>>
    BY <1>11 DEF Crash, Drop, Goto, Shape
  <2>2. Numbered'
    BY <2>1 DEF Numbered
  <2>3. \A d \in log : NoJob.item # d.item
    BY <1>c DEF NoJob
  <2> QED
    BY <2>1, <2>2, <2>3 DEF AttemptsDistinct
<1>12. ASSUME NEW i \in Items, Due(i) \/ Expire(i) \/ Overrun(i)
       PROVE  Numbered' /\ AttemptsDistinct'
  <2>1. \A j \in Items : out'[j].attempts = out[j].attempts /\ out'[j].status = out[j].status
    BY <1>12 DEF Due, Expire, Overrun, Shape, RowRecords
  <2> QED
    BY <1>12, <1>a, <2>1, QuietStep DEF Due, Expire, Overrun, work, Numbered
<1> QED
  BY <1>1, <1>2, <1>3, <1>4, <1>5, <1>6, <1>7, <1>8, <1>9, <1>10, <1>11, <1>12, WebhookSteps

-----------------------------------------------------------------------------
(* A webhook that was deleted while no transaction had seen it active is    *)
(* not seen active again.                                                   *)
Unseen ==
    \A w \in Webhooks \ orphans : hook[w].state = "deleted" =>
        w \notin rotating /\ w \notin enqueue.hooks

Idle == Unseen /\ DeletedIsIdle

(* A step that deletes nothing and queues nothing anew.                     *)
LEMMA IdleStep ==
    ASSUME Shape, Shape', Idle, UNCHANGED orphans, late \subseteq late',
           \A w \in Webhooks : hook'[w].state = "deleted" => hook[w].state = "deleted",
           \A w \in Webhooks : hook[w].state = "deleted" /\ w \notin rotating =>
               w \notin rotating' /\ secret'[w] = secret[w],
           \A w \in Webhooks : hook[w].state = "deleted" /\ w \notin enqueue.hooks =>
               w \notin enqueue'.hooks,
           \A i \in Items \ late' : out'[i].status \in Unfinished =>
               \/ out[i].status \in Unfinished
               \/ i[1] \in enqueue.hooks
               \/ hook[i[1]].state # "deleted"
    PROVE  Idle'
<1>1. Unseen'
  BY DEF Idle, Unseen
<1>2. ASSUME NEW w \in Webhooks \ orphans', hook'[w].state = "deleted"
      PROVE  secret'[w] = 0 /\ \A i \in Queued' \ late' : i[1] # w
  <2>1. hook[w].state = "deleted" /\ w \notin rotating /\ w \notin enqueue.hooks
    BY <1>2 DEF Idle, Unseen
  <2>2. secret'[w] = 0
    BY <1>2, <2>1 DEF Idle, DeletedIsIdle
  <2>3. ASSUME NEW i \in Queued' \ late', i[1] = w PROVE FALSE
    <3>1. i \in Items /\ out'[i].status \in Unfinished
      BY <2>3 DEF Queued
    <3>2. i \in Queued \ late
      BY <2>1, <2>3, <3>1 DEF Queued
    <3> QED
      BY <1>2, <2>1, <2>3, <3>2 DEF Idle, DeletedIsIdle
  <2> QED
    BY <2>2, <2>3
<1> QED
  BY <1>1, <1>2 DEF Idle, DeletedIsIdle

(* Every step keeps a deleted webhook without secret and without rows.      *)
LEMMA IdleKept ==
    ASSUME Shape, Shape', Idle, Next
    PROVE  Idle'
<1> USE WebhookAssumption
<1>1. ASSUME NEW w \in Webhooks, CreateWebhook(w) PROVE Idle'
  <2>1. \A v \in Webhooks : /\ hook'[v].state = "deleted" => hook[v].state = "deleted"
                            /\ hook[v].state = "deleted" => secret'[v] = secret[v]
    BY <1>1 DEF CreateWebhook, Shape, HookRecords
  <2> QED
    BY <1>1, <2>1, IdleStep DEF CreateWebhook, aux
<1>2. ASSUME NEW w \in Webhooks, UpdateWebhook(w) PROVE Idle'
  <2>1. \A v \in Webhooks : hook'[v].state = hook[v].state
    BY <1>2 DEF UpdateWebhook, Shape, HookRecords
  <2> QED
    BY <1>2, <2>1, IdleStep DEF UpdateWebhook, aux
<1>3. ASSUME NEW w \in Webhooks, DeleteWebhook(w) PROVE Idle'
  <2>1. /\ hook'[w].state = "deleted" /\ secret'[w] = 0
        /\ \A v \in Webhooks : v # w => hook'[v] = hook[v] /\ secret'[v] = secret[v]
    BY <1>3, HookDeleted DEF DeleteWebhook, Shape
  <2>2. \A i \in Items : /\ i[1] = w => out'[i].status \notin Unfinished
                         /\ out'[i].status \in Unfinished => out[i].status \in Unfinished
    BY <1>3, CancelledRows DEF DeleteWebhook, Unfinished
  <2>3. UNCHANGED <<rotating, enqueue, late>> /\ orphans \subseteq orphans'
        /\ (w \in rotating \cup enqueue.hooks => w \in orphans')
    BY <1>3 DEF DeleteWebhook
  <2>4. Unseen'
    BY <2>1, <2>3 DEF Idle, Unseen
  <2>5. DeletedIsIdle'
    BY <2>1, <2>2, <2>3 DEF Idle, DeletedIsIdle, Queued
  <2> QED
    BY <2>4, <2>5 DEF Idle
<1>4. ASSUME NEW w \in Webhooks, RotateBegin(w) PROVE Idle'
  BY <1>4, IdleStep DEF RotateBegin, Active, aux
<1>5. ASSUME NEW w \in Webhooks, RotateCommit(w) PROVE Idle'
  <2>1. \A v \in Webhooks : /\ hook'[v].state = hook[v].state
                            /\ v # w => secret'[v] = secret[v]
    BY <1>5 DEF RotateCommit, NewSecret, Shape, HookRecords
  <2> QED
    BY <1>5, <2>1, IdleStep DEF RotateCommit, aux
<1>6. ASSUME NEW k \in Keys, NEW ws \in SUBSET {w \in Webhooks : Active(w)}, Begin(k, ws)
      PROVE  Idle'
  <2>1. enqueue'.hooks = ws /\ \A v \in ws : hook[v].state # "deleted"
    BY <1>6 DEF Begin, Active
  <2> QED
    BY <1>6, <2>1, IdleStep DEF Begin, hooks, aux
<1>7. ASSUME EnqueueCommit PROVE Idle'
  <2>1. \A i \in Items : out'[i] = out[i] \/ i[1] \in enqueue.hooks
    BY <1>7 DEF EnqueueCommit, Added, Shape
  <2>2. enqueue'.hooks = {}
    BY <1>7 DEF EnqueueCommit, NoEnqueue
  <2> QED
    BY <1>7, <2>1, <2>2, IdleStep DEF EnqueueCommit, hooks, aux
<1>8. ASSUME NEW p \in Workers, Claim(p) PROVE Idle'
  <2>1. PICK i \in Items : Claimable(i) /\ out' = [out EXCEPT ![i] = Claimed(i)]
                           /\ UNCHANGED <<hooks, enqueue, aux>>
    BY <1>8 DEF Claim
  <2>2. out[i].status \in Unfinished /\ \A j \in Items : j # i => out'[j] = out[j]
    BY <2>1 DEF Claimable, Unfinished, Shape
  <2> QED
    BY <2>1, <2>2, IdleStep DEF hooks, aux
<1>9. ASSUME NEW p \in Workers, Sign(p) \/ Send(p) \/ Crash(p) PROVE Idle'
  BY <1>9, IdleStep DEF Sign, Send, Crash, hooks, aux
<1>10. ASSUME NEW p \in Workers, Persist(p) PROVE Idle'
  <2>1. \A i \in Items \ late' : out'[i] = out[i] \/ out[i].status \in Unfinished
    BY <1>10, SettledRow DEF Persist, InTime, Unfinished, Shape
  <2> QED
    BY <1>10, <2>1, IdleStep DEF Persist, hooks
<1>11. ASSUME NEW i \in Items, Due(i) \/ Expire(i) \/ Overrun(i) PROVE Idle'
  <2>1. \A j \in Items : out'[j].status = out[j].status
    BY <1>11 DEF Due, Expire, Overrun, Shape, RowRecords
  <2> QED
    BY <1>11, <2>1, IdleStep DEF Due, Expire, Overrun, hooks, aux
<1> QED
  BY <1>1, <1>2, <1>3, <1>4, <1>5, <1>6, <1>7, <1>8, <1>9, <1>10, <1>11, WebhookSteps

-----------------------------------------------------------------------------
(* Secrets and versions go together: a secret that is there is the one of   *)
(* the version on record, and a claim knows a version that was reached.     *)
Versioned ==
    /\ \A w \in Webhooks : secret[w] # 0 => secret[w] = hook[w].version
    /\ \A w \in Webhooks : hook[w].state = "none" => hook[w].version = 0 /\ w \notin rotating
    /\ \A p \in Workers : pc[p] # "idle" => job[p].version <= hook[job[p].item[1]].version
    /\ KeyNeverAhead

(* Every step keeps the versions of key, secret and record in order.        *)
LEMMA VersionedKept ==
    ASSUME Shape, Shape', Versioned, Next
    PROVE  Versioned'
<1> USE WebhookAssumption
<1>a. \A w \in Webhooks : hook[w].version \in Nat /\ secret[w] \in Nat
  BY DEF Shape, HookRecords
<1>b. \A p \in Workers : pc[p] # "idle" =>
        job[p].item[1] \in Webhooks /\ job[p].version \in Nat
  BY DEF Shape, JobRecords, Items
<1>c. ASSUME \A w \in Webhooks : hook'[w].version >= hook[w].version, UNCHANGED work,
             \A w \in Webhooks : secret'[w] # 0 => secret'[w] = hook'[w].version,
             \A w \in Webhooks : hook'[w].state = "none" =>
                                   hook'[w].version = 0 /\ w \notin rotating'
      PROVE  Versioned'
  <2>1. \A w \in Webhooks : hook'[w].version \in Nat
    BY DEF Shape, HookRecords
  <2> QED
    BY <1>a, <1>b, <1>c, <2>1 DEF Versioned, KeyNeverAhead, work
<1>1. ASSUME NEW w \in Webhooks, CreateWebhook(w) PROVE Versioned'
  BY <1>1, <1>a, <1>c DEF CreateWebhook, Versioned, Shape, HookRecords
<1>2. ASSUME NEW w \in Webhooks, UpdateWebhook(w) PROVE Versioned'
  <2>1. \A v \in Webhooks : hook'[v].version = hook[v].version /\ hook'[v].state = hook[v].state
    BY <1>2 DEF UpdateWebhook, Shape, HookRecords
  <2> QED
    BY <1>2, <1>a, <1>c, <2>1 DEF UpdateWebhook, Versioned
<1>3. ASSUME NEW w \in Webhooks, DeleteWebhook(w) PROVE Versioned'
  <2>1. \A v \in Webhooks : /\ hook'[v].version = hook[v].version
                            /\ hook'[v].state = "none" => hook[v].state = "none"
                            /\ secret'[v] \in {0, secret[v]}
    BY <1>3, HookDeleted DEF DeleteWebhook, Shape
  <2> QED
    BY <1>3, <1>a, <1>c, <2>1 DEF DeleteWebhook, Versioned
<1>4. ASSUME NEW w \in Webhooks, RotateBegin(w) PROVE Versioned'
  BY <1>4, <1>a, <1>c DEF RotateBegin, Versioned, Active
<1>5. ASSUME NEW w \in Webhooks, RotateCommit(w) PROVE Versioned'
  <2>1. /\ hook'[w].version = hook[w].version + 1 /\ secret'[w] = hook[w].version + 1
        /\ hook'[w].state = hook[w].state
        /\ \A v \in Webhooks : v # w => hook'[v] = hook[v] /\ secret'[v] = secret[v]
    BY <1>5 DEF RotateCommit, NewSecret, Shape, HookRecords
  <2> QED
    BY <1>5, <1>a, <1>c, <2>1 DEF RotateCommit, Versioned
<1>6. ASSUME NEW k \in Keys, NEW ws \in SUBSET {w \in Webhooks : Active(w)}, Begin(k, ws)
      PROVE  Versioned'
  BY <1>6, <1>a, <1>c DEF Begin, hooks, Versioned
<1>7. ASSUME EnqueueCommit PROVE Versioned'
  BY <1>7, <1>a, <1>c DEF EnqueueCommit, hooks, Versioned
<1>8. ASSUME NEW p \in Workers, Claim(p) PROVE Versioned'
  <2>1. PICK i \in Items :
          /\ UNCHANGED hooks
          /\ \/ /\ pc' = [pc EXCEPT ![p] = "sign"]
                /\ job' = [job EXCEPT ![p] = [item |-> i, attempt |-> Claimed(i).attempts,
                                              version |-> hook[i[1]].version,
                                              signed |-> 0, ok |-> FALSE]]
             \/ UNCHANGED work
    BY <1>8 DEF Claim, Goto
  <2>2. CASE UNCHANGED work
    BY <1>a, <1>c, <2>1, <2>2 DEF hooks, Versioned
  <2>3. CASE ~UNCHANGED work
    <3>1. /\ \A q \in Workers : q # p => job'[q] = job[q] /\ pc'[q] = pc[q]
          /\ job'[p].item = i /\ job'[p].version = hook[i[1]].version
          /\ pc'[p] = "sign"
      BY <2>1, <2>3 DEF Shape
    <3>2. i[1] \in Webhooks
      BY DEF Items
    <3> QED
      BY <1>a, <1>b, <2>1, <3>1, <3>2 DEF hooks, Versioned, KeyNeverAhead
  <2> QED
    BY <2>2, <2>3
<1>9. ASSUME NEW p \in Workers, Sign(p) PROVE Versioned'
  <2>1. job[p] \in JobRecords /\ pc[p] = "sign" /\ Mine(p)[1] \in Webhooks
    BY <1>9 DEF Sign, Shape, Mine, JobRecords, Items
  <2>2. /\ job'[p].item = job[p].item /\ job'[p].version = job[p].version
        /\ pc'[p] = "send" => /\ secret[Mine(p)[1]] # 0
                              /\ job'[p].signed = secret[Mine(p)[1]]
        /\ \A q \in Workers : q # p => job'[q] = job[q] /\ pc'[q] = pc[q]
        /\ UNCHANGED hooks
    BY <1>9, <2>1 DEF Sign, Goto, Shape, JobRecords
  <2>3. job[p].version <= hook[Mine(p)[1]].version
    BY <2>1 DEF Versioned, Mine
  <2>4. pc'[p] = "send" => job'[p].signed >= job'[p].version
    BY <1>a, <1>b, <2>1, <2>2, <2>3 DEF Versioned
  <2> QED
    BY <1>a, <1>b, <2>1, <2>2, <2>3, <2>4 DEF hooks, Versioned, KeyNeverAhead, Mine
<1>10. ASSUME NEW p \in Workers, Send(p) PROVE Versioned'
  <2>1. job[p] \in JobRecords
    BY <1>10 DEF Send, Shape
  <2>2. /\ pc[p] # "idle" /\ pc'[p] = "persist"
        /\ job'[p].item = job[p].item /\ job'[p].version = job[p].version
        /\ \A q \in Workers : q # p => job'[q] = job[q] /\ pc'[q] = pc[q]
        /\ UNCHANGED hooks
    BY <1>10, <2>1 DEF Send, Goto, Shape, JobRecords
  <2> QED
    BY <2>2 DEF hooks, Versioned, KeyNeverAhead
<1>11. ASSUME NEW p \in Workers, Persist(p) \/ Crash(p) PROVE Versioned'
  <2>1. /\ pc'[p] = "idle"
        /\ \A q \in Workers : q # p => job'[q] = job[q] /\ pc'[q] = pc[q]
        /\ UNCHANGED hooks
    BY <1>11 DEF Persist, Crash, Drop, Goto, Shape
  <2> QED
    BY <2>1 DEF hooks, Versioned, KeyNeverAhead
<1>12. ASSUME NEW i \in Items, Due(i) \/ Expire(i) \/ Overrun(i) PROVE Versioned'
  BY <1>12, <1>a, <1>c DEF Due, Expire, Overrun, hooks, Versioned
<1> QED
  BY <1>1, <1>2, <1>3, <1>4, <1>5, <1>6, <1>7, <1>8, <1>9, <1>10, <1>11, <1>12, WebhookSteps

-----------------------------------------------------------------------------
(* The inductive invariant.                                                 *)
WebhookInv == Shape /\ Numbered /\ AttemptsDistinct /\ Idle /\ Versioned

(* The invariant holds at the start.                                        *)
LEMMA WebhookInitially == Init => WebhookInv
<1> SUFFICES ASSUME Init PROVE WebhookInv
  OBVIOUS
<1> USE WebhookAssumption
<1>1. Shape
  BY DEF Init, Shape, HookRecords, RowRecords, NoRow, Row, NoEnqueue
<1>2. Numbered /\ AttemptsDistinct
  BY DEF Init, Numbered, AttemptsDistinct, NoRow, Row
<1>3. Idle
  BY DEF Init, Idle, Unseen, DeletedIsIdle
<1>4. Versioned
  BY DEF Init, Versioned, KeyNeverAhead
<1> QED
  BY <1>1, <1>2, <1>3, <1>4 DEF WebhookInv

(* Every step preserves the invariant.                                      *)
LEMMA WebhookInvStep == WebhookInv /\ [Next]_vars => WebhookInv'
<1> SUFFICES ASSUME WebhookInv, [Next]_vars PROVE WebhookInv'
  OBVIOUS
<1>1. CASE Next
  BY <1>1, ShapeKept, DistinctKept, IdleKept, VersionedKept DEF WebhookInv
<1>2. CASE UNCHANGED vars
  <2> USE <1>2 DEF WebhookInv, vars, hooks, work, aux
  <2>1. Shape'
    BY DEF Shape
  <2>2. Numbered' /\ AttemptsDistinct'
    BY DEF Numbered, AttemptsDistinct
  <2>3. Idle'
    BY DEF Idle, Unseen, DeletedIsIdle, Queued
  <2>4. Versioned'
    BY DEF Versioned, KeyNeverAhead
  <2> QED
    BY <2>1, <2>2, <2>3, <2>4
<1> QED
  BY <1>1, <1>2

(* What the claims, the records, the deletions and the rotations keep,      *)
(* whatever dies, is lost or comes late: the facts below in one invariant.  *)
THEOREM WebhookInvariant == Spec => []WebhookInv
BY WebhookInitially, WebhookInvStep, PTL DEF Spec

(* The attempts of an event are told apart by their numbers, for any number *)
(* of workers that take one row over from another.                          *)
THEOREM AttemptsAreDistinct == Spec => []AttemptsDistinct
<1>1. WebhookInv => AttemptsDistinct
  BY DEF WebhookInv
<1> QED
  BY <1>1, WebhookInvariant, PTL

(* deleteWebhook leaves nothing to do, but for transactions and workers     *)
(* that had begun before.                                                   *)
THEOREM DeletedWebhooksAreIdle == Spec => []DeletedIsIdle
<1>1. WebhookInv => DeletedIsIdle
  BY DEF WebhookInv, Idle
<1> QED
  BY <1>1, WebhookInvariant, PTL

(* No request is signed with an older secret than its key id names, however *)
(* many rotations run beside the deliveries.                                *)
THEOREM KeysAreNeverAhead == Spec => []KeyNeverAhead
<1>1. WebhookInv => KeyNeverAhead
  BY DEF WebhookInv, Versioned
<1> QED
  BY <1>1, WebhookInvariant, PTL

-----------------------------------------------------------------------------
(* What a step makes of a row.                                              *)
LEMMA RowSteps ==
    ASSUME Shape, Next, NEW i \in Items
    PROVE  \/ out'[i].status = out[i].status
           \/ out[i].status \in Unfinished /\ out'[i].status \in {"delivering", "cancelled"}
           \/ i \in Added /\ Fits /\ EnqueueCommit
           \/ \E p \in Workers : /\ Persist(p) /\ Mine(p) = i
                                 /\ out'[i].status = Outcome(p)
                                 /\ i \in late' \/ out[i].status = "delivering"
<1> DEFINE Goal ==
           \/ out'[i].status = out[i].status
           \/ out[i].status \in Unfinished /\ out'[i].status \in {"delivering", "cancelled"}
           \/ i \in Added /\ Fits /\ EnqueueCommit
           \/ \E p \in Workers : /\ Persist(p) /\ Mine(p) = i
                                 /\ out'[i].status = Outcome(p)
                                 /\ i \in late' \/ out[i].status = "delivering"
<1>1. ASSUME NEW w \in Webhooks,
             CreateWebhook(w) \/ UpdateWebhook(w) \/ RotateBegin(w) \/ RotateCommit(w)
      PROVE  Goal
  BY <1>1 DEF CreateWebhook, UpdateWebhook, RotateBegin, RotateCommit
<1>2. ASSUME NEW w \in Webhooks, DeleteWebhook(w) PROVE Goal
  BY <1>2, CancelledRows DEF DeleteWebhook
<1>3. ASSUME NEW k \in Keys, NEW ws \in SUBSET {w \in Webhooks : Active(w)}, Begin(k, ws)
      PROVE  Goal
  BY <1>3 DEF Begin
<1>4. ASSUME EnqueueCommit PROVE Goal
  BY <1>4 DEF EnqueueCommit
<1>5. ASSUME NEW p \in Workers, Claim(p) PROVE Goal
  <2>1. PICK j \in Items : Claimable(j) /\ out' = [out EXCEPT ![j] = Claimed(j)]
    BY <1>5 DEF Claim
  <2> QED
    BY <2>1, ClaimedRow DEF Claimable, Unfinished, Shape
<1>6. ASSUME NEW p \in Workers, Sign(p) \/ Send(p) \/ Crash(p) PROVE Goal
  BY <1>6 DEF Sign, Send, Crash
<1>7. ASSUME NEW p \in Workers, Persist(p) PROVE Goal
  <2>1. out' = [out EXCEPT ![Mine(p)] = Settled(p)]
        /\ (i = Mine(p) => i \in late' \/ out[i].status = "delivering")
    BY <1>7 DEF Persist, InTime
  <2>2. CASE i # Mine(p)
    BY <2>1, <2>2 DEF Shape
  <2>3. CASE i = Mine(p)
    BY <1>7, <2>1, <2>3, SettledRow DEF Shape
  <2> QED
    BY <2>2, <2>3
<1>8. ASSUME NEW j \in Items, Due(j) \/ Expire(j) \/ Overrun(j) PROVE Goal
  BY <1>8 DEF Due, Expire, Overrun, Shape, RowRecords
<1> QED
  BY <1>1, <1>2, <1>3, <1>4, <1>5, <1>6, <1>7, <1>8, WebhookSteps

(* A row that is finished stays so, unless a result is recorded too late:   *)
(* neither a deletion nor a second worker nor the same idempotency key      *)
(* takes a delivery back.                                                   *)
THEOREM FinishedRowsStay == Spec => FinishedStays
<1>1. WebhookInv /\ [Next]_vars =>
        [\A i \in Items : out[i].status \in Finished /\ i \notin late' =>
            out'[i].status = out[i].status]_vars
  <2> SUFFICES ASSUME Shape, Next, NEW i \in Items, out[i].status \in Finished, i \notin late'
               PROVE  out'[i].status = out[i].status
    BY DEF WebhookInv
  <2>1. out[i].status \notin Unfinished /\ out[i].status \notin {"delivering", "absent"}
    BY DEF Finished, Unfinished
  <2> QED
    BY <2>1, RowSteps DEF Added
<1> QED
  BY <1>1, WebhookInvariant, PTL DEF Spec, FinishedStays

-----------------------------------------------------------------------------
(* The unfinished rows that no late result brought back.                    *)
LEMMA ItemsFinite == IsFiniteSet(Items)
BY WebhookAssumption, FS_Product DEF Items

(* Every step keeps the queue within its bound.                             *)
LEMMA QueueStep ==
    ASSUME Shape, Next, QueueBounded
    PROVE  QueueBounded'
<1>1. late \subseteq late'
  BY WebhookSteps DEF CreateWebhook, UpdateWebhook, DeleteWebhook, RotateBegin, RotateCommit,
     Begin, EnqueueCommit, Claim, Sign, Send, Persist, Crash, Due, Expire, Overrun, aux
<1>2. IsFiniteSet(Queued) /\ IsFiniteSet(Added) /\ IsFiniteSet(Queued \ late)
  BY ItemsFinite, FS_Subset DEF Queued, Added
<1>3. /\ Cardinality(Queued) \in Nat /\ Cardinality(Added) \in Nat
      /\ Cardinality(Queued \ late) \in Nat
  BY <1>2, FS_CardinalityType
<1>4. CASE EnqueueCommit /\ Fits
  <2>1. (Queued \ late)' \subseteq Queued \cup Added
    BY <1>4 DEF EnqueueCommit, Queued, Added, Shape
  <2>2. /\ IsFiniteSet(Queued \cup Added)
        /\ Cardinality(Queued \cup Added)
             = Cardinality(Queued) + Cardinality(Added) - Cardinality(Queued \cap Added)
    BY <1>2, FS_Union
  <2>3. Cardinality(Queued \cap Added) \in Nat
    BY <1>2, FS_Subset, FS_CardinalityType
  <2>4. Cardinality(Queued \cup Added) <= Capacity
    BY <1>3, <1>4, <2>2, <2>3, WebhookAssumption DEF Fits
  <2>5. /\ Cardinality((Queued \ late)') <= Cardinality(Queued \cup Added)
        /\ Cardinality((Queued \ late)') \in Nat /\ Cardinality(Queued \cup Added) \in Nat
    BY <2>1, <2>2, FS_Subset, FS_CardinalityType
  <2> QED
    BY <2>4, <2>5, WebhookAssumption DEF QueueBounded
<1>5. CASE ~(EnqueueCommit /\ Fits)
  <2>1. ASSUME NEW i \in (Queued \ late)' PROVE i \in Queued \ late
    <3>1. i \in Items /\ out'[i].status \in Unfinished /\ i \notin late' /\ i \notin late
      BY <1>1, <2>1 DEF Queued
    <3>2. out[i].status \in Unfinished
      BY <1>5, <3>1, RowSteps DEF Unfinished
    <3> QED
      BY <3>1, <3>2 DEF Queued
  <2>2. (Queued \ late)' \subseteq Queued \ late
    BY <2>1
  <2>3. /\ Cardinality((Queued \ late)') <= Cardinality(Queued \ late)
        /\ Cardinality((Queued \ late)') \in Nat
    BY <1>2, <2>2, FS_Subset, FS_CardinalityType
  <2> QED
    BY <1>3, <2>3, WebhookAssumption DEF QueueBounded
<1> QED
  BY <1>4, <1>5

(* assertOutboxCapacity holds the outbox within its limit, whoever adds to  *)
(* it and whatever is delivered beside it, but for results recorded late.   *)
THEOREM OutboxIsBounded == Spec => []QueueBounded
<1>1. Init => QueueBounded
  <2>1. Init => Queued \ late = {}
    BY DEF Init, Queued, NoRow, Row, Unfinished
  <2> QED
    BY <2>1, FS_EmptySet, WebhookAssumption DEF QueueBounded
<1>2. WebhookInv /\ QueueBounded /\ [Next]_vars => QueueBounded'
  <2>1. ASSUME WebhookInv, QueueBounded, UNCHANGED vars PROVE QueueBounded'
    BY <2>1 DEF vars, aux, QueueBounded, Queued
  <2> QED
    BY <2>1, QueueStep DEF WebhookInv
<1> QED
  BY <1>1, <1>2, WebhookInvariant, PTL DEF Spec

-----------------------------------------------------------------------------
(* The attempts of a row only grow.                                         *)
LEMMA AttemptsGrow ==
    ASSUME Shape, Numbered, Next, NEW i \in Items
    PROVE  out'[i].attempts >= out[i].attempts
<1>a. out[i].attempts \in Nat
  BY DEF Shape, RowRecords
<1>1. CASE UNCHANGED out
  BY <1>a, <1>1
<1>2. ASSUME NEW w \in Webhooks, DeleteWebhook(w) PROVE out'[i].attempts >= out[i].attempts
  BY <1>a, <1>2, CancelledRows DEF DeleteWebhook
<1>3. ASSUME EnqueueCommit PROVE out'[i].attempts >= out[i].attempts
  <2>1. out'[i] = out[i] \/ (out[i].status = "absent" /\ out'[i] = NewRow)
    BY <1>3 DEF EnqueueCommit, Added, Shape
  <2> QED
    BY <1>a, <2>1 DEF Numbered, NewRow, Row
<1>4. ASSUME NEW p \in Workers, Claim(p) PROVE out'[i].attempts >= out[i].attempts
  <2>1. PICK j \in Items : out' = [out EXCEPT ![j] = Claimed(j)]
    BY <1>4 DEF Claim
  <2> QED
    BY <1>a, <2>1, ClaimedRow DEF Shape
<1>5. ASSUME NEW p \in Workers, Persist(p) PROVE out'[i].attempts >= out[i].attempts
  <2>1. /\ Mine(p) \in Items /\ out' = [out EXCEPT ![Mine(p)] = Settled(p)]
        /\ Settled(p).attempts = out[Mine(p)].attempts
    BY <1>5, SettledRow DEF Persist
  <2>2. out'[i].attempts = out[i].attempts
    BY <2>1 DEF Shape
  <2> QED
    BY <1>a, <2>2
<1>6. ASSUME NEW j \in Items, Due(j) \/ Expire(j) \/ Overrun(j)
      PROVE  out'[i].attempts >= out[i].attempts
  BY <1>a, <1>6 DEF Due, Expire, Overrun, Shape, RowRecords
<1> QED
  BY <1>1, <1>2, <1>3, <1>4, <1>5, <1>6, WebhookSteps
  DEF CreateWebhook, UpdateWebhook, RotateBegin, RotateCommit, Begin, Sign, Send, Crash

(* A row says delivered or dead-lettered only if an attempt of it is on     *)
(* record with that result.                                                 *)
LEMMA EarnedKept ==
    ASSUME Shape, Shape', Numbered, StatusIsEarned, Next
    PROVE  StatusIsEarned'
<1>1. SUFFICES ASSUME NEW i \in Items
      PROVE  /\ out'[i].status = "dead_lettered" => out'[i].attempts >= MaxAttempts
             /\ out'[i].status \in {"delivered", "dead_lettered"} =>
                   \E d \in log' : d.item = i /\ d.status = out'[i].status
  BY DEF StatusIsEarned
<1>2. log \subseteq log' /\ out[i].attempts \in Nat /\ out'[i].attempts \in Nat
  BY WebhookSteps DEF Shape, RowRecords, CreateWebhook, UpdateWebhook, DeleteWebhook, RotateBegin,
     RotateCommit, Begin, EnqueueCommit, Claim, Sign, Send, Persist, Crash, Due, Expire, Overrun
<1>3. out'[i].attempts >= out[i].attempts
  BY AttemptsGrow
<1>4. CASE out'[i].status = out[i].status
  BY <1>2, <1>3, <1>4, WebhookAssumption DEF StatusIsEarned
<1>5. CASE out'[i].status \in {"delivering", "cancelled"}
  BY <1>5
<1>6. CASE i \in Added /\ Fits /\ EnqueueCommit
  BY <1>6 DEF EnqueueCommit, Added, NewRow, Row
<1>7. ASSUME NEW p \in Workers, Persist(p), Mine(p) = i, out'[i].status = Outcome(p)
      PROVE  /\ out'[i].status = "dead_lettered" => out'[i].attempts >= MaxAttempts
             /\ out'[i].status \in {"delivered", "dead_lettered"} =>
                   \E d \in log' : d.item = i /\ d.status = out'[i].status
  <2>1. [item |-> Mine(p), attempt |-> job[p].attempt, status |-> Recorded(p)] \in log'
    BY <1>7 DEF Persist
  <2>2. Outcome(p) \in {"delivered", "dead_lettered"} => Recorded(p) = Outcome(p)
    BY DEF Recorded
  <2>3. /\ job[p].attempt \in Nat /\ job[p].attempt <= out[i].attempts
        /\ Outcome(p) = "dead_lettered" => job[p].attempt >= MaxAttempts
    BY <1>7 DEF Persist, Numbered, Shape, JobRecords, Mine, Outcome, Exhausted
  <2> QED
    BY <1>2, <1>3, <1>7, <2>1, <2>2, <2>3, WebhookAssumption
<1> QED
  BY <1>4, <1>5, <1>6, <1>7, RowSteps

(* Attempts are paid for: the first by the row itself, every other by an    *)
(* attempt that is on record as failed, or by a failure of ours.            *)
Failed(i) ==
    {a \in 1..(MaxAttempts - 1) :
        \E d \in log : d.item = i /\ d.attempt = a /\ d.status = "failed"}

(* Another attempt follows by itself.                                       *)
Owed(i) ==
    \/ out[i].status \in {"pending", "retry_scheduled"}
    \/ out[i].status = "delivering" /\ (out[i].stale \/ ~AtWork(i))

Funded(i) ==
    /\ out[i].attempts <= 1 + Cardinality(Failed(i)) + faults
    /\ Owed(i) => out[i].attempts <= Cardinality(Failed(i)) + faults

(* What is on record as failed only grows.                                  *)
LEMMA FailedGrows ==
    ASSUME NEW i
    PROVE  /\ IsFiniteSet(Failed(i)) /\ Cardinality(Failed(i)) \in Nat
           /\ Cardinality(Failed(i)) <= MaxAttempts - 1
           /\ IsFiniteSet(Failed(i)') /\ Cardinality(Failed(i)') \in Nat
           /\ log \subseteq log' => Cardinality(Failed(i)) <= Cardinality(Failed(i)')
<1>1. /\ IsFiniteSet(1..(MaxAttempts - 1))
      /\ Cardinality(1..(MaxAttempts - 1)) = MaxAttempts - 1
  BY FS_Interval, WebhookAssumption
<1>2. Failed(i) \subseteq 1..(MaxAttempts - 1) /\ Failed(i)' \subseteq 1..(MaxAttempts - 1)
  BY DEF Failed
<1>3. /\ IsFiniteSet(Failed(i)) /\ Cardinality(Failed(i)) <= MaxAttempts - 1
      /\ IsFiniteSet(Failed(i)')
  BY <1>1, <1>2, FS_Subset
<1>4. ASSUME log \subseteq log' PROVE Failed(i) \subseteq Failed(i)'
  BY <1>4 DEF Failed
<1> QED
  BY <1>3, <1>4, FS_Subset, FS_CardinalityType

(* A row that is not claimed.                                               *)
LEMMA FundedStep ==
    ASSUME Shape, faults \in Nat, faults' \in Nat, NEW i \in Items, Funded(i),
           out'[i].attempts = out[i].attempts, log \subseteq log', faults <= faults',
           Owed(i)' => Owed(i) \/ faults' = faults + 1
                       \/ Cardinality(Failed(i)') >= Cardinality(Failed(i)) + 1
    PROVE  Funded(i)'
<1>1. out[i].attempts \in Nat
  BY DEF Shape, RowRecords
<1>2. /\ Cardinality(Failed(i)) \in Nat /\ Cardinality(Failed(i)') \in Nat
      /\ Cardinality(Failed(i)) <= Cardinality(Failed(i)')
  BY FailedGrows
<1> QED
  BY <1>1, <1>2 DEF Funded

(* Every step keeps the attempts paid for.                                  *)
LEMMA FundedKept ==
    ASSUME Shape, Shape', Numbered, AttemptsDistinct, faults \in Nat, Next,
           NEW i \in Items, Funded(i)
    PROVE  Funded(i)'
<1>a. out[i].attempts \in Nat /\ out'[i].attempts \in Nat
  BY DEF Shape, RowRecords
<1>b. Cardinality(Failed(i)) \in Nat /\ Cardinality(Failed(i)') \in Nat
  BY FailedGrows
<1>1. ASSUME UNCHANGED <<out, log, job, faults>> PROVE Funded(i)'
  BY <1>1 DEF Funded, Owed, AtWork, Failed
<1>2. ASSUME NEW w \in Webhooks, DeleteWebhook(w) PROVE Funded(i)'
  <2>1. /\ out'[i].attempts = out[i].attempts
        /\ out'[i].status = "cancelled" \/ out'[i] = out[i]
        /\ UNCHANGED <<log, job, faults>>
    BY <1>2, CancelledRows DEF DeleteWebhook, work
  <2>2. Owed(i)' => Owed(i)
    BY <2>1 DEF Owed, AtWork
  <2> QED
    BY <2>1, <2>2, FundedStep
<1>3. ASSUME EnqueueCommit PROVE Funded(i)'
  <2>1. /\ out'[i] = out[i] \/ (out[i].status = "absent" /\ out'[i] = NewRow)
        /\ UNCHANGED <<log, job, faults>>
    BY <1>3 DEF EnqueueCommit, Added, Shape, work
  <2>2. CASE out'[i] = out[i]
    BY <2>1, <2>2, FundedStep DEF Owed, AtWork
  <2>3. CASE out'[i] = NewRow
    <3>1. out'[i].attempts = 0
      BY <2>3 DEF NewRow, Row
    <3> QED
      BY <1>b, <2>1, <3>1 DEF Funded
  <2> QED
    BY <2>1, <2>2, <2>3
<1>4. ASSUME NEW p \in Workers, Claim(p) PROVE Funded(i)'
  <2>1. PICK j \in Items :
          /\ pc[p] = "idle" /\ Claimable(j)
          /\ out' = [out EXCEPT ![j] = Claimed(j)]
          /\ \/ /\ job' = [job EXCEPT ![p] = [item |-> j, attempt |-> Claimed(j).attempts,
                                              version |-> hook[j[1]].version,
                                              signed |-> 0, ok |-> FALSE]]
                /\ UNCHANGED faults
             \/ UNCHANGED job /\ faults' = faults + 1
          /\ UNCHANGED log
    BY <1>4 DEF Claim, Fault, work
  <2>2. Failed(i)' = Failed(i)
    BY <2>1 DEF Failed
  <2>3. CASE i # j
    <3>1. out'[i] = out[i]
      BY <2>1, <2>3 DEF Shape
    <3>2. \A q \in Workers : job[q].item = i => job'[q] = job[q]
      <4>1. job[p].item = None
        BY <2>1 DEF Shape, NoJob
      <4> QED
        BY <2>1, <4>1, WebhookAssumption DEF Shape
    <3>3. Owed(i)' => Owed(i)
      BY <3>1, <3>2 DEF Owed, AtWork
    <3>4. faults' \in Nat /\ faults <= faults'
      BY <2>1
    <3> QED
      BY <2>1, <3>1, <3>3, <3>4, FundedStep
  <2>4. CASE i = j
    <3>1. /\ out'[i].attempts = out[i].attempts + 1 /\ out'[i].status = "delivering"
          /\ ~out'[i].stale
      BY <2>1, <2>4, ClaimedRow DEF Shape, Claimed, Row
    <3>2. Owed(i)
      BY <2>1, <2>4 DEF Owed, Claimable
    <3>3. out[i].attempts <= Cardinality(Failed(i)) + faults
      BY <3>2 DEF Funded
    <3>4. CASE faults' = faults + 1
      BY <1>a, <1>b, <2>2, <3>1, <3>3, <3>4 DEF Funded
    <3>5. CASE faults' = faults /\ job'[p].item = i /\ job'[p].attempt = out'[i].attempts
      <4>1. AtWork(i)'
        BY <3>5 DEF AtWork
      <4>2. ~Owed(i)'
        BY <3>1, <4>1 DEF Owed
      <4> QED
        BY <1>a, <1>b, <2>2, <3>1, <3>3, <3>5, <4>2 DEF Funded
    <3> QED
      BY <2>1, <2>4, <3>1, <3>4, <3>5, ClaimedRow DEF Shape
  <2> QED
    BY <2>3, <2>4
<1>5. ASSUME NEW p \in Workers, Sign(p) \/ Send(p) PROVE Funded(i)'
  <2>1. /\ UNCHANGED <<out, log, faults>>
        /\ \A q \in Workers : job'[q].item = job[q].item /\ job'[q].attempt = job[q].attempt
    BY <1>5 DEF Sign, Send, Shape, JobRecords
  <2>2. Owed(i)' => Owed(i)
    BY <2>1 DEF Owed, AtWork
  <2> QED
    BY <2>1, <2>2, FundedStep
<1>6. ASSUME NEW p \in Workers, Crash(p) PROVE Funded(i)'
  <2>1. UNCHANGED <<out, log>> /\ faults' = faults + 1
    BY <1>6 DEF Crash, Fault
  <2> QED
    BY <2>1, FundedStep
<1>7. ASSUME NEW p \in Workers, Persist(p) PROVE Funded(i)'
  <2>1. /\ Mine(p) \in Items /\ job[p] \in JobRecords /\ pc[p] # "idle"
        /\ out' = [out EXCEPT ![Mine(p)] = Settled(p)]
        /\ Settled(p).attempts = out[Mine(p)].attempts /\ Settled(p).status = Outcome(p)
        /\ Outcome(p) \in {"delivered", "dead_lettered", "retry_scheduled"}
        /\ UNCHANGED faults
    BY <1>7, SettledRow DEF Persist
  <2>2. out'[i].attempts = out[i].attempts
    BY <2>1 DEF Shape
  <2>3. log \subseteq log'
    BY <1>7 DEF Persist
  <2>4. CASE i # Mine(p)
    <3>1. out'[i] = out[i]
      BY <2>1, <2>4 DEF Shape
    <3>2. \A q \in Workers : job[q].item = i => job'[q] = job[q]
      BY <1>7, <2>4 DEF Persist, Drop, Mine, Shape
    <3>3. Owed(i)' => Owed(i)
      BY <3>1, <3>2 DEF Owed, AtWork
    <3> QED
      BY <2>1, <2>2, <2>3, <3>3, FundedStep
  <2>5. CASE i = Mine(p) /\ Outcome(p) # "retry_scheduled"
    <3>1. out'[i].status \in {"delivered", "dead_lettered"}
      BY <2>1, <2>5 DEF Shape
    <3>2. ~Owed(i)'
      BY <3>1 DEF Owed
    <3> QED
      BY <2>1, <2>2, <2>3, <3>2, FundedStep
  <2>6. CASE i = Mine(p) /\ Outcome(p) = "retry_scheduled"
    <3>1. PICK a : a = job[p].attempt
      OBVIOUS
    <3>2. a \in 1..(MaxAttempts - 1)
      <4>1. a \in Nat /\ a > 0
        BY <2>1, <3>1 DEF JobRecords, Numbered
      <4>2. ~(a >= MaxAttempts)
        BY <2>6, <3>1 DEF Outcome, Exhausted
      <4> QED
        BY <4>1, <4>2, WebhookAssumption
    <3>3. a \notin Failed(i)
      BY <2>6, <3>1 DEF Failed, AttemptsDistinct, Mine
    <3>4. [item |-> i, attempt |-> a, status |-> "failed"] \in log'
      BY <1>7, <2>6, <3>1 DEF Persist, Recorded
    <3>5. Failed(i) \cup {a} \subseteq Failed(i)'
      BY <2>3, <3>2, <3>4 DEF Failed
    <3>6. IsFiniteSet(Failed(i)) /\ IsFiniteSet(Failed(i)')
      BY FailedGrows
    <3>7. Cardinality(Failed(i) \cup {a}) = Cardinality(Failed(i)) + 1
      BY <3>3, <3>6, FS_AddElement
    <3>8. Cardinality(Failed(i) \cup {a}) <= Cardinality(Failed(i)')
      BY <3>5, <3>6, FS_Subset
    <3>9. Cardinality(Failed(i)') >= Cardinality(Failed(i)) + 1
      BY <1>b, <3>7, <3>8
    <3> QED
      BY <2>1, <2>2, <2>3, <3>9, FundedStep
  <2> QED
    BY <2>4, <2>5, <2>6
<1>8. ASSUME NEW j \in Items, Due(j) \/ Expire(j) PROVE Funded(i)'
  <2>1. /\ out'[i].attempts = out[i].attempts /\ out'[i].status = out[i].status
        /\ out'[i].stale = out[i].stale \/ (i = j /\ ~AtWork(i))
        /\ UNCHANGED <<log, job, faults>>
    BY <1>8 DEF Due, Expire, Shape, RowRecords, work
  <2>2. Owed(i)' => Owed(i)
    BY <2>1 DEF Owed, AtWork
  <2> QED
    BY <2>1, <2>2, FundedStep
<1>9. ASSUME NEW j \in Items, Overrun(j) PROVE Funded(i)'
  <2>1. out'[i].attempts = out[i].attempts /\ UNCHANGED log /\ faults' = faults + 1
    BY <1>9 DEF Overrun, Fault, Shape, RowRecords
  <2> QED
    BY <2>1, FundedStep
<1> QED
  BY <1>1, <1>2, <1>3, <1>4, <1>5, <1>6, <1>7, <1>8, <1>9, WebhookSteps
  DEF CreateWebhook, UpdateWebhook, RotateBegin, RotateCommit, Begin, work

-----------------------------------------------------------------------------
(* The bounds of the counters.  A version is reached by a change, and one   *)
(* that a rotation has yet to write is already counted.                     *)
Ranged ==
    /\ rotating \subseteq Webhooks /\ late \subseteq Items /\ orphans \subseteq Webhooks
    /\ changes \in 0..MaxChanges /\ faults \in 0..MaxFaults
    /\ \A i \in Items : out[i].stale => out[i].status = "delivering"
    /\ \A w \in Webhooks : /\ hook[w].version <= changes + 1
                           /\ w \in rotating => hook[w].version <= changes
    /\ \A p \in Workers : pc[p] # "idle" => job[p].signed <= hook[job[p].item[1]].version

(* A step that leaves the workers alone.                                    *)
LEMMA RangedStep ==
    ASSUME Shape, Shape', Ranged, UNCHANGED work,
           rotating' \subseteq Webhooks, late' = late, orphans' \subseteq Webhooks,
           changes' \in 0..MaxChanges, faults' \in 0..MaxFaults,
           \A i \in Items : out'[i].stale => out'[i].status = "delivering",
           \A w \in Webhooks : /\ hook[w].version <= hook'[w].version
                               /\ hook'[w].version <= changes' + 1
                               /\ w \in rotating' => hook'[w].version <= changes'
    PROVE  Ranged'
<1>1. \A w \in Webhooks : hook[w].version \in Nat /\ hook'[w].version \in Nat
  BY DEF Shape, HookRecords
<1>2. \A p \in Workers : pc[p] # "idle" => job[p].item[1] \in Webhooks /\ job[p].signed \in Nat
  BY DEF Shape, JobRecords, Items
<1>3. \A p \in Workers : pc'[p] # "idle" => job'[p].signed <= hook'[job'[p].item[1]].version
  BY <1>1, <1>2 DEF Ranged, work
<1> QED
  BY <1>3 DEF Ranged

(* A step of a worker, which leaves the webhooks alone.                     *)
LEMMA RangedWork ==
    ASSUME Shape, Shape', Ranged, NEW p \in Workers, UNCHANGED <<hooks, orphans, changes>>,
           late' \subseteq Items, faults' \in 0..MaxFaults,
           \A i \in Items : out'[i].stale => out'[i].status = "delivering",
           \A q \in Workers : q # p => job'[q] = job[q] /\ pc'[q] = pc[q],
           pc'[p] # "idle" => job'[p].signed <= hook[job'[p].item[1]].version
    PROVE  Ranged'
BY DEF Ranged, hooks

(* Every step keeps the counters within their bounds.                       *)
LEMMA RangedKept ==
    ASSUME Shape, Shape', Versioned, Ranged, Next
    PROVE  Ranged'
<1> USE WebhookAssumption
<1>a. \A w \in Webhooks : hook[w].version \in Nat /\ secret[w] \in Nat
  BY DEF Shape, HookRecords
<1>b. \A p \in Workers : pc[p] # "idle" =>
        job[p] \in JobRecords /\ Mine(p) \in Items /\ Mine(p)[1] \in Webhooks
  BY DEF Shape, JobRecords, Items, Mine
<1>c. changes \in Nat /\ faults \in Nat
  BY DEF Ranged
<1>d. ASSUME Fault PROVE faults' \in 0..MaxFaults
  BY <1>c, <1>d DEF Fault
<1>1. ASSUME NEW w \in Webhooks, CreateWebhook(w) PROVE Ranged'
  <2>1. /\ hook[w].version = 0 /\ w \notin rotating /\ hook'[w].version = 1
        /\ \A v \in Webhooks : v # w => hook'[v] = hook[v]
    BY <1>1 DEF CreateWebhook, Versioned, Shape
  <2>2. \A v \in Webhooks : /\ hook[v].version <= hook'[v].version
                            /\ hook'[v].version <= changes + 1
                            /\ v \in rotating => hook'[v].version <= changes
    BY <1>a, <1>c, <2>1 DEF Ranged
  <2> QED
    BY <1>1, <2>2, RangedStep DEF CreateWebhook, Ranged, aux
<1>2. ASSUME NEW w \in Webhooks, UpdateWebhook(w) PROVE Ranged'
  <2>1. /\ \A v \in Webhooks : hook'[v].version = hook[v].version
        /\ changes' = changes + 1 /\ changes' \in 0..MaxChanges
    BY <1>2, <1>c DEF UpdateWebhook, Shape, HookRecords
  <2>2. \A v \in Webhooks : /\ hook[v].version <= hook'[v].version
                            /\ hook'[v].version <= changes' + 1
                            /\ v \in rotating => hook'[v].version <= changes'
    BY <1>a, <1>c, <2>1 DEF Ranged
  <2> QED
    BY <1>2, <2>1, <2>2, RangedStep DEF UpdateWebhook, Ranged, aux
<1>3. ASSUME NEW w \in Webhooks, DeleteWebhook(w) PROVE Ranged'
  <2>1. \A v \in Webhooks : hook'[v].version = hook[v].version
    BY <1>3, HookDeleted DEF DeleteWebhook, Shape
  <2>2. \A i \in Items : out'[i].stale => out'[i].status = "delivering"
    BY <1>3 DEF DeleteWebhook, Cancelled, Row, Ranged
  <2>3. \A v \in Webhooks : hook[v].version <= hook'[v].version
    BY <1>a, <2>1
  <2>4. orphans' \subseteq Webhooks /\ UNCHANGED <<rotating, late, work, changes, faults>>
    BY <1>3 DEF DeleteWebhook, Ranged
  <2> QED
    BY <2>1, <2>2, <2>3, <2>4, RangedStep DEF Ranged
<1>4. ASSUME NEW w \in Webhooks, RotateBegin(w) PROVE Ranged'
  <2>1. changes' = changes + 1 /\ changes' \in 0..MaxChanges /\ rotating' = rotating \cup {w}
    BY <1>4, <1>c DEF RotateBegin
  <2>2. \A v \in Webhooks : /\ hook[v].version <= hook[v].version
                            /\ hook[v].version <= changes' + 1
                            /\ v \in rotating' => hook[v].version <= changes'
    BY <1>a, <1>c, <2>1 DEF Ranged
  <2> QED
    BY <1>4, <2>1, <2>2, RangedStep DEF RotateBegin, Ranged, aux
<1>5. ASSUME NEW w \in Webhooks, RotateCommit(w) PROVE Ranged'
  <2>1. /\ hook'[w].version = hook[w].version + 1 /\ w \in rotating
        /\ rotating' = rotating \ {w}
        /\ \A v \in Webhooks : v # w => hook'[v] = hook[v]
    BY <1>5 DEF RotateCommit, Shape, HookRecords
  <2>2. \A v \in Webhooks : /\ hook[v].version <= hook'[v].version
                            /\ hook'[v].version <= changes + 1
                            /\ v \in rotating' => hook'[v].version <= changes
    BY <1>a, <1>c, <2>1 DEF Ranged
  <2> QED
    BY <1>5, <2>1, <2>2, RangedStep DEF RotateCommit, Ranged, aux
<1>6. ASSUME NEW k \in Keys, NEW ws \in SUBSET {w \in Webhooks : Active(w)}, Begin(k, ws)
      PROVE  Ranged'
  BY <1>6, <1>a, RangedStep DEF Begin, hooks, aux, Ranged
<1>7. ASSUME EnqueueCommit PROVE Ranged'
  <2>1. \A i \in Items : out'[i].stale => out'[i].status = "delivering"
    BY <1>7 DEF EnqueueCommit, NewRow, Row, Ranged
  <2> QED
    BY <1>7, <1>a, <2>1, RangedStep DEF EnqueueCommit, hooks, aux, Ranged
<1>8. ASSUME NEW p \in Workers, Claim(p) PROVE Ranged'
  <2>1. PICK i \in Items :
          /\ pc[p] = "idle"
          /\ out' = [out EXCEPT ![i] = Claimed(i)]
          /\ \/ /\ pc' = [pc EXCEPT ![p] = "sign"]
                /\ job' = [job EXCEPT ![p] = [item |-> i, attempt |-> Claimed(i).attempts,
                                              version |-> hook[i[1]].version,
                                              signed |-> 0, ok |-> FALSE]]
                /\ UNCHANGED faults
             \/ UNCHANGED work /\ Fault
          /\ UNCHANGED <<hooks, aux, changes>>
    BY <1>8 DEF Claim, Goto
  <2>2. \A j \in Items : out'[j].stale => out'[j].status = "delivering"
    BY <2>1 DEF Claimed, Row, Ranged, Shape
  <2>3. faults' \in 0..MaxFaults
    BY <1>d, <2>1 DEF Ranged
  <2>4. /\ \A q \in Workers : q # p => job'[q] = job[q] /\ pc'[q] = pc[q]
        /\ pc'[p] # "idle" => job'[p].signed = 0 /\ job'[p].item = i
    BY <2>1 DEF work, Shape
  <2>5. pc'[p] # "idle" => job'[p].signed <= hook[job'[p].item[1]].version
    BY <1>a, <2>4 DEF Items
  <2> QED
    BY <2>1, <2>2, <2>3, <2>4, <2>5, RangedWork DEF aux, Ranged
<1>9. ASSUME NEW p \in Workers, Sign(p) \/ Send(p) PROVE Ranged'
  <2>1. pc[p] # "idle" /\ job[p] \in JobRecords /\ Mine(p)[1] \in Webhooks
    BY <1>9, <1>b DEF Sign, Send
  <2>2. /\ job'[p].item = job[p].item
        /\ \/ job'[p].signed = job[p].signed
           \/ secret[Mine(p)[1]] # 0 /\ job'[p].signed = secret[Mine(p)[1]]
        /\ \A q \in Workers : q # p => job'[q] = job[q] /\ pc'[q] = pc[q]
        /\ UNCHANGED <<hooks, out, aux, changes, faults>>
    BY <1>9, <2>1 DEF Sign, Send, Goto, Shape, JobRecords
  <2>3. job[p].signed <= hook[Mine(p)[1]].version
    BY <2>1 DEF Ranged, Mine
  <2>4. job'[p].signed <= hook[job'[p].item[1]].version
    BY <1>a, <2>1, <2>2, <2>3 DEF Versioned, Mine
  <2> QED
    BY <2>2, <2>4, RangedWork DEF aux, Ranged
<1>10. ASSUME NEW p \in Workers, Persist(p) PROVE Ranged'
  <2>1. /\ Mine(p) \in Items /\ out' = [out EXCEPT ![Mine(p)] = Settled(p)]
        /\ ~Settled(p).stale
    BY <1>10, SettledRow DEF Persist, Settled, Row
  <2>2. \A i \in Items : out'[i].stale => out'[i].status = "delivering"
    BY <2>1 DEF Ranged, Shape
  <2>3. /\ pc'[p] = "idle"
        /\ \A q \in Workers : q # p => job'[q] = job[q] /\ pc'[q] = pc[q]
        /\ UNCHANGED <<hooks, orphans, changes, faults>>
    BY <1>10 DEF Persist, Drop, Goto, Shape
  <2>4. late' \subseteq Items
    BY <1>10, <2>1 DEF Persist, Ranged
  <2> QED
    BY <2>2, <2>3, <2>4, RangedWork DEF Ranged
<1>11. ASSUME NEW p \in Workers, Crash(p) PROVE Ranged'
  <2>1. /\ pc'[p] = "idle"
        /\ \A q \in Workers : q # p => job'[q] = job[q] /\ pc'[q] = pc[q]
        /\ UNCHANGED <<hooks, out, aux, changes>>
        /\ faults' \in 0..MaxFaults
    BY <1>11, <1>d DEF Crash, Drop, Goto, Shape
  <2> QED
    BY <2>1, RangedWork DEF aux, Ranged
<1>12. ASSUME NEW i \in Items, Due(i) \/ Expire(i) \/ Overrun(i) PROVE Ranged'
  <2>1. \A j \in Items : out'[j].stale => out'[j].status = "delivering"
    BY <1>12 DEF Due, Expire, Overrun, Ranged, Shape, RowRecords
  <2>2. faults' \in 0..MaxFaults /\ UNCHANGED <<hooks, work, aux, changes>>
    BY <1>12, <1>d DEF Due, Expire, Overrun, Ranged
  <2> QED
    BY <1>a, <2>1, <2>2, RangedStep DEF hooks, aux, Ranged
<1> QED
  BY <1>1, <1>2, <1>3, <1>4, <1>5, <1>6, <1>7, <1>8, <1>9, <1>10, <1>11, <1>12, WebhookSteps

(* What the records, the attempts and the counters keep, given the          *)
(* invariant above.                                                         *)
Accounted == StatusIsEarned /\ (\A i \in Items : Funded(i)) /\ Ranged

(* It holds at the start.                                                   *)
LEMMA AccountedInitially == Init => Accounted
<1> SUFFICES ASSUME Init PROVE Accounted
  OBVIOUS
<1>1. \A i \in Items : out[i] = NoRow
  BY DEF Init
<1>2. StatusIsEarned
  BY <1>1 DEF StatusIsEarned, NoRow, Row
<1>3. ASSUME NEW i \in Items PROVE Funded(i)
  <2>1. out[i].attempts = 0 /\ out[i].status = "absent"
    BY <1>1 DEF NoRow, Row
  <2>2. Cardinality(Failed(i)) \in Nat
    BY FailedGrows
  <2>3. faults = 0
    BY DEF Init
  <2> QED
    BY <2>1, <2>2, <2>3 DEF Funded
<1>4. Ranged
  BY WebhookAssumption DEF Init, Ranged, NoRow, Row
<1> QED
  BY <1>2, <1>3, <1>4 DEF Accounted

(* Every step preserves it.                                                 *)
LEMMA AccountedStep == WebhookInv /\ WebhookInv' /\ Accounted /\ [Next]_vars => Accounted'
<1> SUFFICES ASSUME WebhookInv, WebhookInv', Accounted, [Next]_vars PROVE Accounted'
  OBVIOUS
<1> USE DEF WebhookInv, Accounted
<1>1. CASE Next
  <2>1. StatusIsEarned'
    BY <1>1, EarnedKept
  <2>2. faults \in Nat
    BY WebhookAssumption DEF Ranged
  <2>3. \A i \in Items : Funded(i)'
    BY <1>1, <2>2, FundedKept
  <2>4. Ranged'
    BY <1>1, RangedKept
  <2> QED
    BY <2>1, <2>3, <2>4
<1>2. CASE UNCHANGED vars
  <2> USE <1>2 DEF vars, hooks, work, aux
  <2>1. StatusIsEarned'
    BY DEF StatusIsEarned
  <2>2. \A i \in Items : Funded(i)'
    BY DEF Funded, Owed, AtWork, Failed
  <2>3. Ranged'
    BY DEF Ranged
  <2> QED
    BY <2>1, <2>2, <2>3
<1> QED
  BY <1>1, <1>2

(* A row has no more attempts than it is entitled to, and one for each      *)
(* failure of ours.                                                         *)
LEMMA FundedIsBounded ==
    ASSUME WebhookInv, Accounted
    PROVE  AttemptsBounded
<1>1. ASSUME NEW i \in Items PROVE out[i].attempts <= MaxAttempts + faults
  <2>1. out[i].attempts \in Nat /\ faults \in Nat
    BY WebhookAssumption DEF WebhookInv, Accounted, Shape, RowRecords, Ranged
  <2>2. Cardinality(Failed(i)) \in Nat /\ Cardinality(Failed(i)) <= MaxAttempts - 1
    BY FailedGrows
  <2>3. out[i].attempts <= 1 + Cardinality(Failed(i)) + faults
    BY DEF Accounted, Funded
  <2> QED
    BY <2>1, <2>2, <2>3, WebhookAssumption
<1> QED
  BY <1>1 DEF AttemptsBounded

(* The state has its types, with the bounds of the counters.                *)
LEMMA WebhookTyped ==
    ASSUME WebhookInv, Accounted
    PROVE  WebhookTypeOK
<1> USE WebhookAssumption
<1>1. Shape /\ Numbered /\ Versioned /\ Ranged /\ AttemptsBounded
  BY FundedIsBounded DEF WebhookInv, Accounted
<1>2. \A w \in Webhooks : hook[w].version \in Versions /\ secret[w] \in Versions
  BY <1>1 DEF Shape, HookRecords, Ranged, Versioned, Versions
<1>3. \A i \in Items : out[i].attempts \in Attempts
  BY <1>1 DEF Shape, RowRecords, Ranged, AttemptsBounded, Attempts
<1>4. hook \in [Webhooks -> [state : {"none", "active", "deleted"}, enabled : BOOLEAN,
                             version : Versions]]
  BY <1>1, <1>2 DEF Shape, HookRecords
<1>5. secret \in [Webhooks -> Versions]
  BY <1>1, <1>2 DEF Shape
<1>6. out \in [Items -> Rows]
  BY <1>1, <1>3 DEF Shape, RowRecords, Rows
<1>7. log \subseteq [item : Items, attempt : Attempts,
                     status : {"delivered", "failed", "dead_lettered"}]
  <2>1. ASSUME NEW d \in log PROVE d.attempt \in Attempts
    <3>1. d.item \in Items /\ d.attempt \in Nat /\ d.attempt <= out[d.item].attempts
      BY <1>1 DEF Shape, Numbered
    <3>2. out[d.item].attempts \in Attempts
      BY <1>3, <3>1
    <3> QED
      BY <1>1, <3>1, <3>2 DEF Attempts
  <2> QED
    BY <1>1, <2>1 DEF Shape
<1>8. ASSUME NEW p \in Workers, pc[p] # "idle" PROVE job[p] \in Jobs
  <2>1. /\ job[p] \in JobRecords /\ job[p].item \in Items /\ job[p].item[1] \in Webhooks
        /\ job[p].attempt \in Nat /\ job[p].version \in Nat /\ job[p].signed \in Nat
    BY <1>1, <1>8 DEF Shape, JobRecords, Items
  <2>2. /\ job[p].attempt <= out[job[p].item].attempts
        /\ job[p].version <= hook[job[p].item[1]].version
        /\ job[p].signed <= hook[job[p].item[1]].version
    BY <1>1, <1>8 DEF Numbered, Versioned, Ranged
  <2>3. job[p].attempt \in Attempts
    BY <1>3, <2>1, <2>2 DEF Attempts
  <2>4. job[p].version \in Versions /\ job[p].signed \in Versions
    BY <1>2, <2>1, <2>2 DEF Versions
  <2> QED
    BY <2>1, <2>3, <2>4 DEF JobRecords, Jobs
<1>9. \A p \in Workers : pc[p] = "idle" <=> job[p] = NoJob
  BY <1>1 DEF Shape, JobRecords, NoJob
<1> QED
  BY <1>1, <1>4, <1>5, <1>6, <1>7, <1>8, <1>9 DEF WebhookTypeOK, Ranged, Shape

(* Attempts, results, versions and counters are accounted for in every      *)
(* state.                                                                   *)
THEOREM WebhooksAreAccounted == Spec => []Accounted
BY WebhookInvariant, AccountedInitially, AccountedStep, PTL DEF Spec

(* A row says delivered or dead-lettered only with the record that earns it *)
(* and costs its endpoint no attempt that neither a recorded failure nor a  *)
(* failure of ours pays for; requests are never signed with an older secret *)
(* than their key id names; the outbox keeps to its limit.                  *)
THEOREM WebhooksAreConsistent == Spec => []WebhookConsistent
<1>1. WebhookInv /\ Accounted /\ QueueBounded => WebhookConsistent
  BY WebhookTyped, FundedIsBounded DEF WebhookInv, Accounted, Versioned, WebhookConsistent
<1> QED
  BY <1>1, WebhookInvariant, WebhooksAreAccounted, OutboxIsBounded, PTL
=============================================================================
