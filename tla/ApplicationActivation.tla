------------------------ MODULE ApplicationActivation ------------------------
(***************************************************************************)
(* Activation, deactivation and retirement of the releases of one          *)
(* application in one environment (application-activation.ts and           *)
(* application-deployment.ts), over the journal of project mutations       *)
(* (project-mutation.service.ts): a row per mutation with a lease and a    *)
(* fencing epoch, at most one active row per resource, effects carried out *)
(* while the row is locked, and outcomes that nobody may replay.           *)
(*                                                                         *)
(* A process serves one request at a time.  Every call may fail before or  *)
(* after it took effect, a process may die at any step, a lease may run    *)
(* out, and the connection that holds a lock may be lost under its holder. *)
(***************************************************************************)
EXTENDS Naturals, FiniteSets

CONSTANTS
    Activations,    \* activation ids: mutations that activate a release
    Deactivations,  \* mutations that take an activation out of service
    Processes,
    None,
    MaxRequests,
    MaxFaults       \* failed calls, deaths, expired leases, lost connections

Mutations == Activations \cup Deactivations

ASSUME ActivationAssumption ==
    /\ Activations \cap Deactivations = {}
    /\ None \notin Mutations \cup Processes
    /\ MaxRequests \in Nat
    /\ MaxFaults \in Nat

VARIABLES
    row,        \* project_mutations
    held,       \* the process whose transaction locks the row of a mutation
    lifecycle,  \* the holder of the project's lifecycle lock
    active,     \* active.json: the authority on what serves
    running,    \* the activations whose units run
    route,      \* the activation that the gateway routes to
    alloc,      \* application_runtime_allocations
    pc,         \* where each process is
    req,        \* the request that it serves
    told,       \* the mutations that a client was told had succeeded
    starts,     \* auxiliary: how often each mutation changed what runs
    hasty,      \* auxiliary: retired although their activation was not concluded
    intact,     \* auxiliary: no transaction was lost under its holder
    requests,
    faults

world  == <<active, running, route, alloc>>
aux    == <<starts, hasty, intact>>
vars   == <<row, held, lifecycle, world, pc, req, told, aux, requests, faults>>

-----------------------------------------------------------------------------
(* begin and claim are one transaction, and a failure is terminal or        *)
(* unknown: pending and failed_retryable are never seen on this resource.   *)
Statuses == {"absent", "running", "succeeded", "failed_terminal", "outcome_unknown"}
Terminal == {"succeeded", "failed_terminal", "outcome_unknown"}

ActivationPhases == {"prepared", "transitioning", "started", "healthy", "routed", "committed"}
RemovalPhases    == {"prepared", "stopped", "unrouted", "retired"}
Phases           == {"none"} \cup ActivationPhases \cup RemovalPhases

(* about: the activation expected to be active, or the one to be removed.   *)
Rows == [status : Statuses, epoch : 0..(MaxFaults + 1), live : BOOLEAN,
         phase : Phases, about : Activations \cup {None}]

NoRow == [status |-> "absent", epoch |-> 0, live |-> FALSE, phase |-> "none", about |-> None]

Ops  == {"none", "activate", "deactivate", "reconcile", "retire"}
Reqs == [op : Ops, m : Mutations \cup {None}, about : Activations \cup {None},
         epoch : 0..(MaxFaults + 1), phase : Phases, unknown : BOOLEAN]

Asked(op, m, about) == [op |-> op, m |-> m, about |-> about, epoch |-> 0,
                        phase |-> "none", unknown |-> FALSE]

NoReq == Asked("none", None, None)

Inside ==
    {"stopOld", "startNew", "routeNew", "writeActive", "verifyIn",
     "stop", "unroute", "clear", "retire", "verifyGone"}

Places ==
    Inside \cup
    {"idle", "allocate", "begin", "read", "prepared", "check", "transitioning",
     "enterSwitch", "started", "ready", "healthy", "enterRoute", "routed", "enterWrite",
     "committed", "success", "verify", "recRead", "recClaim", "recFail", "observe",
     "recover", "confirm", "dBegin", "dRead", "dPrepared", "enterStop",
     "stopped", "enterUnroute", "unrouted", "enterRetire", "retired", "gone",
     "dRecover", "rRead", "rVerify", "rCommit", "failClean", "failUnknown"}

ActivationTypeOK ==
    /\ row \in [Mutations -> Rows]
    /\ held \in [Mutations -> Processes \cup {None}]
    /\ lifecycle \in Processes \cup {None}
    /\ active \in Activations \cup {None}
    /\ running \subseteq Activations
    /\ route \in Activations \cup {None}
    /\ alloc \in [Activations -> {"none", "held", "retired"}]
    /\ pc \in [Processes -> Places]
    /\ req \in [Processes -> Reqs]
    /\ told \subseteq Mutations
    /\ starts \in [Mutations -> 0..2]
    /\ hasty \subseteq Activations
    /\ intact \in BOOLEAN
    /\ requests \in 0..MaxRequests
    /\ faults \in 0..MaxFaults
    /\ \A m \in Mutations : row[m].live => row[m].status = "running"

Init ==
    /\ row = [m \in Mutations |-> NoRow]
    /\ held = [m \in Mutations |-> None]
    /\ lifecycle = None
    /\ active = None
    /\ running = {}
    /\ route = None
    /\ alloc = [a \in Activations |-> "none"]
    /\ pc = [p \in Processes |-> "idle"]
    /\ req = [p \in Processes |-> NoReq]
    /\ told = {}
    /\ starts = [m \in Mutations |-> 0]
    /\ hasty = {}
    /\ intact = TRUE
    /\ requests = 0
    /\ faults = 0

-----------------------------------------------------------------------------
(* Steps of a process.                                                      *)
Goto(p, place) == pc' = [pc EXCEPT ![p] = place]
Me(p)          == row[req[p].m]
Disturbed      == faults < MaxFaults /\ faults' = faults + 1
Calm           == UNCHANGED faults

Released(p) == IF lifecycle = p THEN None ELSE lifecycle

(* The request ends; an error leaves told alone.                            *)
End(p, success) ==
    /\ Goto(p, "idle")
    /\ req' = [req EXCEPT ![p] = NoReq]
    /\ lifecycle' = Released(p)
    /\ told' = IF success THEN told \cup {req[p].m} ELSE told

Stay == UNCHANGED <<lifecycle, req, told>>

(* An UPDATE waits for the transaction that locks the row.                  *)
RowFree(m) == held[m] = None

(* Fault: the epoch alone tells the owner.                                  *)
OwnsEpoch(p) == Me(p).epoch = req[p].epoch

Owns(p) == Me(p).status = "running" /\ Me(p).live /\ Me(p).epoch = req[p].epoch

(* checkpointProjectMutation, finishProjectMutation: an update of the row   *)
(* by its owner, or an error.                                               *)
Update(p, here, new, next, err) ==
    /\ pc[p] = here
    /\ RowFree(req[p].m)
    /\ \/ Owns(p)  /\ row' = [row EXCEPT ![req[p].m] = new] /\ Goto(p, next) /\ Calm
       \/ ~Owns(p) /\ UNCHANGED row /\ Goto(p, err) /\ Calm
       \/ /\ Disturbed
          /\ \/ Owns(p) /\ row' = [row EXCEPT ![req[p].m] = new]
             \/ UNCHANGED row
          /\ Goto(p, err)
    /\ Stay
    /\ UNCHANGED <<held, world, aux, requests>>

Save(p, here, next, err) == Update(p, here, [Me(p) EXCEPT !.phase = here], next, err)

(* withProjectMutationLease: the row stays locked while the effects last.   *)
Enter(p, here, next) ==
    /\ pc[p] = here
    /\ RowFree(req[p].m)
    /\ \/ Owns(p)  /\ held' = [held EXCEPT ![req[p].m] = p] /\ Goto(p, next) /\ Calm
       \/ ~Owns(p) /\ UNCHANGED held /\ Goto(p, "failUnknown") /\ Calm
       \/ UNCHANGED held /\ Goto(p, "failUnknown") /\ Disturbed
    /\ Stay
    /\ UNCHANGED <<row, world, aux, requests>>

Left(p) == [m \in Mutations |-> IF held[m] = p THEN None ELSE held[m]]

(* One effect inside.  The last one ends the transaction, and so does an    *)
(* error.                                                                   *)
Effect(p, here, possible, Change, next, last) ==
    /\ pc[p] = here
    /\ \/ /\ possible /\ Change /\ Calm
          /\ Goto(p, next)
          /\ held' = IF last THEN Left(p) ELSE held
       \/ /\ \/ ~possible /\ UNCHANGED world /\ Calm
             \/ possible /\ Change /\ Disturbed
             \/ UNCHANGED world /\ Disturbed
          /\ Goto(p, "failUnknown")
          /\ held' = Left(p)
    /\ Stay
    /\ UNCHANGED <<row, hasty, intact, requests>>

Runs(s)    == running' = s /\ UNCHANGED <<active, route, alloc>>
Routes(a)  == route' = a   /\ UNCHANGED <<active, running, alloc>>
Records(a) == active' = a  /\ UNCHANGED <<running, route, alloc>>
Retires(a) == alloc' = [alloc EXCEPT ![a] = "retired"] /\ UNCHANGED <<active, running, route>>
Looks      == UNCHANGED world

Counted(p)  == starts' = [starts EXCEPT ![req[p].m] = IF @ < 2 THEN @ + 1 ELSE @]
Uncounted   == UNCHANGED starts

(* A look at the world, or at the row, outside a transaction.               *)
Observe(p, here, holds, next) ==
    /\ pc[p] = here
    /\ \/ holds /\ Goto(p, next) /\ Stay /\ Calm
       \/ ~holds /\ End(p, FALSE) /\ Calm
       \/ End(p, FALSE) /\ Disturbed
    /\ UNCHANGED <<row, held, world, aux, requests>>

Serves(a) == active = a /\ a \in running /\ route = a
Gone(a)   == active = None /\ a \notin running /\ route # a /\ alloc[a] = "retired"

-----------------------------------------------------------------------------
(* Requests.  All but a retirement hold the project's lifecycle lock, and   *)
(* are refused without a trace when it is taken.                            *)
Request(p, r, place) ==
    /\ pc[p] = "idle"
    /\ requests < MaxRequests
    /\ requests' = requests + 1
    /\ req' = [req EXCEPT ![p] = r]
    /\ Goto(p, place)
    /\ UNCHANGED <<row, held, world, told, aux, faults>>

LockedRequest(p, r, place) ==
    /\ lifecycle = None
    /\ lifecycle' = p
    /\ Request(p, r, place)

RequestActivate(p) ==
    \E a \in Activations, e \in Activations \cup {None} :
        e # a /\ LockedRequest(p, Asked("activate", a, e), "allocate")

RequestDeactivate(p) ==
    \E d \in Deactivations, a \in Activations :
        /\ alloc[a] # "none"
        /\ LockedRequest(p, Asked("deactivate", d, a), "dBegin")

RequestReconcile(p) ==
    \E a \in Activations : LockedRequest(p, Asked("reconcile", a, None), "recRead")

RequestRetire(p) ==
    /\ \E a \in Activations : Request(p, Asked("retire", None, a), "rRead")
    /\ UNCHANGED lifecycle

-----------------------------------------------------------------------------
(* beginProjectMutation and claimOrResumeProjectMutation.                   *)
ActiveRow(m) == row[m].status \in {"running", "outcome_unknown"}

ResourceFree(m) == \A n \in Mutations \ {m} : ~ActiveRow(n)

Startable(p) == Me(p).status = "absent" /\ ResourceFree(req[p].m)

Resumable(p) ==
    Me(p).status = "running" /\ ~Me(p).live /\ Me(p).about = req[p].about

Replayable(p) == Me(p).status \in Terminal /\ Me(p).about = req[p].about

Claimed(p) ==
    [status |-> "running", epoch |-> Me(p).epoch + 1, live |-> TRUE,
     phase |-> Me(p).phase, about |-> req[p].about]

Claim(p, next) ==
    /\ row' = [row EXCEPT ![req[p].m] = Claimed(p)]
    /\ req' = [req EXCEPT ![p].epoch = Me(p).epoch + 1]
    /\ Goto(p, next)
    /\ UNCHANGED <<lifecycle, told>>

(* Fault: the effects of a mutation that was interrupted are done again.    *)
ResumedAgain(phase) == IF phase = "none" THEN "read" ELSE "check"

(* Where an activation that was interrupted goes on.                        *)
Resumed(phase) ==
    CASE phase = "none"     -> "read"
      [] phase = "prepared" -> "check"
      [] OTHER              -> "failUnknown"

(* A claim whose acknowledgement is lost leaves its row to expire.          *)
BeginOr(p, here, resume, replay) ==
    /\ pc[p] = here
    /\ RowFree(req[p].m)
    /\ \/ Startable(p) /\ Claim(p, resume) /\ Calm
       \/ Resumable(p) /\ Claim(p, IF here = "begin" THEN Resumed(Me(p).phase)
                                   ELSE IF Me(p).phase = "none" THEN "dRead" ELSE "failUnknown")
          /\ Calm
       \/ Replayable(p) /\ replay /\ Calm
       \/ /\ ~Startable(p) /\ ~Resumable(p) /\ ~Replayable(p)
          /\ End(p, FALSE) /\ UNCHANGED row /\ Calm
       \/ /\ Disturbed
          /\ \/ (Startable(p) \/ Resumable(p)) /\ row' = [row EXCEPT ![req[p].m] = Claimed(p)]
             \/ UNCHANGED row
          /\ End(p, FALSE)
    /\ UNCHANGED <<held, world, aux, requests>>

(* activateConfigured: ports are allocated once, and never after they were  *)
(* retired.                                                                 *)
Allocate(p) ==
    /\ pc[p] = "allocate"
    /\ \/ /\ alloc[req[p].m] # "retired"
          /\ alloc' = [alloc EXCEPT ![req[p].m] = "held"]
          /\ Goto(p, "begin") /\ Stay /\ Calm
       \/ alloc[req[p].m] = "retired" /\ UNCHANGED alloc /\ End(p, FALSE) /\ Calm
       \/ /\ Disturbed
          /\ \/ alloc[req[p].m] = "none" /\ alloc' = [alloc EXCEPT ![req[p].m] = "held"]
             \/ UNCHANGED alloc
          /\ End(p, FALSE)
    /\ UNCHANGED <<row, held, active, running, route, aux, requests>>

(* activate.                                                                *)
Begin(p) ==
    BeginOr(p, "begin", "read",
        /\ UNCHANGED row
        /\ IF Me(p).status = "succeeded" THEN Goto(p, "verify") /\ Stay ELSE End(p, FALSE))

(* readActive against the revision that the client expects.                 *)
Read(p) ==
    /\ pc[p] = "read"
    /\ \/ Goto(p, IF active = req[p].about THEN "prepared" ELSE "failClean") /\ Calm
       \/ Goto(p, "failClean") /\ Disturbed
    /\ Stay
    /\ UNCHANGED <<row, held, world, aux, requests>>

(* Under the row lock: the revision again, compatibility, preparation.      *)
Check(p) ==
    /\ pc[p] = "check"
    /\ RowFree(req[p].m)
    /\ \/ Goto(p, IF Owns(p) /\ active = req[p].about THEN "transitioning" ELSE "failClean") /\ Calm
       \/ Goto(p, "failClean") /\ Disturbed
    /\ Stay
    /\ UNCHANGED <<row, held, world, aux, requests>>

(* Fault: the old release is left running.                                  *)
StopNothing(p) == Effect(p, "stopOld", TRUE, Looks, "startNew", FALSE) /\ Uncounted

StopOld(p) ==
    Effect(p, "stopOld", TRUE, Runs(running \ {req[p].about}), "startNew", FALSE) /\ Uncounted

StartNew(p) ==
    Effect(p, "startNew", TRUE, Runs(running \cup {req[p].m}), "started", TRUE) /\ Counted(p)

(* requireReady, under the row lock.                                        *)
Ready(p) ==
    /\ pc[p] = "ready"
    /\ RowFree(req[p].m)
    /\ \/ Goto(p, IF Owns(p) /\ req[p].m \in running THEN "healthy" ELSE "failUnknown") /\ Calm
       \/ Goto(p, "failUnknown") /\ Disturbed
    /\ Stay
    /\ UNCHANGED <<row, held, world, aux, requests>>

RouteNew(p) == Effect(p, "routeNew", TRUE, Routes(req[p].m), "routed", TRUE) /\ Uncounted

(* The write compares and swaps; then everything is read back.              *)
WriteActive(p) ==
    Effect(p, "writeActive", active \in {req[p].about, req[p].m}, Records(req[p].m),
           "verifyIn", FALSE) /\ Uncounted

VerifyIn(p) == Effect(p, "verifyIn", Serves(req[p].m), Looks, "committed", TRUE) /\ Uncounted

(* success: the row, its read-back and the answer.                          *)
Finished(p, status) ==
    [status |-> status, epoch |-> Me(p).epoch, live |-> FALSE,
     phase |-> Me(p).phase, about |-> Me(p).about]

Success(p) ==
    /\ pc[p] = "success"
    /\ RowFree(req[p].m)
    /\ \/ /\ Owns(p) /\ row' = [row EXCEPT ![req[p].m] = Finished(p, "succeeded")]
          /\ End(p, TRUE) /\ Calm
       \/ ~Owns(p) /\ UNCHANGED row /\ Goto(p, "failUnknown") /\ Stay /\ Calm
       \/ /\ Disturbed
          /\ \/ Owns(p) /\ row' = [row EXCEPT ![req[p].m] = Finished(p, "succeeded")]
             \/ UNCHANGED row
          /\ Goto(p, "failUnknown") /\ Stay
    /\ UNCHANGED <<held, world, aux, requests>>

(* failure: terminal when no effect can have taken place, unknown after.    *)
Fail(p, here, status) ==
    /\ pc[p] = here
    /\ RowFree(req[p].m)
    /\ \/ Owns(p) /\ row' = [row EXCEPT ![req[p].m] = Finished(p, status)] /\ Calm
       \/ ~Owns(p) /\ UNCHANGED row /\ Calm
       \/ /\ Disturbed
          /\ UNCHANGED row
    /\ End(p, FALSE)
    /\ UNCHANGED <<held, world, aux, requests>>

FailClean(p) == Fail(p, "failClean", "failed_terminal")

(* Fault: a failure after the effects is terminal all the same.             *)
FailUnknownTerminal(p) == Fail(p, "failUnknown", "failed_terminal")

FailUnknown(p) == Fail(p, "failUnknown", "outcome_unknown")

(* A replay of a success verifies what serves now.                          *)
Verify(p) ==
    /\ pc[p] = "verify"
    /\ \/ End(p, Serves(req[p].m)) /\ Calm
       \/ End(p, FALSE) /\ Disturbed
    /\ UNCHANGED <<row, held, world, aux, requests>>

Activate(p) ==
    \/ Allocate(p) \/ Begin(p) \/ Read(p)
    \/ Save(p, "prepared", "check", "failClean")
    \/ Check(p)
    \/ Save(p, "transitioning", "enterSwitch", "failClean")
    \/ Enter(p, "enterSwitch", IF req[p].about = None THEN "startNew" ELSE "stopOld")
    \/ StopOld(p) \/ StartNew(p)
    \/ Save(p, "started", "ready", "failUnknown")
    \/ Ready(p)
    \/ Save(p, "healthy", "enterRoute", "failUnknown")
    \/ Enter(p, "enterRoute", "routeNew")
    \/ RouteNew(p)
    \/ Save(p, "routed", "enterWrite", "failUnknown")
    \/ Enter(p, "enterWrite", "writeActive")
    \/ WriteActive(p) \/ VerifyIn(p)
    \/ Save(p, "committed", "success", "failUnknown")
    \/ Success(p) \/ Verify(p)

-----------------------------------------------------------------------------
(* reconcile: confirms a commit and never repeats an effect.                *)
Recoverable == {"routed", "committed"}

(* What was read of the row is kept.                                        *)
Noted(p) ==
    [req EXCEPT ![p] = [op |-> @.op, m |-> @.m, about |-> Me(p).about,
                        epoch |-> Me(p).epoch, phase |-> Me(p).phase,
                        unknown |-> Me(p).status = "outcome_unknown"]]

\* the checkpoint is the one that was read first
SamePhase(p) == Me(p).phase = req[p].phase

RecRead(p) ==
    /\ pc[p] = "recRead"
    /\ \/ /\ Me(p).phase \in Recoverable
          /\ Me(p).status \in {"succeeded", "outcome_unknown", "running"}
          /\ req' = Noted(p)
          /\ Goto(p, IF Me(p).status = "running" THEN "recClaim" ELSE "observe")
          /\ UNCHANGED <<lifecycle, told>> /\ Calm
       \/ /\ ~(Me(p).phase \in Recoverable
                 /\ Me(p).status \in {"succeeded", "outcome_unknown", "running"})
          /\ End(p, FALSE) /\ Calm
       \/ End(p, FALSE) /\ Disturbed
    /\ UNCHANGED <<row, held, world, aux, requests>>

(* An owner whose lease ran out is fenced out; a live one is left alone.    *)
RecClaim(p) ==
    /\ pc[p] = "recClaim"
    /\ RowFree(req[p].m)
    /\ \/ Resumable(p) /\ Claim(p, "recFail") /\ Calm
       \/ /\ Me(p).status \in {"succeeded", "outcome_unknown"} /\ SamePhase(p)
          /\ req' = Noted(p) /\ Goto(p, "observe") /\ UNCHANGED <<row, lifecycle, told>> /\ Calm
       \/ /\ ~Resumable(p)
          /\ ~(Me(p).status \in {"succeeded", "outcome_unknown"} /\ SamePhase(p))
          /\ UNCHANGED row /\ End(p, FALSE) /\ Calm
       \/ /\ Disturbed
          /\ \/ Resumable(p) /\ row' = [row EXCEPT ![req[p].m] = Claimed(p)]
             \/ UNCHANGED row
          /\ End(p, FALSE)
    /\ UNCHANGED <<held, world, aux, requests>>

RecFail(p) ==
    /\ pc[p] = "recFail"
    /\ RowFree(req[p].m)
    /\ \/ /\ Owns(p) /\ row' = [row EXCEPT ![req[p].m] = Finished(p, "outcome_unknown")]
          /\ IF SamePhase(p)
             THEN req' = [req EXCEPT ![p].unknown = TRUE] /\ Goto(p, "observe")
                    /\ UNCHANGED <<lifecycle, told>>
             ELSE End(p, FALSE)
          /\ Calm
       \/ ~Owns(p) /\ UNCHANGED row /\ End(p, FALSE) /\ Calm
       \/ /\ Disturbed
          /\ \/ Owns(p) /\ row' = [row EXCEPT ![req[p].m] = Finished(p, "outcome_unknown")]
             \/ UNCHANGED row
          /\ End(p, FALSE)
    /\ UNCHANGED <<held, world, aux, requests>>

(* Fault: a commit is taken for granted once traffic was routed.            *)
ConfirmedRoute(p) == route = req[p].m

\* requireStopped of the previous release, confirmActive and verifyDesired
Confirmed(p) == req[p].about \notin running /\ Serves(req[p].m)

ObserveWorld(p) ==
    Observe(p, "observe", Confirmed(p), IF req[p].unknown THEN "recover" ELSE "confirm")

(* reconcileProjectMutation: only an unknown outcome of the epoch observed. *)
Recover(p, here, next) ==
    /\ pc[p] = here
    /\ RowFree(req[p].m)
    /\ \/ /\ Me(p).status = "outcome_unknown" /\ Me(p).epoch = req[p].epoch
          /\ row' = [row EXCEPT ![req[p].m].status = "succeeded"]
          /\ Goto(p, next) /\ Stay /\ Calm
       \/ /\ ~(Me(p).status = "outcome_unknown" /\ Me(p).epoch = req[p].epoch)
          /\ UNCHANGED row /\ End(p, FALSE) /\ Calm
       \/ /\ Disturbed
          /\ \/ /\ Me(p).status = "outcome_unknown" /\ Me(p).epoch = req[p].epoch
                /\ row' = [row EXCEPT ![req[p].m].status = "succeeded"]
             \/ UNCHANGED row
          /\ End(p, FALSE)
    /\ UNCHANGED <<held, world, aux, requests>>

Confirm(p) ==
    /\ pc[p] = "confirm"
    /\ \/ End(p, Serves(req[p].m)) /\ Calm
       \/ End(p, FALSE) /\ Disturbed
    /\ UNCHANGED <<row, held, world, aux, requests>>

Reconcile(p) ==
    RecRead(p) \/ RecClaim(p) \/ RecFail(p) \/ ObserveWorld(p)
    \/ Recover(p, "recover", "confirm") \/ Confirm(p)

-----------------------------------------------------------------------------
(* deactivateConfigured.                                                    *)
DBegin(p) ==
    BeginOr(p, "dBegin", "dRead",
        /\ UNCHANGED row
        /\ IF Me(p).phase \in {"unrouted", "retired"} /\ Gone(req[p].about)
              /\ Me(p).status # "failed_terminal"
           THEN /\ req' = Noted(p) /\ UNCHANGED <<lifecycle, told>>
                /\ Goto(p, IF Me(p).status = "succeeded" THEN "gone" ELSE "dRecover")
           ELSE End(p, FALSE))

DRead(p) ==
    /\ pc[p] = "dRead"
    /\ \/ Goto(p, IF active = req[p].about THEN "dPrepared" ELSE "failClean") /\ Calm
       \/ Goto(p, "failClean") /\ Disturbed
    /\ Stay
    /\ UNCHANGED <<row, held, world, aux, requests>>

DPrepared(p) ==
    Update(p, "dPrepared", [Me(p) EXCEPT !.phase = "prepared"], "enterStop", "failClean")

Stop(p) ==
    Effect(p, "stop", TRUE, Runs(running \ {req[p].about}), "stopped", TRUE) /\ Counted(p)

Unroute(p) ==
    Effect(p, "unroute", route = req[p].about, Routes(None), "clear", FALSE) /\ Uncounted

Clear(p) ==
    Effect(p, "clear", active \in {req[p].about, None}, Records(None), "unrouted", TRUE) /\ Uncounted

Retire(p) ==
    Effect(p, "retire",
           req[p].about \notin running /\ route # req[p].about /\ active = None,
           Retires(req[p].about), "verifyGone", FALSE) /\ Uncounted

VerifyGone(p) == Effect(p, "verifyGone", Gone(req[p].about), Looks, "retired", TRUE) /\ Uncounted

GoneYet(p) ==
    /\ pc[p] = "gone"
    /\ \/ End(p, Gone(req[p].about)) /\ Calm
       \/ End(p, FALSE) /\ Disturbed
    /\ UNCHANGED <<row, held, world, aux, requests>>

Deactivate(p) ==
    \/ DBegin(p) \/ DRead(p) \/ DPrepared(p)
    \/ Enter(p, "enterStop", "stop") \/ Stop(p)
    \/ Save(p, "stopped", "enterUnroute", "failUnknown")
    \/ Enter(p, "enterUnroute", "unroute") \/ Unroute(p) \/ Clear(p)
    \/ Save(p, "unrouted", "enterRetire", "failUnknown")
    \/ Enter(p, "enterRetire", "retire") \/ Retire(p) \/ VerifyGone(p)
    \/ Save(p, "retired", "success", "failUnknown")
    \/ Recover(p, "dRecover", "gone") \/ GoneYet(p)

-----------------------------------------------------------------------------
(* retireConfigured: outside the lifecycle lock and the journal.            *)
RetireRead(p) ==
    LET a == req[p].about IN
    /\ pc[p] = "rRead"
    /\ \/ /\ alloc[a] # "none" /\ active # a
          /\ Goto(p, "rVerify") /\ Stay /\ Calm
          /\ hasty' = IF row[a].status \in {"absent", "running"} THEN hasty \cup {a} ELSE hasty
       \/ ~(alloc[a] # "none" /\ active # a) /\ End(p, FALSE) /\ UNCHANGED hasty /\ Calm
       \/ End(p, FALSE) /\ UNCHANGED hasty /\ Disturbed
    /\ UNCHANGED <<row, held, world, starts, intact, requests>>

(* Fault: only the route is looked at.                                      *)
RetireVerifyRoute(p) ==
    LET a == req[p].about IN
    Observe(p, "rVerify", alloc[a] = "held" /\ route # a, "rCommit")

\* one that is retired already is left as it is
RetireVerify(p) ==
    LET a == req[p].about IN
    Observe(p, "rVerify", alloc[a] = "held" /\ a \notin running /\ route # a, "rCommit")

RetireCommit(p) ==
    /\ pc[p] = "rCommit"
    /\ \/ alloc' = [alloc EXCEPT ![req[p].about] = "retired"] /\ Calm
       \/ UNCHANGED alloc /\ Disturbed
    /\ End(p, FALSE)
    /\ UNCHANGED <<row, held, active, running, route, aux, requests>>

RetireRequest(p) == RetireRead(p) \/ RetireVerify(p) \/ RetireCommit(p)

-----------------------------------------------------------------------------
(* Time and failures.                                                       *)
Expire(m) ==
    /\ row[m].live
    /\ Disturbed
    /\ row' = [row EXCEPT ![m].live = FALSE]
    /\ UNCHANGED <<held, lifecycle, world, pc, req, told, aux, requests>>

Crash(p) ==
    /\ pc[p] # "idle"
    /\ Disturbed
    /\ End(p, FALSE)
    /\ held' = Left(p)
    /\ UNCHANGED <<row, world, aux, requests>>

LoseLifecycle ==
    /\ lifecycle # None
    /\ Disturbed
    /\ lifecycle' = None
    /\ UNCHANGED <<row, held, world, pc, req, told, aux, requests>>

LoseTransaction(m) ==
    /\ held[m] # None
    /\ Disturbed
    /\ held' = [held EXCEPT ![m] = None]
    /\ intact' = FALSE
    /\ UNCHANGED <<row, lifecycle, world, pc, req, told, starts, hasty, requests>>

Serve(p) ==
    \/ Activate(p) \/ Reconcile(p) \/ Deactivate(p) \/ RetireRequest(p)
    \/ FailClean(p) \/ FailUnknown(p)

Next ==
    \/ \E p \in Processes :
          \/ RequestActivate(p) \/ RequestDeactivate(p) \/ RequestReconcile(p) \/ RequestRetire(p)
          \/ Serve(p) \/ Crash(p)
    \/ \E m \in Mutations : Expire(m) \/ LoseTransaction(m)
    \/ LoseLifecycle

Spec == Init /\ [][Next]_vars

-----------------------------------------------------------------------------
(* While no mutation of the application is under way or in doubt, the       *)
(* authority, the units and the gateway agree: exactly the active release   *)
(* runs and is routed to, whatever failed, died or timed out before.        *)
Settled ==
    (\A m \in Mutations : ~ActiveRow(m)) =>
        /\ running = (IF active = None THEN {} ELSE {active})
        /\ route = active

(* Two releases of an application never run at the same time.               *)
OneRelease == Cardinality(running) <= 1

(* The effects of a mutation are carried out once, however often it is      *)
(* retried, resumed or reconciled: an interruption is never replayed.       *)
NoReplay == \A m \in Mutations : starts[m] <= 1

(* The effects of two processes never interleave.                           *)
EffectsExclude ==
    intact => \A p, q \in Processes : p # q => ~(pc[p] \in Inside /\ pc[q] \in Inside)

(* What a client was told of a success is on record, for good.              *)
ToldIsRecorded == \A m \in told : row[m].status = "succeeded"

(* What the lock, the index on the active mutation and the epoch guarantee. *)
ActivationConsistent == ActivationTypeOK /\ EffectsExclude /\ ToldIsRecorded

(* A verdict stands, and an unknown outcome only becomes a success that was *)
(* observed: of an activation that serves, or of a removal that is done.    *)
VerdictsStand ==
    [][\A m \in Mutations :
          /\ row[m].status \in {"succeeded", "failed_terminal"} => row'[m].status = row[m].status
          /\ row[m].status = "outcome_unknown" /\ row'[m].status # "outcome_unknown" =>
                /\ row'[m].status = "succeeded"
                /\ IF m \in Activations THEN Serves(m) ELSE Gone(row[m].about)]_vars

(* Ports are given back only by a release that is out of service, unless    *)
(* they were asked back while its activation was not concluded.             *)
RetiredIsGone ==
    intact => \A a \in Activations \ hasty :
        alloc[a] = "retired" => a \notin running /\ route # a /\ active # a
=============================================================================
