-------------------------- MODULE BranchReplacement --------------------------
(***************************************************************************)
(* Replacement of a project's database by a copy of a branch's database    *)
(* (replaceParentDatabaseFromBranch of branch.service.ts): the databases   *)
(* of the cluster by name, the row of branch_replacement_journal, the      *)
(* runtime that serves the parent database, the session lock of            *)
(* migration-lock.ts, the periodic recovery sweep, and the migrations that *)
(* lock and journal keep out.                                              *)
(*                                                                         *)
(* Every call that leaves a handler may be refused, may fail, or may take  *)
(* effect although its caller sees an error; a process may die between any *)
(* two calls.  The lock belongs to a connection of its own: when that      *)
(* connection is lost the lock is free, and its holder goes on.            *)
(***************************************************************************)
EXTENDS Naturals

CONSTANTS
    Requests,    \* requests to replace the parent's database
    Executors,   \* migrations that check the journal under the lock
    SqlRoutes,   \* migrations through POST /sql, which check it before
    Sweeper,     \* the recovery worker
    Nobody,
    MaxFaults,   \* calls that fail, processes that die, locks that are lost
    LossCost     \* what a lost lock counts for among them

Migrations == Executors \cup SqlRoutes
Actors     == Requests \cup {Sweeper}

ASSUME ReplacementAssumption ==
    /\ Executors \cap SqlRoutes = {}
    /\ Requests \cap Migrations = {}
    /\ Sweeper \notin Requests \cup Migrations
    /\ Nobody \notin Actors \cup Migrations
    /\ MaxFaults \in Nat
    /\ LossCost \in Nat \ {0}

VARIABLES
    db,         \* what each database name holds
    journal,    \* the row of the parent in branch_replacement_journal
    runtime,    \* the services on top of the parent's database
    lock,       \* the holder of the parent's session lock
    pc,         \* where each request and the sweeper are
    job,        \* the journal entry an actor recovers
    sound,      \* rollbackSucceeded of each request
    answer,     \* what the client of each request was told
    migration,  \* where each migration is
    faults,
    exclusive   \* auxiliary: no lock has been lost so far

world == <<db, journal, runtime>>
vars  == <<world, lock, pc, job, sound, answer, migration, faults, exclusive>>

-----------------------------------------------------------------------------
(* Databases.  A request's temporary and backup names are its own.          *)
Parent    == <<"parent", Nobody>>
Temp(r)   == <<"temp", r>>
Backup(r) == <<"backup", r>>
Names     == {Parent} \cup {Temp(r) : r \in Requests} \cup {Backup(r) : r \in Requests}

Kinds     == {"absent", "original", "partial", "copy"}
Databases == [kind : Kinds, of : Requests \cup {Nobody}, open : BOOLEAN]
Absent    == [kind |-> "absent", of |-> Nobody, open |-> FALSE]

Exists(n) == db[n] # Absent
Served    == Exists(Parent) /\ db[Parent].open

Renamed(from, to)      == [db EXCEPT ![to] = db[from], ![from] = Absent]
Dropped(n)             == [db EXCEPT ![n] = Absent]
ConnectionsAllowed(b)  == [db EXCEPT ![Parent].open = b]
Holding(n, k, r)       == [db EXCEPT ![n] = [kind |-> k, of |-> r, open |-> TRUE]]

(* The journal.  Recovery looks at the databases and not at the phase, so   *)
(* of the columns the request and replacement_committed remain.             *)
NoEntry  == [of |-> Nobody, committed |-> FALSE]
Begun(r) == [of |-> r, committed |-> FALSE]

Marked(b) == IF journal = NoEntry THEN NoEntry ELSE [journal EXCEPT !.committed = b]

Entries == [of : Requests \cup {Nobody}, committed : BOOLEAN]
Jobs    == [of : Requests \cup {Nobody}, committed : BOOLEAN, temp : BOOLEAN]
NoJob   == [of |-> Nobody, committed |-> FALSE, temp |-> FALSE]

Places ==
    {"idle", "check", "look", "reName", "reOpen", "reDrop", "reStart", "reRemove",
     "reMark", "begin", "create", "clone", "discard", "abandon", "prepared", "stop",
     "shut", "noteShut", "rename1", "noteRenamed", "rename2", "noteCommitted",
     "lateRestart", "lateMark", "restart", "finish", "rollBack", "rollOpen",
     "rollDrop", "rollStart", "rollEnd", "done", "dead"}

\* "restarted": by a caller of restartRuntime that is none of the actors
Runtimes == {"running", "down", "restarted"}

Answers == {"none", "locked", "blocked", "failed", "pending", "committed", "promoted"}

BranchTypeOK ==
    /\ db \in [Names -> Databases]
    /\ journal \in Entries
    /\ runtime \in Runtimes
    /\ lock \in Actors \cup Migrations \cup {Nobody}
    /\ pc \in [Actors -> Places]
    /\ job \in [Actors -> Jobs]
    /\ sound \in [Requests -> BOOLEAN]
    /\ answer \in [Requests -> Answers]
    /\ migration \in [Migrations -> {"idle", "locked", "checked", "running"}]
    /\ faults \in 0..MaxFaults
    /\ exclusive \in BOOLEAN
    /\ journal.of = Nobody => journal = NoEntry

Init ==
    /\ db = [n \in Names |-> IF n = Parent
                             THEN [kind |-> "original", of |-> Nobody, open |-> TRUE]
                             ELSE Absent]
    /\ journal = NoEntry
    /\ runtime = "running"
    /\ lock = Nobody
    /\ pc = [a \in Actors |-> "idle"]
    /\ job = [a \in Actors |-> NoJob]
    /\ sound = [r \in Requests |-> TRUE]
    /\ answer = [r \in Requests |-> "none"]
    /\ migration = [m \in Migrations |-> "idle"]
    /\ faults = 0
    /\ exclusive = TRUE

-----------------------------------------------------------------------------
(* Calls.                                                                   *)
Goto(a, place) == pc' = [pc EXCEPT ![a] = place]

Disturbed == faults < MaxFaults /\ faults' = faults + 1

locals == <<job, sound, answer, migration, exclusive>>

(* A call that is carried out, refused where it is not possible, or ends in *)
(* an error whether or not it took effect.                                  *)
Call(a, possible, Effect, ok, err) ==
    /\ \/ possible  /\ Effect          /\ Goto(a, ok)  /\ UNCHANGED faults
       \/ ~possible /\ UNCHANGED world /\ Goto(a, err) /\ UNCHANGED faults
       \/ /\ Disturbed
          /\ \/ possible /\ Effect
             \/ UNCHANGED world
          /\ Goto(a, err)
    /\ UNCHANGED <<lock, locals>>

SetDb(d)      == db' = d /\ UNCHANGED <<journal, runtime>>
SetJournal(j) == journal' = j /\ UNCHANGED <<db, runtime>>

(* Fault: a database in the way is dropped first.                           *)
RenameOver(a, from, to, ok, err) ==
    Call(a, Exists(from), SetDb(Renamed(from, to)), ok, err)

Rename(a, from, to, ok, err) ==
    Call(a, Exists(from) /\ ~Exists(to), SetDb(Renamed(from, to)), ok, err)

Allow(a, b, ok, err) ==
    Call(a, Exists(Parent), SetDb(ConnectionsAllowed(b)), ok, err)

Drop(a, n, ok, err)    == Call(a, TRUE, SetDb(Dropped(n)), ok, err)
Write(a, j, ok, err)   == Call(a, TRUE, SetJournal(j), ok, err)
Mark(a, b, ok, err)    == Write(a, Marked(b), ok, err)
Note(a, ok, err)       == Write(a, journal, ok, err)
Remove(a, ok, err)     == Write(a, NoEntry, ok, err)

(* restartParentRuntimeAndVerify: the services come up only on a parent     *)
(* that exists and lets them in.                                            *)
Restart(a, ok, err) ==
    /\ \/ Served  /\ runtime' = "running" /\ Goto(a, ok)  /\ UNCHANGED faults
       \/ ~Served /\ runtime' = "down"    /\ Goto(a, err) /\ UNCHANGED faults
       \/ /\ Disturbed
          /\ runtime' = "down" \/ (Served /\ runtime' = "running")
          /\ Goto(a, err)
    /\ UNCHANGED <<db, journal, lock, locals>>

Released(a) == IF lock = a THEN Nobody ELSE lock

Answer(r, told) ==
    /\ Goto(r, "done")
    /\ answer' = [answer EXCEPT ![r] = told]
    /\ lock' = Released(r)
    /\ UNCHANGED <<job, sound, migration, exclusive>>

(* A last call whose failure is logged and ignored.                         *)
LastCall(r, j, told) ==
    /\ \/ journal' = j /\ UNCHANGED faults
       \/ journal' \in {j, journal} /\ Disturbed
    /\ UNCHANGED <<db, runtime>>
    /\ Answer(r, told)

-----------------------------------------------------------------------------
(* recoverReplacementJournalEntry, for a request and for the sweeper.       *)

Rest(a) ==
    /\ Goto(a, "idle")
    /\ lock' = Released(a)
    /\ UNCHANGED <<job, sound, answer, migration, exclusive>>

(* The sweeper takes an entry that list() returned, if the lock is free.    *)
Sweep ==
    /\ pc[Sweeper] = "idle"
    /\ journal # NoEntry
    /\ lock = Nobody
    /\ lock' = Sweeper
    /\ Goto(Sweeper, "check")
    /\ UNCHANGED <<world, locals, faults>>

(* The entry is read again under the lock.                                  *)
Check(a) ==
    /\ pc[a] = "check"
    /\ UNCHANGED world
    /\ \/ /\ journal = NoEntry
          /\ UNCHANGED faults
          /\ IF a = Sweeper THEN Rest(a)
             ELSE Goto(a, "begin") /\ UNCHANGED <<lock, locals>>
       \/ /\ journal # NoEntry
          /\ job' = [job EXCEPT ![a] = [of |-> journal.of, committed |-> journal.committed,
                                        temp |-> FALSE]]
          /\ Goto(a, "look")
          /\ UNCHANGED <<lock, sound, answer, migration, exclusive, faults>>
       \/ /\ Disturbed
          /\ IF a = Sweeper THEN Rest(a) ELSE Answer(a, "failed")

(* Fault: a switch that was interrupted halfway is not recognised.          *)
NextRecoveryWhole(p, b, t) ==
    IF p /\ b /\ ~t THEN "reStart" ELSE IF p /\ ~b THEN "reOpen" ELSE "reMark"

(* Which names exist decides: only the runtime is missing, the switch did   *)
(* not begin, it was interrupted halfway, or it cannot be told.             *)
NextRecovery(p, b, t) ==
    IF p /\ b /\ ~t THEN "reStart"
    ELSE IF p /\ ~b THEN "reOpen"
    ELSE IF ~p /\ b THEN "reName"
    ELSE "reMark"

Look(a) ==
    LET p == Exists(Parent)
        b == Exists(Backup(job[a].of))
        t == Exists(Temp(job[a].of))
    IN
    /\ pc[a] = "look"
    /\ UNCHANGED world
    /\ \/ /\ Goto(a, NextRecovery(p, b, t))
          /\ job' = [job EXCEPT ![a] = [of |-> @.of, temp |-> t,
                                        committed |-> @.committed \/ (p /\ b /\ ~t)]]
          /\ UNCHANGED <<lock, sound, answer, migration, exclusive, faults>>
       \/ /\ Disturbed
          /\ IF a = Sweeper THEN Rest(a) ELSE Answer(a, "failed")

ReName(a) ==
    /\ pc[a] = "reName"
    /\ Rename(a, Backup(job[a].of), Parent, "reOpen", "reMark")

ReOpen(a) ==
    /\ pc[a] = "reOpen"
    /\ Allow(a, TRUE, IF job[a].temp THEN "reDrop" ELSE "reStart", "reMark")

ReDrop(a)  == pc[a] = "reDrop"  /\ Drop(a, Temp(job[a].of), "reStart", "reMark")
ReStart(a) == pc[a] = "reStart" /\ Restart(a, "reRemove", "reMark")

(* The entry goes; a request carries on with its own replacement.           *)
ReRemove(a) ==
    /\ pc[a] = "reRemove"
    /\ UNCHANGED <<db, runtime>>
    /\ \/ /\ journal' = NoEntry
          /\ UNCHANGED faults
          /\ IF a = Sweeper THEN Rest(a)
             ELSE Goto(a, "begin") /\ UNCHANGED <<lock, locals>>
       \/ /\ Disturbed
          /\ journal' \in {journal, NoEntry}
          /\ Goto(a, "reMark")
          /\ UNCHANGED <<lock, locals>>

ReMark(a) ==
    /\ pc[a] = "reMark"
    /\ UNCHANGED <<db, runtime>>
    /\ \/ journal' = Marked(job[a].committed) /\ UNCHANGED faults
       \/ UNCHANGED journal /\ Disturbed
    /\ IF a = Sweeper THEN Rest(a)
       ELSE Answer(a, "blocked")

Recovery(a) ==
    \/ Check(a) \/ Look(a) \/ ReName(a) \/ ReOpen(a) \/ ReDrop(a) \/ ReStart(a)
    \/ ReRemove(a) \/ ReMark(a)

-----------------------------------------------------------------------------
(* replaceParentDatabaseFromBranch: another holder of the lock is a 423.    *)
Acquire(r) ==
    /\ pc[r] = "idle"
    /\ UNCHANGED <<world, faults>>
    /\ \/ /\ lock = Nobody
          /\ lock' = r
          /\ Goto(r, "check")
          /\ UNCHANGED locals
       \/ /\ lock # Nobody
          /\ Answer(r, "locked")

(* The journal is written before anything else.                             *)
Begin(r) ==
    /\ pc[r] = "begin"
    /\ UNCHANGED <<db, runtime>>
    /\ \/ /\ journal' = Begun(r)
          /\ Goto(r, "create")
          /\ UNCHANGED <<lock, locals, faults>>
       \/ /\ Disturbed
          /\ journal' \in {journal, Begun(r)}
          /\ Answer(r, "failed")

(* prepareReplacementDatabase: an empty database, then dump and restore,    *)
(* grants and validation.                                                   *)
Create(r) ==
    /\ pc[r] = "create"
    /\ Call(r, ~Exists(Temp(r)), SetDb(Holding(Temp(r), "partial", r)), "clone", "discard")

(* Fault: the exit code of the restore is not looked at.                    *)
CloneUnchecked(r) ==
    /\ pc[r] = "clone"
    /\ Call(r, Exists(Temp(r)), SetDb(Holding(Temp(r), "copy", r)), "prepared", "prepared")

Clone(r) ==
    /\ pc[r] = "clone"
    /\ Call(r, Exists(Temp(r)), SetDb(Holding(Temp(r), "copy", r)), "prepared", "discard")

Discard(r)  == pc[r] = "discard"  /\ Drop(r, Temp(r), "abandon", "abandon")
Prepared(r) == pc[r] = "prepared" /\ Note(r, "stop", "abandon")
Abandon(r)  == pc[r] = "abandon"  /\ LastCall(r, NoEntry, "failed")

(* switchParentDatabase.  An error is undone as far as the calls before it  *)
(* are known to have succeeded.                                             *)
Stop(r) ==
    /\ pc[r] = "stop"
    /\ Call(r, TRUE, runtime' = "down" /\ UNCHANGED <<db, journal>>, "shut", "rollDrop")

Shut(r)     == pc[r] = "shut"     /\ Allow(r, FALSE, "noteShut", "rollDrop")
NoteShut(r) == pc[r] = "noteShut" /\ Note(r, "rename1", "rollOpen")

(* The connections that are left are terminated first.                      *)
RenameParent(r) ==
    /\ pc[r] = "rename1"
    /\ Rename(r, Parent, Backup(r), "noteRenamed", "rollOpen")

(* Fault: the commit is recorded one rename early.                          *)
NoteRenamedEarly(r) == pc[r] = "noteRenamed" /\ Mark(r, TRUE, "rename2", "rollBack")

NoteRenamed(r) == pc[r] = "noteRenamed" /\ Note(r, "rename2", "rollBack")

RenameTemp(r) ==
    /\ pc[r] = "rename2"
    /\ Rename(r, Temp(r), Parent, "noteCommitted", "rollBack")

NoteCommitted(r) == pc[r] = "noteCommitted" /\ Mark(r, TRUE, "restart", "lateRestart")

(* The switch is done: whatever fails now is left to the recovery.          *)
LateRestart(r) == pc[r] = "lateRestart" /\ Restart(r, "lateMark", "lateMark")
LateMark(r)    == pc[r] = "lateMark"    /\ LastCall(r, Marked(TRUE), "committed")
RestartNew(r)  == pc[r] = "restart"     /\ Restart(r, "finish", "lateMark")
Finish(r)      == pc[r] = "finish"      /\ LastCall(r, NoEntry, "promoted")

(* recoverReplacementSwitch.                                                *)
Undo(r, possible, d, ok) ==
    /\ \/ possible  /\ db' = d /\ Goto(r, ok)         /\ UNCHANGED <<sound, faults>>
       \/ ~possible /\ UNCHANGED <<db, faults>>        /\ Goto(r, "rollDrop")
          /\ sound' = [sound EXCEPT ![r] = FALSE]
       \/ /\ Disturbed
          /\ db' \in {db} \cup (IF possible THEN {d} ELSE {})
          /\ Goto(r, "rollDrop")
          /\ sound' = [sound EXCEPT ![r] = FALSE]
    /\ UNCHANGED <<journal, runtime, lock, job, answer, migration, exclusive>>

RollBack(r) ==
    /\ pc[r] = "rollBack"
    /\ Undo(r, Exists(Backup(r)) /\ ~Exists(Parent), Renamed(Backup(r), Parent), "rollOpen")

RollOpen(r) ==
    /\ pc[r] = "rollOpen"
    /\ Undo(r, Exists(Parent), ConnectionsAllowed(TRUE), "rollDrop")

RollDrop(r)  == pc[r] = "rollDrop"  /\ Drop(r, Temp(r), "rollStart", "rollStart")
RollStart(r) == pc[r] = "rollStart" /\ Restart(r, "rollEnd", "rollEnd")

(* Fault: the outcome of the rollback is not looked at.                     *)
RollEndAlike(r) == pc[r] = "rollEnd" /\ LastCall(r, NoEntry, "failed")

RollEnd(r) ==
    /\ pc[r] = "rollEnd"
    /\ IF sound[r] THEN LastCall(r, NoEntry, "failed")
                   ELSE LastCall(r, Marked(FALSE), "pending")

Handler(r) ==
    \/ Acquire(r) \/ Begin(r) \/ Create(r) \/ Clone(r) \/ Discard(r) \/ Prepared(r)
    \/ Abandon(r) \/ Stop(r) \/ Shut(r) \/ NoteShut(r) \/ RenameParent(r)
    \/ NoteRenamed(r) \/ RenameTemp(r) \/ NoteCommitted(r) \/ LateRestart(r)
    \/ LateMark(r) \/ RestartNew(r) \/ Finish(r) \/ RollBack(r) \/ RollOpen(r)
    \/ RollDrop(r) \/ RollStart(r) \/ RollEnd(r)

-----------------------------------------------------------------------------
(* Migrations.  One that is refused leaves no trace.                        *)
Moves(m, place) == migration' = [migration EXCEPT ![m] = place]

\* assertInactive
Inactive == journal = NoEntry

(* applyRecordedMigration, the baseline, branch provisioning and promotion. *)
ExecutorLocks(m) ==
    /\ migration[m] = "idle"
    /\ lock = Nobody
    /\ lock' = m
    /\ Moves(m, "locked")
    /\ UNCHANGED <<world, pc, job, sound, answer, faults, exclusive>>

ExecutorChecks(m) ==
    /\ migration[m] = "locked"
    /\ \/ Inactive /\ Moves(m, "running") /\ UNCHANGED lock
       \/ ~Inactive /\ Moves(m, "idle") /\ lock' = Released(m)
    /\ UNCHANGED <<world, pc, job, sound, answer, faults, exclusive>>

(* POST /sql in migration mode.                                             *)
SqlChecks(m) ==
    /\ migration[m] = "idle"
    /\ Inactive
    /\ Moves(m, "checked")
    /\ UNCHANGED <<world, lock, pc, job, sound, answer, faults, exclusive>>

SqlLocks(m) ==
    /\ migration[m] = "checked"
    /\ \/ lock = Nobody /\ lock' = m /\ Moves(m, "running")
       \/ lock # Nobody /\ UNCHANGED lock /\ Moves(m, "idle")
    /\ UNCHANGED <<world, pc, job, sound, answer, faults, exclusive>>

(* The migration commits or fails, or its process dies.                     *)
MigrationEnds(m) ==
    /\ migration[m] \in {"locked", "running"}
    /\ Moves(m, "idle")
    /\ lock' = Released(m)
    /\ UNCHANGED <<world, pc, job, sound, answer, faults, exclusive>>

-----------------------------------------------------------------------------
(* A process dies: its connections close.  The sweeper comes back.          *)
Crash(a) ==
    /\ pc[a] \notin {"idle", "done", "dead"}
    /\ Disturbed
    /\ Goto(a, IF a = Sweeper THEN "idle" ELSE "dead")
    /\ lock' = Released(a)
    /\ UNCHANGED <<world, job, sound, answer, migration, exclusive>>

LoseLock ==
    /\ lock # Nobody
    /\ faults + LossCost <= MaxFaults
    /\ faults' = faults + LossCost
    /\ lock' = Nobody
    /\ exclusive' = FALSE
    /\ UNCHANGED <<world, pc, job, sound, answer, migration>>

(* restartRuntime for other reasons (the user asks for it, settings, keys   *)
(* or a domain change, a diagnosis repairs it) takes no lock and consults   *)
(* no journal.                                                              *)
RestartElsewhere ==
    /\ runtime' \in {"restarted", "down"}
    /\ UNCHANGED <<db, journal, lock, pc, job, sound, answer, migration, faults, exclusive>>

Next ==
    \/ Sweep
    \/ \E a \in Actors : Recovery(a) \/ Crash(a)
    \/ \E r \in Requests : Handler(r)
    \/ \E m \in Executors : ExecutorLocks(m) \/ ExecutorChecks(m)
    \/ \E m \in SqlRoutes : SqlChecks(m) \/ SqlLocks(m)
    \/ \E m \in Migrations : MigrationEnds(m)
    \/ LoseLock
    \/ RestartElsewhere

Spec == Init /\ [][Next]_vars

\* Handlers run on and migrations end.  The sweep comes every minute: it does
\* not find the lock taken each time.
FairSpec ==
    /\ Spec
    /\ SF_vars(Sweep)
    /\ WF_vars(Recovery(Sweeper))
    /\ \A r \in Requests : WF_vars(Recovery(r)) /\ WF_vars(Handler(r))
    /\ \A m \in Migrations : WF_vars(ExecutorChecks(m)) /\ WF_vars(MigrationEnds(m))

-----------------------------------------------------------------------------
(* Whatever fails or dies, and even if two handlers run at once because a   *)
(* lock was lost, the project's own data is never dropped or overwritten.   *)
PreviousDataKept == \E n \in Names : db[n].kind = "original"

(* The parent's name never refers to a half-restored copy.                  *)
ParentIsWhole == db[Parent].kind # "partial"

(* Under the lock, a parent whose name is taken away can be found again by  *)
(* the recovery: the entry that stands names the backup that holds it.      *)
AwayIsJournaled ==
    exclusive /\ ~Exists(Parent) => journal # NoEntry /\ Exists(Backup(journal.of))

(* What a replacement found running or brought up is never left on top of a *)
(* parent that is away or lets nobody in: it is stopped before, and started *)
(* after.  A restart from elsewhere can do that, and is told apart.         *)
RunningIsServed == exclusive /\ runtime = "running" => Served

(* A client that was told of a failure, and of no recovery to come, keeps   *)
(* its database: the copy is never put in place later.                      *)
FailureIsFinal ==
    \A r \in Requests : exclusive /\ answer[r] = "failed" => db[Parent].of # r

(* The journal speaks of a commit, and a client is told of one, only when   *)
(* the copy is the parent and the database it replaced is kept.             *)
SwitchedFor(r) == db[Parent].of = r /\ Exists(Backup(r))

CommitIsReal ==
    [][exclusive' =>
          /\ journal.committed' => SwitchedFor(journal.of)'
          /\ \A r \in Requests :
                answer'[r] # answer[r] /\ answer'[r] \in {"committed", "promoted"} =>
                    SwitchedFor(r)']_vars

(* "Database migrations are blocked while replacement recovery is active":  *)
(* for the entry points that consult the journal under the lock.            *)
MigrationsBlocked ==
    \A m \in Executors : exclusive /\ migration[m] = "running" => journal = NoEntry

(* What the lock and the journal together guarantee while the lock is held. *)
BranchConsistent ==
    /\ BranchTypeOK
    /\ AwayIsJournaled /\ RunningIsServed /\ FailureIsFinal /\ MigrationsBlocked

(* The same for POST /sql.                                                  *)
SqlMigrationsBlocked ==
    \A m \in SqlRoutes : exclusive /\ migration[m] = "running" => journal = NoEntry

(* An interrupted replacement is completed or undone, and its entry goes.   *)
RecoveryConcludes == journal # NoEntry ~> journal = NoEntry \/ ~exclusive
=============================================================================
