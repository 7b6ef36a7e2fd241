----------------------- MODULE BranchReplacementProofs -----------------------
(***************************************************************************)
(* Proofs about the replacement of a parent database, for any number of    *)
(* requests, migrations and faults.                                        *)
(*                                                                         *)
(* DataInv says where the data is and needs no lock.  Orderly says what    *)
(* each actor knows at each place about databases, journal and runtime; it *)
(* holds as long as no lock was lost, because then nobody else acts.  The  *)
(* lemmas go by the calls of a handler: what a call leaves behind, what    *)
(* that leaves of the databases, what the next place asks for.             *)
(***************************************************************************)
EXTENDS BranchReplacement, TLAPS

(* The parent's, the temporary and the backup names are pairwise            *)
(* different.                                                               *)
LEMMA NamesDiffer ==
    ASSUME NEW r \in Requests
    PROVE  /\ Parent \in Names /\ Temp(r) \in Names /\ Backup(r) \in Names
           /\ Temp(r) # Parent /\ Backup(r) # Parent
           /\ \A q \in Requests :
                 /\ Temp(r) # Backup(q) /\ Backup(r) # Temp(q)
                 /\ Temp(r) = Temp(q) => r = q
                 /\ Backup(r) = Backup(q) => r = q
BY DEF Names, Parent, Temp, Backup

(* ALTER DATABASE ... RENAME moves one database and leaves the rest.        *)
LEMMA RenamedAt ==
    ASSUME db \in [Names -> Databases], NEW m \in Names, NEW n \in Names, m # n,
           db' = Renamed(m, n)
    PROVE  /\ db' \in [Names -> Databases]
           /\ db'[n] = db[m] /\ db'[m] = Absent
           /\ \A k \in Names \ {m, n} : db'[k] = db[k]
<1>1. Absent \in Databases
  BY DEF Absent, Databases, Kinds
<1> QED
  BY <1>1 DEF Renamed

(* ALTER DATABASE ... ALLOW_CONNECTIONS changes nothing but that.           *)
LEMMA AllowedAt ==
    ASSUME db \in [Names -> Databases], NEW b \in BOOLEAN, db' = ConnectionsAllowed(b)
    PROVE  /\ db' \in [Names -> Databases]
           /\ db'[Parent].kind = db[Parent].kind /\ db'[Parent].of = db[Parent].of
           /\ db'[Parent].open = b
           /\ \A k \in Names \ {Parent} : db'[k] = db[k]
BY DEF ConnectionsAllowed, Databases, Names

(* DROP DATABASE empties one name.                                          *)
LEMMA DroppedAt ==
    ASSUME db \in [Names -> Databases], NEW n \in Names, db' = Dropped(n)
    PROVE  /\ db' \in [Names -> Databases]
           /\ db'[n] = Absent
           /\ \A k \in Names \ {n} : db'[k] = db[k]
<1>1. Absent \in Databases
  BY DEF Absent, Databases, Kinds
<1> QED
  BY <1>1 DEF Dropped

(* CREATE DATABASE and the restore fill one name.                           *)
LEMMA HoldingAt ==
    ASSUME db \in [Names -> Databases], NEW n \in Names, NEW k \in Kinds,
           NEW r \in Requests, db' = Holding(n, k, r)
    PROVE  /\ db' \in [Names -> Databases]
           /\ db'[n].kind = k /\ db'[n].of = r
           /\ \A i \in Names \ {n} : db'[i] = db[i]
BY DEF Holding, Databases

(* An update of the journal keeps the request, and brings no entry back.    *)
LEMMA MarkedAt ==
    ASSUME BranchTypeOK, NEW b \in BOOLEAN
    PROVE  /\ Marked(b) \in Entries
           /\ Marked(b).of = journal.of
           /\ Marked(b).committed => b /\ journal # NoEntry
           /\ journal = NoEntry => Marked(b) = NoEntry
           /\ Marked(b).of = Nobody => Marked(b) = NoEntry
<1>1. NoEntry \in Entries /\ NoEntry.of = Nobody /\ ~NoEntry.committed
  BY DEF NoEntry, Entries
<1>2. CASE journal = NoEntry
  BY <1>1, <1>2 DEF Marked
<1>3. CASE journal # NoEntry
  BY <1>1, <1>3 DEF Marked, Entries, BranchTypeOK
<1> QED
  BY <1>2, <1>3

-----------------------------------------------------------------------------
(* What a call leaves behind: where its actor goes on, and that it took     *)
(* effect, if it did, where it was possible.                                *)
Moved(a, place) ==
    /\ Goto(a, place)
    /\ faults' \in 0..MaxFaults
    /\ UNCHANGED <<lock, locals>>

(* A disturbed call stays within the bound on faults.                       *)
LEMMA DisturbedTyped ==
    ASSUME BranchTypeOK, Disturbed PROVE faults' \in 0..MaxFaults
BY ReplacementAssumption DEF BranchTypeOK, Disturbed

(* A rename that took effect found its source and no database in the way.   *)
LEMMA RenameStep ==
    ASSUME BranchTypeOK, NEW a, NEW m, NEW n, NEW ok, NEW err,
           Rename(a, m, n, ok, err)
    PROVE  /\ UNCHANGED <<journal, runtime>>
           /\ \/ /\ Moved(a, ok) \/ Moved(a, err)
                 /\ Exists(m) /\ ~Exists(n) /\ db' = Renamed(m, n)
              \/ Moved(a, err) /\ db' = db
BY DisturbedTyped DEF Rename, Call, SetDb, Moved, world, BranchTypeOK

(* ALLOW_CONNECTIONS takes effect only on a parent that exists.             *)
LEMMA AllowStep ==
    ASSUME BranchTypeOK, NEW a, NEW b, NEW ok, NEW err, Allow(a, b, ok, err)
    PROVE  /\ UNCHANGED <<journal, runtime>>
           /\ \/ /\ Moved(a, ok) \/ Moved(a, err)
                 /\ Exists(Parent) /\ db' = ConnectionsAllowed(b)
              \/ Moved(a, err) /\ db' = db
BY DisturbedTyped DEF Allow, Call, SetDb, Moved, world, BranchTypeOK

(* A drop, carried out or not.                                              *)
LEMMA DropStep ==
    ASSUME BranchTypeOK, NEW a, NEW n, NEW ok, NEW err, Drop(a, n, ok, err)
    PROVE  /\ UNCHANGED <<journal, runtime>>
           /\ \/ /\ Moved(a, ok) \/ Moved(a, err)
                 /\ db' = Dropped(n)
              \/ Moved(a, err) /\ db' = db
BY DisturbedTyped DEF Drop, Call, SetDb, Moved, world, BranchTypeOK

(* A write to the journal, carried out or not.                              *)
LEMMA WriteStep ==
    ASSUME BranchTypeOK, NEW a, NEW j, NEW ok, NEW err, Write(a, j, ok, err)
    PROVE  /\ UNCHANGED <<db, runtime>>
           /\ \/ /\ Moved(a, ok) \/ Moved(a, err)
                 /\ journal' = j
              \/ Moved(a, err) /\ journal' = journal
BY DisturbedTyped DEF Write, Call, SetJournal, Moved, world, BranchTypeOK

(* The services come up only on a parent that serves.                       *)
LEMMA RestartStep ==
    ASSUME BranchTypeOK, NEW a, NEW ok, NEW err, Restart(a, ok, err)
    PROVE  /\ UNCHANGED <<db, journal>>
           /\ \/ Moved(a, ok) /\ Served /\ runtime' = "running"
              \/ Moved(a, err) /\ Served /\ runtime' = "running"
              \/ Moved(a, err) /\ runtime' = "down"
BY DisturbedTyped DEF Restart, Moved, BranchTypeOK

(* The temporary database is created, or the request turns to discard it.   *)
LEMMA CreateStep ==
    ASSUME BranchTypeOK, NEW r, Create(r)
    PROVE  /\ UNCHANGED <<journal, runtime>>
           /\ \/ /\ Moved(r, "clone") \/ Moved(r, "discard")
                 /\ db' = Holding(Temp(r), "partial", r)
              \/ Moved(r, "discard") /\ db' = db
BY DisturbedTyped DEF Create, Call, SetDb, Moved, world, BranchTypeOK

(* Only a restore that succeeded leads to the switch.                       *)
LEMMA CloneStep ==
    ASSUME BranchTypeOK, NEW r, Clone(r)
    PROVE  /\ UNCHANGED <<journal, runtime>>
           /\ \/ /\ Moved(r, "prepared") \/ Moved(r, "discard")
                 /\ db' = Holding(Temp(r), "copy", r)
              \/ Moved(r, "discard") /\ db' = db
BY DisturbedTyped DEF Clone, Call, SetDb, Moved, world, BranchTypeOK

(* Only services that were stopped let the switch go on.                    *)
LEMMA StopStep ==
    ASSUME BranchTypeOK, NEW r, Stop(r)
    PROVE  /\ UNCHANGED <<db, journal>>
           /\ \/ /\ Moved(r, "shut") \/ Moved(r, "rollDrop")
                 /\ runtime' = "down"
              \/ Moved(r, "rollDrop") /\ runtime' = runtime
BY DisturbedTyped DEF Stop, Call, Moved, world, BranchTypeOK

(* A step of the rollback that is not known to have succeeded leaves the    *)
(* rollback unsound.                                                        *)
LEMMA UndoStep ==
    ASSUME BranchTypeOK, NEW r, NEW possible, NEW d, NEW ok, Undo(r, possible, d, ok)
    PROVE  /\ UNCHANGED <<journal, runtime, lock, job, answer, migration, exclusive>>
           /\ faults' \in 0..MaxFaults
           /\ \/ possible /\ db' = d /\ Goto(r, ok) /\ UNCHANGED sound
              \/ /\ db' = db \/ (possible /\ db' = d)
                 /\ Goto(r, "rollDrop")
                 /\ sound' = [sound EXCEPT ![r] = FALSE]
BY DisturbedTyped DEF Undo, BranchTypeOK

(* The last call of a handler is followed by its answer.                    *)
LEMMA LastCallStep ==
    ASSUME BranchTypeOK, NEW r, NEW j, NEW what, LastCall(r, j, what)
    PROVE  /\ journal' \in {j, journal}
           /\ faults' \in 0..MaxFaults
           /\ UNCHANGED <<db, runtime>>
           /\ Answer(r, what)
BY DisturbedTyped DEF LastCall, BranchTypeOK

-----------------------------------------------------------------------------
(* Every step keeps the types.                                              *)
LEMMA MovedTyped ==
    ASSUME BranchTypeOK, NEW a \in Actors, NEW place \in Places, Moved(a, place),
           db' \in [Names -> Databases], journal' \in Entries,
           journal'.of = Nobody => journal' = NoEntry,
           runtime' \in Runtimes
    PROVE  BranchTypeOK'
BY DEF BranchTypeOK, Moved, Goto, locals

(* So does an answer.                                                       *)
LEMMA AnswerTyped ==
    ASSUME BranchTypeOK, NEW r \in Requests, NEW what \in Answers, Answer(r, what),
           db' \in [Names -> Databases], journal' \in Entries,
           journal'.of = Nobody => journal' = NoEntry,
           runtime' \in Runtimes, faults' \in 0..MaxFaults
    PROVE  BranchTypeOK'
BY DEF BranchTypeOK, Answer, Goto, Released, Places, Actors

(* So does the end of a sweep.                                              *)
LEMMA RestTyped ==
    ASSUME BranchTypeOK, NEW a \in Actors, Rest(a),
           db' \in [Names -> Databases], journal' \in Entries,
           journal'.of = Nobody => journal' = NoEntry,
           runtime' \in Runtimes, faults' \in 0..MaxFaults
    PROVE  BranchTypeOK'
BY DEF BranchTypeOK, Rest, Goto, Released, Places

(* The entries of the journal: none, and one that a request has begun.      *)
LEMMA EntryTyped ==
    /\ NoEntry \in Entries
    /\ NoEntry.of = Nobody
    /\ ~NoEntry.committed
    /\ \A r \in Requests : /\ Begun(r) \in Entries /\ Begun(r).of = r
                           /\ ~Begun(r).committed /\ Begun(r) # NoEntry
BY ReplacementAssumption DEF NoEntry, Entries, Begun, Actors

(* What an actor has read of the journal is of the journal's type.          *)
LEMMA JobFields ==
    ASSUME BranchTypeOK, NEW a \in Actors
    PROVE  /\ job[a] \in Jobs
           /\ job[a].of \in Requests \cup {Nobody}
           /\ job[a].committed \in BOOLEAN
           /\ journal.of \in Requests \cup {Nobody}
           /\ journal.committed \in BOOLEAN
           /\ journal # NoEntry => journal.of \in Requests
BY DEF BranchTypeOK, Jobs, Entries

-----------------------------------------------------------------------------
(* The data, with or without the lock.  The project's own data is under the *)
(* parent's name or under a backup's; only a request puts a copy under its  *)
(* temporary name, and only a whole one is left there for the switch.       *)
Main == {Parent} \cup {Backup(r) : r \in Requests}

Cloned     == {"prepared", "stop", "shut", "noteShut", "rename1", "noteRenamed", "rename2"}
Recovering == {"look", "reName", "reOpen", "reDrop", "reStart", "reRemove", "reMark"}

DataInv ==
    /\ BranchTypeOK
    /\ \A n \in Names : db[n].kind = "absent" => db[n] = Absent
    /\ \E n \in Main : db[n].kind = "original"
    /\ \A n \in Main : db[n].kind # "partial"
    /\ \A r \in Requests : pc[r] \in Cloned => db[Temp(r)].kind # "partial"
    /\ \A r \in Requests : Exists(Temp(r)) => db[Temp(r)].of = r
    /\ \A a \in Actors : pc[a] \in Recovering => job[a].of \in Requests

(* A change of the databases that keeps the original, brings no partial     *)
(* copy in service, and fills a temporary database only for its request.    *)
Harmless ==
    /\ db' \in [Names -> Databases]
    /\ \A n \in Names : db'[n].kind = "absent" => db'[n] = Absent
    /\ \E n \in Main : db'[n].kind = "original"
    /\ \A n \in Main : db'[n].kind # "partial"
    /\ \A r \in Requests :
          \/ db'[Temp(r)] = db[Temp(r)]
          \/ db'[Temp(r)] = Absent
          \/ /\ db'[Temp(r)].of = r
             /\ db'[Temp(r)].kind = "partial" => pc[r] = "create"

(* The fields of a name without a database.                                 *)
LEMMA AbsentIs == Absent.kind = "absent" /\ Absent.of = Nobody /\ ~Absent.open
BY DEF Absent

(* To leave the databases alone is harmless.                                *)
LEMMA NothingHarmless == ASSUME DataInv, db' = db PROVE Harmless
BY DEF DataInv, BranchTypeOK, Harmless

(* To move the parent to a backup name that is free is harmless.            *)
LEMMA RenameParentHarmless ==
    ASSUME DataInv, NEW r \in Requests, ~Exists(Backup(r)),
           db' = Renamed(Parent, Backup(r))
    PROVE  Harmless
<1>1. /\ db' \in [Names -> Databases]
      /\ db'[Backup(r)] = db[Parent] /\ db'[Parent] = Absent
      /\ \A k \in Names \ {Parent, Backup(r)} : db'[k] = db[k]
  BY RenamedAt, NamesDiffer DEF DataInv, BranchTypeOK
<1>2. \A q \in Requests : db'[Temp(q)] = db[Temp(q)]
  BY <1>1, NamesDiffer
<1>3. \A q \in Requests : q # r => db'[Backup(q)] = db[Backup(q)]
  BY <1>1, NamesDiffer
<1>4. \E n \in Main : db'[n].kind = "original"
  <2>1. PICK n \in Main : db[n].kind = "original"
    BY DEF DataInv
  <2>2. CASE n = Parent
    BY <1>1, <2>1, <2>2 DEF Main
  <2>3. CASE n # Parent
    <3>1. PICK q \in Requests : n = Backup(q)
      BY <2>3 DEF Main
    <3>2. q # r
      BY <2>1, <3>1, AbsentIs DEF Exists
    <3> QED
      BY <1>3, <2>1, <3>1, <3>2
  <2> QED
    BY <2>2, <2>3
<1>5. \A n \in Main : db'[n].kind # "partial"
  BY <1>1, <1>3, AbsentIs DEF DataInv, Main
<1>6. \A n \in Names : db'[n].kind = "absent" => db'[n] = Absent
  BY <1>1, NamesDiffer DEF DataInv
<1> QED
  BY <1>1, <1>2, <1>4, <1>5, <1>6 DEF Harmless

(* To move a backup to the parent's name, if that is free, is harmless.     *)
LEMMA RenameBackupHarmless ==
    ASSUME DataInv, NEW r \in Requests, ~Exists(Parent),
           db' = Renamed(Backup(r), Parent)
    PROVE  Harmless
<1>1. /\ db' \in [Names -> Databases]
      /\ db'[Parent] = db[Backup(r)] /\ db'[Backup(r)] = Absent
      /\ \A k \in Names \ {Parent, Backup(r)} : db'[k] = db[k]
  BY RenamedAt, NamesDiffer DEF DataInv, BranchTypeOK
<1>2. \A q \in Requests : db'[Temp(q)] = db[Temp(q)]
  BY <1>1, NamesDiffer
<1>3. \A q \in Requests : q # r => db'[Backup(q)] = db[Backup(q)]
  BY <1>1, NamesDiffer
<1>4. \E n \in Main : db'[n].kind = "original"
  <2>1. PICK n \in Main : db[n].kind = "original"
    BY DEF DataInv
  <2>2. PICK q \in Requests : n = Backup(q)
    BY <2>1, AbsentIs DEF Main, Exists
  <2> QED
    BY <1>1, <1>3, <2>1, <2>2 DEF Main
<1>5. \A n \in Main : db'[n].kind # "partial"
  BY <1>1, <1>3, AbsentIs DEF DataInv, Main
<1>6. \A n \in Names : db'[n].kind = "absent" => db'[n] = Absent
  BY <1>1, NamesDiffer DEF DataInv
<1> QED
  BY <1>1, <1>2, <1>4, <1>5, <1>6 DEF Harmless

(* To move a whole copy to the parent's name, if that is free, is           *)
(* harmless.                                                                *)
LEMMA RenameTempHarmless ==
    ASSUME DataInv, NEW r \in Requests, pc[r] \in Cloned, ~Exists(Parent),
           db' = Renamed(Temp(r), Parent)
    PROVE  Harmless
<1>1. /\ db' \in [Names -> Databases]
      /\ db'[Parent] = db[Temp(r)] /\ db'[Temp(r)] = Absent
      /\ \A k \in Names \ {Parent, Temp(r)} : db'[k] = db[k]
  BY RenamedAt, NamesDiffer DEF DataInv, BranchTypeOK
<1>2. \A q \in Requests : q # r => db'[Temp(q)] = db[Temp(q)]
  BY <1>1, NamesDiffer
<1>3. \A q \in Requests : db'[Backup(q)] = db[Backup(q)]
  BY <1>1, NamesDiffer
<1>4. \E n \in Main : db'[n].kind = "original"
  <2>1. PICK n \in Main : db[n].kind = "original"
    BY DEF DataInv
  <2>2. PICK q \in Requests : n = Backup(q)
    BY <2>1, AbsentIs DEF Main, Exists
  <2> QED
    BY <1>3, <2>1, <2>2
<1>5. \A n \in Main : db'[n].kind # "partial"
  BY <1>1, <1>3 DEF DataInv, Main
<1>6. \A n \in Names : db'[n].kind = "absent" => db'[n] = Absent
  BY <1>1, NamesDiffer DEF DataInv
<1> QED
  BY <1>1, <1>2, <1>4, <1>5, <1>6 DEF Harmless

(* To open or shut the parent is harmless.                                  *)
LEMMA AllowHarmless ==
    ASSUME DataInv, NEW b \in BOOLEAN, Exists(Parent), db' = ConnectionsAllowed(b)
    PROVE  Harmless
<1>1. /\ db' \in [Names -> Databases]
      /\ db'[Parent].kind = db[Parent].kind
      /\ \A k \in Names \ {Parent} : db'[k] = db[k]
  BY AllowedAt DEF DataInv, BranchTypeOK
<1>2. \A q \in Requests : db'[Temp(q)] = db[Temp(q)] /\ db'[Backup(q)] = db[Backup(q)]
  BY <1>1, NamesDiffer
<1>3. \A n \in Names : db'[n].kind = "absent" => db'[n] = Absent
  BY <1>1, NamesDiffer DEF DataInv, Exists, Names
<1> QED
  BY <1>1, <1>2, <1>3 DEF Harmless, DataInv, Main

(* To drop a temporary database is harmless.                                *)
LEMMA DropHarmless ==
    ASSUME DataInv, NEW r \in Requests, db' = Dropped(Temp(r))
    PROVE  Harmless
<1>1. /\ db' \in [Names -> Databases]
      /\ db'[Temp(r)] = Absent
      /\ \A k \in Names \ {Temp(r)} : db'[k] = db[k]
  BY DroppedAt, NamesDiffer DEF DataInv, BranchTypeOK
<1>2. \A q \in Requests : /\ q # r => db'[Temp(q)] = db[Temp(q)]
                          /\ db'[Backup(q)] = db[Backup(q)]
                          /\ db'[Parent] = db[Parent]
  BY <1>1, NamesDiffer
<1>3. \A n \in Names : db'[n].kind = "absent" => db'[n] = Absent
  BY <1>1, NamesDiffer DEF DataInv
<1> QED
  BY <1>1, <1>2, <1>3 DEF Harmless, DataInv, Main

(* To fill a request's own temporary database is harmless.                  *)
LEMMA HoldingHarmless ==
    ASSUME DataInv, NEW r \in Requests, NEW k \in {"partial", "copy"},
           k = "partial" => pc[r] = "create", db' = Holding(Temp(r), k, r)
    PROVE  Harmless
<1>1. /\ db' \in [Names -> Databases]
      /\ db'[Temp(r)].kind = k /\ db'[Temp(r)].of = r
      /\ \A i \in Names \ {Temp(r)} : db'[i] = db[i]
  BY HoldingAt, NamesDiffer DEF DataInv, BranchTypeOK, Kinds
<1>2. \A q \in Requests : /\ q # r => db'[Temp(q)] = db[Temp(q)]
                          /\ db'[Backup(q)] = db[Backup(q)]
                          /\ db'[Parent] = db[Parent]
  BY <1>1, NamesDiffer
<1>3. \A n \in Names : db'[n].kind = "absent" => db'[n] = Absent
  BY <1>1, NamesDiffer DEF DataInv
<1> QED
  BY <1>1, <1>2, <1>3 DEF Harmless, DataInv, Main

(* Every harmless step preserves the invariant, when a request goes on to   *)
(* the switch only with a whole copy.                                       *)
LEMMA HarmlessKeeps ==
    ASSUME DataInv, Harmless, BranchTypeOK', NEW a \in Actors, NEW place \in Places,
           Goto(a, place),
           place \in Cloned => \/ pc[a] \in Cloned
                               \/ db'[Temp(a)].kind # "partial",
           place \in Recovering => job'[a].of \in Requests,
           \A b \in Actors : b # a => job'[b] = job[b]
    PROVE  DataInv'
<1>1. pc'[a] = place /\ \A b \in Actors : b # a => pc'[b] = pc[b]
  BY DEF Goto, DataInv, BranchTypeOK
<1>2. \A r \in Requests : pc'[r] \in Cloned => db'[Temp(r)].kind # "partial"
  <2> SUFFICES ASSUME NEW r \in Requests, pc'[r] \in Cloned
               PROVE  db'[Temp(r)].kind # "partial"
    OBVIOUS
  <2>1. r \in Actors /\ "create" \notin Cloned
    BY DEF Actors, Cloned
  <2>2. CASE pc[r] \in Cloned
    BY <2>1, <2>2, AbsentIs DEF Harmless, DataInv
  <2>3. CASE pc[r] \notin Cloned
    BY <1>1, <2>1, <2>3
  <2> QED
    BY <2>2, <2>3
<1>3. \A r \in Requests : db'[Temp(r)] # Absent => db'[Temp(r)].of = r
  BY DEF Harmless, DataInv, Exists
<1>4. \A b \in Actors : pc'[b] \in Recovering => job'[b].of \in Requests
  BY <1>1 DEF DataInv
<1> QED
  BY <1>2, <1>3, <1>4 DEF DataInv, Harmless, Exists

(* A call with a harmless effect keeps the invariant.                       *)
LEMMA MoveKeeps ==
    ASSUME DataInv, Harmless, NEW a \in Actors, NEW place \in Places, Moved(a, place),
           journal' \in Entries, journal'.of = Nobody => journal' = NoEntry,
           runtime' \in Runtimes,
           place \in Cloned => pc[a] \in Cloned \/ db'[Temp(a)].kind # "partial",
           place \in Recovering => pc[a] \in Recovering
    PROVE  DataInv'
<1>1. BranchTypeOK'
  BY MovedTyped DEF DataInv, Harmless
<1>2. Goto(a, place) /\ job' = job
  BY DEF Moved, locals
<1> QED
  BY <1>1, <1>2, HarmlessKeeps DEF DataInv

(* An answer keeps the invariant.                                           *)
LEMMA AnswerKeeps ==
    ASSUME DataInv, db' = db, NEW r \in Requests, NEW what \in Answers, Answer(r, what),
           journal' \in Entries, journal'.of = Nobody => journal' = NoEntry,
           runtime' = runtime, faults' \in 0..MaxFaults
    PROVE  DataInv'
<1>1. BranchTypeOK'
  BY AnswerTyped DEF DataInv, BranchTypeOK
<1>2. Goto(r, "done") /\ job' = job /\ r \in Actors
  BY DEF Answer, Actors
<1>3. "done" \in Places \ (Cloned \cup Recovering)
  BY DEF Places, Cloned, Recovering
<1> QED
  BY <1>1, <1>2, <1>3, HarmlessKeeps, NothingHarmless

(* The end of a sweep keeps the invariant.                                  *)
LEMMA RestKeeps ==
    ASSUME DataInv, db' = db, NEW a \in Actors, Rest(a),
           journal' \in Entries, journal'.of = Nobody => journal' = NoEntry,
           runtime' = runtime, faults' \in 0..MaxFaults
    PROVE  DataInv'
<1>1. BranchTypeOK'
  BY RestTyped DEF DataInv, BranchTypeOK
<1>2. Goto(a, "idle") /\ job' = job
  BY DEF Rest
<1>3. "idle" \in Places \ (Cloned \cup Recovering)
  BY DEF Places, Cloned, Recovering
<1> QED
  BY <1>1, <1>2, <1>3, HarmlessKeeps, NothingHarmless

-----------------------------------------------------------------------------
(* The calls, one kind after the other.                                     *)
LEMMA JournalTyped ==
    ASSUME BranchTypeOK
    PROVE  /\ journal \in Entries /\ (journal.of = Nobody => journal = NoEntry)
           /\ runtime \in Runtimes
           /\ faults \in 0..MaxFaults
BY DEF BranchTypeOK

(* Each of the three renames keeps the invariant.                           *)
LEMMA RenameKeeps ==
    ASSUME DataInv, NEW a \in Actors, NEW m, NEW n,
           NEW ok \in Places, NEW err \in Places, Rename(a, m, n, ok, err),
           \/ \E r \in Requests : m = Parent /\ n = Backup(r)
           \/ \E r \in Requests : m = Backup(r) /\ n = Parent
           \/ \E r \in Requests : m = Temp(r) /\ n = Parent /\ pc[r] \in Cloned,
           {ok, err} \cap Cloned # {} => pc[a] \in Cloned,
           {ok, err} \cap Recovering # {} => pc[a] \in Recovering
    PROVE  DataInv'
<1>0. BranchTypeOK
  BY DEF DataInv
<1>1. UNCHANGED <<journal, runtime>> /\ (Moved(a, ok) \/ Moved(a, err))
  BY <1>0, RenameStep
<1>2. Harmless
  <2>1. CASE db' = db
    BY <2>1, NothingHarmless
  <2>2. CASE db' # db
    <3>1. ~Exists(n) /\ db' = Renamed(m, n)
      BY <1>0, <2>2, RenameStep
    <3> QED
      BY <3>1, RenameParentHarmless, RenameBackupHarmless, RenameTempHarmless
  <2> QED
    BY <2>1, <2>2
<1> QED
  BY <1>0, <1>1, <1>2, JournalTyped, MoveKeeps

(* ALLOW_CONNECTIONS keeps the invariant.                                   *)
LEMMA AllowKeeps ==
    ASSUME DataInv, NEW a \in Actors, NEW b \in BOOLEAN,
           NEW ok \in Places, NEW err \in Places, Allow(a, b, ok, err),
           {ok, err} \cap Cloned # {} => pc[a] \in Cloned,
           {ok, err} \cap Recovering # {} => pc[a] \in Recovering
    PROVE  DataInv'
<1>0. BranchTypeOK
  BY DEF DataInv
<1>1. UNCHANGED <<journal, runtime>> /\ (Moved(a, ok) \/ Moved(a, err))
      /\ (db' = db \/ (Exists(Parent) /\ db' = ConnectionsAllowed(b)))
  BY <1>0, AllowStep
<1>2. Harmless
  BY <1>1, NothingHarmless, AllowHarmless
<1> QED
  BY <1>0, <1>1, <1>2, JournalTyped, MoveKeeps

(* DROP DATABASE keeps the invariant.                                       *)
LEMMA DropKeeps ==
    ASSUME DataInv, NEW a \in Actors, NEW r \in Requests,
           NEW ok \in Places, NEW err \in Places, Drop(a, Temp(r), ok, err),
           {ok, err} \cap Cloned # {} => pc[a] \in Cloned,
           {ok, err} \cap Recovering # {} => pc[a] \in Recovering
    PROVE  DataInv'
<1>0. BranchTypeOK
  BY DEF DataInv
<1>1. UNCHANGED <<journal, runtime>> /\ (Moved(a, ok) \/ Moved(a, err))
      /\ (db' = db \/ db' = Dropped(Temp(r)))
  BY <1>0, DropStep
<1>2. Harmless
  BY <1>1, NothingHarmless, DropHarmless
<1> QED
  BY <1>0, <1>1, <1>2, JournalTyped, MoveKeeps

(* A write to the journal keeps the invariant.                              *)
LEMMA WriteKeeps ==
    ASSUME DataInv, NEW a \in Actors, NEW j \in Entries, j.of = Nobody => j = NoEntry,
           NEW ok \in Places, NEW err \in Places, Write(a, j, ok, err),
           {ok, err} \cap Cloned # {} => pc[a] \in Cloned,
           {ok, err} \cap Recovering # {} => pc[a] \in Recovering
    PROVE  DataInv'
<1>0. BranchTypeOK
  BY DEF DataInv
<1>1. UNCHANGED <<db, runtime>> /\ (Moved(a, ok) \/ Moved(a, err))
      /\ (journal' = j \/ journal' = journal)
  BY <1>0, WriteStep
<1>2. Harmless
  BY <1>1, NothingHarmless
<1> QED
  BY <1>0, <1>1, <1>2, JournalTyped, MoveKeeps

(* A restart of the services keeps the invariant.                           *)
LEMMA RestartKeeps ==
    ASSUME DataInv, NEW a \in Actors,
           NEW ok \in Places, NEW err \in Places, Restart(a, ok, err),
           {ok, err} \cap Cloned = {},
           {ok, err} \cap Recovering # {} => pc[a] \in Recovering
    PROVE  DataInv'
<1>0. BranchTypeOK
  BY DEF DataInv
<1>1. UNCHANGED <<db, journal>> /\ (Moved(a, ok) \/ Moved(a, err))
      /\ runtime' \in Runtimes
  BY <1>0, RestartStep DEF Runtimes
<1>2. Harmless
  BY <1>1, NothingHarmless
<1> QED
  BY <1>0, <1>1, <1>2, JournalTyped, MoveKeeps

(* The last call of a handler keeps the invariant.                          *)
LEMMA LastCallKeeps ==
    ASSUME DataInv, NEW r \in Requests, NEW j \in Entries, j.of = Nobody => j = NoEntry,
           NEW what \in Answers, LastCall(r, j, what)
    PROVE  DataInv'
<1>0. BranchTypeOK
  BY DEF DataInv
<1> QED
  BY <1>0, LastCallStep, JournalTyped, AnswerKeeps

(* Recovery reads the entry and looks at the names.                         *)
LEMMA CheckData ==
    ASSUME DataInv, NEW a \in Actors, Check(a) \/ Look(a)
    PROVE  DataInv'
<1>0. BranchTypeOK /\ db' = db /\ journal' = journal /\ runtime' = runtime
  BY DEF DataInv, Check, Look, world
<1>1. CASE Rest(a) /\ faults' \in 0..MaxFaults
  BY <1>0, <1>1, RestKeeps, JournalTyped
<1>2. CASE a # Sweeper /\ Answer(a, "failed") /\ faults' \in 0..MaxFaults
  <2>1. a \in Requests /\ "failed" \in Answers
    BY <1>2 DEF Actors, Answers
  <2> QED
    BY <1>0, <1>2, <2>1, AnswerKeeps, JournalTyped
<1>3. CASE Goto(a, "begin") /\ UNCHANGED <<lock, locals, faults>>
  <2>1. Moved(a, "begin")
    BY <1>0, <1>3, JournalTyped DEF Moved
  <2>2. "begin" \in Places \ (Cloned \cup Recovering)
    BY DEF Places, Cloned, Recovering
  <2> QED
    BY <1>0, <2>1, <2>2, NothingHarmless, JournalTyped, MoveKeeps
<1>4. CASE \E e \in Jobs, place \in Places \ Cloned :
             /\ job' = [job EXCEPT ![a] = e] /\ Goto(a, place)
             /\ UNCHANGED <<lock, sound, answer, migration, exclusive, faults>>
             /\ e.of \in Requests
  <2>1. PICK e \in Jobs, place \in Places \ Cloned :
             /\ job' = [job EXCEPT ![a] = e] /\ Goto(a, place)
             /\ UNCHANGED <<lock, sound, answer, migration, exclusive, faults>>
             /\ e.of \in Requests
    BY <1>4
  <2>2. BranchTypeOK'
    BY <1>0, <2>1 DEF BranchTypeOK, Goto
  <2>3. job'[a].of \in Requests /\ \A b \in Actors : b # a => job'[b] = job[b]
    BY <1>0, <2>1 DEF BranchTypeOK
  <2> QED
    BY <1>0, <2>1, <2>2, <2>3, NothingHarmless, HarmlessKeeps
<1>5. CASE Check(a)
  <2>1. CASE journal = NoEntry /\ UNCHANGED faults
             /\ IF a = Sweeper THEN Rest(a)
                ELSE Goto(a, "begin") /\ UNCHANGED <<lock, locals>>
    BY <1>0, <1>1, <1>3, <2>1, JournalTyped
  <2>2. CASE /\ journal # NoEntry
             /\ job' = [job EXCEPT ![a] = [of |-> journal.of, committed |-> journal.committed,
                                           temp |-> FALSE]]
             /\ Goto(a, "look")
             /\ UNCHANGED <<lock, sound, answer, migration, exclusive, faults>>
    <3> DEFINE e == [of |-> journal.of, committed |-> journal.committed, temp |-> FALSE]
    <3>1. e \in Jobs /\ e.of \in Requests
      BY <1>0, <2>2, JobFields DEF Jobs
    <3>2. "look" \in Places \ Cloned
      BY DEF Places, Cloned
    <3> QED
      BY <1>4, <2>2, <3>1, <3>2
  <2>3. CASE Disturbed /\ IF a = Sweeper THEN Rest(a) ELSE Answer(a, "failed")
    BY <1>0, <1>1, <1>2, <2>3, DisturbedTyped
  <2> QED
    BY <1>5, <2>1, <2>2, <2>3 DEF Check
<1>6. CASE Look(a)
  <2> DEFINE p == Exists(Parent)
             b == Exists(Backup(job[a].of))
             t == Exists(Temp(job[a].of))
             e == [of |-> job[a].of, temp |-> t,
                   committed |-> job[a].committed \/ (p /\ b /\ ~t)]
  <2>1. CASE /\ Goto(a, NextRecovery(p, b, t))
             /\ job' = [job EXCEPT ![a] = e]
             /\ UNCHANGED <<lock, sound, answer, migration, exclusive, faults>>
    <3>1. job[a].of \in Requests /\ job[a].committed \in BOOLEAN
      BY <1>0, <1>6, JobFields DEF Look, DataInv, Recovering
    <3>2. t \in BOOLEAN /\ p \in BOOLEAN /\ b \in BOOLEAN
      BY DEF Exists
    <3>3. e \in Jobs /\ e.of \in Requests
      BY <3>1, <3>2 DEF Jobs
    <3>4. NextRecovery(p, b, t) \in Places \ Cloned
      BY DEF NextRecovery, Places, Cloned
    <3> HIDE DEF e
    <3> QED
      BY <1>4, <2>1, <3>3, <3>4
  <2>2. CASE Disturbed /\ IF a = Sweeper THEN Rest(a) ELSE Answer(a, "failed")
    BY <1>0, <1>1, <1>2, <2>2, DisturbedTyped
  <2>3. e = [of |-> job[a].of, temp |-> t, committed |-> job[a].committed \/ (p /\ b /\ ~t)]
    OBVIOUS
  <2> QED
    BY <1>0, <1>6, <2>1, <2>2 DEF Look, BranchTypeOK
<1> QED
  BY <1>5, <1>6

(* recoverReplacementJournalEntry keeps the data.                           *)
LEMMA RecoveryData ==
    ASSUME DataInv, NEW a \in Actors, Recovery(a)
    PROVE  DataInv'
<1> USE DEF Places, Cloned, Recovering
<1>0. BranchTypeOK /\ (pc[a] \in Recovering => job[a].of \in Requests)
  BY DEF DataInv
<1>1. CASE Check(a) \/ Look(a)
  BY <1>1, CheckData
<1>2. CASE ReName(a)
  BY <1>0, <1>2, RenameKeeps DEF ReName
<1>3. CASE ReOpen(a)
  BY <1>0, <1>3, AllowKeeps DEF ReOpen
<1>4. CASE ReDrop(a)
  BY <1>0, <1>4, DropKeeps DEF ReDrop
<1>5. CASE ReStart(a)
  BY <1>0, <1>5, RestartKeeps DEF ReStart
<1>6. CASE ReRemove(a)
  <2>1. db' = db /\ runtime' = runtime /\ journal' \in {journal, NoEntry}
        /\ faults' \in 0..MaxFaults
    BY <1>0, <1>6, JournalTyped, DisturbedTyped DEF ReRemove
  <2>2. CASE Rest(a)
    BY <1>0, <2>1, <2>2, RestKeeps, JournalTyped, EntryTyped
  <2>3. CASE ~Rest(a)
    <3>1. (Moved(a, "begin") \/ Moved(a, "reMark")) /\ pc[a] \in Recovering
      BY <1>6, <2>1, <2>3 DEF ReRemove, Moved
    <3> QED
      BY <1>0, <2>1, <3>1, MoveKeeps, NothingHarmless, JournalTyped, EntryTyped
  <2> QED
    BY <2>2, <2>3
<1>7. CASE ReMark(a)
  <2>1. db' = db /\ runtime' = runtime /\ journal' \in {journal, Marked(job[a].committed)}
        /\ faults' \in 0..MaxFaults
    BY <1>0, <1>7, JournalTyped, DisturbedTyped DEF ReMark
  <2>2. journal' \in Entries /\ (journal'.of = Nobody => journal' = NoEntry)
    BY <1>0, <2>1, JobFields, JournalTyped, MarkedAt
  <2>3. Rest(a) \/ (a \in Requests /\ Answer(a, "blocked"))
    BY <1>7 DEF ReMark, Actors
  <2> QED
    BY <2>1, <2>2, <2>3, RestKeeps, AnswerKeeps DEF Answers
<1> QED
  BY <1>1, <1>2, <1>3, <1>4, <1>5, <1>6, <1>7 DEF Recovery

(* prepareReplacementDatabase, and what precedes it, keep the data.         *)
LEMMA PrepareData ==
    ASSUME DataInv, NEW r \in Requests,
           \/ Acquire(r) \/ Begin(r) \/ Create(r) \/ Clone(r) \/ Discard(r)
           \/ Prepared(r) \/ Abandon(r)
    PROVE  DataInv'
<1> USE DEF Places, Cloned, Recovering, Answers
<1>0. BranchTypeOK /\ r \in Actors
  BY DEF DataInv, Actors
<1>1. CASE Acquire(r)
  <2>1. db' = db /\ journal' = journal /\ runtime' = runtime /\ faults' = faults
    BY <1>1 DEF Acquire, world
  <2>2. CASE Answer(r, "locked")
    BY <1>0, <2>1, <2>2, AnswerKeeps, JournalTyped
  <2>3. CASE ~Answer(r, "locked")
    <3>1. lock' = r /\ Goto(r, "check") /\ UNCHANGED locals
      BY <1>1, <2>3 DEF Acquire
    <3>2. BranchTypeOK'
      BY <1>0, <2>1, <3>1 DEF BranchTypeOK, Goto, locals
    <3> QED
      BY <1>0, <2>1, <3>1, <3>2, NothingHarmless, HarmlessKeeps DEF locals
  <2> QED
    BY <2>2, <2>3
<1>2. CASE Begin(r)
  <2>1. db' = db /\ runtime' = runtime /\ journal' \in {journal, Begun(r)}
        /\ faults' \in 0..MaxFaults
    BY <1>0, <1>2, JournalTyped, DisturbedTyped DEF Begin
  <2>2. journal' \in Entries /\ (journal'.of = Nobody => journal' = NoEntry)
    BY <1>0, <2>1, JournalTyped, EntryTyped, ReplacementAssumption
  <2>3. Moved(r, "create") \/ Answer(r, "failed")
    BY <1>2, <2>1 DEF Begin, Moved
  <2> QED
    BY <1>0, <2>1, <2>2, <2>3, MoveKeeps, AnswerKeeps, NothingHarmless, JournalTyped
<1>3. CASE Create(r)
  <2>1. UNCHANGED <<journal, runtime>> /\ (Moved(r, "clone") \/ Moved(r, "discard"))
        /\ (db' = Holding(Temp(r), "partial", r) \/ db' = db)
    BY <1>0, <1>3, CreateStep
  <2>2. Harmless
    BY <1>3, <2>1, HoldingHarmless, NothingHarmless DEF Create
  <2> QED
    BY <1>0, <2>1, <2>2, MoveKeeps, JournalTyped
<1>4. CASE Clone(r)
  <2>1. UNCHANGED <<journal, runtime>>
    BY <1>0, <1>4, CloneStep
  <2>2. CASE db' = Holding(Temp(r), "copy", r)
    <3>1. Harmless
      BY <2>2, HoldingHarmless
    <3>2. db'[Temp(r)].kind = "copy"
      BY <1>0, <2>2, HoldingAt, NamesDiffer DEF BranchTypeOK, Kinds
    <3>3. Moved(r, "prepared") \/ Moved(r, "discard")
      BY <1>0, <1>4, CloneStep
    <3> QED
      BY <1>0, <2>1, <3>1, <3>2, <3>3, MoveKeeps, JournalTyped
  <2>3. CASE db' # Holding(Temp(r), "copy", r)
    <3>1. Moved(r, "discard") /\ db' = db
      BY <1>0, <1>4, <2>3, CloneStep
    <3> QED
      BY <1>0, <2>1, <3>1, MoveKeeps, NothingHarmless, JournalTyped
  <2> QED
    BY <2>2, <2>3
<1>5. CASE Discard(r)
  BY <1>0, <1>5, DropKeeps DEF Discard
<1>6. CASE Prepared(r)
  BY <1>0, <1>6, WriteKeeps, JournalTyped DEF Prepared, Note
<1>7. CASE Abandon(r)
  BY <1>0, <1>7, LastCallKeeps, EntryTyped DEF Abandon
<1> QED
  BY <1>1, <1>2, <1>3, <1>4, <1>5, <1>6, <1>7

(* switchParentDatabase keeps the data.                                     *)
LEMMA SwitchData ==
    ASSUME DataInv, NEW r \in Requests,
           \/ Stop(r) \/ Shut(r) \/ NoteShut(r) \/ RenameParent(r) \/ NoteRenamed(r)
           \/ RenameTemp(r) \/ NoteCommitted(r) \/ LateRestart(r) \/ LateMark(r)
           \/ RestartNew(r) \/ Finish(r)
    PROVE  DataInv'
<1> USE DEF Places, Cloned, Recovering, Answers
<1>0. BranchTypeOK /\ r \in Actors
  BY DEF DataInv, Actors
<1>1. CASE Stop(r)
  <2>1. UNCHANGED <<db, journal>> /\ (Moved(r, "shut") \/ Moved(r, "rollDrop"))
        /\ runtime' \in {runtime, "down"}
    BY <1>0, <1>1, StopStep
  <2>2. pc[r] \in Cloned
    BY <1>1 DEF Stop
  <2> QED
    BY <1>0, <2>1, <2>2, MoveKeeps, NothingHarmless, JournalTyped DEF Runtimes
<1>2. CASE Shut(r)
  BY <1>0, <1>2, AllowKeeps DEF Shut
<1>3. CASE NoteShut(r)
  BY <1>0, <1>3, WriteKeeps, JournalTyped DEF NoteShut, Note
<1>4. CASE RenameParent(r)
  BY <1>0, <1>4, RenameKeeps DEF RenameParent
<1>5. CASE NoteRenamed(r)
  BY <1>0, <1>5, WriteKeeps, JournalTyped DEF NoteRenamed, Note
<1>6. CASE RenameTemp(r)
  BY <1>0, <1>6, RenameKeeps DEF RenameTemp
<1>7. CASE NoteCommitted(r)
  <2>1. Write(r, Marked(TRUE), "restart", "lateRestart") /\ pc[r] = "noteCommitted"
    BY <1>7 DEF NoteCommitted, Mark
  <2> QED
    BY <1>0, <2>1, WriteKeeps, MarkedAt
<1>8. CASE LateRestart(r)
  BY <1>0, <1>8, RestartKeeps DEF LateRestart
<1>9. CASE LateMark(r)
  BY <1>0, <1>9, LastCallKeeps, MarkedAt DEF LateMark
<1>10. CASE RestartNew(r)
  BY <1>0, <1>10, RestartKeeps DEF RestartNew
<1>11. CASE Finish(r)
  BY <1>0, <1>11, LastCallKeeps, EntryTyped DEF Finish
<1> QED
  BY <1>1, <1>2, <1>3, <1>4, <1>5, <1>6, <1>7, <1>8, <1>9, <1>10, <1>11

(* recoverReplacementSwitch keeps the data.                                 *)
LEMMA RollbackData ==
    ASSUME DataInv, NEW r \in Requests,
           RollBack(r) \/ RollOpen(r) \/ RollDrop(r) \/ RollStart(r) \/ RollEnd(r)
    PROVE  DataInv'
<1> USE DEF Places, Cloned, Recovering, Answers
<1>0. BranchTypeOK /\ r \in Actors
  BY DEF DataInv, Actors
<1>1. CASE RollBack(r) \/ RollOpen(r)
  <2>1. /\ UNCHANGED <<journal, runtime, lock, job, answer, migration, exclusive>>
        /\ faults' \in 0..MaxFaults
        /\ Goto(r, "rollOpen") \/ Goto(r, "rollDrop")
        /\ sound' = sound \/ sound' = [sound EXCEPT ![r] = FALSE]
    BY <1>0, <1>1, UndoStep DEF RollBack, RollOpen
  <2>2. \/ db' = db
        \/ ~Exists(Parent) /\ db' = Renamed(Backup(r), Parent)
        \/ Exists(Parent) /\ db' = ConnectionsAllowed(TRUE)
    BY <1>0, <1>1 DEF RollBack, RollOpen, Undo
  <2>3. Harmless
    BY <2>2, NothingHarmless, RenameBackupHarmless, AllowHarmless
  <2>4. BranchTypeOK'
    <3>1. pc' \in [Actors -> Places]
      BY <1>0, <2>1 DEF BranchTypeOK, Goto
    <3>2. sound' \in [Requests -> BOOLEAN]
      BY <1>0, <2>1 DEF BranchTypeOK
    <3> QED
      BY <1>0, <2>1, <2>3, <3>1, <3>2 DEF BranchTypeOK, Harmless
  <2> QED
    BY <1>0, <2>1, <2>3, <2>4, HarmlessKeeps
<1>2. CASE RollDrop(r)
  BY <1>0, <1>2, DropKeeps DEF RollDrop
<1>3. CASE RollStart(r)
  BY <1>0, <1>3, RestartKeeps DEF RollStart
<1>4. CASE RollEnd(r)
  BY <1>0, <1>4, LastCallKeeps, EntryTyped, MarkedAt DEF RollEnd
<1> QED
  BY <1>1, <1>2, <1>3, <1>4

(* The sweep, the migrations, a crash and a lost lock keep the data.        *)
LEMMA OthersData ==
    ASSUME DataInv,
           \/ Sweep
           \/ \E a \in Actors : Crash(a)
           \/ \E m \in Executors : ExecutorLocks(m) \/ ExecutorChecks(m)
           \/ \E m \in SqlRoutes : SqlChecks(m) \/ SqlLocks(m)
           \/ \E m \in Migrations : MigrationEnds(m)
           \/ LoseLock
           \/ UNCHANGED vars
    PROVE  DataInv'
<1> USE ReplacementAssumption DEF Places, Cloned, Recovering
<1>0. BranchTypeOK
  BY DEF DataInv
<1>1. db' = db /\ journal' = journal /\ runtime' = runtime /\ job' = job
  BY DEF Sweep, Crash, ExecutorLocks, ExecutorChecks, SqlChecks, SqlLocks, MigrationEnds,
         LoseLock, vars, world, locals
<1>2. BranchTypeOK'
  <2>1. CASE Sweep
    BY <1>0, <1>1, <2>1 DEF Sweep, BranchTypeOK, Goto, locals, Actors
  <2>2. ASSUME NEW a \in Actors, Crash(a) PROVE BranchTypeOK'
    BY <1>0, <1>1, <2>2, DisturbedTyped DEF Crash, BranchTypeOK, Goto, Released
  <2>3. ASSUME NEW m \in Migrations,
               \/ ExecutorLocks(m) \/ ExecutorChecks(m) \/ SqlChecks(m) \/ SqlLocks(m)
               \/ MigrationEnds(m)
        PROVE  BranchTypeOK'
    BY <1>0, <1>1, <2>3 DEF ExecutorLocks, ExecutorChecks, SqlChecks, SqlLocks,
       MigrationEnds, Moves, Released, BranchTypeOK
  <2>4. CASE LoseLock
    <3>1. faults' \in 0..MaxFaults
      BY <1>0, <2>4 DEF LoseLock, BranchTypeOK
    <3>2. /\ lock' = Nobody /\ exclusive' = FALSE
          /\ UNCHANGED <<pc, sound, answer, migration>>
      BY <2>4 DEF LoseLock
    <3> QED
      BY <1>0, <1>1, <3>1, <3>2 DEF BranchTypeOK
  <2>5. CASE UNCHANGED vars
    BY <1>0, <2>5 DEF vars, world, BranchTypeOK
  <2> QED
    BY <2>1, <2>2, <2>3, <2>4, <2>5 DEF Migrations
<1>3. CASE pc' = pc
  BY <1>1, <1>2, <1>3 DEF DataInv, Exists
<1>4. CASE pc' # pc
  <2>1. PICK a \in Actors, place \in {"check", "idle", "dead"} : Goto(a, place)
    BY <1>4 DEF Sweep, Crash, ExecutorLocks, ExecutorChecks, SqlChecks, SqlLocks,
       MigrationEnds, LoseLock, vars, Actors
  <2> QED
    BY <1>1, <1>2, <2>1, NothingHarmless, HarmlessKeeps
<1> QED
  BY <1>3, <1>4

(* So does a restart from elsewhere: it touches no database.                *)
LEMMA ElsewhereData ==
    ASSUME DataInv, RestartElsewhere
    PROVE  DataInv'
<1>1. UNCHANGED <<db, journal, lock, pc, job, sound, answer, migration, faults, exclusive>>
      /\ runtime' \in Runtimes
  BY DEF RestartElsewhere, Runtimes
<1>2. BranchTypeOK'
  BY <1>1 DEF DataInv, BranchTypeOK
<1> QED
  BY <1>1, <1>2 DEF DataInv, Exists

(* Every step keeps the data.                                               *)
LEMMA DataStep == DataInv /\ [Next]_vars => DataInv'
<1> SUFFICES ASSUME DataInv, [Next]_vars PROVE DataInv'
  OBVIOUS
<1>1. ASSUME NEW r \in Requests, Handler(r) PROVE DataInv'
  BY <1>1, PrepareData, SwitchData, RollbackData DEF Handler
<1> QED
  BY <1>1, RecoveryData, OthersData, ElsewhereData DEF Next

(* The data at the start.                                                   *)
LEMMA DataInit == Init => DataInv
<1> SUFFICES ASSUME Init PROVE DataInv
  OBVIOUS
<1> USE ReplacementAssumption
<1>1. BranchTypeOK
  BY EntryTyped DEF Init, BranchTypeOK, Databases, Kinds, Absent, Names, Places, Jobs, NoJob,
     Answers, Runtimes
<1>2. db[Parent].kind = "original" /\ \A r \in Requests : db[Backup(r)] = Absent
      /\ db[Temp(r)] = Absent
  BY NamesDiffer DEF Init, Names
<1>3. "idle" \notin Cloned \cup Recovering
  BY DEF Cloned, Recovering
<1> QED
  BY <1>1, <1>2, <1>3, AbsentIs DEF DataInv, Main, Init, Exists, Actors

(* Whatever fails or dies, and with or without the lock, the original is    *)
(* under the parent's name or a backup's, and no half-restored copy is      *)
(* under either.                                                            *)
THEOREM DataIsKept == Spec => []DataInv
BY DataInit, DataStep, PTL DEF Spec

-----------------------------------------------------------------------------
(* The lock.  Until one is lost, whoever is under way holds it.             *)
Quiet == {"idle", "done", "dead"}

LockHeld ==
    /\ \A a \in Actors : pc[a] \notin Quiet => lock = a
    /\ \A m \in Migrations : migration[m] \in {"locked", "running"} => lock = m

(* No database in service, now or before, is the copy that r made.          *)
NotPut(r) == \A n \in Main : db[n].of # r

(* What holds between the databases, the journal and the runtime.           *)
WorldOK ==
    /\ ~Exists(Parent) => journal # NoEntry /\ Exists(Backup(journal.of))
    /\ runtime = "running" => Served
    /\ journal # NoEntry /\ Exists(Parent) /\ Exists(Backup(journal.of)) =>
          db[Parent].of = journal.of
    /\ journal.committed => SwitchedFor(journal.of)

(* What a request knows at each place of its handler.                       *)
Preparing == {"begin", "create", "clone", "discard", "abandon", "prepared", "stop",
              "shut", "noteShut", "rename1"}
Fresh     == {"idle", "check"} \cup Recovering \cup Preparing
Switching == (Preparing \ {"begin"})
                \cup {"noteRenamed", "rename2", "noteCommitted", "rollBack", "rollOpen",
                      "rollDrop", "rollStart", "rollEnd"}
Switched  == {"noteCommitted", "restart", "lateRestart", "lateMark", "finish"}

RequestOK(r, place) ==
    /\ place \in Fresh => NotPut(r) /\ ~Exists(Backup(r))
    /\ place = "begin" => journal = NoEntry
    /\ place \in Preparing => Exists(Parent)
    /\ place \in Switching => journal.of = r /\ ~journal.committed
    /\ place \in {"shut", "noteShut", "rename1"} => runtime # "running"
    /\ place \in {"noteRenamed", "rename2"} => NotPut(r) /\ ~Exists(Parent)
    /\ place \in Switched => journal.of = r /\ SwitchedFor(r)
    /\ place = "rollBack" /\ ~Exists(Parent) => NotPut(r)
    /\ place = "rollOpen" => NotPut(r)
    /\ place \in {"rollDrop", "rollStart", "rollEnd"} /\ sound[r] =>
          NotPut(r) /\ Exists(Parent)

(* What a recovery knows at each place.                                     *)
RecoveryOK(a, place) ==
    /\ place \in Recovering => \/ journal # NoEntry /\ journal.of = job[a].of
                               \/ journal = NoEntry /\ place = "reMark"
    /\ place \in Recovering /\ job[a].committed => SwitchedFor(job[a].of)
    /\ place = "reName" => ~Exists(Parent)
    /\ place = "reRemove" => Exists(Parent)

Orderly ==
    /\ LockHeld
    /\ WorldOK
    /\ \A r \in Requests : RequestOK(r, pc[r])
    /\ \A a \in Actors : RecoveryOK(a, pc[a])
    /\ \A r \in Requests : answer[r] = "failed" => pc[r] = "done" /\ NotPut(r)
    /\ \A m \in Executors : migration[m] = "running" => journal = NoEntry

ReplacementInv == DataInv /\ (exclusive => Orderly)

(* While an actor holds the lock nobody else is under way.                  *)
LEMMA Alone ==
    ASSUME BranchTypeOK, Orderly, NEW a \in Actors, lock \in {a, Nobody}
    PROVE  /\ \A b \in Actors : b # a => pc[b] \in Quiet
           /\ \A m \in Migrations : migration[m] \notin {"locked", "running"}
BY ReplacementAssumption DEF Orderly, LockHeld, Actors, Migrations

(* What an actor does under the lock preserves the invariant when the world *)
(* stays in order, the actor knows what its next place asks for, and it     *)
(* puts nobody's copy in service but its own.                               *)
LEMMA ActorKeeps ==
    ASSUME BranchTypeOK, BranchTypeOK', Orderly, NEW a \in Actors, NEW place \in Places,
           lock \in {a, Nobody}, Goto(a, place), pc[a] # "done",
           place \notin Quiet => lock' = a,
           WorldOK', a \in Requests => RequestOK(a, place)', RecoveryOK(a, place)',
           \A r \in Requests : r # a =>
              /\ NotPut(r) => NotPut(r)'
              /\ ~Exists(Backup(r)) => ~Exists(Backup(r))'
              /\ answer'[r] = answer[r],
           \A r \in Requests : r = a /\ answer'[r] = "failed" =>
              \/ place = "done" /\ NotPut(r)'
              \/ answer' = answer,
           migration' = migration,
           \A b \in Actors : b # a => job'[b] = job[b]
    PROVE  Orderly'
<1>1. pc'[a] = place /\ \A b \in Actors : b # a => pc'[b] = pc[b]
  BY DEF Goto, BranchTypeOK
<1>2. /\ \A b \in Actors : b # a => pc'[b] \in Quiet
      /\ \A m \in Migrations : migration'[m] \notin {"locked", "running"}
  BY <1>1, Alone
<1>3. LockHeld'
  BY <1>1, <1>2 DEF LockHeld
<1>4. \A r \in Requests : RequestOK(r, pc[r])'
  <2> SUFFICES ASSUME NEW r \in Requests PROVE RequestOK(r, pc[r])'
    OBVIOUS
  <2>1. CASE r = a
    BY <1>1, <2>1 DEF RequestOK
  <2>2. CASE r # a
    <3>1. r \in Actors /\ RequestOK(r, pc[r])
      BY DEF Actors, Orderly
    <3>2. pc'[r] = pc[r] /\ pc'[r] \in Quiet
      BY <1>1, <1>2, <2>2, <3>1
    <3> QED
      BY <2>2, <3>1, <3>2 DEF RequestOK, Quiet, Fresh, Preparing, Switching, Switched,
         Recovering
  <2> QED
    BY <2>1, <2>2
<1>5. \A b \in Actors : RecoveryOK(b, pc[b])'
  <2> SUFFICES ASSUME NEW b \in Actors PROVE RecoveryOK(b, pc[b])'
    OBVIOUS
  <2>1. CASE b = a
    BY <1>1, <2>1 DEF RecoveryOK
  <2>2. CASE b # a
    BY <1>2, <2>2 DEF RecoveryOK, Quiet, Recovering
  <2> QED
    BY <2>1, <2>2
<1>6. \A r \in Requests : answer'[r] = "failed" => pc'[r] = "done" /\ NotPut(r)'
  BY <1>1 DEF Actors, Orderly
<1>7. \A m \in Executors : migration'[m] = "running" => journal' = NoEntry
  BY <1>2 DEF Migrations
<1> QED
  BY <1>3, <1>4, <1>5, <1>6, <1>7 DEF Orderly

-----------------------------------------------------------------------------
(* What the changes of the databases leave of the world.                    *)
MainKept == \A n \in Main : db'[n] = db[n]

(* The names in service, now or before.                                     *)
LEMMA MainIs == Parent \in Main /\ \A r \in Requests : Backup(r) \in Main
BY DEF Main

(* What is known of the parent and the backups holds as long as they stay.  *)
LEMMA MainKeptKeeps ==
    ASSUME MainKept
    PROVE  /\ Exists(Parent)' <=> Exists(Parent)
           /\ Served' <=> Served
           /\ db'[Parent] = db[Parent]
           /\ \A r \in Requests : /\ NotPut(r)' <=> NotPut(r)
                                  /\ Exists(Backup(r))' <=> Exists(Backup(r))
                                  /\ SwitchedFor(r)' <=> SwitchedFor(r)
BY MainIs DEF MainKept, Exists, Served, NotPut, SwitchedFor

(* What happens to a temporary database leaves them alone.                  *)
LEMMA TempKeepsMain ==
    ASSUME BranchTypeOK, NEW r \in Requests,
           \/ db' = Dropped(Temp(r))
           \/ \E k \in Kinds : db' = Holding(Temp(r), k, r)
    PROVE  MainKept
BY DroppedAt, HoldingAt, NamesDiffer DEF BranchTypeOK, MainKept, Main

(* After the first rename the parent is away and its backup there.          *)
LEMMA ParentRenamed ==
    ASSUME BranchTypeOK, NEW r \in Requests, Exists(Parent),
           ~Exists(Backup(r)), db' = Renamed(Parent, Backup(r))
    PROVE  /\ ~Exists(Parent)' /\ Exists(Backup(r))'
           /\ \A q \in Requests : /\ NotPut(q) => NotPut(q)'
                                  /\ q # r => db'[Backup(q)] = db[Backup(q)]
<1>1. /\ db'[Backup(r)] = db[Parent] /\ db'[Parent] = Absent
      /\ \A k \in Names \ {Parent, Backup(r)} : db'[k] = db[k]
  BY RenamedAt, NamesDiffer DEF BranchTypeOK
<1>2. \A q \in Requests : q # r => db'[Backup(q)] = db[Backup(q)]
  BY <1>1, NamesDiffer
<1>3. ASSUME NEW q \in Requests, NotPut(q) PROVE NotPut(q)'
  BY <1>1, <1>2, <1>3, AbsentIs, ReplacementAssumption DEF NotPut, Main, Actors
<1> QED
  BY <1>1, <1>2, <1>3 DEF Exists

(* After the rename of the rollback the parent is back and its backup       *)
(* gone.                                                                    *)
LEMMA BackupRenamed ==
    ASSUME BranchTypeOK, NEW r \in Requests, Exists(Backup(r)), ~Exists(Parent),
           db' = Renamed(Backup(r), Parent)
    PROVE  /\ Exists(Parent)' /\ ~Exists(Backup(r))'
           /\ \A q \in Requests : /\ NotPut(q) => NotPut(q)'
                                  /\ q # r => db'[Backup(q)] = db[Backup(q)]
<1>1. /\ db'[Parent] = db[Backup(r)] /\ db'[Backup(r)] = Absent
      /\ \A k \in Names \ {Parent, Backup(r)} : db'[k] = db[k]
  BY RenamedAt, NamesDiffer DEF BranchTypeOK
<1>2. \A q \in Requests : q # r => db'[Backup(q)] = db[Backup(q)]
  BY <1>1, NamesDiffer
<1>3. ASSUME NEW q \in Requests, NotPut(q) PROVE NotPut(q)'
  BY <1>1, <1>2, <1>3, AbsentIs, ReplacementAssumption DEF NotPut, Main, Actors
<1> QED
  BY <1>1, <1>2, <1>3 DEF Exists

(* After the second rename the request's copy is the parent.                *)
LEMMA TempRenamed ==
    ASSUME DataInv, NEW r \in Requests, Exists(Temp(r)), ~Exists(Parent),
           db' = Renamed(Temp(r), Parent)
    PROVE  /\ Exists(Parent)' /\ db'[Parent].of = r
           /\ \A q \in Requests : /\ q # r /\ NotPut(q) => NotPut(q)'
                                  /\ db'[Backup(q)] = db[Backup(q)]
<1>1. /\ db'[Parent] = db[Temp(r)] /\ db'[Temp(r)] = Absent
      /\ \A k \in Names \ {Parent, Temp(r)} : db'[k] = db[k]
  BY RenamedAt, NamesDiffer DEF DataInv, BranchTypeOK
<1>2. \A q \in Requests : db'[Backup(q)] = db[Backup(q)]
  BY <1>1, NamesDiffer
<1>3. db'[Parent].of = r
  BY <1>1 DEF DataInv
<1>4. ASSUME NEW q \in Requests, q # r, NotPut(q) PROVE NotPut(q)'
  BY <1>2, <1>3, <1>4 DEF NotPut, Main
<1> QED
  BY <1>1, <1>2, <1>3, <1>4 DEF Exists

(* A parent that was opened or shut is the same parent.                     *)
LEMMA AllowedKeeps ==
    ASSUME DataInv, NEW b \in BOOLEAN, Exists(Parent), db' = ConnectionsAllowed(b)
    PROVE  /\ Exists(Parent)' /\ (b => Served')
           /\ db'[Parent].of = db[Parent].of
           /\ \A q \in Requests : /\ NotPut(q) => NotPut(q)'
                                  /\ db'[Backup(q)] = db[Backup(q)]
<1>1. /\ db'[Parent].kind = db[Parent].kind /\ db'[Parent].of = db[Parent].of
      /\ db'[Parent].open = b
      /\ \A k \in Names \ {Parent} : db'[k] = db[k]
  BY AllowedAt DEF DataInv, BranchTypeOK
<1>2. \A q \in Requests : db'[Backup(q)] = db[Backup(q)]
  BY <1>1, NamesDiffer
<1>3. ASSUME NEW q \in Requests, NotPut(q) PROVE NotPut(q)'
  BY <1>1, <1>2, <1>3 DEF NotPut, Main
<1>4. db[Parent].kind # "absent"
  BY NamesDiffer DEF DataInv, Exists, Names
<1> QED
  BY <1>1, <1>2, <1>3, <1>4, AbsentIs DEF Exists, Served

-----------------------------------------------------------------------------
(* What an actor that goes on, and one that is done, has to show.           *)
LEMMA MovedOrderly ==
    ASSUME BranchTypeOK, BranchTypeOK', Orderly, NEW a \in Actors,
           NEW place \in Places, place \notin Quiet, pc[a] \notin Quiet, Moved(a, place),
           WorldOK', a \in Requests => RequestOK(a, place)', RecoveryOK(a, place)',
           \A r \in Requests : r # a =>
              /\ NotPut(r) => NotPut(r)'
              /\ ~Exists(Backup(r)) => ~Exists(Backup(r))'
    PROVE  Orderly'
<1>1. lock = a
  BY DEF Orderly, LockHeld
<1>2. /\ Goto(a, place) /\ pc[a] # "done"
      /\ UNCHANGED <<lock, answer, migration, job>>
  BY DEF Moved, locals, Quiet
<1> QED
  BY <1>1, <1>2, ActorKeeps

(* A request that answers leaves everything in order; one that reports a    *)
(* failure has not put its copy in service.                                 *)
LEMMA AnswerOrderly ==
    ASSUME BranchTypeOK, BranchTypeOK', Orderly, NEW r \in Requests, pc[r] \notin Quiet,
           NEW what, Answer(r, what), what = "failed" => NotPut(r)',
           WorldOK', MainKept
    PROVE  Orderly'
<1>1. r \in Actors /\ lock = r
  BY DEF Orderly, LockHeld, Actors
<1>2. /\ Goto(r, "done") /\ pc[r] # "done"
      /\ UNCHANGED <<migration, job>>
      /\ answer'[r] = what
      /\ \A q \in Requests : q # r => answer'[q] = answer[q]
  BY DEF Answer, Quiet, BranchTypeOK
<1>3. "done" \in Places /\ "done" \in Quiet
  BY DEF Places, Quiet
<1>4. RequestOK(r, "done")' /\ RecoveryOK(r, "done")'
  BY DEF RequestOK, RecoveryOK, Fresh, Preparing, Switching, Switched, Recovering
<1> QED
  BY <1>1, <1>2, <1>3, <1>4, MainKeptKeeps, ActorKeeps

(* A sweep that ends leaves everything in order.                            *)
LEMMA RestOrderly ==
    ASSUME BranchTypeOK, BranchTypeOK', Orderly, NEW a \in Actors, pc[a] \notin Quiet,
           a \notin Requests, Rest(a), WorldOK', MainKept
    PROVE  Orderly'
<1>1. lock = a
  BY DEF Orderly, LockHeld
<1>2. Goto(a, "idle") /\ pc[a] # "done" /\ UNCHANGED <<answer, migration, job>>
  BY DEF Rest, Quiet
<1>3. "idle" \in Places /\ "idle" \in Quiet
  BY DEF Places, Quiet
<1>4. RecoveryOK(a, "idle")'
  BY DEF RecoveryOK, Recovering
<1> QED
  BY <1>1, <1>2, <1>3, <1>4, MainKeptKeeps, ActorKeeps

(* The world stays in order when databases and journal stay, and the        *)
(* runtime comes up only on a parent that serves.                           *)
LEMMA WorldStays ==
    ASSUME BranchTypeOK, WorldOK, MainKept, journal' = journal,
           runtime' = runtime \/ runtime' # "running" \/ Served
    PROVE  WorldOK'
<1>1. journal # NoEntry => journal.of \in Requests
  BY DEF BranchTypeOK, Entries
<1>2. journal.committed => journal # NoEntry
  BY EntryTyped
<1> QED
  BY <1>1, <1>2, MainKeptKeeps DEF WorldOK

(* And when the entry goes while there is a parent.                         *)
LEMMA WorldClears ==
    ASSUME BranchTypeOK, WorldOK, MainKept, journal' = NoEntry, Exists(Parent),
           runtime' = runtime
    PROVE  WorldOK'
BY EntryTyped, MainKeptKeeps DEF WorldOK

(* And when a commit is recorded that took place, or none.                  *)
LEMMA WorldMarked ==
    ASSUME BranchTypeOK, WorldOK, MainKept, NEW b \in BOOLEAN, journal' = Marked(b),
           b /\ journal # NoEntry => SwitchedFor(journal.of), runtime' = runtime
    PROVE  WorldOK'
<1>1. journal # NoEntry => journal.of \in Requests
  BY DEF BranchTypeOK, Entries
<1>2. /\ journal'.of = journal.of
      /\ journal'.committed => b /\ journal # NoEntry
      /\ journal' = NoEntry <=> journal = NoEntry
  <2>1. journal # NoEntry => journal.of # Nobody
    BY DEF BranchTypeOK
  <2> QED
    BY <2>1, MarkedAt, EntryTyped
<1> QED
  BY <1>1, <1>2, MainKeptKeeps DEF WorldOK

(* Parent and backups stay when all databases do.                           *)
LEMMA SameMain == ASSUME db' = db PROVE MainKept
BY DEF MainKept

-----------------------------------------------------------------------------
(* Recovery under the lock.                                                 *)
LEMMA FreshStays ==
    ASSUME NEW a, NEW here \in Fresh, RequestOK(a, here),
           NotPut(a) => NotPut(a)', ~Exists(Backup(a)) => ~Exists(Backup(a))',
           NEW place \in Recovering
    PROVE  RequestOK(a, place)'
BY DEF RequestOK, Fresh, Preparing, Switching, Switched, Recovering

(* The entry that is read under the lock is the entry that stands.          *)
LEMMA CheckOrderly ==
    ASSUME DataInv, DataInv', Orderly, NEW a \in Actors, Check(a)
    PROVE  Orderly'
<1>0. /\ BranchTypeOK /\ BranchTypeOK' /\ WorldOK
      /\ RecoveryOK(a, "check") /\ (a \in Requests => RequestOK(a, "check"))
      /\ pc[a] = "check" /\ pc[a] \notin Quiet
  BY DEF DataInv, Orderly, Check, Quiet
<1>1. UNCHANGED <<db, journal, runtime>> /\ MainKept
  BY SameMain DEF Check, world
<1>2. WorldOK'
  BY <1>0, <1>1, WorldStays
<1>3. a \in Requests => NotPut(a) /\ ~Exists(Backup(a))
  BY <1>0 DEF RequestOK, Fresh
<1>4. CASE IF a = Sweeper THEN Rest(a) ELSE Answer(a, "failed")
  <2>1. CASE a = Sweeper
    BY <1>0, <1>1, <1>2, <1>4, <2>1, RestOrderly, ReplacementAssumption
  <2>2. CASE a # Sweeper
    BY <1>0, <1>1, <1>2, <1>3, <1>4, <2>2, AnswerOrderly, MainKeptKeeps DEF Actors
  <2> QED
    BY <2>1, <2>2
<1>5. CASE journal = NoEntry /\ UNCHANGED faults
           /\ IF a = Sweeper THEN Rest(a)
              ELSE Goto(a, "begin") /\ UNCHANGED <<lock, locals>>
  <2>1. CASE a = Sweeper
    BY <1>4, <1>5, <2>1
  <2>2. CASE a # Sweeper
    <3>1. a \in Requests /\ Moved(a, "begin")
      BY <1>0, <1>5, <2>2, JournalTyped DEF Actors, Moved
    <3>2. "begin" \in Places /\ "begin" \notin Quiet
      BY DEF Places, Quiet
    <3>3. Exists(Parent)
      BY <1>0, <1>5 DEF WorldOK
    <3>4. RequestOK(a, "begin")'
      BY <1>1, <1>3, <1>5, <3>1, <3>3, MainKeptKeeps
      DEF RequestOK, Fresh, Preparing, Switching, Switched, Recovering
    <3>5. RecoveryOK(a, "begin")'
      BY DEF RecoveryOK, Recovering
    <3> QED
      BY <1>0, <1>1, <1>2, <3>1, <3>2, <3>4, <3>5, MovedOrderly, MainKeptKeeps
  <2> QED
    BY <2>1, <2>2
<1>6. CASE /\ journal # NoEntry
           /\ job' = [job EXCEPT ![a] = [of |-> journal.of, committed |-> journal.committed,
                                         temp |-> FALSE]]
           /\ Goto(a, "look")
           /\ UNCHANGED <<lock, sound, answer, migration, exclusive, faults>>
  <2>1. /\ job'[a].of = journal.of /\ job'[a].committed = journal.committed
        /\ \A b \in Actors : b # a => job'[b] = job[b]
    BY <1>0, <1>6 DEF BranchTypeOK
  <2>2. lock = a /\ lock' = a /\ pc[a] # "done"
    BY <1>0, <1>6 DEF Orderly, LockHeld
  <2>3. "look" \in Places /\ "look" \in Recovering /\ "check" \in Fresh
    BY DEF Places, Recovering, Fresh
  <2>4. a \in Requests => RequestOK(a, "look")'
    BY <1>0, <1>1, <2>3, FreshStays, MainKeptKeeps
  <2>5. journal.of \in Requests
    BY <1>0, <1>6, JobFields
  <2>6. RecoveryOK(a, "look")'
    BY <1>0, <1>1, <1>6, <2>1, <2>5, MainKeptKeeps DEF RecoveryOK, WorldOK
  <2> QED
    BY <1>0, <1>1, <1>2, <1>6, <2>1, <2>2, <2>3, <2>4, <2>6, ActorKeeps, MainKeptKeeps
<1> QED
  BY <1>4, <1>5, <1>6 DEF Check

(* What the names say about the entry is true: a commit is inferred only    *)
(* from a switch that took place, and a rename is tried only for a parent   *)
(* that is away.                                                            *)
LEMMA LookOrderly ==
    ASSUME DataInv, DataInv', Orderly, NEW a \in Actors, Look(a)
    PROVE  Orderly'
<1> DEFINE p == Exists(Parent)
           b == Exists(Backup(job[a].of))
           t == Exists(Temp(job[a].of))
           e == [of |-> job[a].of, temp |-> t,
                 committed |-> job[a].committed \/ (p /\ b /\ ~t)]
<1>0. /\ BranchTypeOK /\ BranchTypeOK' /\ WorldOK
      /\ RecoveryOK(a, "look") /\ (a \in Requests => RequestOK(a, "look"))
      /\ pc[a] = "look" /\ pc[a] \notin Quiet
  BY DEF DataInv, Orderly, Look, Quiet
<1>1. UNCHANGED <<db, journal, runtime>> /\ MainKept
  BY SameMain DEF Look, world
<1>2. WorldOK'
  BY <1>0, <1>1, WorldStays
<1>3. a \in Requests => NotPut(a)
  BY <1>0 DEF RequestOK, Fresh, Recovering
<1>4. CASE IF a = Sweeper THEN Rest(a) ELSE Answer(a, "failed")
  <2>1. CASE a = Sweeper
    BY <1>0, <1>1, <1>2, <1>4, <2>1, RestOrderly, ReplacementAssumption
  <2>2. CASE a # Sweeper
    BY <1>0, <1>1, <1>2, <1>3, <1>4, <2>2, AnswerOrderly, MainKeptKeeps DEF Actors
  <2> QED
    BY <2>1, <2>2
<1>5. ASSUME NEW place, NEW q, place = NextRecovery(p, b, t), q = job[a].of,
             Goto(a, place), job' = [job EXCEPT ![a] = e],
             UNCHANGED <<lock, sound, answer, migration, exclusive, faults>>
      PROVE  Orderly'
  <2>0. e.of = q /\ (e.committed <=> job[a].committed \/ (p /\ b /\ ~t))
    BY <1>5
  <2>1. /\ job'[a] = e
        /\ \A c \in Actors : c # a => job'[c] = job[c]
    BY <1>0, <1>5 DEF BranchTypeOK
  <2>2. lock = a /\ lock' = a /\ pc[a] # "done"
    BY <1>0, <1>5 DEF Orderly, LockHeld
  <2>3. /\ place \in {"reStart", "reOpen", "reName", "reMark"}
        /\ place = "reName" => ~p
    BY <1>5 DEF NextRecovery
  <2>4. place \in Places /\ place \in Recovering /\ "look" \in Fresh /\ place # "reRemove"
        /\ "look" \in Recovering
    BY <2>3 DEF Places, Recovering, Fresh
  <2>5. q \in Requests /\ journal # NoEntry /\ journal.of = q
    BY <1>0, <1>5, <2>4 DEF RecoveryOK, DataInv
  <2>6. e.committed => SwitchedFor(q)
    <3>1. CASE job[a].committed
      BY <1>0, <1>5, <2>4, <3>1 DEF RecoveryOK
    <3>2. CASE p /\ b /\ ~t
      BY <1>0, <1>5, <2>5, <3>2 DEF WorldOK, SwitchedFor
    <3> QED
      BY <2>0, <3>1, <3>2
  <2>7. a \in Requests => RequestOK(a, place)'
    BY <1>0, <1>1, <2>4, FreshStays, MainKeptKeeps
  <2>8. RecoveryOK(a, place)'
    <3>1. job'[a].of = q /\ journal' = journal
      BY <1>1, <2>0, <2>1
    <3>2. job'[a].committed => SwitchedFor(q)'
      BY <1>1, <2>1, <2>5, <2>6, MainKeptKeeps
    <3>3. place = "reName" => ~Exists(Parent)'
      BY <1>1, <2>3, MainKeptKeeps
    <3> QED
      BY <2>4, <2>5, <3>1, <3>2, <3>3 DEF RecoveryOK
  <2>9. \A r \in Requests : r # a =>
              /\ NotPut(r) => NotPut(r)'
              /\ ~Exists(Backup(r)) => ~Exists(Backup(r))'
              /\ answer'[r] = answer[r]
    BY <1>1, <1>5, MainKeptKeeps
  <2> QED
    BY <1>0, <1>2, <1>5, <2>1, <2>2, <2>4, <2>7, <2>8, <2>9, ActorKeeps
<1>6. \/ IF a = Sweeper THEN Rest(a) ELSE Answer(a, "failed")
      \/ /\ Goto(a, NextRecovery(p, b, t)) /\ job' = [job EXCEPT ![a] = e]
         /\ UNCHANGED <<lock, sound, answer, migration, exclusive, faults>>
  BY <1>0 DEF Look, BranchTypeOK
<1> QED
  BY <1>4, <1>5, <1>6

(* A step of the recovery that goes on with the same entry.                 *)
LEMMA RecoveryMoves ==
    ASSUME DataInv, DataInv', Orderly, NEW a \in Actors,
           pc[a] \in Recovering \ {"reMark"}, NEW place \in Recovering, Moved(a, place),
           NEW q, q = job[a].of, WorldOK', journal' = journal,
           place = "reName" => ~Exists(Parent)', place = "reRemove" => Exists(Parent)',
           job[a].committed => SwitchedFor(q)',
           \A r \in Requests : /\ NotPut(r) => NotPut(r)'
                               /\ ~Exists(Backup(r)) => ~Exists(Backup(r))'
    PROVE  Orderly'
<1>1. /\ BranchTypeOK /\ BranchTypeOK' /\ RecoveryOK(a, pc[a])
      /\ (a \in Requests => RequestOK(a, pc[a]))
  BY DEF DataInv, Orderly
<1>2. place \in Places /\ place \notin Quiet /\ pc[a] \notin Quiet /\ pc[a] \in Fresh
  BY DEF Places, Quiet, Fresh, Recovering
<1>3. job' = job
  BY DEF Moved, locals
<1>4. RecoveryOK(a, place)'
  BY <1>1, <1>3 DEF RecoveryOK
<1>5. a \in Requests => RequestOK(a, place)'
  BY <1>1, <1>2, FreshStays
<1> QED
  BY <1>1, <1>2, <1>4, <1>5, MovedOrderly

(* What a recovery knows before each of its calls.                          *)
LEMMA RecoveryKnows ==
    ASSUME DataInv, Orderly, NEW a \in Actors, pc[a] \in Recovering
    PROVE  /\ BranchTypeOK /\ WorldOK /\ job[a].of \in Requests
           /\ job[a].committed => SwitchedFor(job[a].of)
           /\ pc[a] # "reMark" => journal # NoEntry /\ journal.of = job[a].of
           /\ journal # NoEntry => journal.of = job[a].of
           /\ pc[a] = "reName" => ~Exists(Parent)
           /\ pc[a] = "reRemove" => Exists(Parent)
           /\ a \in Requests => NotPut(a) /\ ~Exists(Backup(a))
<1>1. pc[a] \in Fresh
  BY DEF Fresh
<1>2. RecoveryOK(a, pc[a]) /\ (a \in Requests => RequestOK(a, pc[a]))
  BY DEF Orderly
<1> QED
  BY <1>1, <1>2 DEF DataInv, Orderly, RecoveryOK, RequestOK

(* The backup goes back in place of a parent that is away.                  *)
LEMMA ReNameOrderly ==
    ASSUME DataInv, DataInv', Orderly, NEW a \in Actors, ReName(a)
    PROVE  Orderly'
<1> DEFINE here == "reName"
<1>1. pc[a] = here /\ pc[a] \in Recovering \ {"reMark"}
      /\ Rename(a, Backup(job[a].of), Parent, "reOpen", "reMark")
  BY DEF ReName, Recovering
<1>2. PICK q \in Requests : q = job[a].of
  BY <1>1, RecoveryKnows
<1>3. /\ BranchTypeOK /\ WorldOK /\ ~Exists(Parent)
      /\ journal # NoEntry /\ journal.of = q
  BY <1>1, <1>2, RecoveryKnows
<1>4. ~SwitchedFor(q)
  BY <1>3, AbsentIs, ReplacementAssumption DEF SwitchedFor, Exists, Actors
<1>5. ~job[a].committed /\ ~journal.committed
  BY <1>1, <1>2, <1>3, <1>4, RecoveryKnows DEF WorldOK
<1>6. {"reOpen", "reMark"} \subseteq Recovering \ {"reName", "reRemove"}
  BY DEF Recovering
<1>7. UNCHANGED <<journal, runtime>>
  BY <1>1, <1>3, RenameStep
<1>8. CASE db' = db
  <2>1. Moved(a, "reMark") \/ Moved(a, "reOpen")
    BY <1>1, <1>3, RenameStep
  <2>2. WorldOK' /\ MainKept
    BY <1>3, <1>7, <1>8, SameMain, WorldStays
  <2> QED
    BY <1>1, <1>2, <1>5, <1>6, <1>7, <2>1, <2>2, MainKeptKeeps, RecoveryMoves
<1>9. CASE db' # db
  <2>1. /\ Moved(a, "reMark") \/ Moved(a, "reOpen")
        /\ Exists(Backup(q)) /\ db' = Renamed(Backup(q), Parent)
    BY <1>1, <1>2, <1>3, <1>9, RenameStep
  <2>2. /\ Exists(Parent)' /\ ~Exists(Backup(q))'
        /\ \A r \in Requests : /\ NotPut(r) => NotPut(r)'
                               /\ r # q => db'[Backup(r)] = db[Backup(r)]
    BY <1>3, <2>1, BackupRenamed
  <2>3. \A r \in Requests : ~Exists(Backup(r)) => ~Exists(Backup(r))'
    BY <2>2 DEF Exists
  <2>4. runtime' # "running"
    BY <1>3, <1>7 DEF WorldOK, Served
  <2>5. WorldOK'
    BY <1>3, <1>5, <1>7, <2>2, <2>4 DEF WorldOK
  <2> QED
    BY <1>1, <1>2, <1>5, <1>6, <1>7, <2>1, <2>2, <2>3, <2>5, RecoveryMoves
<1> QED
  BY <1>8, <1>9

(* The parent may be opened or shut: nothing else in the world changes.     *)
LEMMA WorldAllowed ==
    ASSUME DataInv, WorldOK, NEW b \in BOOLEAN, Exists(Parent), db' = ConnectionsAllowed(b),
           journal' = journal, runtime' = runtime, b \/ runtime # "running"
    PROVE  /\ WorldOK'
           /\ \A q \in Requests : /\ SwitchedFor(q)' <=> SwitchedFor(q)
                                  /\ Exists(Backup(q))' <=> Exists(Backup(q))
<1>1. /\ Exists(Parent)' /\ (b => Served') /\ db'[Parent].of = db[Parent].of
      /\ \A q \in Requests : db'[Backup(q)] = db[Backup(q)]
  BY AllowedKeeps
<1>2. \A q \in Requests : /\ SwitchedFor(q)' <=> SwitchedFor(q)
                          /\ Exists(Backup(q))' <=> Exists(Backup(q))
  BY <1>1 DEF SwitchedFor, Exists
<1>3. /\ journal # NoEntry => journal.of \in Requests
      /\ journal.committed => journal # NoEntry
  BY EntryTyped DEF DataInv, BranchTypeOK, Entries
<1> QED
  BY <1>1, <1>2, <1>3 DEF WorldOK

(* The parent is opened again.                                              *)
LEMMA ReOpenOrderly ==
    ASSUME DataInv, DataInv', Orderly, NEW a \in Actors, ReOpen(a)
    PROVE  Orderly'
<1>1. pc[a] = "reOpen" /\ pc[a] \in Recovering \ {"reMark"}
  BY DEF ReOpen, Recovering
<1>2. PICK q \in Requests : q = job[a].of
  BY <1>1, RecoveryKnows
<1>3. BranchTypeOK /\ WorldOK /\ (job[a].committed => SwitchedFor(q))
  BY <1>1, <1>2, RecoveryKnows
<1>4. PICK ok \in {"reDrop", "reStart"} : Allow(a, TRUE, ok, "reMark")
  BY DEF ReOpen
<1>5. {"reDrop", "reStart", "reMark"} \subseteq Recovering \ {"reName", "reRemove"}
  BY DEF Recovering
<1>6. /\ UNCHANGED <<journal, runtime>> /\ (Moved(a, ok) \/ Moved(a, "reMark"))
      /\ db' = db \/ (Exists(Parent) /\ db' = ConnectionsAllowed(TRUE))
  BY <1>3, <1>4, AllowStep
<1>7. CASE db' = db
  <2>1. WorldOK' /\ MainKept
    BY <1>3, <1>6, <1>7, SameMain, WorldStays
  <2> QED
    BY <1>1, <1>2, <1>3, <1>5, <1>6, <2>1, MainKeptKeeps, RecoveryMoves
<1>8. CASE Exists(Parent) /\ db' = ConnectionsAllowed(TRUE)
  <2>1. /\ WorldOK'
        /\ \A r \in Requests : /\ SwitchedFor(r)' <=> SwitchedFor(r)
                               /\ Exists(Backup(r))' <=> Exists(Backup(r))
    BY <1>3, <1>6, <1>8, WorldAllowed
  <2>2. \A r \in Requests : NotPut(r) => NotPut(r)'
    BY <1>8, AllowedKeeps
  <2> QED
    BY <1>1, <1>2, <1>3, <1>5, <1>6, <2>1, <2>2, RecoveryMoves
<1> QED
  BY <1>6, <1>7, <1>8

(* The temporary database of the entry is dropped.                          *)
LEMMA ReDropOrderly ==
    ASSUME DataInv, DataInv', Orderly, NEW a \in Actors, ReDrop(a)
    PROVE  Orderly'
<1>1. pc[a] = "reDrop" /\ pc[a] \in Recovering \ {"reMark"}
  BY DEF ReDrop, Recovering
<1>2. PICK q \in Requests : q = job[a].of
  BY <1>1, RecoveryKnows
<1>3. BranchTypeOK /\ WorldOK /\ (job[a].committed => SwitchedFor(q))
  BY <1>1, <1>2, RecoveryKnows
<1>4. {"reStart", "reMark"} \subseteq Recovering \ {"reName", "reRemove"}
  BY DEF Recovering
<1>5. /\ UNCHANGED <<journal, runtime>> /\ (Moved(a, "reStart") \/ Moved(a, "reMark"))
      /\ db' = db \/ db' = Dropped(Temp(q))
  BY <1>2, <1>3, DropStep DEF ReDrop
<1>6. WorldOK' /\ MainKept
  BY <1>3, <1>5, SameMain, TempKeepsMain, WorldStays
<1> QED
  BY <1>1, <1>2, <1>3, <1>4, <1>5, <1>6, MainKeptKeeps, RecoveryMoves

(* The services are restarted on the parent.                                *)
LEMMA ReStartOrderly ==
    ASSUME DataInv, DataInv', Orderly, NEW a \in Actors, ReStart(a)
    PROVE  Orderly'
<1>1. pc[a] = "reStart" /\ pc[a] \in Recovering \ {"reMark"}
  BY DEF ReStart, Recovering
<1>2. PICK q \in Requests : q = job[a].of
  BY <1>1, RecoveryKnows
<1>3. BranchTypeOK /\ WorldOK /\ (job[a].committed => SwitchedFor(q))
  BY <1>1, <1>2, RecoveryKnows
<1>4. "reRemove" \in Recovering /\ "reMark" \in Recovering
  BY DEF Recovering
<1>5. /\ UNCHANGED <<db, journal>>
      /\ (Moved(a, "reRemove") /\ Exists(Parent)) \/ Moved(a, "reMark")
      /\ runtime' = "down" \/ Served
  BY <1>3, RestartStep DEF ReStart, Served
<1>6. WorldOK' /\ MainKept
  BY <1>3, <1>5, SameMain, WorldStays
<1> QED
  BY <1>1, <1>2, <1>3, <1>4, <1>5, <1>6, MainKeptKeeps, RecoveryMoves

(* The entry goes while there is a parent; a request then begins with no    *)
(* entry in its way.                                                        *)
LEMMA ReRemoveOrderly ==
    ASSUME DataInv, DataInv', Orderly, NEW a \in Actors, ReRemove(a)
    PROVE  Orderly'
<1>1. pc[a] = "reRemove" /\ pc[a] \in Recovering /\ pc[a] \notin Quiet
  BY DEF ReRemove, Recovering, Quiet
<1>2. PICK q \in Requests : q = job[a].of
  BY <1>1, RecoveryKnows
<1>3. /\ BranchTypeOK /\ BranchTypeOK' /\ WorldOK /\ Exists(Parent)
      /\ journal # NoEntry /\ journal.of = q /\ (job[a].committed => SwitchedFor(q))
      /\ (a \in Requests => NotPut(a) /\ ~Exists(Backup(a)))
  BY <1>1, <1>2, RecoveryKnows DEF DataInv
<1>4. /\ UNCHANGED <<db, runtime>> /\ MainKept /\ journal' \in {journal, NoEntry}
      /\ faults' \in 0..MaxFaults
  BY <1>3, SameMain, JournalTyped, DisturbedTyped DEF ReRemove
<1>5. WorldOK'
  BY <1>3, <1>4, WorldStays, WorldClears
<1>6. CASE a = Sweeper /\ Rest(a)
  BY <1>1, <1>3, <1>4, <1>5, <1>6, RestOrderly, ReplacementAssumption
<1>7. CASE a # Sweeper /\ Moved(a, "begin") /\ journal' = NoEntry
  <2>1. a \in Requests /\ "begin" \in Places /\ "begin" \notin Quiet
    BY <1>7 DEF Actors, Places, Quiet
  <2>2. RequestOK(a, "begin")'
    BY <1>3, <1>4, <1>7, <2>1, MainKeptKeeps
    DEF RequestOK, Fresh, Preparing, Switching, Switched, Recovering
  <2>3. RecoveryOK(a, "begin")'
    BY DEF RecoveryOK, Recovering
  <2> QED
    BY <1>1, <1>3, <1>4, <1>5, <1>7, <2>1, <2>2, <2>3, MovedOrderly, MainKeptKeeps
<1>8. CASE Moved(a, "reMark")
  <2>1. "reMark" \in Recovering /\ "reMark" \in Places /\ "reMark" \notin Quiet
        /\ "reRemove" \in Fresh
    BY DEF Recovering, Places, Quiet, Fresh
  <2>2. a \in Requests => RequestOK(a, "reMark")'
    BY <1>1, <1>3, <1>4, <2>1, FreshStays, MainKeptKeeps DEF Orderly
  <2>3. job' = job
    BY <1>8 DEF Moved, locals
  <2>4. RecoveryOK(a, "reMark")'
    BY <1>2, <1>3, <1>4, <2>3, MainKeptKeeps DEF RecoveryOK
  <2> QED
    BY <1>1, <1>3, <1>4, <1>5, <1>8, <2>1, <2>2, <2>4, MovedOrderly, MainKeptKeeps
<1> QED
  BY <1>4, <1>6, <1>7, <1>8 DEF ReRemove, Moved

(* A recovery that failed records only a commit that took place.            *)
LEMMA ReMarkOrderly ==
    ASSUME DataInv, DataInv', Orderly, NEW a \in Actors, ReMark(a)
    PROVE  Orderly'
<1>1. pc[a] = "reMark" /\ pc[a] \in Recovering /\ pc[a] \notin Quiet
  BY DEF ReMark, Recovering, Quiet
<1>2. /\ BranchTypeOK /\ BranchTypeOK' /\ WorldOK /\ job[a].committed \in BOOLEAN
      /\ job[a].committed /\ journal # NoEntry => SwitchedFor(journal.of)
  BY <1>1, RecoveryKnows, JobFields DEF DataInv
<1>3. /\ UNCHANGED <<db, runtime>> /\ MainKept
      /\ journal' = Marked(job[a].committed) \/ journal' = journal
  BY SameMain DEF ReMark
<1>4. WorldOK'
  BY <1>2, <1>3, WorldStays, WorldMarked
<1>5. (a = Sweeper /\ Rest(a)) \/ (a \in Requests /\ Answer(a, "blocked"))
  BY DEF ReMark, Actors
<1> QED
  BY <1>1, <1>2, <1>3, <1>4, <1>5, RestOrderly, AnswerOrderly, ReplacementAssumption

(* recoverReplacementJournalEntry keeps everything in order.                *)
LEMMA RecoveryOrderly ==
    ASSUME DataInv, DataInv', Orderly, NEW a \in Actors, Recovery(a)
    PROVE  Orderly'
BY CheckOrderly, LookOrderly, ReNameOrderly, ReOpenOrderly, ReDropOrderly, ReStartOrderly,
   ReRemoveOrderly, ReMarkOrderly DEF Recovery

-----------------------------------------------------------------------------
(* The replacement itself under the lock.                                   *)
LEMMA RequestMoves ==
    ASSUME DataInv, DataInv', Orderly, NEW r \in Requests, pc[r] \notin Quiet,
           NEW place \in Places \ (Quiet \cup Recovering), Moved(r, place),
           WorldOK', RequestOK(r, place)',
           \A q \in Requests : q # r => /\ NotPut(q) => NotPut(q)'
                                        /\ ~Exists(Backup(q)) => ~Exists(Backup(q))'
    PROVE  Orderly'
<1>1. RecoveryOK(r, place)'
  BY DEF RecoveryOK, Recovering
<1> QED
  BY <1>1, MovedOrderly DEF DataInv, Actors

(* A call that leaves parent, backups, journal and runtime as they are.     *)
LEMMA RequestPasses ==
    ASSUME DataInv, DataInv', Orderly, NEW r \in Requests, pc[r] \notin Quiet,
           NEW place \in Places \ (Quiet \cup Recovering), Moved(r, place),
           MainKept, UNCHANGED <<journal, runtime>>,
           RequestOK(r, pc[r]) => RequestOK(r, place)
    PROVE  Orderly'
<1>1. WorldOK'
  BY WorldStays DEF DataInv, Orderly
<1>2. RequestOK(r, place) /\ sound' = sound
  BY DEF Orderly, Moved, locals
<1>3. RequestOK(r, place)'
  BY <1>2, MainKeptKeeps DEF RequestOK
<1> QED
  BY <1>1, <1>3, MainKeptKeeps, RequestMoves

(* A request takes the lock, or is told that it is taken.                   *)
LEMMA AcquireOrderly ==
    ASSUME DataInv, DataInv', Orderly, NEW r \in Requests, Acquire(r)
    PROVE  Orderly'
<1>0. /\ BranchTypeOK /\ BranchTypeOK' /\ WorldOK /\ r \in Actors
      /\ pc[r] = "idle" /\ RequestOK(r, "idle")
  BY DEF DataInv, Orderly, Acquire, Actors
<1>1. UNCHANGED <<db, journal, runtime>> /\ MainKept
  BY SameMain DEF Acquire, world
<1>2. WorldOK'
  BY <1>0, <1>1, WorldStays
<1>3. CASE lock = Nobody /\ lock' = r /\ Goto(r, "check") /\ UNCHANGED locals
  <2>1. "check" \in Places
    BY DEF Places
  <2>2. RequestOK(r, "check")' /\ RecoveryOK(r, "check")'
    BY <1>0, <1>1, MainKeptKeeps
    DEF RequestOK, RecoveryOK, Fresh, Preparing, Switching, Switched, Recovering
  <2> QED
    BY <1>0, <1>1, <1>2, <1>3, <2>1, <2>2, MainKeptKeeps, ActorKeeps DEF locals
<1>4. CASE Answer(r, "locked")
  <2>1. /\ pc'[r] = "done" /\ \A a \in Actors : a # r => pc'[a] = pc[a]
        /\ answer'[r] = "locked" /\ \A q \in Requests : q # r => answer'[q] = answer[q]
        /\ UNCHANGED <<job, sound, migration>> /\ lock' = Released(r)
    BY <1>0, <1>4 DEF Answer, Goto, BranchTypeOK
  <2>2. LockHeld'
    BY <2>1, ReplacementAssumption DEF LockHeld, Orderly, Released, Quiet, Migrations
  <2>3. ASSUME NEW q \in Requests PROVE RequestOK(q, pc[q])'
    <3>1. CASE q = r
      BY <2>1, <3>1 DEF RequestOK, Fresh, Preparing, Switching, Switched, Recovering
    <3>2. CASE q # r
      BY <1>1, <2>1, <3>2, MainKeptKeeps DEF Orderly, RequestOK, Actors
    <3> QED
      BY <3>1, <3>2
  <2>4. ASSUME NEW a \in Actors PROVE RecoveryOK(a, pc[a])'
    <3>1. CASE a = r
      BY <2>1, <3>1 DEF RecoveryOK, Recovering
    <3>2. CASE a # r
      BY <1>1, <2>1, <3>2 DEF Orderly, RecoveryOK, SwitchedFor, Exists
    <3> QED
      BY <3>1, <3>2
  <2>5. \A q \in Requests : answer'[q] = "failed" => pc'[q] = "done" /\ NotPut(q)'
    BY <1>1, <2>1, MainKeptKeeps DEF Orderly, Actors
  <2>6. \A m \in Executors : migration'[m] = "running" => journal' = NoEntry
    BY <1>1, <2>1 DEF Orderly
  <2> QED
    BY <1>2, <2>2, <2>3, <2>4, <2>5, <2>6 DEF Orderly
<1> QED
  BY <1>3, <1>4 DEF Acquire

(* The entry is written before anything else changes.                       *)
LEMMA BeginOrderly ==
    ASSUME DataInv, DataInv', Orderly, NEW r \in Requests, Begin(r)
    PROVE  Orderly'
<1>0. /\ BranchTypeOK /\ BranchTypeOK' /\ WorldOK /\ pc[r] = "begin" /\ pc[r] \notin Quiet
      /\ RequestOK(r, "begin")
  BY DEF DataInv, Orderly, Begin, Quiet
<1>1. journal = NoEntry /\ NotPut(r) /\ ~Exists(Backup(r)) /\ Exists(Parent)
  BY <1>0 DEF RequestOK, Fresh, Preparing
<1>2. /\ UNCHANGED <<db, runtime>> /\ MainKept
      /\ journal' = journal \/ journal' = Begun(r)
  BY SameMain DEF Begin
<1>3. WorldOK'
  <2>1. CASE journal' = journal
    BY <1>0, <1>2, <2>1, WorldStays
  <2>2. CASE journal' = Begun(r)
    BY <1>0, <1>1, <1>2, <2>2, EntryTyped, MainKeptKeeps DEF WorldOK
  <2> QED
    BY <1>2, <2>1, <2>2
<1>4. CASE Moved(r, "create") /\ journal' = Begun(r)
  <2>1. "create" \in Places \ (Quiet \cup Recovering)
    BY DEF Places, Quiet, Recovering
  <2>2. RequestOK(r, "create")'
    BY <1>1, <1>2, <1>4, EntryTyped, MainKeptKeeps
    DEF RequestOK, Fresh, Preparing, Switching, Switched, Recovering
  <2> QED
    BY <1>0, <1>2, <1>3, <1>4, <2>1, <2>2, MainKeptKeeps, RequestMoves
<1>5. CASE Answer(r, "failed")
  BY <1>0, <1>1, <1>2, <1>3, <1>5, MainKeptKeeps, AnswerOrderly
<1> QED
  BY <1>0, <1>4, <1>5, JournalTyped DEF Begin, Moved

(* Preparing the copy touches neither parent nor journal.                   *)
LEMMA PrepareOrderly ==
    ASSUME DataInv, DataInv', Orderly, NEW r \in Requests,
           Create(r) \/ Clone(r) \/ Discard(r) \/ Prepared(r)
    PROVE  Orderly'
<1> USE DEF Quiet, Recovering
<1>0. BranchTypeOK /\ r \in Actors
  BY DEF DataInv, Actors
<1>1. {"clone", "discard", "prepared", "abandon", "stop"}
         \subseteq Places \ (Quiet \cup Recovering)
  BY DEF Places
<1>2. \A here \in {"create", "clone", "discard", "prepared"},
         place \in {"clone", "discard", "prepared", "abandon", "stop"} :
            RequestOK(r, here) => RequestOK(r, place)
  BY DEF RequestOK, Fresh, Preparing, Switching, Switched
<1>3. pc[r] \in {"create", "clone", "discard", "prepared"} /\ pc[r] \notin Quiet
  BY DEF Create, Clone, Discard, Prepared
<1>4. CASE Create(r)
  <2>1. UNCHANGED <<journal, runtime>> /\ (Moved(r, "clone") \/ Moved(r, "discard"))
        /\ (db' = Holding(Temp(r), "partial", r) \/ db' = db)
    BY <1>0, <1>4, CreateStep
  <2>2. MainKept
    BY <1>0, <2>1, SameMain, TempKeepsMain DEF Kinds
  <2> QED
    BY <1>1, <1>2, <1>3, <2>1, <2>2, RequestPasses
<1>5. CASE Clone(r)
  <2>1. UNCHANGED <<journal, runtime>> /\ (Moved(r, "prepared") \/ Moved(r, "discard"))
        /\ (db' = Holding(Temp(r), "copy", r) \/ db' = db)
    BY <1>0, <1>5, CloneStep
  <2>2. MainKept
    BY <1>0, <2>1, SameMain, TempKeepsMain DEF Kinds
  <2> QED
    BY <1>1, <1>2, <1>3, <2>1, <2>2, RequestPasses
<1>6. CASE Discard(r)
  <2>1. UNCHANGED <<journal, runtime>> /\ Moved(r, "abandon")
        /\ (db' = Dropped(Temp(r)) \/ db' = db)
    BY <1>0, <1>6, DropStep DEF Discard
  <2>2. MainKept
    BY <1>0, <2>1, SameMain, TempKeepsMain
  <2> QED
    BY <1>1, <1>2, <1>3, <2>1, <2>2, RequestPasses
<1>7. CASE Prepared(r)
  <2>1. UNCHANGED <<db, journal, runtime>> /\ (Moved(r, "stop") \/ Moved(r, "abandon"))
    BY <1>0, <1>7, WriteStep DEF Prepared, Note
  <2> QED
    BY <1>1, <1>2, <1>3, <2>1, SameMain, RequestPasses
<1> QED
  BY <1>4, <1>5, <1>6, <1>7

(* A request gives up before the switch.                                    *)
LEMMA AbandonOrderly ==
    ASSUME DataInv, DataInv', Orderly, NEW r \in Requests, Abandon(r)
    PROVE  Orderly'
<1>0. /\ BranchTypeOK /\ BranchTypeOK' /\ WorldOK /\ pc[r] = "abandon" /\ pc[r] \notin Quiet
      /\ RequestOK(r, "abandon")
  BY DEF DataInv, Orderly, Abandon, Quiet
<1>1. NotPut(r) /\ Exists(Parent)
  BY <1>0 DEF RequestOK, Fresh, Preparing
<1>2. /\ UNCHANGED <<db, runtime>> /\ journal' \in {NoEntry, journal} /\ Answer(r, "failed")
      /\ MainKept
  BY <1>0, LastCallStep, SameMain DEF Abandon
<1>3. WorldOK'
  BY <1>0, <1>1, <1>2, WorldStays, WorldClears
<1> QED
  BY <1>0, <1>1, <1>2, <1>3, MainKeptKeeps, AnswerOrderly

-----------------------------------------------------------------------------
(* The switch.                                                              *)
LEMMA SwitchPlaces ==
    {"shut", "noteShut", "rename1", "noteRenamed", "rename2", "noteCommitted",
     "lateRestart", "lateMark", "restart", "finish", "rollBack", "rollOpen",
     "rollDrop", "rollStart", "rollEnd"} \subseteq Places \ (Quiet \cup Recovering)
BY DEF Places, Quiet, Recovering

(* The switch goes on only when the services are down.                      *)
LEMMA StopOrderly ==
    ASSUME DataInv, DataInv', Orderly, NEW r \in Requests, Stop(r)
    PROVE  Orderly'
<1>0. /\ BranchTypeOK /\ WorldOK /\ pc[r] = "stop" /\ pc[r] \notin Quiet
      /\ RequestOK(r, "stop")
  BY DEF DataInv, Orderly, Stop, Quiet
<1>1. /\ UNCHANGED <<db, journal>> /\ MainKept
      /\ \/ Moved(r, "shut") /\ runtime' = "down"
         \/ Moved(r, "rollDrop") /\ runtime' \in {runtime, "down"}
  BY <1>0, StopStep, SameMain
<1>2. WorldOK'
  BY <1>0, <1>1, WorldStays
<1>3. ASSUME NEW place \in {"shut", "rollDrop"}, place = "shut" => runtime' = "down"
      PROVE  RequestOK(r, place)'
  BY <1>0, <1>1, <1>3, MainKeptKeeps
  DEF RequestOK, Fresh, Preparing, Switching, Switched, Recovering
<1> QED
  BY <1>0, <1>1, <1>2, <1>3, SwitchPlaces, MainKeptKeeps, RequestMoves

(* The parent is shut when no service runs on it.                           *)
LEMMA ShutOrderly ==
    ASSUME DataInv, DataInv', Orderly, NEW r \in Requests, Shut(r)
    PROVE  Orderly'
<1>0. /\ BranchTypeOK /\ WorldOK /\ pc[r] = "shut" /\ pc[r] \notin Quiet
      /\ RequestOK(r, "shut")
  BY DEF DataInv, Orderly, Shut, Quiet
<1>1. /\ NotPut(r) /\ ~Exists(Backup(r)) /\ Exists(Parent)
      /\ journal.of = r /\ ~journal.committed /\ runtime # "running"
  BY <1>0 DEF RequestOK, Fresh, Preparing, Switching
<1>2. /\ UNCHANGED <<journal, runtime>> /\ (Moved(r, "noteShut") \/ Moved(r, "rollDrop"))
      /\ db' = db \/ db' = ConnectionsAllowed(FALSE)
  BY <1>0, AllowStep DEF Shut
<1>3. CASE db' = db
  <2>1. \A place \in {"noteShut", "rollDrop"} : RequestOK(r, "shut") => RequestOK(r, place)
    BY DEF RequestOK, Fresh, Preparing, Switching, Switched, Recovering
  <2> QED
    BY <1>0, <1>2, <1>3, <2>1, SameMain, SwitchPlaces, RequestPasses
<1>4. CASE db' = ConnectionsAllowed(FALSE)
  <2>1. WorldOK' /\ \A q \in Requests : Exists(Backup(q))' <=> Exists(Backup(q))
    BY <1>0, <1>1, <1>2, <1>4, WorldAllowed
  <2>2. Exists(Parent)' /\ \A q \in Requests : NotPut(q) => NotPut(q)'
    BY <1>1, <1>4, AllowedKeeps
  <2>3. ASSUME NEW place \in {"noteShut", "rollDrop"} PROVE RequestOK(r, place)'
    BY <1>1, <1>2, <2>1, <2>2
    DEF RequestOK, Fresh, Preparing, Switching, Switched, Recovering
  <2> QED
    BY <1>0, <1>2, <2>1, <2>2, <2>3, SwitchPlaces, RequestMoves
<1> QED
  BY <1>2, <1>3, <1>4

(* The notes of the phase change nothing that recovery looks at.            *)
LEMMA NoteOrderly ==
    ASSUME DataInv, DataInv', Orderly, NEW r \in Requests, NoteShut(r) \/ NoteRenamed(r)
    PROVE  Orderly'
<1>0. BranchTypeOK
  BY DEF DataInv
<1>1. CASE NoteShut(r)
  <2>1. /\ UNCHANGED <<db, journal, runtime>> /\ pc[r] = "noteShut" /\ pc[r] \notin Quiet
        /\ Moved(r, "rename1") \/ Moved(r, "rollOpen")
    BY <1>0, <1>1, WriteStep DEF NoteShut, Note, Quiet
  <2>2. \A place \in {"rename1", "rollOpen"} : RequestOK(r, "noteShut") => RequestOK(r, place)
    BY DEF RequestOK, Fresh, Preparing, Switching, Switched, Recovering
  <2> QED
    BY <2>1, <2>2, SameMain, SwitchPlaces, RequestPasses
<1>2. CASE NoteRenamed(r)
  <2>1. /\ UNCHANGED <<db, journal, runtime>> /\ pc[r] = "noteRenamed" /\ pc[r] \notin Quiet
        /\ Moved(r, "rename2") \/ Moved(r, "rollBack")
    BY <1>0, <1>2, WriteStep DEF NoteRenamed, Note, Quiet
  <2>2. \A place \in {"rename2", "rollBack"} :
            RequestOK(r, "noteRenamed") => RequestOK(r, place)
    BY DEF RequestOK, Fresh, Preparing, Switching, Switched, Recovering
  <2> QED
    BY <2>1, <2>2, SameMain, SwitchPlaces, RequestPasses
<1> QED
  BY <1>1, <1>2

(* The parent goes away only under an entry that names its backup.          *)
LEMMA RenameParentOrderly ==
    ASSUME DataInv, DataInv', Orderly, NEW r \in Requests, RenameParent(r)
    PROVE  Orderly'
<1>0. /\ BranchTypeOK /\ WorldOK /\ pc[r] = "rename1" /\ pc[r] \notin Quiet
      /\ RequestOK(r, "rename1")
  BY DEF DataInv, Orderly, RenameParent, Quiet
<1>1. /\ NotPut(r) /\ ~Exists(Backup(r)) /\ Exists(Parent)
      /\ journal.of = r /\ ~journal.committed /\ runtime # "running"
  BY <1>0 DEF RequestOK, Fresh, Preparing, Switching
<1>2. UNCHANGED <<journal, runtime>> /\ Rename(r, Parent, Backup(r), "noteRenamed", "rollOpen")
  BY <1>0, RenameStep DEF RenameParent
<1>3. CASE db' = db
  <2>1. Moved(r, "rollOpen")
    <3>1. db'[Parent] # Absent
      BY <1>1, <1>3 DEF Exists
    <3> QED
      BY <1>0, <1>2, <3>1, RenameStep, RenamedAt, NamesDiffer DEF BranchTypeOK
  <2>2. RequestOK(r, "rename1") => RequestOK(r, "rollOpen")
    BY DEF RequestOK, Fresh, Preparing, Switching, Switched, Recovering
  <2> QED
    BY <1>0, <1>2, <1>3, <2>1, <2>2, SameMain, SwitchPlaces, RequestPasses
<1>4. CASE db' # db
  <2>1. /\ Moved(r, "noteRenamed") \/ Moved(r, "rollOpen")
        /\ db' = Renamed(Parent, Backup(r))
    BY <1>0, <1>2, <1>4, RenameStep
  <2>2. /\ ~Exists(Parent)' /\ Exists(Backup(r))'
        /\ \A q \in Requests : /\ NotPut(q) => NotPut(q)'
                               /\ q # r => db'[Backup(q)] = db[Backup(q)]
    BY <1>0, <1>1, <2>1, ParentRenamed
  <2>3. \A q \in Requests : q # r => (~Exists(Backup(q)) => ~Exists(Backup(q))')
    BY <2>2 DEF Exists
  <2>4. WorldOK'
    BY <1>1, <1>2, <2>2, EntryTyped, ReplacementAssumption DEF WorldOK, Actors
  <2>5. ASSUME NEW place \in {"noteRenamed", "rollOpen"} PROVE RequestOK(r, place)'
    BY <1>1, <1>2, <2>2 DEF RequestOK, Fresh, Preparing, Switching, Switched, Recovering
  <2> QED
    BY <1>0, <2>1, <2>2, <2>3, <2>4, <2>5, SwitchPlaces, RequestMoves
<1> QED
  BY <1>3, <1>4

(* The copy becomes the parent only with the previous database kept.        *)
LEMMA RenameTempOrderly ==
    ASSUME DataInv, DataInv', Orderly, NEW r \in Requests, RenameTemp(r)
    PROVE  Orderly'
<1>0. /\ BranchTypeOK /\ WorldOK /\ pc[r] = "rename2" /\ pc[r] \notin Quiet
      /\ RequestOK(r, "rename2")
  BY DEF DataInv, Orderly, RenameTemp, Quiet
<1>1. NotPut(r) /\ ~Exists(Parent) /\ journal.of = r /\ ~journal.committed
  BY <1>0 DEF RequestOK, Switching
<1>2. Exists(Backup(r)) /\ runtime # "running"
  BY <1>0, <1>1 DEF WorldOK, Served
<1>3. UNCHANGED <<journal, runtime>> /\ Rename(r, Temp(r), Parent, "noteCommitted", "rollBack")
  BY <1>0, RenameStep DEF RenameTemp
<1>4. CASE Moved(r, "rollBack") /\ db' = db
  <2>1. RequestOK(r, "rename2") => RequestOK(r, "rollBack")
    BY DEF RequestOK, Fresh, Preparing, Switching, Switched, Recovering
  <2> QED
    BY <1>0, <1>3, <1>4, <2>1, SameMain, SwitchPlaces, RequestPasses
<1>5. CASE /\ Moved(r, "noteCommitted") \/ Moved(r, "rollBack")
           /\ Exists(Temp(r)) /\ db' = Renamed(Temp(r), Parent)
  <2>1. /\ Exists(Parent)' /\ db'[Parent].of = r
        /\ \A q \in Requests : /\ q # r /\ NotPut(q) => NotPut(q)'
                               /\ db'[Backup(q)] = db[Backup(q)]
    BY <1>1, <1>5, TempRenamed
  <2>2. \A q \in Requests : Exists(Backup(q))' <=> Exists(Backup(q))
    BY <2>1 DEF Exists
  <2>3. SwitchedFor(r)'
    BY <1>2, <2>1, <2>2 DEF SwitchedFor
  <2>4. WorldOK'
    BY <1>1, <1>2, <1>3, <2>1 DEF WorldOK
  <2>5. ASSUME NEW place \in {"noteCommitted", "rollBack"} PROVE RequestOK(r, place)'
    BY <1>1, <1>3, <2>1, <2>3 DEF RequestOK, Fresh, Preparing, Switching, Switched, Recovering
  <2> QED
    BY <1>0, <1>5, <2>1, <2>2, <2>4, <2>5, SwitchPlaces, RequestMoves
<1> QED
  BY <1>0, <1>3, <1>4, <1>5, RenameStep

(* After the switch whatever is recorded or told of a commit is true.       *)
LEMMA SwitchedOrderly ==
    ASSUME DataInv, DataInv', Orderly, NEW r \in Requests,
           \/ NoteCommitted(r) \/ LateRestart(r) \/ RestartNew(r) \/ LateMark(r)
           \/ Finish(r)
    PROVE  Orderly'
<1>0. /\ BranchTypeOK /\ BranchTypeOK' /\ WorldOK /\ pc[r] \in Switched /\ pc[r] \notin Quiet
      /\ RequestOK(r, pc[r])
  BY DEF DataInv, Orderly, NoteCommitted, LateRestart, RestartNew, LateMark, Finish, Quiet,
         Switched
<1>1. journal.of = r /\ SwitchedFor(r) /\ Exists(Parent)
  BY <1>0, AbsentIs, ReplacementAssumption
  DEF RequestOK, Exists, SwitchedFor, Actors
<1>2. db' = db /\ MainKept
  BY <1>0, WriteStep, RestartStep, LastCallStep, SameMain
  DEF NoteCommitted, Mark, LateRestart, RestartNew, LateMark, Finish
<1>3. CASE NoteCommitted(r)
  <2>1. /\ Moved(r, "restart") \/ Moved(r, "lateRestart")
        /\ journal' = Marked(TRUE) \/ journal' = journal
        /\ runtime' = runtime
    BY <1>0, <1>3, WriteStep DEF NoteCommitted, Mark
  <2>2. WorldOK' /\ journal'.of = r
    BY <1>0, <1>1, <1>2, <2>1, WorldStays, WorldMarked, MarkedAt
  <2>3. ASSUME NEW place \in {"restart", "lateRestart"} PROVE RequestOK(r, place)'
    BY <1>1, <1>2, <2>2, MainKeptKeeps
    DEF RequestOK, Fresh, Preparing, Switching, Switched, Recovering
  <2> QED
    BY <1>0, <1>2, <2>1, <2>2, <2>3, MainKeptKeeps, SwitchPlaces, RequestMoves
<1>4. CASE LateRestart(r) \/ RestartNew(r)
  <2>1. /\ Moved(r, "lateMark") \/ Moved(r, "finish")
        /\ journal' = journal
        /\ runtime' = "down" \/ Served
    BY <1>0, <1>4, RestartStep DEF LateRestart, RestartNew
  <2>2. WorldOK'
    BY <1>0, <1>2, <2>1, WorldStays
  <2>3. ASSUME NEW place \in {"lateMark", "finish"} PROVE RequestOK(r, place)'
    BY <1>1, <1>2, <2>1, MainKeptKeeps
    DEF RequestOK, Fresh, Preparing, Switching, Switched, Recovering
  <2> QED
    BY <1>0, <1>2, <2>1, <2>2, <2>3, MainKeptKeeps, SwitchPlaces, RequestMoves
<1>5. CASE LateMark(r)
  <2>1. /\ Answer(r, "committed") /\ runtime' = runtime
        /\ journal' = Marked(TRUE) \/ journal' = journal
    BY <1>0, <1>5, LastCallStep DEF LateMark
  <2>2. WorldOK'
    BY <1>0, <1>1, <1>2, <2>1, WorldStays, WorldMarked
  <2> QED
    BY <1>0, <1>2, <2>1, <2>2, AnswerOrderly
<1>6. CASE Finish(r)
  <2>1. /\ Answer(r, "promoted") /\ runtime' = runtime
        /\ journal' = NoEntry \/ journal' = journal
    BY <1>0, <1>6, LastCallStep DEF Finish
  <2>2. WorldOK'
    BY <1>0, <1>1, <1>2, <2>1, WorldStays, WorldClears
  <2> QED
    BY <1>0, <1>2, <2>1, <2>2, AnswerOrderly
<1> QED
  BY <1>3, <1>4, <1>5, <1>6

-----------------------------------------------------------------------------
(* The rollback.                                                            *)
LEMMA UndoOrderly ==
    ASSUME DataInv, DataInv', Orderly, NEW r \in Requests, pc[r] \notin Quiet,
           NEW place \in {"rollOpen", "rollDrop"}, Goto(r, place),
           UNCHANGED <<lock, job, answer, migration>>, WorldOK', RequestOK(r, place)',
           \A q \in Requests : q # r => /\ NotPut(q) => NotPut(q)'
                                        /\ ~Exists(Backup(q)) => ~Exists(Backup(q))'
    PROVE  Orderly'
<1>1. r \in Actors /\ lock = r /\ pc[r] # "done" /\ BranchTypeOK /\ BranchTypeOK'
  BY DEF Actors, Orderly, LockHeld, Quiet, DataInv
<1>2. place \in Places /\ RecoveryOK(r, place)'
  BY DEF Places, RecoveryOK, Recovering
<1> QED
  BY <1>1, <1>2, ActorKeeps

(* The rollback renames the backup back.                                    *)
LEMMA RollBackOrderly ==
    ASSUME DataInv, DataInv', Orderly, NEW r \in Requests, RollBack(r)
    PROVE  Orderly'
<1>0. /\ BranchTypeOK /\ WorldOK /\ pc[r] = "rollBack" /\ pc[r] \notin Quiet
      /\ RequestOK(r, "rollBack")
  BY DEF DataInv, Orderly, RollBack, Quiet
<1>1. journal.of = r /\ ~journal.committed /\ (~Exists(Parent) => NotPut(r))
  BY <1>0 DEF RequestOK, Switching
<1> DEFINE possible == Exists(Backup(r)) /\ ~Exists(Parent)
<1>2. /\ UNCHANGED <<journal, runtime, lock, job, answer, migration>>
      /\ \/ possible /\ db' = Renamed(Backup(r), Parent) /\ Goto(r, "rollOpen")
         \/ /\ db' = db \/ (possible /\ db' = Renamed(Backup(r), Parent))
            /\ Goto(r, "rollDrop") /\ ~sound'[r]
  <2>1. Undo(r, possible, Renamed(Backup(r), Parent), "rollOpen")
    BY DEF RollBack
  <2> HIDE DEF possible
  <2> QED
    BY <1>0, <2>1, UndoStep DEF BranchTypeOK
<1>3. CASE db' = db /\ Goto(r, "rollDrop") /\ ~sound'[r]
  <2>1. MainKept /\ WorldOK'
    BY <1>0, <1>2, <1>3, SameMain, WorldStays
  <2>2. RequestOK(r, "rollDrop")'
    BY <1>1, <1>2, <1>3 DEF RequestOK, Fresh, Preparing, Switching, Switched, Recovering
  <2> QED
    BY <1>0, <1>2, <1>3, <2>1, <2>2, MainKeptKeeps, UndoOrderly
<1>4. CASE possible /\ db' = Renamed(Backup(r), Parent)
  <2>1. /\ Exists(Parent)' /\ ~Exists(Backup(r))'
        /\ \A q \in Requests : /\ NotPut(q) => NotPut(q)'
                               /\ q # r => db'[Backup(q)] = db[Backup(q)]
    BY <1>0, <1>4, BackupRenamed
  <2>2. \A q \in Requests : q # r => (~Exists(Backup(q)) => ~Exists(Backup(q))')
    BY <2>1 DEF Exists
  <2>3. runtime # "running"
    BY <1>0, <1>4 DEF WorldOK, Served
  <2>4. WorldOK'
    BY <1>1, <1>2, <2>1, <2>3 DEF WorldOK
  <2>5. ASSUME NEW place \in {"rollOpen", "rollDrop"} PROVE RequestOK(r, place)'
    BY <1>1, <1>2, <1>4, <2>1 DEF RequestOK, Fresh, Preparing, Switching, Switched, Recovering
  <2> QED
    BY <1>0, <1>2, <2>1, <2>2, <2>4, <2>5, UndoOrderly
<1> QED
  BY <1>2, <1>3, <1>4

(* The rollback opens the parent.                                           *)
LEMMA RollOpenOrderly ==
    ASSUME DataInv, DataInv', Orderly, NEW r \in Requests, RollOpen(r)
    PROVE  Orderly'
<1>0. /\ BranchTypeOK /\ WorldOK /\ pc[r] = "rollOpen" /\ pc[r] \notin Quiet
      /\ RequestOK(r, "rollOpen")
  BY DEF DataInv, Orderly, RollOpen, Quiet
<1>1. journal.of = r /\ ~journal.committed /\ NotPut(r)
  BY <1>0 DEF RequestOK, Switching
<1>2. /\ UNCHANGED <<journal, runtime, lock, job, answer, migration>> /\ Goto(r, "rollDrop")
      /\ \/ Exists(Parent) /\ db' = ConnectionsAllowed(TRUE)
         \/ db' = db /\ ~sound'[r]
  <2>1. Undo(r, Exists(Parent), ConnectionsAllowed(TRUE), "rollDrop")
    BY DEF RollOpen
  <2>2. \/ Exists(Parent) /\ db' = ConnectionsAllowed(TRUE)
        \/ db' = db /\ sound' = [sound EXCEPT ![r] = FALSE]
    BY <1>0, <2>1, UndoStep
  <2> QED
    BY <1>0, <2>1, <2>2, UndoStep DEF BranchTypeOK
<1>3. CASE db' = db /\ ~sound'[r]
  <2>1. MainKept /\ WorldOK'
    BY <1>0, <1>2, <1>3, SameMain, WorldStays
  <2>2. RequestOK(r, "rollDrop")'
    BY <1>1, <1>2, <1>3 DEF RequestOK, Fresh, Preparing, Switching, Switched, Recovering
  <2> QED
    BY <1>0, <1>2, <1>3, <2>1, <2>2, MainKeptKeeps, UndoOrderly
<1>4. CASE Exists(Parent) /\ db' = ConnectionsAllowed(TRUE)
  <2>1. WorldOK' /\ \A q \in Requests : Exists(Backup(q))' <=> Exists(Backup(q))
    BY <1>0, <1>2, <1>4, WorldAllowed
  <2>2. Exists(Parent)' /\ \A q \in Requests : NotPut(q) => NotPut(q)'
    BY <1>4, AllowedKeeps
  <2>3. RequestOK(r, "rollDrop")'
    BY <1>1, <1>2, <2>2 DEF RequestOK, Fresh, Preparing, Switching, Switched, Recovering
  <2> QED
    BY <1>0, <1>2, <2>1, <2>2, <2>3, UndoOrderly
<1> QED
  BY <1>2, <1>3, <1>4

(* A rollback that is sound removes the entry; one that is not leaves it    *)
(* to the recovery.                                                         *)
LEMMA RollRestOrderly ==
    ASSUME DataInv, DataInv', Orderly, NEW r \in Requests,
           RollDrop(r) \/ RollStart(r) \/ RollEnd(r)
    PROVE  Orderly'
<1>0. /\ BranchTypeOK /\ BranchTypeOK' /\ WorldOK /\ pc[r] \notin Quiet
      /\ pc[r] \in {"rollDrop", "rollStart", "rollEnd"} /\ RequestOK(r, pc[r])
  BY DEF DataInv, Orderly, RollDrop, RollStart, RollEnd, Quiet
<1>1. journal.of = r /\ ~journal.committed /\ (sound[r] => NotPut(r) /\ Exists(Parent))
  BY <1>0 DEF RequestOK, Switching
<1>2. CASE RollDrop(r)
  <2>1. UNCHANGED <<journal, runtime>> /\ Moved(r, "rollStart")
        /\ (db' = Dropped(Temp(r)) \/ db' = db)
    BY <1>0, <1>2, DropStep DEF RollDrop
  <2>2. MainKept
    BY <1>0, <2>1, SameMain, TempKeepsMain
  <2>3. RequestOK(r, pc[r]) => RequestOK(r, "rollStart")
    BY <1>0 DEF RequestOK, Fresh, Preparing, Switching, Switched, Recovering
  <2> QED
    BY <1>0, <2>1, <2>2, <2>3, SwitchPlaces, RequestPasses
<1>3. CASE RollStart(r)
  <2>1. UNCHANGED <<db, journal>> /\ MainKept /\ Moved(r, "rollEnd")
        /\ (runtime' = "down" \/ Served)
    BY <1>0, <1>3, RestartStep, SameMain DEF RollStart
  <2>2. WorldOK'
    BY <1>0, <2>1, WorldStays
  <2>3. sound' = sound
    BY <2>1 DEF Moved, locals
  <2>4. RequestOK(r, "rollEnd")'
    BY <1>1, <2>1, <2>3, MainKeptKeeps
    DEF RequestOK, Fresh, Preparing, Switching, Switched, Recovering
  <2> QED
    BY <1>0, <2>1, <2>2, <2>4, MainKeptKeeps, SwitchPlaces, RequestMoves
<1>4. CASE RollEnd(r) /\ sound[r]
  <2>1. /\ Answer(r, "failed") /\ UNCHANGED <<db, runtime>> /\ MainKept
        /\ journal' = NoEntry \/ journal' = journal
    BY <1>0, <1>4, LastCallStep, SameMain DEF RollEnd
  <2>2. WorldOK'
    BY <1>0, <1>1, <1>4, <2>1, WorldStays, WorldClears
  <2> QED
    BY <1>0, <1>1, <1>4, <2>1, <2>2, MainKeptKeeps, AnswerOrderly
<1>5. CASE RollEnd(r) /\ ~sound[r]
  <2>1. /\ Answer(r, "pending") /\ UNCHANGED <<db, runtime>> /\ MainKept
        /\ journal' = Marked(FALSE) \/ journal' = journal
    BY <1>0, <1>5, LastCallStep, SameMain DEF RollEnd
  <2>2. WorldOK'
    BY <1>0, <2>1, WorldStays, WorldMarked
  <2> QED
    BY <1>0, <2>1, <2>2, AnswerOrderly
<1> QED
  BY <1>2, <1>3, <1>4, <1>5

(* replaceParentDatabaseFromBranch keeps everything in order.               *)
LEMMA HandlerOrderly ==
    ASSUME DataInv, DataInv', Orderly, NEW r \in Requests, Handler(r)
    PROVE  Orderly'
BY AcquireOrderly, BeginOrderly, PrepareOrderly, AbandonOrderly, StopOrderly, ShutOrderly,
   NoteOrderly, RenameParentOrderly, RenameTempOrderly, SwitchedOrderly, RollBackOrderly,
   RollOpenOrderly, RollRestOrderly DEF Handler

-----------------------------------------------------------------------------
(* The sweep, a process that dies, and the migrations.                      *)
LEMMA SweepOrderly ==
    ASSUME DataInv, DataInv', Orderly, Sweep
    PROVE  Orderly'
<1>1. /\ BranchTypeOK /\ BranchTypeOK' /\ WorldOK /\ Sweeper \in Actors
      /\ Sweeper \notin Requests /\ pc[Sweeper] # "done" /\ "check" \in Places
  BY ReplacementAssumption DEF DataInv, Orderly, Sweep, Actors, Places
<1>2. /\ UNCHANGED <<db, journal, runtime, job, answer, migration>> /\ MainKept
      /\ lock = Nobody /\ lock' = Sweeper /\ Goto(Sweeper, "check")
  BY SameMain DEF Sweep, world, locals
<1>3. WorldOK' /\ RecoveryOK(Sweeper, "check")'
  BY <1>1, <1>2, WorldStays DEF RecoveryOK, Recovering
<1> QED
  BY <1>1, <1>2, <1>3, MainKeptKeeps, ActorKeeps

(* A process that dies leaves the entry and frees the lock.                 *)
LEMMA CrashOrderly ==
    ASSUME DataInv, DataInv', Orderly, NEW a \in Actors, Crash(a)
    PROVE  Orderly'
<1>1. /\ BranchTypeOK /\ BranchTypeOK' /\ WorldOK /\ lock = a /\ pc[a] # "done"
  BY DEF DataInv, Orderly, LockHeld, Crash, Quiet
<1>2. UNCHANGED <<db, journal, runtime, job, answer, migration>> /\ MainKept
  BY SameMain DEF Crash, world
<1>3. PICK place \in {"idle", "dead"} : Goto(a, place) /\ (a \in Requests => place = "dead")
  BY ReplacementAssumption DEF Crash
<1>4. place \in Places /\ place \in Quiet
  BY DEF Places, Quiet
<1>5. WorldOK' /\ RecoveryOK(a, place)' /\ (a \in Requests => RequestOK(a, place)')
  BY <1>1, <1>2, <1>3, WorldStays
  DEF RecoveryOK, RequestOK, Fresh, Preparing, Switching, Switched, Recovering
<1> QED
  BY <1>1, <1>2, <1>3, <1>4, <1>5, MainKeptKeeps, ActorKeeps

(* A migration of an executor starts only without an entry, and none is     *)
(* written as long as it holds the lock.                                    *)
LEMMA MigrationOrderly ==
    ASSUME DataInv, DataInv', Orderly,
           \/ \E m \in Executors : ExecutorLocks(m) \/ ExecutorChecks(m)
           \/ \E m \in SqlRoutes : SqlChecks(m) \/ SqlLocks(m)
           \/ \E m \in Migrations : MigrationEnds(m)
    PROVE  Orderly'
<1>0. BranchTypeOK
  BY DEF DataInv
<1>1. UNCHANGED <<db, journal, runtime, pc, job, sound, answer>>
  BY DEF ExecutorLocks, ExecutorChecks, SqlChecks, SqlLocks, MigrationEnds, world
<1>2. /\ WorldOK' /\ \A r \in Requests : RequestOK(r, pc[r])'
      /\ \A a \in Actors : RecoveryOK(a, pc[a])'
      /\ \A r \in Requests : answer'[r] = "failed" => pc'[r] = "done" /\ NotPut(r)'
  <2>1. MainKept /\ WorldOK'
    BY <1>0, <1>1, SameMain, WorldStays DEF Orderly
  <2>2. ASSUME NEW r \in Requests PROVE RequestOK(r, pc[r])'
    BY <1>1, <2>1, MainKeptKeeps DEF Orderly, RequestOK
  <2>3. ASSUME NEW a \in Actors PROVE RecoveryOK(a, pc[a])'
    BY <1>1 DEF Orderly, RecoveryOK, SwitchedFor, Exists
  <2>4. \A r \in Requests : answer'[r] = "failed" => pc'[r] = "done" /\ NotPut(r)'
    BY <1>1, <2>1, MainKeptKeeps DEF Orderly
  <2> QED
    BY <2>1, <2>2, <2>3, <2>4
<1>3. ASSUME NEW m \in Migrations,
             \/ m \in Executors /\ (ExecutorLocks(m) \/ ExecutorChecks(m))
             \/ m \in SqlRoutes /\ (SqlChecks(m) \/ SqlLocks(m))
             \/ MigrationEnds(m)
      PROVE  LockHeld' /\ \A e \in Executors : migration'[e] = "running" => journal' = NoEntry
  <2>1. PICK place : migration' = [migration EXCEPT ![m] = place]
    BY <1>3 DEF ExecutorLocks, ExecutorChecks, SqlChecks, SqlLocks, MigrationEnds, Moves
  <2>2. migration'[m] = place /\ \A n \in Migrations : n # m => migration'[n] = migration[n]
    BY <1>0, <2>1 DEF BranchTypeOK
  <2>3. /\ \/ lock = Nobody /\ lock' = m
           \/ lock' = lock
           \/ lock' = Released(m)
        /\ place \in {"locked", "running"} => lock' = m
        /\ place = "running" /\ m \in Executors => journal = NoEntry
        /\ place \in {"idle", "checked"} \/ lock' \in {m, lock}
    <3>1. CASE ExecutorLocks(m)
      BY <1>0, <2>2, <3>1 DEF ExecutorLocks, Moves, BranchTypeOK
    <3>2. CASE ExecutorChecks(m)
      BY <1>0, <2>2, <3>2 DEF ExecutorChecks, Moves, BranchTypeOK, Inactive, Orderly, LockHeld
    <3>3. CASE m \in SqlRoutes /\ (SqlChecks(m) \/ SqlLocks(m))
      BY <1>0, <2>2, <3>3, ReplacementAssumption
      DEF SqlChecks, SqlLocks, Moves, BranchTypeOK
    <3>4. CASE MigrationEnds(m)
      BY <1>0, <2>2, <3>4 DEF MigrationEnds, Moves, BranchTypeOK
    <3> QED
      BY <1>3, <3>1, <3>2, <3>3, <3>4
  <2>4. LockHeld'
    <3>1. \A a \in Actors : pc[a] \notin Quiet => lock' = a
      BY <2>3, ReplacementAssumption DEF Orderly, LockHeld, Released, Actors, Migrations
    <3>2. \A n \in Migrations : n # m /\ migration[n] \in {"locked", "running"} => lock' = n
      BY <2>3, ReplacementAssumption DEF Orderly, LockHeld, Released, Actors, Migrations
    <3> QED
      BY <1>1, <2>2, <2>3, <3>1, <3>2 DEF LockHeld
  <2>5. \A e \in Executors : migration'[e] = "running" => journal' = NoEntry
    BY <1>1, <2>2, <2>3 DEF Orderly, Migrations
  <2> QED
    BY <2>4, <2>5
<1> QED
  BY <1>2, <1>3 DEF Orderly, Migrations

(* A restart from elsewhere: what is known of the runtime is that the       *)
(* replacement did not leave it running.                                    *)
LEMMA ElsewhereOrderly ==
    ASSUME DataInv, Orderly, RestartElsewhere
    PROVE  Orderly'
<1>1. /\ UNCHANGED <<db, journal, lock, pc, job, sound, answer, migration>>
      /\ runtime' # "running" /\ BranchTypeOK /\ MainKept
  BY SameMain DEF RestartElsewhere, DataInv
<1>2. WorldOK' /\ LockHeld'
  BY <1>1, WorldStays DEF Orderly, LockHeld
<1>3. ASSUME NEW r \in Requests PROVE RequestOK(r, pc[r])'
  BY <1>1, MainKeptKeeps DEF Orderly, RequestOK
<1>4. ASSUME NEW a \in Actors PROVE RecoveryOK(a, pc[a])'
  BY <1>1 DEF Orderly, RecoveryOK, SwitchedFor, Exists
<1>5. \A r \in Requests : answer'[r] = "failed" => pc'[r] = "done" /\ NotPut(r)'
  BY <1>1, MainKeptKeeps DEF Orderly
<1> QED
  BY <1>1, <1>2, <1>3, <1>4, <1>5 DEF Orderly

-----------------------------------------------------------------------------
(* The invariant and what follows from it.                                  *)
(* Only a lost lock ends the exclusion, and only the ends of a handler      *)
(* speak of a commit.                                                       *)
LEMMA RecoverySays ==
    ASSUME BranchTypeOK, NEW a \in Actors, Recovery(a)
    PROVE  /\ exclusive' = exclusive
           /\ \A r \in Requests : answer'[r] \in {"committed", "promoted"} =>
                 answer'[r] = answer[r]
<1>1. CASE ReName(a) \/ ReOpen(a) \/ ReDrop(a) \/ ReStart(a)
  BY <1>1 DEF ReName, ReOpen, ReDrop, ReStart, Rename, Allow, Drop, Restart, Call, locals
<1>2. CASE Check(a) \/ Look(a) \/ ReRemove(a) \/ ReMark(a)
  <2>1. exclusive' = exclusive /\ (answer' = answer \/ Answer(a, "failed") \/ Answer(a, "blocked"))
    BY <1>2 DEF Check, Look, ReRemove, ReMark, Rest, Answer, locals
  <2> QED
    BY <2>1 DEF Answer, BranchTypeOK
<1> QED
  BY <1>1, <1>2 DEF Recovery

(* Of a handler's steps only the last of a switch speak of a commit.        *)
LEMMA HandlerSays ==
    ASSUME BranchTypeOK, NEW r \in Requests, Handler(r)
    PROVE  /\ exclusive' = exclusive
           /\ \A q \in Requests :
                 \/ answer'[q] = answer[q]
                 \/ answer'[q] \notin {"committed", "promoted"}
                 \/ q = r /\ (LateMark(r) \/ Finish(r))
<1>1. CASE \/ Create(r) \/ Clone(r) \/ Discard(r) \/ Prepared(r) \/ Stop(r) \/ Shut(r)
           \/ NoteShut(r) \/ RenameParent(r) \/ NoteRenamed(r) \/ RenameTemp(r)
           \/ NoteCommitted(r) \/ LateRestart(r) \/ RestartNew(r) \/ RollDrop(r)
           \/ RollStart(r)
  BY <1>1 DEF Create, Clone, Discard, Prepared, Stop, Shut, NoteShut, RenameParent,
     NoteRenamed, RenameTemp, NoteCommitted, LateRestart, RestartNew, RollDrop, RollStart,
     Rename, Allow, Drop, Restart, Mark, Note, Write, Call, locals
<1>2. CASE RollBack(r) \/ RollOpen(r)
  BY <1>2 DEF RollBack, RollOpen, Undo
<1>3. CASE Acquire(r) \/ Begin(r) \/ Abandon(r) \/ RollEnd(r)
  <2>1. /\ exclusive' = exclusive
        /\ answer' = answer
           \/ \E told \in {"locked", "failed", "pending"} : Answer(r, told)
    BY <1>3 DEF Acquire, Begin, Abandon, RollEnd, LastCall, Answer, locals
  <2> QED
    BY <2>1 DEF Answer, BranchTypeOK
<1>4. CASE LateMark(r) \/ Finish(r)
  BY <1>4 DEF LateMark, Finish, LastCall, Answer, BranchTypeOK
<1> QED
  BY <1>1, <1>2, <1>3, <1>4 DEF Handler

(* The same for every step of the system.                                   *)
LEMMA NextSays ==
    ASSUME BranchTypeOK, Next
    PROVE  /\ LoseLock \/ exclusive' = exclusive
           /\ \A q \in Requests :
                 \/ answer'[q] = answer[q]
                 \/ answer'[q] \notin {"committed", "promoted"}
                 \/ LateMark(q) \/ Finish(q)
<1>1. CASE \/ Sweep \/ LoseLock \/ RestartElsewhere
           \/ \E a \in Actors : Crash(a)
           \/ \E m \in Executors : ExecutorLocks(m) \/ ExecutorChecks(m)
           \/ \E m \in SqlRoutes : SqlChecks(m) \/ SqlLocks(m)
           \/ \E m \in Migrations : MigrationEnds(m)
  BY <1>1 DEF Sweep, LoseLock, RestartElsewhere, Crash, ExecutorLocks, ExecutorChecks,
     SqlChecks, SqlLocks, MigrationEnds, locals
<1> QED
  BY <1>1, RecoverySays, HandlerSays DEF Next

(* Every step preserves the invariant.                                      *)
LEMMA ReplacementStep == ReplacementInv /\ [Next]_vars => ReplacementInv'
<1> SUFFICES ASSUME ReplacementInv, [Next]_vars PROVE ReplacementInv'
  OBVIOUS
<1>1. DataInv /\ DataInv'
  BY DataStep DEF ReplacementInv
<1>2. ASSUME exclusive' PROVE Orderly'
  <2>1. CASE LoseLock
    BY <1>2, <2>1 DEF LoseLock
  <2>2. CASE UNCHANGED vars
    <3>1. /\ UNCHANGED <<db, journal, runtime, lock, pc, job, sound, answer, migration>>
          /\ Orderly
      BY <1>2, <2>2 DEF vars, world, ReplacementInv
    <3>2. WorldOK' /\ LockHeld'
      BY <3>1 DEF Orderly, WorldOK, LockHeld, SwitchedFor, Exists, Served
    <3>3. ASSUME NEW r \in Requests PROVE RequestOK(r, pc[r])'
      BY <3>1, SameMain, MainKeptKeeps DEF Orderly, RequestOK
    <3>4. ASSUME NEW a \in Actors PROVE RecoveryOK(a, pc[a])'
      BY <3>1 DEF Orderly, RecoveryOK, SwitchedFor, Exists
    <3>5. \A r \in Requests : answer'[r] = "failed" => pc'[r] = "done" /\ NotPut(r)'
      BY <3>1, SameMain, MainKeptKeeps DEF Orderly
    <3> QED
      BY <3>1, <3>2, <3>3, <3>4, <3>5 DEF Orderly
  <2>3. CASE Next /\ ~LoseLock
    <3>1. exclusive' = exclusive
      BY <1>1, <2>3, NextSays DEF DataInv
    <3>2. Orderly
      BY <1>2, <3>1 DEF ReplacementInv
    <3> QED
      BY <1>1, <2>3, <3>2, SweepOrderly, RecoveryOrderly, CrashOrderly, HandlerOrderly,
         MigrationOrderly, ElsewhereOrderly DEF Next
  <2> QED
    BY <2>1, <2>2, <2>3
<1> QED
  BY <1>1, <1>2 DEF ReplacementInv

(* The invariant holds at the start.                                        *)
LEMMA ReplacementInit == Init => ReplacementInv
<1> SUFFICES ASSUME Init PROVE ReplacementInv
  OBVIOUS
<1>1. DataInv
  BY DataInit
<1>2. /\ db[Parent] = [kind |-> "original", of |-> Nobody, open |-> TRUE]
      /\ \A r \in Requests : db[Backup(r)] = Absent
  BY NamesDiffer DEF Init, Names
<1>3. Exists(Parent) /\ Served /\ \A r \in Requests : NotPut(r) /\ ~Exists(Backup(r))
  BY <1>2, AbsentIs, ReplacementAssumption DEF Exists, Served, NotPut, Main, Actors
<1>4. WorldOK
  BY <1>3, EntryTyped DEF WorldOK, Init
<1>5. /\ \A a \in Actors : pc[a] = "idle" /\ RecoveryOK(a, pc[a])
      /\ \A r \in Requests : RequestOK(r, pc[r]) /\ answer[r] # "failed"
      /\ \A m \in Migrations : migration[m] = "idle"
  BY <1>3 DEF Init, RecoveryOK, RequestOK, Actors, Fresh, Preparing, Switching, Switched,
     Recovering
<1> QED
  BY <1>1, <1>4, <1>5 DEF ReplacementInv, Orderly, LockHeld, Quiet, Migrations

(* The data is kept in any case, and as long as no lock was lost,           *)
(* databases, journal, runtime, lock and handlers agree.                    *)
THEOREM ReplacementInvariant == Spec => []ReplacementInv
BY ReplacementInit, ReplacementStep, PTL DEF Spec

(* The project's own data is never dropped or overwritten, whatever fails,  *)
(* dies or runs at once.                                                    *)
THEOREM DataSurvives == Spec => []PreviousDataKept
<1>1. DataInv => PreviousDataKept
  BY NamesDiffer DEF DataInv, PreviousDataKept, Main, Names
<1> QED
  BY <1>1, DataIsKept, PTL

(* The parent's name never refers to a half-restored copy.                  *)
THEOREM ParentNeverPartial == Spec => []ParentIsWhole
<1>1. DataInv => ParentIsWhole
  BY MainIs DEF DataInv, ParentIsWhole
<1> QED
  BY <1>1, DataIsKept, PTL

(* A parent that is away can be found again, nothing that the replacement   *)
(* left running is on top of a parent that does not serve, a reported       *)
(* failure is final and migrations under the lock are kept out.             *)
THEOREM LockAndJournalProtect == Spec => []BranchConsistent
<1>1. ReplacementInv => BranchConsistent
  <2> SUFFICES ASSUME ReplacementInv PROVE BranchConsistent
    OBVIOUS
  <2>1. BranchTypeOK
    BY DEF ReplacementInv, DataInv
  <2>2. AwayIsJournaled /\ RunningIsServed
    BY DEF ReplacementInv, Orderly, WorldOK, AwayIsJournaled, RunningIsServed
  <2>3. FailureIsFinal
    BY MainIs DEF ReplacementInv, Orderly, NotPut, FailureIsFinal
  <2>4. MigrationsBlocked
    BY DEF ReplacementInv, Orderly, MigrationsBlocked
  <2> QED
    BY <2>1, <2>2, <2>3, <2>4 DEF BranchConsistent
<1> QED
  BY <1>1, ReplacementInvariant, PTL

(* The journal speaks of a commit, and a client is told of one, only when   *)
(* the copy is the parent and the database it replaced is kept.             *)
THEOREM CommitsAreReal == Spec => CommitIsReal
<1>1. ReplacementInv /\ ReplacementInv' /\ [Next]_vars =>
         [exclusive' =>
            /\ journal.committed' => SwitchedFor(journal.of)'
            /\ \A r \in Requests :
                  answer'[r] # answer[r] /\ answer'[r] \in {"committed", "promoted"} =>
                      SwitchedFor(r)']_vars
  <2> SUFFICES ASSUME ReplacementInv, ReplacementInv', Next, exclusive'
               PROVE  /\ journal.committed' => SwitchedFor(journal.of)'
                      /\ \A r \in Requests :
                           answer'[r] # answer[r] /\ answer'[r] \in {"committed", "promoted"}
                              => SwitchedFor(r)'
    OBVIOUS
  <2>1. journal.committed' => SwitchedFor(journal.of)'
    BY DEF ReplacementInv, Orderly, WorldOK
  <2>2. ASSUME NEW r \in Requests, answer'[r] # answer[r],
               answer'[r] \in {"committed", "promoted"}
        PROVE  SwitchedFor(r)'
    <3>1. LateMark(r) \/ Finish(r)
      BY <2>2, NextSays DEF ReplacementInv, DataInv
    <3>2. exclusive
      BY <3>1 DEF LateMark, Finish, LastCall, Answer
    <3>3. SwitchedFor(r)
      BY <3>1, <3>2 DEF ReplacementInv, Orderly, RequestOK, Switched, LateMark, Finish
    <3> QED
      BY <3>1, <3>3 DEF LateMark, Finish, LastCall, SwitchedFor, Exists
  <2> QED
    BY <2>1, <2>2
<1> QED
  BY <1>1, ReplacementInvariant, PTL DEF Spec, CommitIsReal
=============================================================================
