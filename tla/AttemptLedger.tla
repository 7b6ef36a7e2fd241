---------------------------- MODULE AttemptLedger ----------------------------
(***************************************************************************)
(* What the platform promises about background tasks, without leases,      *)
(* locks, clocks or workers (docs/background-attempt-fencing.md states it  *)
(* in prose):                                                              *)
(*                                                                         *)
(*  - a task is executed by generations, one after the other;              *)
(*  - each generation gets at most one verdict, which never changes;       *)
(*  - a generation that began and has no verdict may have had any effect:  *)
(*    the task is queued again after it only if somebody reopens it;       *)
(*  - a task that succeeded is never executed again.                       *)
(*                                                                         *)
(* Tasks are independent, and one step may concern several of them: what   *)
(* is promised is how each task may move.                                  *)
(***************************************************************************)
EXTENDS Integers

CONSTANTS
    Tasks,
    GenerationLimit

VARIABLES
    phase,     \* where each task is
    gen,       \* its current generation, 0 before the first
    verdict    \* the verdict of every generation, "none" while it has none

ledgerVars == <<phase, gen, verdict>>

Generations == 1..GenerationLimit
Verdicts    == {"succeeded", "retry_scheduled", "dead_lettered", "cancelled"}

LedgerInit ==
    /\ phase   = [t \in Tasks |-> "absent"]
    /\ gen     = [t \in Tasks |-> 0]
    /\ verdict = [t \in Tasks |-> [g \in Generations |-> "none"]]

(* Where t moves from and to, with no verdict and no new generation.        *)
Keeps(t)          == gen'[t] = gen[t] /\ verdict'[t] = verdict[t]
Moves(t, from, to) == phase[t] = from /\ phase'[t] = to /\ Keeps(t)

Submit(t)   == Moves(t, "absent", "queued")
Begin(t)    == Moves(t, "owned", "executing")
Withdraw(t) == Moves(t, "queued", "closed")
Reopen(t)   == Moves(t, "closed", "queued")

(* The owner vanished.  Only a generation that never began is replayed.     *)
Abandon(t) ==
    \/ Moves(t, "owned", "queued")
    \/ Moves(t, "owned", "closed")
    \/ Moves(t, "executing", "closed")

Own(t) ==
    /\ phase[t] = "queued"
    /\ phase'[t] = "owned"
    /\ gen'[t] = gen[t] + 1
    /\ verdict'[t] = verdict[t]

(* The verdict of the current generation decides where the task goes.       *)
PhaseAfter(v) ==
    CASE v = "retry_scheduled" -> "queued"
      [] v = "succeeded"       -> "done"
      [] OTHER                 -> "closed"

Settle(t, v) ==
    /\ phase[t] \in {"owned", "executing"}
    /\ verdict[t][gen[t]] = "none"
    /\ verdict'[t] = [verdict[t] EXCEPT ![gen[t]] = v]
    /\ phase'[t] = PhaseAfter(v)
    /\ gen'[t] = gen[t]

TaskStep(t) ==
    \/ Submit(t) \/ Own(t) \/ Begin(t) \/ Abandon(t) \/ Withdraw(t) \/ Reopen(t)
    \/ \E v \in Verdicts : Settle(t, v)
    \/ phase'[t] = phase[t] /\ Keeps(t)

LedgerNext == \A t \in Tasks : TaskStep(t)

LedgerSpec == LedgerInit /\ [][LedgerNext]_ledgerVars
=============================================================================
