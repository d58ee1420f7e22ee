------------------------------ MODULE Ownership ------------------------------
(***************************************************************************)
(* Durable task records and the ownership tree the scheduler walks          *)
(* (OwnershipIndex and the predicates above it in src/durable/Harness.cpp). *)
(*                                                                          *)
(* A record keeps what scheduling reads: status, outcome, abort mark, owner,*)
(* the background and abandonOnRestart flags, the wait and a checkpoint     *)
(* number.  Ids are minted in order and a child is created after its owner, *)
(* so an owner's id is smaller than its children's.  Every task lives in one*)
(* conversation: conversations owned by a task are created by no caller of  *)
(* the program.                                                             *)
(***************************************************************************)
EXTENDS Naturals, FiniteSetsExt

CONSTANT TaskBound      \* bound: task ids that can be minted

ASSUME TaskBoundAssumption == TaskBound \in Nat \ {0}

Tasks == 1..TaskBound

Statuses == {"none", "pending", "running", "waiting", "completing", "terminal"}
Outcomes == {"none", "completed", "failed", "aborted", "faulted", "orphaned"}
Marks    == {"none", "restart", "request"}

TaskRecord ==
  [st : Statuses, out : Outcomes, abort : Marks, owner : 0..TaskBound,
   bg : BOOLEAN, flag : BOOLEAN, on : SUBSET Tasks,
   pol : {"none", "allSettled", "failFast"}, cp : Nat]

NoTask == [st |-> "none", out |-> "none", abort |-> "none", owner |-> 0,
           bg |-> FALSE, flag |-> FALSE, on |-> {}, pol |-> "none", cp |-> 0]

\* task_live
Live(r) == r.st \notin {"none", "terminal"}

\* failed_outcome
FailedOutcome(r) == r.st \in {"completing", "terminal"} /\ r.out # "completed"

\* Mutant: a held failure cancels nothing.
CancellationIntentMarked(r) == Live(r) /\ r.abort # "none"

\* cancellation_intent
CancellationIntent(r) == Live(r) /\ (r.abort # "none" \/ FailedOutcome(r))

\* require_live_owner
TakesWork(r) == Live(r) /\ r.st # "completing" /\ r.abort = "none"

\* The first n records of the table, in id order (StorageState::scan_tasks).
Page(T, n) == {t \in Tasks : T[t].st # "none" /\ t <= n}

\* The owner chain above t: the smallest set that holds the owner of t and, with
\* a task, the task's owner.
OwnerClosed(T, S) == \A a \in S : T[a].owner \in S \cup {0}
Owners(T, t) ==
  {a \in Tasks : \A S \in SUBSET Tasks :
                   OwnerClosed(T, S) /\ T[t].owner \in S \cup {0} => a \in S}

\* owned_live, over the scanned tasks P
OwnedLive(T, P, t) == {c \in P : Live(T[c]) /\ t \in Owners(T, c)}

\* reachable: what ordinary traversal from the conversation reaches; with
\* cross the background tasks and the work below them too.
Reachable(T, P, cross) ==
  {t \in P : /\ Live(T[t])
             /\ cross \/ ~\E a \in Owners(T, t) \cup {t} : T[a].bg}

\* idle
Idle(T, P) == Reachable(T, P, FALSE) = {}

\* The live owners with cancellation intent above t; the walk below one does
\* not enter another, so the nearest of them decides t's mark.
IntentAbove(T, t) == {a \in Owners(T, t) : CancellationIntent(T[a])}

\* cascade_targets, as the mark each task receives
Cascade(T, P) ==
  [t \in Tasks |->
     IF t \in P /\ Live(T[t]) /\ IntentAbove(T, t) # {}
     THEN LET o == T[Max(IntentAbove(T, t))]
          IN  IF o.abort = "restart" /\ ~FailedOutcome(o) THEN "restart"
                                                          ELSE "request"
     ELSE "none"]

\* The members a failFast wait aborts once one of them has failed: every live
\* one that has not failed itself.
FailFastTargets(T, P) ==
  {m \in P : /\ Live(T[m]) /\ ~FailedOutcome(T[m])
             /\ \E w \in P : /\ T[w].st = "waiting" /\ T[w].pol = "failFast"
                             /\ m \in T[w].on
                             /\ \E f \in T[w].on \cap P : FailedOutcome(T[f])}

\* Mutant: the newest mark wins.
MarkedNewest(mark, new) == IF new = "none" THEN mark ELSE new

\* Marking rule of reconcile(): a request stands, a restart is replaced only by
\* a request.
Marked(mark, new) ==
  IF new = "none" \/ mark = "request" \/ mark = new THEN mark ELSE new
=============================================================================
