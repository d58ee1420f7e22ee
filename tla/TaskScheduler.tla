---------------------------- MODULE TaskScheduler ----------------------------
(***************************************************************************)
(* The task scheduler of the durable harness (Harness::Impl and             *)
(* HarnessTaskRuntime in src/durable/Harness.cpp): one worker thread that   *)
(* reconciles marks and held outcomes, then reserves tasks from a scan of   *)
(* the table; one execution thread per reserved task, running phases or the *)
(* abort handler; callers that create, abort and wait; close, crash and     *)
(* restart.                                                                 *)
(*                                                                          *)
(* A Session commit is one step, together with the commit listener it       *)
(* calls: SessionLine is about the line itself.  What the worker decides    *)
(* from a scan is kept (marks, ready, plan, idle) and used by later steps,  *)
(* when the records may have changed.  Phase code is arbitrary within what  *)
(* TaskRuntime lets it do.  Input, memos and migration of a checkpoint are  *)
(* left out; a definition is an object number, 0 when none is installed.    *)
(***************************************************************************)
EXTENDS Ownership

CONSTANTS
  SchedulePage,   \* records schedule_step scans (256)
  WorldPage,      \* records reconcile and the world view scan (1024)
  CheckpointBound,\* bound: checkpoints a task's phases write
  RestartBound,   \* bound: crashes followed by a reopen
  Flagged,        \* values of abandonOnRestart for new tasks
  Background,     \* values of background for new ownerless tasks
  Definitions,    \* definition objects a registry can hold
  FreeWaits,      \* phases may wait on tasks they do not own
  Failing,        \* phases may return an error
  Closing,        \* close() may be called
  IdleWaits       \* wait_for_idle() may be called

ASSUME SchedulerAssumption ==
  /\ SchedulePage \in Nat /\ WorldPage \in Nat /\ SchedulePage <= WorldPage
  /\ CheckpointBound \in Nat /\ RestartBound \in Nat
  /\ Flagged \subseteq BOOLEAN /\ Background \subseteq BOOLEAN
  /\ Definitions \subseteq Nat \ {0} /\ 1 \in Definitions
  /\ {FreeWaits, Failing, Closing, IdleWaits} \subseteq BOOLEAN

VARIABLES
  task,        \* the committed task records
  def,         \* registry: the installed definition of each task's kind
  enabled, dirty, closed,
  abandoned,   \* flagged tasks found at open
  exec,        \* active_invocations and their execution threads
  worker,      \* the worker thread
  orphaning,   \* abort_task calls that found their task blocked
  waiter,      \* one wait_for_idle call
  restarts,
  doubled,     \* history: tasks published while an invocation was live
  inherited,   \* history: flagged tasks alive at the last open
  sawIdle      \* history: the scope was idle since the waiter registered

sched == <<def, enabled, closed, abandoned, orphaning, restarts, inherited>>
vars  == <<task, def, enabled, dirty, closed, abandoned, exec, worker,
           orphaning, waiter, restarts, doubled, inherited, sawIdle>>
-----------------------------------------------------------------------------
NoExec == [pc |-> "none", stop |-> FALSE, cp |-> 0, def |-> 0, res |-> "ok"]
NoMarks == [t \in Tasks |-> "none"]
AtRest == [pc |-> "wait", marks |-> NoMarks, ready |-> {}, plan |-> NoMarks,
           defs |-> [t \in Tasks |-> 0], idle |-> FALSE, run |-> FALSE]

Exists(t)  == task[t].st # "none"
Active(t)  == exec[t].pc # "none"
World      == Page(task, WorldPage)
Listed     == Page(task, SchedulePage)
NewId      == Cardinality({t \in Tasks : Exists(t)}) + 1

Init ==
  /\ task = [t \in Tasks |-> NoTask]
  /\ def = [t \in Tasks |-> 1]
  /\ enabled = FALSE /\ dirty = FALSE /\ closed = FALSE
  /\ abandoned = {} /\ inherited = {} /\ orphaning = {}
  /\ exec = [t \in Tasks |-> NoExec]
  /\ worker = AtRest
  /\ waiter = "none" /\ sawIdle = FALSE
  /\ restarts = 0
  /\ doubled = {}

\* A commit that writes `new` and its listener: the worker is woken, and a
\* live invocation of a task whose written record carries an abort mark is
\* asked to stop.  `ex` is what the same step does to the invocations; erasing
\* one (cleanup) wakes the worker too.
Commit(new, ex) ==
  /\ task' = new
  /\ exec' = [t \in Tasks |->
                IF /\ ex[t].pc # "none" /\ new[t] # task[t]
                   /\ new[t].abort # "none" /\ new[t].st # "terminal"
                THEN [ex[t] EXCEPT !.stop = TRUE] ELSE ex[t]]
  /\ dirty' = \/ dirty \/ new # task
              \/ \E t \in Tasks : exec[t].pc # "none" /\ ex[t].pc = "none"
  /\ sawIdle' = (waiter = "registered" /\ (sawIdle \/ Idle(new, Tasks)))

\* A step that writes no record.
Quiet(ex) == Commit(task, ex)

Cleanup(t) == [exec EXCEPT ![t] = NoExec]
MovesTo(t, pc) == [exec EXCEPT ![t].pc = pc, ![t].cp = 0, ![t].res = "ok"]
-----------------------------------------------------------------------------
(* The worker thread: run_worker, reconcile, schedule_step. *)

\* Mutant: a pass reserves at once, whatever an earlier process left behind.
WorkerWakeReserving ==
  /\ worker.pc = "wait" /\ dirty /\ ~closed
  /\ worker' = [AtRest EXCEPT !.pc = "scan", !.run = enabled]
  /\ dirty' = FALSE
  /\ UNCHANGED <<sched, task, exec, waiter, doubled, sawIdle>>

\* One pass starts: with work left behind by an earlier process its first
\* enabled pass only marks that work.
WorkerWake ==
  /\ worker.pc = "wait" /\ dirty /\ ~closed
  /\ worker' = [AtRest EXCEPT
                  !.pc = IF enabled /\ abandoned # {} THEN "abandon" ELSE "scan",
                  !.run = enabled]
  /\ dirty' = FALSE
  /\ UNCHANGED <<sched, task, exec, waiter, doubled, sawIdle>>

\* mark_abandoned_on_restart
WorkerAbandon ==
  /\ worker.pc = "abandon"
  /\ task' = [t \in Tasks |->
                IF t \in abandoned /\ Live(task[t]) /\ task[t].abort = "none"
                THEN [task[t] EXCEPT !.abort = "restart"] ELSE task[t]]
  /\ abandoned' = {}
  /\ dirty' = TRUE
  /\ worker' = AtRest
  /\ UNCHANGED <<def, enabled, closed, exec, orphaning, waiter, restarts,
                 doubled, inherited, sawIdle>>

\* reconcile: the marks to write, from one scan
WorkerScan ==
  /\ worker.pc = "scan"
  /\ LET cascade == Cascade(task, World)
         joins   == FailFastTargets(task, World)
         stage(t) == IF t \in joins THEN "request" ELSE cascade[t]
         marks == [t \in Tasks |->
                     IF Marked(task[t].abort, stage(t)) # task[t].abort
                     THEN stage(t) ELSE "none"]
     IN  worker' = [worker EXCEPT !.marks = marks,
                                  !.pc = IF marks = NoMarks THEN "finalize"
                                                            ELSE "marks"]
  /\ UNCHANGED <<sched, task, dirty, exec, waiter, doubled, sawIdle>>

\* The mark commit judges every record again.
MarkCommit(T, marks) ==
  [t \in Tasks |->
     IF Live(T[t]) THEN [T[t] EXCEPT !.abort = Marked(T[t].abort, marks[t])]
                   ELSE T[t]]

WorkerMarks ==
  /\ worker.pc = "marks"
  /\ Commit(MarkCommit(task, worker.marks), exec)
  /\ worker' = [worker EXCEPT !.pc = "finalize", !.marks = NoMarks]
  /\ UNCHANGED <<sched, waiter, doubled>>

AfterReconcile == IF IdleWaits THEN "idle"
                  ELSE IF worker.run THEN "list" ELSE "wait"

\* finalize_completing: rounds of a scan and a commit until nothing is ready
ReadyToEnd(T, P) ==
  {t \in P : T[t].st = "completing" /\ OwnedLive(T, P, t) = {}}

WorkerFinalizeScan ==
  /\ worker.pc = "finalize"
  /\ LET ready == ReadyToEnd(task, World)
     IN  worker' = [worker EXCEPT
                      !.ready = ready,
                      !.pc = IF ready = {} THEN AfterReconcile ELSE "write"]
  /\ UNCHANGED <<sched, task, dirty, exec, waiter, doubled, sawIdle>>

WorkerFinalize ==
  /\ worker.pc = "write"
  /\ Commit([t \in Tasks |->
               IF t \in worker.ready /\ task[t].st = "completing"
               THEN [task[t] EXCEPT !.st = "terminal"] ELSE task[t]], exec)
  /\ worker' = [worker EXCEPT !.pc = "finalize", !.ready = {}]
  /\ UNCHANGED <<sched, waiter, doubled>>

\* settle_idle: the world is read before the lock the waiters are resolved
\* under
WorkerIdleScan ==
  /\ worker.pc = "idle"
  /\ worker' = [worker EXCEPT !.idle = Idle(task, World), !.pc = "settle"]
  /\ UNCHANGED <<sched, task, dirty, exec, waiter, doubled, sawIdle>>

WorkerSettle ==
  /\ worker.pc = "settle"
  /\ waiter' = IF worker.idle /\ waiter = "registered" THEN "resolved" ELSE waiter
  /\ worker' = [worker EXCEPT !.idle = FALSE,
                              !.pc = IF worker.run THEN "list" ELSE "wait"]
  /\ UNCHANGED <<sched, task, dirty, exec, doubled, sawIdle>>

\* Mutant: only a pending task is reserved for its abort.
PlannedPending(T, P, t) ==
  LET r == T[t]
      held == /\ r.abort = "none" /\ ~r.bg /\ r.owner \in P
              /\ CancellationIntent(T[r.owner])
  IN  IF t \notin P \/ ~Live(r) \/ held \/ r.st = "completing" THEN "none"
      ELSE IF r.abort # "none" /\ OwnedLive(T, P, t) # {} THEN "none"
      ELSE IF r.st = "waiting" /\ \A m \in r.on : m \in P /\ ~Live(T[m])
      THEN "resume"
      ELSE IF r.st # "pending" THEN "none"
      ELSE IF r.abort = "request" THEN "reserve_or_orphan" ELSE "reserve"

\* What schedule_step does with task t of its second scan, P.
Planned(T, P, t) ==
  LET r == T[t]
      held == /\ r.abort = "none" /\ ~r.bg /\ r.owner \in P
              /\ CancellationIntent(T[r.owner])
  IN  IF t \notin P \/ ~Live(r) \/ held \/ r.st = "completing" THEN "none"
      ELSE IF r.abort # "none"
      THEN IF OwnedLive(T, P, t) # {} THEN "none"
           ELSE IF r.abort = "request" THEN "reserve_or_orphan" ELSE "reserve"
      ELSE IF r.st = "waiting" /\ \A m \in r.on : m \in P /\ ~Live(T[m])
      THEN "resume"
      ELSE IF r.st = "pending" THEN "reserve" ELSE "none"

WorkerList ==
  /\ worker.pc = "list"
  /\ worker' = [worker EXCEPT !.plan = [t \in Tasks |-> Planned(task, Listed, t)],
                              !.pc = "snapshot"]
  /\ UNCHANGED <<sched, task, dirty, exec, waiter, doubled, sawIdle>>

\* The registry snapshot the pass resolves definitions in.
WorkerSnapshot ==
  /\ worker.pc = "snapshot"
  /\ worker' = [worker EXCEPT !.defs = def, !.pc = "loop"]
  /\ UNCHANGED <<sched, task, dirty, exec, waiter, doubled, sawIdle>>

Todo == {t \in Tasks : worker.plan[t] # "none"}
Upcoming(t) == worker.pc = "loop" /\ t \in Todo /\ \A u \in Todo : t <= u
Passed(t) == [worker EXCEPT !.plan[t] = "none"]

\* Mutant: the end of a pass forgets what woke the worker during it.
WorkerLoopEndForgets ==
  /\ worker.pc = "loop" /\ Todo = {}
  /\ worker' = AtRest
  /\ dirty' = FALSE
  /\ UNCHANGED <<sched, task, exec, waiter, doubled, sawIdle>>

WorkerLoopEnd ==
  /\ worker.pc = "loop" /\ Todo = {}
  /\ worker' = AtRest
  /\ UNCHANGED <<sched, task, dirty, exec, waiter, doubled, sawIdle>>

\* A closed harness or a live invocation leaves the task for a later pass.
WorkerSkip(t) ==
  /\ Upcoming(t)
  /\ \/ closed \/ Active(t)
     \/ worker.plan[t] = "reserve" /\ worker.defs[t] = 0
  /\ worker' = Passed(t)
  /\ UNCHANGED <<sched, task, dirty, exec, waiter, doubled, sawIdle>>

WorkerResume(t) ==
  /\ Upcoming(t) /\ worker.plan[t] = "resume" /\ ~closed /\ ~Active(t)
  /\ Commit([task EXCEPT ![t] =
               IF @.st = "waiting"
               THEN [@ EXCEPT !.st = "pending", !.on = {}, !.pol = "none"]
               ELSE @], exec)
  /\ worker' = Passed(t)
  /\ UNCHANGED <<sched, waiter, doubled>>

\* Mutant: the outcome is left out.
SettledBare(r, outcome) ==
  IF r.st = "terminal" THEN r ELSE [r EXCEPT !.st = "terminal"]

\* settle_orphaned, settle_faulted: a terminal record written by the scheduler
Settled(r, outcome) ==
  IF r.st = "terminal" THEN r
  ELSE [r EXCEPT !.st = "terminal", !.out = outcome]

WorkerOrphan(t) ==
  /\ Upcoming(t) /\ worker.plan[t] = "reserve_or_orphan" /\ worker.defs[t] = 0
  /\ ~closed /\ ~Active(t)
  /\ Commit([task EXCEPT ![t] = Settled(@, "orphaned")], exec)
  /\ worker' = Passed(t)
  /\ UNCHANGED <<sched, waiter, doubled>>

\* The reservation commit; the invocation is published in a later step, and
\* only when the commit wrote the record.
Reservable(r) == r.st # "terminal" /\ (r.st = "pending" \/ r.abort # "none")

\* Mutant: the live invocation is not looked up again.
WorkerReserveOverlap(t) ==
  /\ Upcoming(t) /\ worker.plan[t] \in {"reserve", "reserve_or_orphan"}
  /\ worker.defs[t] # 0 /\ ~closed
  /\ IF Reservable(task[t])
     THEN /\ Commit([task EXCEPT ![t].st = "running"], exec)
          /\ worker' = [worker EXCEPT !.pc = "publish"]
     ELSE /\ Quiet(exec)
          /\ worker' = Passed(t)
  /\ UNCHANGED <<sched, waiter, doubled>>

WorkerReserve(t) ==
  /\ Upcoming(t) /\ worker.plan[t] \in {"reserve", "reserve_or_orphan"}
  /\ worker.defs[t] # 0 /\ ~closed /\ ~Active(t)
  /\ IF Reservable(task[t])
     THEN /\ Commit([task EXCEPT ![t].st = "running"], exec)
          /\ worker' = [worker EXCEPT !.pc = "publish"]
     ELSE /\ Quiet(exec)
          /\ worker' = Passed(t)
  /\ UNCHANGED <<sched, waiter, doubled>>

WorkerPublish(t) ==
  /\ worker.pc = "publish" /\ t \in Todo /\ \A u \in Todo : t <= u
  /\ IF closed
     THEN exec' = exec /\ doubled' = doubled
     ELSE /\ exec' = [exec EXCEPT ![t] = [NoExec EXCEPT !.pc = "begin",
                                                        !.def = worker.defs[t]]]
          /\ doubled' = IF Active(t) THEN doubled \cup {t} ELSE doubled
  /\ worker' = [worker EXCEPT !.pc = "loop", !.plan[t] = "none"]
  /\ UNCHANGED <<sched, task, dirty, waiter, sawIdle>>
-----------------------------------------------------------------------------
(* An execution thread: run_task_execution. *)

\* Mutant: the abort handler does not wait for the work below.
ExecBeginEager(t) ==
  /\ exec[t].pc = "begin"
  /\ LET r == task[t]
     IN  Quiet(IF closed \/ r.st = "terminal"
               THEN Cleanup(t)
               ELSE [exec EXCEPT ![t].pc = IF r.abort # "none" THEN "abort"
                                                               ELSE "phase",
                                 ![t].cp = r.cp, ![t].res = "ok"])
  /\ UNCHANGED <<sched, worker, waiter, doubled>>

\* The top of its loop: read the record, and run a phase or, once the work
\* below has drained, the abort handler.
ExecBegin(t) ==
  /\ exec[t].pc = "begin"
  /\ LET r == task[t]
     IN  Quiet(IF \/ closed \/ r.st = "terminal"
                  \/ r.abort # "none" /\ OwnedLive(task, World, t) # {}
               THEN Cleanup(t)
               ELSE [exec EXCEPT ![t].pc = IF r.abort # "none" THEN "abort"
                                                               ELSE "phase",
                                 ![t].cp = r.cp, ![t].res = "ok"])
  /\ UNCHANGED <<sched, worker, waiter, doubled>>

\* commit_with: a commit of the task's own runtime is refused unless its record
\* runs, and while it carries a mark unless `tolerant`.
Accepted(t, tolerant) ==
  task[t].st = "running" /\ (task[t].abort = "none" \/ tolerant)

\* Mutant: the outcome is terminal at once.
EndedAtOnce(t, outcome) ==
  [task[t] EXCEPT !.st = "terminal", !.out = outcome, !.on = {}, !.pol = "none"]

\* The next state of the record: a terminal outcome is held as completing while
\* owned work is live.
Ended(t, outcome) ==
  [task[t] EXCEPT
     !.st = IF OwnedLive(task, World, t) = {} THEN "terminal" ELSE "completing",
     !.out = outcome, !.on = {}, !.pol = "none"]

\* validate_wait: the nodes its walk from member m visits without expanding the
\* waiter: up the owner chain and along the waits of unmarked tasks.
WaitWalk(m, t) ==
  LET edges(a) == (IF task[a].owner \in Tasks THEN {task[a].owner} ELSE {})
                  \cup (IF task[a].st = "waiting" /\ task[a].abort = "none"
                        THEN task[a].on ELSE {})
      walk[n \in 0..TaskBound] ==
        IF n = 0 THEN {m} \ {t}
        ELSE walk[n - 1] \cup UNION {edges(a) \ {t} : a \in walk[n - 1]}
  IN  walk[TaskBound]

ValidWait(t, on, policy) ==
  \A m \in on :
    /\ Exists(m)
    /\ policy = "failFast" => task[m].owner = t
    /\ \/ task[m].st = "terminal" \/ task[m].owner = t
       \/ \A a \in WaitWalk(m, t) : task[a].owner # t

Waits(t, on, policy) ==
  [task[t] EXCEPT !.st = "waiting", !.on = on, !.pol = policy]

\* Tasks a phase may name in a wait.
WaitSets(t) ==
  {on \in SUBSET {m \in Tasks : Exists(m)} :
     on # {} /\ (FreeWaits \/ \A m \in on : task[m].owner = t)}

NewTask(id, owner, bg, flag) ==
  [task EXCEPT ![id] = [NoTask EXCEPT !.st = "pending", !.owner = owner,
                                      !.bg = bg, !.flag = flag]]

\* A phase creates a task below its own in one of its commits.
PhaseCreate(t) ==
  /\ exec[t].pc = "phase" /\ Accepted(t, FALSE) /\ NewId \in Tasks
  /\ TakesWork(task[t])
  /\ \E flag \in Flagged : Commit(NewTask(NewId, t, FALSE, flag), exec)
  /\ UNCHANGED <<sched, worker, waiter, doubled>>

\* A phase writes its next checkpoint.
PhaseAdvance(t) ==
  /\ exec[t].pc = "phase" /\ Accepted(t, FALSE)
  /\ task[t].cp < CheckpointBound
  /\ Commit([task EXCEPT ![t].cp = @ + 1], exec)
  /\ UNCHANGED <<sched, worker, waiter, doubled>>

\* A phase parks its task.
PhaseWait(t) ==
  /\ exec[t].pc = "phase" /\ Accepted(t, FALSE)
  /\ \E on \in WaitSets(t), policy \in {"allSettled", "failFast"} :
       /\ ValidWait(t, on, policy)
       /\ Commit([task EXCEPT ![t] = Waits(t, on, policy)], exec)
  /\ UNCHANGED <<sched, worker, waiter, doubled>>

\* A phase commits an outcome: through commit, or through commit_result, which
\* keeps an observed result in spite of a mark.
PhaseEnd(t) ==
  /\ exec[t].pc = "phase"
  /\ \E outcome \in {"completed", "failed"}, tolerant \in BOOLEAN :
       /\ Accepted(t, tolerant)
       /\ Commit([task EXCEPT ![t] = Ended(t, outcome)], exec)
  /\ UNCHANGED <<sched, worker, waiter, doubled>>

\* The phase returns.
PhaseReturn(t) ==
  /\ exec[t].pc = "phase"
  /\ \E res \in IF Failing THEN {"ok", "err"} ELSE {"ok"} :
       Quiet([exec EXCEPT ![t].pc = "returned", ![t].res = res])
  /\ UNCHANGED <<sched, worker, waiter, doubled>>

\* What the thread does after the phase, from the record it reads.
ExecReturned(t) ==
  /\ exec[t].pc = "returned"
  /\ LET r == task[t]
         replaced == def[t] # exec[t].def /\ def[t] # 0
         step == IF closed \/ r.st = "terminal" THEN "end"
                 ELSE IF r.abort # "none"
                 THEN IF def[t] # 0 THEN "begin"
                      ELSE IF r.abort = "request" THEN "orphan" ELSE "end"
                 ELSE IF exec[t].res = "err" THEN "fault"
                 ELSE IF r.st \in {"waiting", "completing"} THEN "end"
                 ELSE IF r.cp = exec[t].cp THEN "fault"
                 ELSE IF replaced THEN "handover" ELSE "begin"
     IN  Quiet(IF step = "end" THEN Cleanup(t)
               ELSE IF step = "begin" /\ r.abort # "none"
               THEN [MovesTo(t, step) EXCEPT ![t].def = def[t]]
               ELSE MovesTo(t, step))
  /\ UNCHANGED <<sched, worker, waiter, doubled>>

\* settle_orphaned, settle_faulted and the hand-over to a replaced definition;
\* the invocation stays published until its cleanup.
ExecSettle(t) ==
  /\ exec[t].pc \in {"orphan", "fault"}
  /\ Commit([task EXCEPT ![t] = Settled(@, IF exec[t].pc = "orphan"
                                           THEN "orphaned" ELSE "faulted")],
            MovesTo(t, "done"))
  /\ UNCHANGED <<sched, worker, waiter, doubled>>

ExecHandover(t) ==
  /\ exec[t].pc = "handover"
  /\ Commit([task EXCEPT ![t].st = IF @ = "running" THEN "pending" ELSE @],
            MovesTo(t, "done"))
  /\ UNCHANGED <<sched, worker, waiter, doubled>>

ExecDone(t) ==
  /\ exec[t].pc = "done"
  /\ Quiet(Cleanup(t))
  /\ UNCHANGED <<sched, worker, waiter, doubled>>

\* The abort handler commits an outcome, or returns without one: it fails, or
\* its commit is refused because the record it was given does not run.
HandlerEnd(t) ==
  /\ exec[t].pc = "abort"
  /\ \/ /\ Accepted(t, TRUE)
        /\ \E outcome \in {"aborted", "failed"} :
             Commit([task EXCEPT ![t] = Ended(t, outcome)],
                    [exec EXCEPT ![t].pc = "aborted"])
     \/ /\ Failing \/ ~Accepted(t, TRUE)
        /\ Quiet([exec EXCEPT ![t].pc = "aborted"])
  /\ UNCHANGED <<sched, worker, waiter, doubled>>

ExecAborted(t) ==
  /\ exec[t].pc = "aborted"
  /\ Quiet(IF closed \/ task[t].st = "terminal" THEN Cleanup(t)
           ELSE [exec EXCEPT ![t].pc = "fault"])
  /\ UNCHANGED <<sched, worker, waiter, doubled>>
-----------------------------------------------------------------------------
(* Callers. *)

\* A submission or another commit creates an ownerless task and resumes the
\* scheduler.
Create ==
  /\ ~closed /\ NewId \in Tasks
  /\ \E bg \in Background, flag \in Flagged :
       Commit(NewTask(NewId, 0, bg, flag), exec)
  /\ enabled' = TRUE
  /\ UNCHANGED <<def, closed, abandoned, worker, orphaning, waiter, restarts,
                 doubled, inherited>>

\* Harness::resume
Resume ==
  /\ ~enabled /\ ~closed
  /\ enabled' = TRUE /\ dirty' = TRUE
  /\ UNCHANGED <<task, def, closed, abandoned, exec, worker, orphaning, waiter,
                 restarts, doubled, inherited, sawIdle>>

Requested(T, S) ==
  [t \in Tasks |-> IF t \in S /\ Live(T[t])
                   THEN [T[t] EXCEPT !.abort = "request"] ELSE T[t]]

\* abort_task on a task that is not blocked
AbortTask(t) ==
  /\ ~closed /\ Live(task[t]) /\ task[t].abort # "request"
  /\ Commit(Requested(task, {t}), exec)
  /\ UNCHANGED <<sched, worker, waiter, doubled>>

\* abort_task on a blocked task decides to orphan it before its commit.
AbortBlocked(t) ==
  /\ ~closed /\ Live(task[t]) /\ task[t].st # "completing"
  /\ ~Active(t) /\ def[t] = 0
  /\ orphaning' = orphaning \cup {t}
  /\ UNCHANGED <<task, def, enabled, dirty, closed, abandoned, exec, worker,
                 waiter, restarts, doubled, inherited, sawIdle>>

AbortOrphan(t) ==
  /\ t \in orphaning
  /\ Commit([task EXCEPT ![t] = Settled(@, "orphaned")],
            [exec EXCEPT ![t].stop = (exec[t].pc # "none")])
  /\ orphaning' = orphaning \ {t}
  /\ UNCHANGED <<def, enabled, closed, abandoned, worker, waiter, restarts,
                 doubled, inherited>>

\* abort_conversation: one commit marks everything it reaches.
AbortConversation ==
  /\ ~closed
  /\ \E cross \in Background \cup {FALSE} :
       LET reached == Reachable(task, World, cross)
       IN  /\ \E t \in reached : task[t].abort # "request"
           /\ Commit(Requested(task, reached), exec)
  /\ UNCHANGED <<sched, worker, waiter, doubled>>

\* An extension installs, replaces or removes the definition of a kind.
Install(t) ==
  /\ \E d \in (Definitions \cup {0}) \ {def[t]} :
       Cardinality(Definitions) > 1 /\ def' = [def EXCEPT ![t] = d]
  /\ dirty' = TRUE
  /\ UNCHANGED <<task, enabled, closed, abandoned, exec, worker, orphaning,
                 waiter, restarts, doubled, inherited, sawIdle>>

\* wait_for_idle reads the world, then registers and reads it once more.
WaitIdleCheck ==
  /\ IdleWaits /\ ~closed /\ waiter = "none"
  /\ ~Idle(task, World)
  /\ waiter' = "checked"
  /\ UNCHANGED <<sched, task, dirty, exec, worker, doubled, sawIdle>>

WaitIdleRegister ==
  /\ waiter = "checked"
  /\ waiter' = IF Idle(task, World) THEN "none" ELSE "registered"
  /\ sawIdle' = FALSE
  /\ UNCHANGED <<sched, task, dirty, exec, worker, doubled>>

WaitIdleDone ==
  /\ waiter = "resolved"
  /\ waiter' = "none" /\ sawIdle' = FALSE
  /\ UNCHANGED <<sched, task, dirty, exec, worker, doubled>>

\* Mutant: close does not signal the invocations.
CloseSilent ==
  /\ Closing /\ ~closed
  /\ closed' = TRUE
  /\ UNCHANGED <<task, def, enabled, dirty, abandoned, exec, worker, orphaning,
                 waiter, restarts, doubled, inherited, sawIdle>>

\* Harness::close: shutdown signals every invocation and joins the threads.
Close ==
  /\ Closing /\ ~closed
  /\ closed' = TRUE
  /\ exec' = [t \in Tasks |-> [exec[t] EXCEPT !.stop = (exec[t].pc # "none")]]
  /\ UNCHANGED <<task, def, enabled, dirty, abandoned, worker, orphaning,
                 waiter, restarts, doubled, inherited, sawIdle>>

\* The process dies, or ends after a close, and a later one opens the store:
\* surviving running tasks become pending and flagged live ones are abandoned.
Restart ==
  /\ restarts < RestartBound
  /\ restarts' = restarts + 1
  /\ task' = [t \in Tasks |-> IF task[t].st = "running"
                              THEN [task[t] EXCEPT !.st = "pending"]
                              ELSE task[t]]
  /\ abandoned' = {t \in Tasks : Live(task[t]) /\ task[t].flag}
  /\ inherited' = abandoned'
  /\ exec' = [t \in Tasks |-> NoExec]
  /\ worker' = AtRest
  /\ enabled' = FALSE /\ closed' = FALSE /\ dirty' = TRUE
  /\ orphaning' = {} /\ waiter' = "none" /\ sawIdle' = FALSE
  /\ UNCHANGED <<def, doubled>>
-----------------------------------------------------------------------------
Worker ==
  \/ WorkerWake \/ WorkerAbandon \/ WorkerScan \/ WorkerMarks
  \/ WorkerFinalizeScan \/ WorkerFinalize \/ WorkerIdleScan \/ WorkerSettle
  \/ WorkerList \/ WorkerSnapshot \/ WorkerLoopEnd
  \/ \E t \in Tasks : \/ WorkerSkip(t) \/ WorkerResume(t) \/ WorkerOrphan(t)
                      \/ WorkerReserve(t) \/ WorkerPublish(t)

\* The thread of t outside phase code.
Exec(t) == \/ ExecBegin(t) \/ ExecReturned(t) \/ ExecSettle(t)
           \/ ExecHandover(t) \/ ExecAborted(t) \/ ExecDone(t)

Phase(t) == \/ PhaseCreate(t) \/ PhaseAdvance(t) \/ PhaseWait(t)
            \/ PhaseEnd(t) \/ PhaseReturn(t)

Callers ==
  \/ Create \/ Resume \/ AbortConversation \/ Close \/ Restart
  \/ WaitIdleCheck \/ WaitIdleRegister \/ WaitIdleDone
  \/ \E t \in Tasks : \/ AbortTask(t) \/ AbortBlocked(t) \/ AbortOrphan(t)
                      \/ Install(t)

Next == \/ Worker
        \/ \E t \in Tasks : Exec(t) \/ Phase(t) \/ HandlerEnd(t)
        \/ Callers

Spec == Init /\ [][Next]_vars

\* Both kinds of threads keep running, an abort handler returns, and phase code
\* returns once it is asked to stop or its record no longer runs, when every
\* further commit of it is refused.
FairSpec ==
  /\ Spec
  /\ WF_vars(Worker)
  /\ \A t \in Tasks : /\ WF_vars(Exec(t))
                      /\ WF_vars(HandlerEnd(t))
                      /\ WF_vars(/\ exec[t].stop \/ task[t].st # "running"
                              /\ PhaseReturn(t))
-----------------------------------------------------------------------------
(* Properties. *)

ExecRecord ==
  [pc : {"none", "begin", "phase", "returned", "orphan", "done", "fault",
         "handover", "abort", "aborted"},
   stop : BOOLEAN, cp : Nat, def : Nat, res : {"ok", "err"}]
WorkerRecord ==
  [pc : {"wait", "abandon", "scan", "marks", "finalize", "write", "idle",
         "settle", "list", "snapshot", "loop", "publish"},
   marks : [Tasks -> Marks], ready : SUBSET Tasks,
   plan : [Tasks -> {"none", "resume", "reserve", "reserve_or_orphan"}],
   defs : [Tasks -> Nat], idle : BOOLEAN, run : BOOLEAN]

\* The records, threads and waiters keep their shape: an ended or held task has
\* an outcome, a parked one a join policy, an owner exists and is older than its
\* task, and only an existing task has an invocation, a plan or an orphaning.
TypeOK ==
  /\ task \in [Tasks -> TaskRecord]
  /\ def \in [Tasks -> Definitions \cup {0}]
  /\ enabled \in BOOLEAN /\ dirty \in BOOLEAN /\ closed \in BOOLEAN
  /\ sawIdle \in BOOLEAN
  /\ abandoned \in SUBSET Tasks /\ inherited \in SUBSET Tasks
  /\ orphaning \in SUBSET Tasks /\ doubled \in SUBSET Tasks
  /\ worker \in WorkerRecord
  /\ exec \in [Tasks -> ExecRecord]
  /\ waiter \in {"none", "checked", "registered", "resolved"}
  /\ restarts \in Nat
ShapedRecord(r) ==
  /\ r.st \in {"completing", "terminal"} => r.out # "none"
  /\ r.out = "orphaned" => r.st = "terminal"
  /\ r.st = "waiting" => r.pol # "none"
  /\ r.st = "none" => r.abort = "none"
Shaped ==
  \A t \in Tasks :
    /\ ShapedRecord(task[t])
    /\ task[t].owner # 0 => Exists(task[t].owner) /\ task[t].owner < t
    /\ Active(t) \/ worker.plan[t] # "none" \/ t \in orphaning => Exists(t)

\* schedule_step and the resume guard: no invocation is published for a task
\* that still has one, however stale the scan that planned it.
OneInvocation == doubled = {}

\* run_task_execution: an abort handler runs only when no live work is left
\* below its task, so that descendants' handlers run first.
AbortBottomUp ==
  \A t \in Tasks : exec[t].pc = "abort" => OwnedLive(task, Tasks, t) = {}

\* commit_with and finalize_completing: an outcome a task's own code committed
\* becomes terminal only when the owned work below has ended.
HeldUntilDrained ==
  \A t \in Tasks :
    task[t].st = "terminal" /\ task[t].out \notin {"faulted", "orphaned"}
      => OwnedLive(task, Tasks, t) = {}

\* mark_abandoned_on_restart: of a flagged task an earlier process left alive,
\* and of the work it owns, nothing runs a phase again; it is only aborted.  A
\* flagged task that was orphaned since says nothing about the work it owned.
Heirs == {a \in inherited : task[a].out # "orphaned"}
Clean(t) == ({t} \cup Owners(task, t)) \cap Heirs = {}
AbandonedNotResumed == \A t \in Tasks : exec[t].pc = "phase" => Clean(t)

\* reconcile, abort_task, mark_abandoned_on_restart: an abort request is never
\* taken back or downgraded to a restart mark, whatever its owner carries.
RequestStands ==
  [][\A t \in Tasks : task[t].abort = "request" => task'[t].abort = "request"]_task

\* abort_task, reconcile and schedule_step: a task marked for abort ends, as
\* long as the scheduler is enabled and open.
AbortSettles ==
  \A t \in Tasks :
    (task[t].abort # "none" /\ enabled)
      ~> (task[t].st = "terminal" \/ ~enabled \/ closed)

\* reconcile and finalize_completing: a held failure ends the work below it and
\* then its own task.
HeldFailureEnds ==
  \A t \in Tasks :
    (task[t].st = "completing" /\ FailedOutcome(task[t]) /\ enabled)
      ~> (task[t].st = "terminal" \/ ~enabled \/ closed)

\* run_worker: no wake-up is lost, so a pending task, and a parked one whose
\* members have all ended, is taken up.
ReadyRuns ==
  LET ready(t) == \/ task[t].st = "pending"
                  \/ task[t].st = "waiting" /\ \A m \in task[t].on : ~Live(task[m])
  IN  \A t \in Tasks :
        (ready(t) /\ enabled) ~> (~ready(t) \/ ~enabled \/ closed)

\* shutdown: after close every invocation ends, so that the threads can be
\* joined.
CloseDrains == closed ~> (\A t \in Tasks : ~Active(t)) \/ ~closed

\* validate_wait: "the wait may not close a cycle in the wait-for graph", so in
\* any set of parked tasks one waits for nothing inside the set.
NoWaitCycle ==
  \A S \in SUBSET {t \in Tasks : task[t].st = "waiting" /\ task[t].abort = "none"} :
    S # {} => \E t \in S : task[t].on \cap S = {}

\* commit_with: "A terminal outcome holds as `completing` while ordinary owned
\* work below the task is live"; what is held is what ends the task.
HeldOutcomeStands ==
  [][\A t \in Tasks : task[t].st = "completing" =>
       /\ task'[t].st \in {"completing", "terminal"}
       /\ task'[t].out = task[t].out]_task

(* What the proofs need beside the types.                                   *)

\* A page of reconcile holds every record.
WorldFits == TaskBound <= WorldPage

\* Ids are minted in order.
Created == {t \in Tasks : Exists(t)}
MintInv == \E n \in 0..TaskBound : Created = 1..n

Drained(t) == OwnedLive(task, Tasks, t) = {}

\* finalize_completing, between its scan and its commit: what is ready stays so.
ReadyInv ==
  worker.pc = "write" =>
    \A t \in worker.ready : Drained(t) /\ task[t].st \in {"completing", "terminal"}

\* run_task_execution: the abort handler of a marked task, and the fault that
\* may follow it, have no live work below.  Only a task that took up a phase
\* faults above live work.
HandlerInv ==
  \A t \in Tasks :
    /\ exec[t].pc \in {"abort", "aborted"} => Drained(t) /\ task[t].abort # "none"
    /\ exec[t].pc = "fault" => t \notin Heirs \/ Drained(t)

\* schedule_step: the task whose reservation was committed has no invocation.
PublishInv ==
  worker.pc = "publish" =>
    \A t \in Todo : (\A u \in Todo : t <= u) => ~Active(t)

\* A live task below an inherited one is marked.
Swept == \A t \in Tasks : Live(task[t]) /\ ~Clean(t) => task[t].abort # "none"

\* mark_abandoned_on_restart: the first enabled pass marks what was inherited,
\* and a pass reserves only after it.
PassInv ==
  /\ worker.pc \in {"list", "snapshot", "loop", "publish"} => worker.run
  /\ worker.run /\ worker.pc # "abandon" => abandoned = {}
HeirsInv ==
  /\ inherited \subseteq Created
  /\ abandoned # {} => abandoned = inherited
  /\ abandoned = {} => \A a \in Heirs : Live(task[a]) => task[a].abort # "none"
  /\ \A a \in Heirs : task[a].st = "terminal" => Drained(a)

\* reconcile: an enabled pass marks the work below inherited tasks before it
\* reserves anything, so that no phase of it runs.
MarksInv ==
  worker.run /\ worker.pc = "marks" =>
    \A t \in Tasks : Live(task[t]) /\ ~Clean(t) =>
                        task[t].abort # "none" \/ worker.marks[t] # "none"
SweptInv ==
  (worker.run /\ worker.pc \notin {"wait", "abandon", "scan", "marks"})
    \/ (\E t \in Tasks : Active(t)) => Swept
CleanInv ==
  \A t \in Tasks : exec[t].pc \in {"phase", "returned", "handover"} => Clean(t)

SweepInv == PassInv /\ HeirsInv /\ MarksInv /\ SweptInv /\ CleanInv

SchedulerInv ==
  /\ Shaped /\ MintInv /\ ReadyInv /\ HandlerInv /\ PublishInv /\ SweepInv
=============================================================================
