----------------------------- MODULE Submissions -----------------------------
(***************************************************************************)
(* Submissions of one conversation and the generation tasks that answer     *)
(* them (src/durable/WorkflowRuntime.cpp): admission, the inbox, boundaries,*)
(* the live run and its hand-over from task to task, retries, compactions,  *)
(* aborts, faults, restarts, and the waiters of Submission::Registry        *)
(* (src/durable/Harness.cpp).                                               *)
(*                                                                          *)
(* Every commit of the runtime is one step on the stored state `db`; between*)
(* two commits of a phase anything else may commit.  Prompts, messages and  *)
(* answers are left out: an entry is the position of a placed submission in *)
(* `log`, and `head` is the entry the newest head marker names.  The        *)
(* scheduler is TaskScheduler's: here it only reserves, resumes and faults  *)
(* generation tasks, whose children (the tools of a round, a blocking       *)
(* compaction) are one field.  A background compaction submits its summary  *)
(* as a pinned write.                                                       *)
(***************************************************************************)
EXTENDS Naturals, Sequences, FiniteSets

CONSTANTS
  SubmissionBound,  \* bound: submissions admitted
  RoundBound,       \* bound: hand-overs to a successor (tool rounds, onYield)
  RestartBound,     \* bound: crashes
  Drafts,           \* draft kinds callers submit
  SteeringMode, FollowUpMode,   \* "one" or "all" (HarnessSettings)
  MaxRetries,       \* retry.max_retries
  Compaction,       \* compaction.enabled
  Waited            \* submissions that are waited for

Inputs == {"steer", "followUp", "reject"}
Writes == {"write", "reset", "pinned", "display"}

ASSUME SubmissionsAssumption ==
  /\ SubmissionBound \in Nat /\ RoundBound \in Nat /\ RestartBound \in Nat
  /\ Drafts \subseteq Inputs \cup Writes
  /\ {SteeringMode, FollowUpMode} \subseteq {"one", "all"}
  /\ MaxRetries \in Nat /\ Compaction \in BOOLEAN

Ids  == 1..SubmissionBound
Gens == 1..(SubmissionBound + RoundBound)

VARIABLES
  db,        \* submissions, inbox, live run, generation tasks: what is stored
  inv,       \* generation tasks with an execution thread
  waiting,   \* waiters of Submission::Registry
  unseen,    \* settled submissions whose publication is still to come
  rounds, restarts

vars == <<db, inv, waiting, unseen, rounds, restarts>>
-----------------------------------------------------------------------------
NoSub == [st |-> "none", reason |-> "none", kind |-> "write", pin |-> 0]
NoGen == [st |-> "none", phase |-> "prepare", mark |-> FALSE, attempt |-> 1,
          kids |-> "none", cp |-> "no", out |-> "none"]
NoRun == [task |-> 0, inputs |-> <<>>]

Settled(r) == r.st \in {"done", "unanswered"}
LiveGen(g) == g.st \notin {"none", "terminal"}

Mode(kind) == CASE kind = "steer" -> "steer"
                [] kind \in Inputs \ {"steer"} -> "followUp"
                [] OTHER -> "write"

Admitted(d)  == {i \in Ids : d.sub[i].st # "none"}
NextId(d)    == Cardinality(Admitted(d)) + 1
NextGen(d)   == Cardinality({t \in Gens : d.gen[t].st # "none"}) + 1
Items(s)     == {s[k] : k \in 1..Len(s)}

\* The items of q that are in S, in the order of q (SelectSeq, written out
\* because the prover does not know what that returns).
Those(q, S) ==
  LET kept[n \in 0..Len(q)] ==
        IF n = 0 THEN <<>>
        ELSE IF q[n] \in S THEN Append(kept[n - 1], q[n]) ELSE kept[n - 1]
  IN  kept[Len(q)]

Init ==
  /\ db = [sub |-> [i \in Ids |-> NoSub], inbox |-> <<>>, head |-> 0,
           log |-> <<>>, run |-> NoRun, gen |-> [t \in Gens |-> NoGen]]
  /\ inv = {} /\ waiting = {} /\ unseen = {}
  /\ rounds = 0 /\ restarts = 0
-----------------------------------------------------------------------------
(* Run helpers: each takes the stored state and returns the one staged next. *)

\* apply_submission_change of a settlement: a settled record stays.
Settle(d, S, st, reason) ==
  [d EXCEPT !.sub = [i \in Ids |->
     IF i \in S /\ ~Settled(d.sub[i])
     THEN [d.sub[i] EXCEPT !.st = st, !.reason = reason] ELSE d.sub[i]]]

\* Mutant: the task is created and the live run is not published.
StartRunUnpublished(d, inputs) ==
  [d EXCEPT !.gen[NextGen(d)] = [NoGen EXCEPT !.st = "pending"]]

\* start_run
StartRun(d, inputs) ==
  LET t == NextGen(d)
  IN  [d EXCEPT !.gen[t] = [NoGen EXCEPT !.st = "pending"],
                !.run = [task |-> t, inputs |-> inputs]]

StartIfUsers(d, users) == IF users = <<>> THEN d ELSE StartRun(d, users)

\* hand_over: a successor keeps the inputs.
HandOver(d) == StartRun(d, d.run.inputs)

\* Mutant: the inputs that joined the run stay behind.
JoinNobody(d, t, users) == d

\* join_run_inputs
JoinRun(d, t, users) ==
  IF d.run.task = t THEN [d EXCEPT !.run.inputs = @ \o users] ELSE d

\* Mutant: a run is only forgotten.
EndRunUnsettled(d, t, st, reason) ==
  IF d.run.task = t THEN [d EXCEPT !.run = NoRun] ELSE d

\* end_run: only the run of this task is settled.
EndRun(d, t, st, reason) ==
  IF d.run.task = t
  THEN [Settle(d, Items(d.run.inputs), st, reason) EXCEPT !.run = NoRun]
  ELSE d

\* The task's record ends with its commit.
Ends(d, t, outcome) ==
  [d EXCEPT !.gen[t] = [NoGen EXCEPT !.st = "terminal", !.out = outcome]]

\* withdraw_queued_inputs: every queued input, never a write
Withdrawn(d) ==
  LET gone == {i \in Items(d.inbox) : d.sub[i].kind \in Inputs}
  IN  [Settle(d, gone, "unanswered", "aborted")
         EXCEPT !.inbox = Those(@, Ids \ gone)]
-----------------------------------------------------------------------------
(* apply_boundary: which items leave the inbox, and what becomes of them. *)

\* has_queued_reset
HasReset(d, q) == \E i \in Items(q) : d.sub[i].kind = "reset"

OfMode(d, q, mode) == Those(q, {i \in Ids : Mode(d.sub[i].kind) = mode})

\* Mutant: the newest item of a mode goes first.
PickNewest(d, q, mode, queueMode) ==
  LET s == OfMode(d, q, mode)
  IN  IF queueMode = "one" /\ s # <<>> THEN {s[Len(s)]} ELSE Items(s)

\* pick: the items of one mode, the first or all of them
Pick(d, q, mode, queueMode) ==
  LET s == OfMode(d, q, mode)
  IN  IF queueMode = "one" /\ s # <<>> THEN {s[1]} ELSE Items(s)

Users(d, q, final) ==
  LET picked == Pick(d, q, "steer", SteeringMode)
                \cup IF final \/ HasReset(d, q)
                     THEN Pick(d, q, "followUp", FollowUpMode) ELSE {}
  IN  Those(q, picked)

\* is_stale: a pinned head before the newest head marker
Stale(d, i) == d.sub[i].kind = "pinned" /\ d.sub[i].pin < d.head

HeadAfter(d, i) ==
  IF d.sub[i].kind = "reset" THEN Len(d.log) + 1
  ELSE IF d.sub[i].kind = "pinned" THEN d.sub[i].pin ELSE d.head

\* Mutant: nobody asks whether a pinned write became stale in the queue.
PlaceWriteUnchecked(d, i) ==
  [d EXCEPT !.sub[i].st = "done", !.log = Append(@, i), !.head = HeadAfter(d, i)]

\* append_write_entry and place_submission, or stale: a reset's head is its own
\* entry, a pinned write's the entry it names.
PlaceWrite(d, i) ==
  IF Stale(d, i)
  THEN Settle(d, {i}, "unanswered", "stale")
  ELSE [d EXCEPT !.sub[i].st = "done", !.log = Append(@, i), !.head = HeadAfter(d, i)]

\* append_input_entry and place_submission
PlaceUser(d, i) == [d EXCEPT !.sub[i].st = "placed", !.log = Append(@, i)]

Place(d, i) == IF d.sub[i].kind \in Writes THEN PlaceWrite(d, i) ELSE PlaceUser(d, i)

\* Each is placed where those before it left the transcript and its head.
PlaceAll(d, s) ==
  LET after[n \in 0..Len(s)] == IF n = 0 THEN d ELSE Place(after[n - 1], s[n])
  IN  after[Len(s)]

\* The writes go first.
Leaving(d, q, final) == OfMode(d, q, "write") \o Users(d, q, final)
Boundary(d, q, final) ==
  LET leaving == Leaving(d, q, final)
      placed  == PlaceAll(d, leaving)
  IN  [d EXCEPT !.sub = placed.sub, !.log = placed.log, !.head = placed.head,
                !.inbox = Those(q, Ids \ Items(leaving))]
-----------------------------------------------------------------------------
(* Publication: a commit's settlements reach the waiters later.  The tasks a  *)
(* run names are bounded by Gens.                                            *)

Store(new) ==
  /\ new.run.task \in Gens \cup {0}
  /\ db' = new
  /\ unseen' = unseen \cup {i \in Waited : Settled(new.sub[i]) /\ ~Settled(db.sub[i])}

\* Registry::observe
Observe(i) ==
  /\ i \in unseen
  /\ unseen' = unseen \ {i}
  /\ waiting' = waiting \ {i}
  /\ UNCHANGED <<db, inv, rounds, restarts>>

\* Mutant: the record is not read under the lock that registers the waiter.
WaitBlind(i) ==
  /\ i \in Waited \ waiting /\ db.sub[i].st # "none"
  /\ waiting' = waiting \cup {i}
  /\ UNCHANGED <<db, inv, unseen, rounds, restarts>>

\* Registry::wait: the stored record decides, under the registry's lock.
Wait(i) ==
  /\ i \in Waited \ waiting /\ db.sub[i].st # "none" /\ ~Settled(db.sub[i])
  /\ waiting' = waiting \cup {i}
  /\ UNCHANGED <<db, inv, unseen, rounds, restarts>>

\* The waiter's stop token cancels it.
CancelWait(i) ==
  /\ i \in waiting
  /\ waiting' = waiting \ {i}
  /\ UNCHANGED <<db, inv, unseen, rounds, restarts>>
-----------------------------------------------------------------------------
(* Callers. *)

Created(d, r) == [d EXCEPT !.sub[NextId(d)] = r]

Draft(kind, pin) == [NoSub EXCEPT !.kind = kind, !.pin = pin]

\* admit_submission after the duplicate and busy checks: a display-only write is
\* placed at once, a busy conversation queues, an idle one with a queue runs a
\* final boundary, an idle one without places the draft.
Admit(d, r) ==
  LET id == NextId(d)
      new == Created(d, [r EXCEPT !.st = "queued"])
      queued == Append(d.inbox, id)
  IN  IF r.kind = "display" /\ ~HasReset(d, d.inbox) THEN PlaceWrite(new, id)
      ELSE IF d.run # NoRun THEN [new EXCEPT !.inbox = queued]
      ELSE IF d.inbox # <<>>
      THEN StartIfUsers(Boundary(new, queued, TRUE), Users(new, queued, TRUE))
      ELSE IF r.kind \in Writes THEN PlaceWrite(new, id)
      ELSE StartRun(PlaceUser(new, id), <<id>>)

\* Harness::submit.  A request id that was admitted before returns that
\* submission, and a busy conversation that the draft does not accept an error:
\* nothing changes.
Submit ==
  /\ NextId(db) \in Ids
  /\ \E kind \in Drafts :
       \E pin \in IF kind = "pinned" THEN 0..Len(db.log) ELSE {0} :
         /\ ~(kind = "reject" /\ db.run # NoRun)
         /\ Store(Admit(db, Draft(kind, pin)))
  /\ UNCHANGED <<inv, waiting, rounds, restarts>>

\* Registry::abort_submission
AbortSubmission(i) ==
  /\ db.sub[i].st = "queued"
  /\ Store([Settle(db, {i}, "unanswered", "aborted")
              EXCEPT !.inbox = Those(@, Ids \ {i})])
  /\ UNCHANGED <<inv, waiting, rounds, restarts>>

MarkedGens(d) == [t \in Gens |-> IF LiveGen(d.gen[t])
                                 THEN [d.gen[t] EXCEPT !.mark = TRUE] ELSE d.gen[t]]

\* Harness::abort_conversation: one commit marks the live tasks and withdraws
\* the queued inputs.
AbortConversation ==
  /\ LET new == [Withdrawn(db) EXCEPT !.gen = MarkedGens(db)]
     IN  new # db /\ Store(new)
  /\ UNCHANGED <<inv, waiting, rounds, restarts>>
-----------------------------------------------------------------------------
(* What the scheduler does with a generation task t. *)

Kids(t) == db.gen[t].kids = "live"

Reserve(t) ==
  /\ t \notin inv /\ LiveGen(db.gen[t])
  /\ \/ db.gen[t].st = "pending"
     \/ db.gen[t].mark /\ ~Kids(t)
  /\ Store([db EXCEPT !.gen[t].st = "running"])
  /\ inv' = inv \cup {t}
  /\ UNCHANGED <<waiting, rounds, restarts>>

Resume(t) ==
  /\ t \notin inv /\ db.gen[t].st = "waiting" /\ ~db.gen[t].mark /\ ~Kids(t)
  /\ Store([db EXCEPT !.gen[t].st = "pending"])
  /\ UNCHANGED <<inv, waiting, rounds, restarts>>

\* The tool tasks of the round, or the compaction, all end: a compaction's
\* summary is a head marker at the first entry it keeps.
KidsEnd(t) ==
  /\ Kids(t)
  /\ \/ Store([db EXCEPT !.gen[t].kids = "failed"])
     \/ \E h \in IF db.gen[t].phase = "prepare" THEN db.head..Len(db.log) ELSE {db.head} :
          Store([db EXCEPT !.head = h, !.gen[t].kids = "done"])
  /\ UNCHANGED <<inv, waiting, rounds, restarts>>

\* The thread of a task that parked reads the record again: it ends, or, when
\* the task was marked and nothing is left below it, runs the abort handler,
\* whose commit a parked record refuses.
Unwind(t) ==
  /\ t \in inv /\ db.gen[t].st = "waiting"
  /\ Store(IF db.gen[t].mark /\ ~Kids(t) THEN Ends(db, t, "faulted") ELSE db)
  /\ inv' = inv \ {t}
  /\ UNCHANGED <<waiting, rounds, restarts>>

\* settle_faulted: a phase that fails ends its task and nothing else.
Fault(t) ==
  /\ t \in inv /\ db.gen[t].st = "running" /\ ~db.gen[t].mark
  /\ Store(Ends(db, t, "faulted"))
  /\ inv' = inv \ {t}
  /\ UNCHANGED <<waiting, rounds, restarts>>

\* abort_run
Abort(t) ==
  /\ t \in inv /\ db.gen[t].st = "running" /\ db.gen[t].mark
  /\ Store(Ends(EndRun(db, t, "unanswered", "aborted"), t, "aborted"))
  /\ inv' = inv \ {t}
  /\ UNCHANGED <<waiting, rounds, restarts>>

\* A crash: threads and waiters are gone, running tasks are pending again.
Restart ==
  /\ restarts < RestartBound
  /\ restarts' = restarts + 1
  /\ db' = [db EXCEPT !.gen = [t \in Gens |->
                IF @[t].st = "running" THEN [@[t] EXCEPT !.st = "pending"] ELSE @[t]]]
  /\ inv' = {} /\ waiting' = {} /\ unseen' = {}
  /\ UNCHANGED rounds
-----------------------------------------------------------------------------
(* The phases of a generation task: dispatch. *)

\* A phase of the unmarked task t commits; its thread goes on unless the
\* commit ended the task.
Phase(t, phase) ==
  t \in inv /\ db.gen[t].st = "running" /\ ~db.gen[t].mark /\ db.gen[t].phase = phase

Commits(t, new) ==
  /\ Store(new)
  /\ inv' = IF new.gen[t].st = "terminal" THEN inv \ {t} ELSE inv
  /\ UNCHANGED <<waiting, restarts>>

Parks(d, t, phase, cp) ==
  [d EXCEPT !.gen[t] = [@ EXCEPT !.st = "waiting", !.phase = phase,
                                 !.kids = "live", !.cp = cp]]

ModelError(d, t) == Ends(EndRun(d, t, "unanswered", "model_error"), t, "failed")

\* prepare: a failed compaction fails the run, a full context compacts first.
Prepare(t) ==
  /\ Phase(t, "prepare") /\ db.run.task = t
  /\ LET g == db.gen[t]
     IN  IF g.cp # "no" /\ g.kids = "failed"
         THEN Commits(t, ModelError(db, t))
         ELSE \/ Commits(t, [db EXCEPT !.gen[t] = [@ EXCEPT !.phase = "request", !.kids = "none"]])
              \/ /\ Compaction /\ g.cp = "no"
                 /\ Commits(t, Parks(db, t, "prepare", "threshold"))
  /\ UNCHANGED rounds

\* request: a transport failure, a model error or an abort by the provider
RequestFails(t) ==
  /\ Phase(t, "request") /\ db.run.task = t
  /\ Commits(t, ModelError(db, t))
  /\ UNCHANGED rounds

\* request: a context overflow compacts once
RequestOverflows(t) ==
  /\ Phase(t, "request") /\ db.run.task = t
  /\ Compaction /\ db.gen[t].cp = "no"
  /\ Commits(t, Parks(db, t, "prepare", "overflow"))
  /\ UNCHANGED rounds

\* Mutant: one retry more than configured.
RequestRetriesOnceMore(t) ==
  /\ Phase(t, "request") /\ db.run.task = t
  /\ db.gen[t].attempt <= MaxRetries + 1
  /\ Commits(t, [db EXCEPT !.gen[t].phase = "retry"])
  /\ UNCHANGED rounds

\* request: a retryable failure
RequestRetries(t) ==
  /\ Phase(t, "request") /\ db.run.task = t
  /\ db.gen[t].attempt <= MaxRetries
  /\ Commits(t, [db EXCEPT !.gen[t].phase = "retry"])
  /\ UNCHANGED rounds

\* retry
Retry(t) ==
  /\ Phase(t, "retry")
  /\ Commits(t, [db EXCEPT !.gen[t] = [@ EXCEPT !.phase = "prepare", !.attempt = db.gen[t].attempt + 1]])
  /\ UNCHANGED rounds

\* start_tool_round: the task parks, or goes on when no call has a task
RequestTools(t) ==
  /\ Phase(t, "request") /\ db.run.task = t
  /\ rounds < RoundBound
  /\ rounds' = rounds + 1
  /\ \/ Commits(t, Parks(db, t, "tools", db.gen[t].cp))
     \/ Commits(t, [db EXCEPT !.gen[t].phase = "tools"])

\* request: the final answer, with or without an onYield continuation
RequestAnswers(t) ==
  /\ Phase(t, "request") /\ db.run.task = t
  /\ \E continuation \in BOOLEAN :
       LET users == Users(db, db.inbox, TRUE)
           goesOn == continuation /\ users = <<>> /\ ~HasReset(db, db.inbox)
           d == Boundary(db, db.inbox, TRUE)
       IN  /\ continuation => rounds < RoundBound
           /\ rounds' = IF goesOn THEN rounds + 1 ELSE rounds
           /\ Commits(t, Ends(IF goesOn THEN HandOver(d)
                              ELSE StartIfUsers(EndRun(d, t, "done", "none"), users),
                              t, "completed"))

\* finish_tool_round: the boundary after tools.  A reset cuts the run; else the
\* users placed join it and a successor takes it over.
FinishTools(t) ==
  /\ Phase(t, "tools")
  /\ LET users == Users(db, db.inbox, FALSE)
         d == Boundary(db, db.inbox, FALSE)
     IN  Commits(t, Ends(IF HasReset(db, db.inbox)
                         THEN StartIfUsers(EndRun(d, t, "unanswered", "reset"), users)
                         ELSE HandOver(JoinRun(d, t, users)),
                         t, "completed"))
  /\ UNCHANGED rounds
-----------------------------------------------------------------------------
Generation(t) ==
  \/ Prepare(t) \/ RequestFails(t) \/ RequestOverflows(t) \/ RequestRetries(t)
  \/ Retry(t) \/ RequestTools(t) \/ RequestAnswers(t) \/ FinishTools(t)

Scheduled(t) ==
  Reserve(t) \/ Resume(t) \/ KidsEnd(t) \/ Unwind(t) \/ Abort(t)

Next ==
  \/ Submit \/ AbortConversation \/ Restart
  \/ \E i \in Ids : AbortSubmission(i) \/ Wait(i) \/ CancelWait(i) \/ Observe(i)
  \/ \E t \in Gens : Generation(t) \/ Scheduled(t) \/ Fault(t)

Spec == Init /\ [][Next]_vars

\* The scheduler and the children it runs make progress (TaskScheduler), a model
\* stream ends, and a settled commit is published.
FairSpec ==
  /\ Spec
  /\ \A t \in Gens : WF_vars(Generation(t)) /\ WF_vars(Scheduled(t))
  /\ \A i \in Ids : WF_vars(Observe(i))
-----------------------------------------------------------------------------
(* Properties. *)

\* The stored records keep their shape.
TypeOK ==
  /\ \A i \in Ids :
       /\ db.sub[i].st \in {"none", "queued", "placed", "done", "unanswered"}
       /\ db.sub[i].st = "placed" => db.sub[i].kind \in Inputs
       /\ db.sub[i].st = "unanswered" <=> db.sub[i].reason # "none"
  /\ db.head \in 0..Len(db.log)
  /\ db.run.task \in Gens \cup {0}
  /\ \A t \in Gens :
       /\ db.gen[t].st \in {"none", "pending", "running", "waiting", "terminal"}
       /\ db.gen[t].phase \in {"prepare", "request", "retry", "tools"}
       /\ db.gen[t].attempt \in 1..(MaxRetries + 1)
  /\ inv \subseteq Gens /\ waiting \cup unseen \subseteq Ids

Count(s, i) == Cardinality({k \in 1..Len(s) : s[k] = i})

\* apply_boundary, join_run_inputs, hand_over, end_run, withdraw_queued_inputs:
\* whatever runs, fails, is aborted or crashes, a queued submission is in the
\* inbox once, a placed input belongs to the live run once, and nothing else is
\* in either: no submission is lost, answered twice or placed twice.
SubmissionsAccounted ==
  \A i \in Ids :
    /\ Count(db.inbox, i) = IF db.sub[i].st = "queued" THEN 1 ELSE 0
    /\ Count(db.run.inputs, i) = IF db.sub[i].st = "placed" THEN 1 ELSE 0

Faulted(t) == t \in Gens /\ db.gen[t].out = "faulted"

\* start_run, hand_over, end_run: at most one generation task is live, the one
\* the live run names; only a fault leaves the run with an ended task.
OneGeneration ==
  /\ \A t \in Gens : LiveGen(db.gen[t]) => db.run.task = t
  /\ db.run # NoRun => LiveGen(db.gen[db.run.task]) \/ Faulted(db.run.task)

\* Submission i may be placed before j.
InOrder(d, i, j) ==
  /\ Mode(d.sub[i].kind) = Mode(d.sub[j].kind)
  /\ "display" \notin {d.sub[i].kind, d.sub[j].kind}
  => i < j

\* admit_submission and apply_boundary: submissions of one mode enter the
\* transcript in the order of their admission, through queues, idle flushes and
\* one-at-a-time boundaries.  A display-only write may overtake.
PlacementOrder ==
  \A a, b \in 1..Len(db.log) : a < b => InOrder(db, db.log[a], db.log[b])

\* append_write_entry, is_stale and place_summary: the context's head never moves
\* back, whatever resets and compaction summaries waited in the inbox together.
HeadNeverRetreats == [][db'.head >= db.head]_vars

\* Registry::wait and observe: a registered waiter of a settled submission still
\* has its publication to come.
NoMissedSettlement ==
  \A i \in waiting : Settled(db.sub[i]) => i \in unseen

\* dispatch, abort_run and the scheduler: every admitted submission settles,
\* unless its run's task faulted, or it is left in the inbox of a conversation
\* that a failed or aborted run made idle.
SubmissionsSettle ==
  \A i \in Ids :
    db.sub[i].st \in {"queued", "placed"}
      ~> \/ Settled(db.sub[i])
         \/ Faulted(db.run.task)
         \/ db.sub[i].st = "queued" /\ db.run = NoRun

(* What the proofs need beside it. *)

GenRecord ==
  [st : {"none", "pending", "running", "waiting", "terminal"},
   phase : {"prepare", "request", "retry", "tools"}, mark : BOOLEAN,
   attempt : Nat, kids : {"none", "live", "done", "failed"},
   cp : {"no", "threshold", "overflow"},
   out : {"none", "faulted", "aborted", "failed", "completed"}]

\* The stored state, whatever its submissions are.
Shape(d) ==
  /\ d = [sub |-> d.sub, inbox |-> d.inbox, head |-> d.head, log |-> d.log,
          run |-> d.run, gen |-> d.gen]
  /\ d.run = [task |-> d.run.task, inputs |-> d.run.inputs]

\* Generation tasks: they are created in order, one is live at a time, and no
\* run is the run of task 0.
TasksOk(d) ==
  /\ Shape(d) /\ d.gen \in [Gens -> GenRecord]
  /\ d.run.task \in Gens \cup {0}
  /\ d.run.task = 0 => d.run = NoRun
  /\ \A t, u \in Gens : u < t /\ d.gen[t].st # "none" => d.gen[u].st # "none"
  /\ \A t \in Gens : d.gen[t].out = "faulted" => d.gen[t].st = "terminal"
  /\ \A t \in Gens : LiveGen(d.gen[t]) => d.run.task = t
  /\ d.run # NoRun => LiveGen(d.gen[d.run.task]) \/ d.gen[d.run.task].out = "faulted"
TasksInv == TasksOk(db)

SubRecord ==
  [st : {"none", "queued", "placed", "done", "unanswered"},
   reason : {"none", "aborted", "stale", "model_error", "reset"},
   kind : Inputs \cup Writes, pin : Nat]

Rising(s)   == \A a, b \in 1..Len(s) : a < b => s[a] < s[b]
Distinct(s) == \A a, b \in 1..Len(s) : s[a] = s[b] => a = b

\* The books on submissions, when `inputs` are the placed ones that a run is to
\* answer: ids are given in order, the inbox holds the queued ones in that order,
\* and what it holds may follow what the transcript has.
Recorded(r) ==
  /\ r.st = "placed" => r.kind \in Inputs
  /\ r.st = "unanswered" <=> r.reason # "none"
Books(d, inputs) ==
  /\ d.sub \in [Ids -> SubRecord] /\ \A i \in Ids : Recorded(d.sub[i])
  /\ \A i, j \in Ids : i < j /\ d.sub[j].st # "none" => d.sub[i].st # "none"
  /\ d.inbox \in Seq(Ids) /\ Rising(d.inbox)
  /\ \A i \in Ids : i \in Items(d.inbox) <=> d.sub[i].st = "queued"
  /\ inputs \in Seq(Ids) /\ Distinct(inputs)
  /\ \A i \in Ids : i \in Items(inputs) <=> d.sub[i].st = "placed"
  /\ d.log \in Seq(Ids) /\ d.head \in 0..Len(d.log)
  /\ \A i \in Ids : d.sub[i].pin <= Len(d.log)
  /\ \A k \in 1..Len(d.log) : d.sub[d.log[k]].st # "none"
  /\ \A a, b \in 1..Len(d.log) : a < b => InOrder(d, d.log[a], d.log[b])
  /\ \A k \in 1..Len(d.log), i \in Items(d.inbox) : InOrder(d, d.log[k], i)
BooksInv == Books(db, db.run.inputs)

WaitersInv == NoMissedSettlement /\ waiting \subseteq Waited

\* hand_over: "no observer sees the run name a terminal task".
RunNamesLiveTask == db.run # NoRun => LiveGen(db.gen[db.run.task])
=============================================================================
