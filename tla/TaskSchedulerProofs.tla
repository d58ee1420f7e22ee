------------------------- MODULE TaskSchedulerProofs -------------------------
(***************************************************************************)
(* Theorems about TaskScheduler, for every number of tasks, of restarts and *)
(* of checkpoints and for every registry, as long as the task table fits    *)
(* the page that reconcile and the execution threads scan.                  *)
(***************************************************************************)
EXTENDS TaskScheduler, FiniteSetTheorems, TLAPS

USE DEF vars, sched

(* The owner chain: the owner is in it, so are their owners, and nothing    *)
(* else is.                                                                 *)
LEMMA OwnersLeast ==
  ASSUME NEW T, NEW t, NEW S \in SUBSET Tasks, OwnerClosed(T, S), T[t].owner \in S \cup {0}
  PROVE  Owners(T, t) \subseteq S
BY DEF Owners

LEMMA OwnersClosed ==
  ASSUME NEW T \in [Tasks -> TaskRecord], NEW t \in Tasks
  PROVE  /\ OwnerClosed(T, Owners(T, t)) /\ T[t].owner \in Owners(T, t) \cup {0}
         /\ Owners(T, t) \in SUBSET Tasks
<1>1. \A a \in Tasks : T[a].owner \in Tasks \cup {0}
  BY TaskBoundAssumption DEF TaskRecord, Tasks
<1>2. Owners(T, t) \subseteq Tasks
  BY DEF Owners
<1>3. ASSUME NEW a \in Owners(T, t), T[a].owner # 0 PROVE T[a].owner \in Owners(T, t)
  <2>1. T[a].owner \in Tasks
    BY <1>1, <1>2, <1>3
  <2>2. ASSUME NEW S \in SUBSET Tasks, OwnerClosed(T, S), T[t].owner \in S \cup {0}
        PROVE  T[a].owner \in S
    BY <1>3, <2>2 DEF Owners, OwnerClosed
  <2>. QED BY <2>1, <2>2 DEF Owners
<1>4. T[t].owner \in Owners(T, t) \cup {0}
  BY <1>1 DEF Owners
<1>. QED BY <1>2, <1>3, <1>4 DEF OwnerClosed

LEMMA OwnersSame ==
  ASSUME NEW T, NEW U, \A a \in Tasks : T[a].owner = U[a].owner, NEW t \in Tasks
  PROVE  Owners(T, t) = Owners(U, t)
<1>1. ASSUME NEW S \in SUBSET Tasks PROVE OwnerClosed(T, S) <=> OwnerClosed(U, S)
  BY DEF OwnerClosed
<1>. QED BY <1>1 DEF Owners

(* A task that is created below o: its owners are o and the owners of o,    *)
(* and no other task gets an owner.                                         *)
LEMMA OwnersSpawned ==
  ASSUME NEW T \in [Tasks -> TaskRecord], NEW U \in [Tasks -> TaskRecord], NEW id \in Tasks,
         \A a \in Tasks : a # id => U[a].owner = T[a].owner,
         \A a \in Tasks : T[a].owner # id, U[id].owner # id
  PROVE  /\ \A t \in Tasks \ {id} : Owners(U, t) \subseteq Owners(T, t)
         /\ U[id].owner = 0 => Owners(U, id) = {}
         /\ U[id].owner # 0 => Owners(U, id) \subseteq {U[id].owner} \cup Owners(T, U[id].owner)
<1>0. \A a \in Tasks : U[a].owner \in Tasks \cup {0}
  BY TaskBoundAssumption DEF TaskRecord, Tasks
<1>1. ASSUME NEW t \in Tasks PROVE id \notin Owners(T, t)
  <2>1. OwnerClosed(T, Tasks \ {id}) /\ T[t].owner \in (Tasks \ {id}) \cup {0}
    <3>1. \A a \in Tasks : T[a].owner \in Tasks \cup {0}
      BY TaskBoundAssumption DEF TaskRecord, Tasks
    <3>. QED BY <3>1 DEF OwnerClosed
  <2>2. Owners(T, t) \subseteq Tasks \ {id}
    BY <2>1, OwnersLeast
  <2>. QED BY <2>2
<1>2. ASSUME NEW t \in Tasks \ {id} PROVE Owners(U, t) \subseteq Owners(T, t)
  <2>1. /\ OwnerClosed(T, Owners(T, t)) /\ T[t].owner \in Owners(T, t) \cup {0}
        /\ Owners(T, t) \in SUBSET Tasks
    BY OwnersClosed
  <2>2. OwnerClosed(U, Owners(T, t))
    BY <1>1, <2>1 DEF OwnerClosed
  <2>. QED BY <2>1, <2>2, OwnersLeast
<1>3. ASSUME U[id].owner = 0 PROVE Owners(U, id) = {}
  <2>1. OwnerClosed(U, {}) /\ U[id].owner \in {} \cup {0} /\ {} \in SUBSET Tasks
    BY <1>3 DEF OwnerClosed
  <2>2. Owners(U, id) \subseteq {}
    BY <2>1, OwnersLeast
  <2>. QED BY <2>2
<1>4. ASSUME NEW o \in Tasks, o = U[id].owner PROVE Owners(U, id) \subseteq {o} \cup Owners(T, o)
  <2>1. /\ OwnerClosed(T, Owners(T, o)) /\ T[o].owner \in Owners(T, o) \cup {0}
        /\ Owners(T, o) \in SUBSET Tasks
    BY OwnersClosed
  <2>2. OwnerClosed(U, {o} \cup Owners(T, o))
    BY <1>1, <1>4, <2>1 DEF OwnerClosed
  <2>3. {o} \cup Owners(T, o) \in SUBSET Tasks /\ U[id].owner \in ({o} \cup Owners(T, o)) \cup {0}
    BY <1>4, <2>1
  <2>. QED BY <2>2, <2>3, OwnersLeast
<1>. QED BY <1>0, <1>2, <1>3, <1>4

(* The next id is that of no task, and ids stay contiguous.                 *)
LEMMA Minted ==
  ASSUME MintInv, NewId \in Tasks
  PROVE  ~Exists(NewId) /\ \E n \in 0..TaskBound : Created \cup {NewId} = 1..n
                        /\ \A t \in Created : t < NewId
<1>1. PICK n \in 0..TaskBound : Created = 1..n
  BY DEF MintInv
<1>2. n \in Nat /\ TaskBound \in Nat
  BY TaskBoundAssumption
<1>3. Cardinality(1..n) = n
  BY <1>2, FS_Interval
<1>4. NewId = n + 1
  BY <1>1, <1>3 DEF NewId, Created
<1>5. ~Exists(n + 1)
  BY <1>1, <1>2, <1>4 DEF Created
<1>6. Created \cup {n + 1} = 1..(n + 1) /\ n + 1 \in 0..TaskBound
  BY <1>1, <1>2, <1>4 DEF Tasks
<1>. QED BY <1>1, <1>2, <1>4, <1>5, <1>6

(* Idle threads and resting workers. *)
LEMMA RestType ==
  /\ NoExec \in ExecRecord /\ NoExec.pc = "none"
  /\ AtRest \in WorkerRecord /\ AtRest.pc = "wait" /\ AtRest.run = FALSE
  /\ \A t \in Tasks : AtRest.plan[t] = "none" /\ AtRest.marks[t] = "none"
  /\ NoMarks \in [Tasks -> Marks] /\ \A t \in Tasks : NoMarks[t] = "none"
BY DEF NoExec, ExecRecord, AtRest, WorkerRecord, NoMarks, Marks

(* What a commit with its listener leaves of the records and threads. *)
LEMMA CommitFx ==
  ASSUME TypeOK, NEW new \in [Tasks -> TaskRecord], NEW ex \in [Tasks -> ExecRecord], Commit(new, ex)
  PROVE  /\ task' = new /\ task' \in [Tasks -> TaskRecord]
         /\ exec' \in [Tasks -> ExecRecord] /\ \A t \in Tasks : exec'[t].pc = ex[t].pc
         /\ dirty' \in BOOLEAN /\ sawIdle' \in BOOLEAN
<1>1. task' = new /\ task' \in [Tasks -> TaskRecord]
  BY DEF Commit
<1>2. exec' \in [Tasks -> ExecRecord] /\ \A t \in Tasks : exec'[t].pc = ex[t].pc
  BY DEF Commit, ExecRecord
<1>3. dirty' \in BOOLEAN /\ sawIdle' \in BOOLEAN
  BY DEF Commit, TypeOK
<1>. QED BY <1>1, <1>2, <1>3

LEMMA QuietFx ==
  ASSUME TypeOK, NEW ex \in [Tasks -> ExecRecord], Quiet(ex)
  PROVE  /\ task' = task /\ exec' \in [Tasks -> ExecRecord]
         /\ \A t \in Tasks : exec'[t].pc = ex[t].pc
         /\ dirty' \in BOOLEAN /\ sawIdle' \in BOOLEAN
<1>1. task \in [Tasks -> TaskRecord]
  BY DEF TypeOK
<1>. QED BY <1>1, CommitFx DEF Quiet

(* A thread ends or moves on, the others stay. *)
LEMMA ExecMoves ==
  ASSUME TypeOK, NEW t \in Tasks
  PROVE  /\ Cleanup(t) \in [Tasks -> ExecRecord] /\ Cleanup(t)[t].pc = "none"
         /\ \A u \in Tasks : u # t => Cleanup(t)[u] = exec[u]
         /\ \A pc \in {"begin", "phase", "returned", "orphan", "done", "fault", "handover", "abort", "aborted"} :
              /\ MovesTo(t, pc) \in [Tasks -> ExecRecord] /\ MovesTo(t, pc)[t].pc = pc
              /\ \A u \in Tasks : u # t => MovesTo(t, pc)[u] = exec[u]
              /\ [exec EXCEPT ![t].pc = pc] \in [Tasks -> ExecRecord]
              /\ [exec EXCEPT ![t].pc = pc][t].pc = pc
              /\ \A u \in Tasks : u # t => [exec EXCEPT ![t].pc = pc][u] = exec[u]
<1>1. exec \in [Tasks -> ExecRecord]
  BY DEF TypeOK
<1>2. /\ Cleanup(t) \in [Tasks -> ExecRecord] /\ Cleanup(t)[t].pc = "none"
      /\ \A u \in Tasks : u # t => Cleanup(t)[u] = exec[u]
  BY <1>1, RestType DEF Cleanup
<1>3. ASSUME NEW pc \in {"begin", "phase", "returned", "orphan", "done", "fault", "handover", "abort", "aborted"}
      PROVE  /\ MovesTo(t, pc) \in [Tasks -> ExecRecord] /\ MovesTo(t, pc)[t].pc = pc
             /\ \A u \in Tasks : u # t => MovesTo(t, pc)[u] = exec[u]
             /\ [exec EXCEPT ![t].pc = pc] \in [Tasks -> ExecRecord]
             /\ [exec EXCEPT ![t].pc = pc][t].pc = pc
             /\ \A u \in Tasks : u # t => [exec EXCEPT ![t].pc = pc][u] = exec[u]
  BY <1>1, ZenonT(60) DEF MovesTo, ExecRecord
<1>. QED BY <1>2, <1>3

LEMMA CleanupFx ==
  ASSUME TypeOK, NEW t \in Tasks
  PROVE  /\ Cleanup(t) \in [Tasks -> ExecRecord] /\ Cleanup(t)[t].pc = "none"
         /\ \A u \in Tasks : u # t => Cleanup(t)[u] = exec[u]
BY ExecMoves

LEMMA StepsFx ==
  ASSUME TypeOK, NEW t \in Tasks, NEW ex,
         NEW pc \in {"begin", "orphan", "done", "fault", "handover"}, ex = MovesTo(t, pc)
  PROVE  /\ ex \in [Tasks -> ExecRecord] /\ ex[t].pc = pc
         /\ \A u \in Tasks : u # t => ex[u] = exec[u]
<1>1. exec \in [Tasks -> ExecRecord]
  BY DEF TypeOK
<1>. QED BY <1>1, ZenonT(60) DEF MovesTo, ExecRecord

LEMMA DefNat ==
  ASSUME TypeOK, NEW t \in Tasks
  PROVE  def[t] \in Nat
<1>1. def[t] \in Definitions \cup {0}
  BY DEF TypeOK
<1>2. Definitions \subseteq Nat
  BY SchedulerAssumption
<1>3. 0 \in Nat
  OBVIOUS
<1>. QED BY <1>1, <1>2, <1>3, Zenon

LEMMA MovesFx ==
  ASSUME TypeOK, NEW t \in Tasks, NEW ex,
         NEW pc \in {"begin", "phase", "returned", "orphan", "done", "fault", "handover", "abort", "aborted"},
         ex = [exec EXCEPT ![t].pc = pc]
  PROVE  /\ ex \in [Tasks -> ExecRecord] /\ ex[t].pc = pc
         /\ \A u \in Tasks : u # t => ex[u] = exec[u]
<1>1. exec \in [Tasks -> ExecRecord]
  BY DEF TypeOK
<1>. QED BY <1>1 DEF MovesTo, ExecRecord

(* A record that is replaced by a record leaves the others. *)
LEMMA TaskPut ==
  ASSUME TypeOK, NEW t \in Tasks, NEW r \in TaskRecord
  PROVE  /\ [task EXCEPT ![t] = r] \in [Tasks -> TaskRecord] /\ [task EXCEPT ![t] = r][t] = r
         /\ \A u \in Tasks : u # t => [task EXCEPT ![t] = r][u] = task[u]
BY DEF TypeOK

(* A step of a record: an ended task stays as it is, a mark is never taken  *)
(* back, nothing comes back to life and nothing changes its owner.          *)
Moves(r, s) ==
  /\ s \in TaskRecord /\ ShapedRecord(s)
  /\ s.owner = r.owner /\ (s.st = "none" <=> r.st = "none")
  /\ Live(s) => Live(r)
  /\ r.st = "terminal" => s = r
  /\ r.abort # "none" => s.abort # "none"
  /\ r.abort = "request" => s.abort = "request"

(* How a task ends while every record fits a page: orphaned, faulted, or    *)
(* above no live work.                                                      *)
Ends(t) ==
  WorldFits /\ ReadyInv /\ task[t].st # "terminal" /\ task'[t].st = "terminal" =>
    \/ task'[t].out = "orphaned" \/ Drained(t)
    \/ task'[t].out = "faulted" /\ exec[t].pc = "fault"

Keeps(t) == Moves(task[t], task'[t]) /\ Ends(t)

(* Or a task is created, below none or below one whose phase runs. *)
Spawned(id, o) ==
  /\ ~Exists(id) /\ id = NewId
  /\ \A u \in Tasks : u # id => task'[u] = task[u]
  /\ task'[id] \in TaskRecord /\ task'[id].st = "pending" /\ task'[id].owner = o
  /\ task'[id].abort = "none" /\ task'[id].out = "none"
  /\ o # 0 => o \in Tasks /\ exec[o].pc = "phase" /\ TakesWork(task[o])

TasksMove == (\A t \in Tasks : Keeps(t)) \/ (\E id \in Tasks, o \in 0..TaskBound : Spawned(id, o))

LEMMA KeepsSame ==
  ASSUME TypeOK, Shaped, task' = task
  PROVE  \A t \in Tasks : Keeps(t)
BY DEF TypeOK, Shaped, Keeps, Moves, Ends

LEMMA KeepsPut ==
  ASSUME TypeOK, Shaped, NEW t \in Tasks, NEW r \in TaskRecord, task' = [task EXCEPT ![t] = r],
         Moves(task[t], r),
         WorldFits /\ ReadyInv /\ task[t].st # "terminal" /\ r.st = "terminal" =>
           r.out = "orphaned" \/ Drained(t) \/ (r.out = "faulted" /\ exec[t].pc = "fault")
  PROVE  \A u \in Tasks : Keeps(u)
<1>1. /\ task'[t] = r /\ \A u \in Tasks : u # t => task'[u] = task[u]
      /\ \A u \in Tasks : task[u] \in TaskRecord
  BY DEF TypeOK
<1>2. ASSUME NEW u \in Tasks PROVE Keeps(u)
  <2>1. CASE u = t
    BY <1>1, <2>1 DEF Keeps, Ends
  <2>2. CASE u # t
    BY <1>1, <2>2 DEF Keeps, Ends, Moves, Shaped
  <2>. QED BY <2>1, <2>2
<1>. QED BY <1>2

(* The records that steps write. *)
LEMMA MarkMoves ==
  ASSUME NEW r \in TaskRecord, ShapedRecord(r), Live(r), NEW m \in Marks,
         r.abort # "none" => m # "none", r.abort = "request" => m = "request"
  PROVE  Moves(r, [r EXCEPT !.abort = m]) /\ [r EXCEPT !.abort = m].st = r.st
BY DEF TaskRecord, ShapedRecord, Live, Moves

LEMMA StatusMoves ==
  ASSUME NEW r \in TaskRecord, ShapedRecord(r), Live(r), NEW s \in {"pending", "running"}
  PROVE  /\ Moves(r, [r EXCEPT !.st = s]) /\ [r EXCEPT !.st = s].st = s
         /\ Moves(r, [r EXCEPT !.st = s, !.on = {}, !.pol = "none"])
         /\ [r EXCEPT !.st = s, !.on = {}, !.pol = "none"].st = s
BY DEF TaskRecord, Statuses, ShapedRecord, Live, Moves

LEMMA SettledMoves ==
  ASSUME NEW r \in TaskRecord, ShapedRecord(r), r.st # "none", NEW o \in {"orphaned", "faulted"}
  PROVE  /\ Moves(r, Settled(r, o)) /\ Settled(r, o).st = "terminal"
         /\ r.st # "terminal" => Settled(r, o).out = o
<1>1. CASE r.st = "terminal"
  BY <1>1 DEF TaskRecord, Statuses, Outcomes, ShapedRecord, Live, Moves, Settled
<1>2. CASE r.st # "terminal"
  <2>. DEFINE s == [r EXCEPT !.st = "terminal", !.out = o]
  <2>1. s \in TaskRecord
    BY DEF TaskRecord, Statuses, Outcomes
  <2>2. /\ s.st = "terminal" /\ s.out = o /\ s.owner = r.owner
        /\ s.abort = r.abort /\ s.pol = r.pol
    BY DEF TaskRecord
  <2>3. Settled(r, o) = s
    BY <1>2 DEF Settled
  <2>. HIDE DEF s
  <2>. QED
    BY <1>2, <2>1, <2>2, <2>3 DEF ShapedRecord, Live, Moves
<1>. QED
  BY <1>1, <1>2

LEMMA MarkedMark ==
  ASSUME NEW m \in Marks, NEW n \in Marks
  PROVE  /\ Marked(m, n) \in Marks /\ (m # "none" \/ n # "none" => Marked(m, n) # "none")
         /\ m = "request" => Marked(m, n) = "request"
         /\ Marked(m, n) = m \/ Marked(m, n) = n
BY DEF Marks, Marked

(* A page that holds every record shows all the live work. *)
LEMMA WorldDrained ==
  ASSUME WorldFits, NEW t
  PROVE  OwnedLive(task, World, t) = {} <=> Drained(t)
<1>1. \A c \in Tasks : Live(task[c]) => c \in World
  BY TaskBoundAssumption, SchedulerAssumption DEF World, Page, Live, Tasks, WorldFits
<1>2. World \subseteq Tasks
  BY DEF World, Page
<1>. QED BY <1>1, <1>2 DEF Drained, OwnedLive

LEMMA WaitMoves ==
  ASSUME NEW r \in TaskRecord, ShapedRecord(r), r.st = "running", NEW on \in SUBSET Tasks,
         NEW policy \in {"allSettled", "failFast"}, NEW s,
         s = [r EXCEPT !.st = "waiting", !.on = on, !.pol = policy]
  PROVE  Moves(r, s) /\ s.st = "waiting"
BY DEF TaskRecord, Statuses, Moves, ShapedRecord, Live

LEMMA EndedMoves ==
  ASSUME TypeOK, Shaped, NEW t \in Tasks, task[t].st = "running",
         NEW o \in {"completed", "failed", "aborted"}
  PROVE  Moves(task[t], Ended(t, o)) /\ (WorldFits /\ Ended(t, o).st = "terminal" => Drained(t))
<1>. DEFINE s == IF OwnedLive(task, World, t) = {} THEN "terminal" ELSE "completing"
<1>1. s \in {"terminal", "completing"} /\ (WorldFits /\ s = "terminal" => Drained(t))
  BY WorldDrained
<1>2. Ended(t, o) = [task[t] EXCEPT !.st = s, !.out = o, !.on = {}, !.pol = "none"]
  BY DEF Ended
<1>3. task[t] \in TaskRecord
  BY DEF TypeOK
<1>. HIDE DEF s
<1>4. Ended(t, o).st = s
  BY <1>2, <1>3 DEF TaskRecord
<1>5. Moves(task[t], Ended(t, o))
  BY <1>1, <1>2, <1>3 DEF Moves, TaskRecord, ShapedRecord, Live, Statuses, Outcomes
<1>. QED BY <1>1, <1>4, <1>5

(* A commit that writes one record. *)
LEMMA CommitKeeps ==
  ASSUME TypeOK, Shaped, NEW t \in Tasks, NEW r, NEW ex \in [Tasks -> ExecRecord],
         Commit([task EXCEPT ![t] = r], ex), Moves(task[t], r),
         WorldFits /\ ReadyInv /\ task[t].st # "terminal" /\ r.st = "terminal" =>
           r.out = "orphaned" \/ Drained(t) \/ (r.out = "faulted" /\ exec[t].pc = "fault")
  PROVE  \A u \in Tasks : Keeps(u)
<1>1. r \in TaskRecord
  BY DEF Moves
<1>2. task' = [task EXCEPT ![t] = r]
  BY <1>1, TaskPut, CommitFx
<1>. QED BY <1>1, <1>2, KeepsPut

LEMMA RequestedFx ==
  ASSUME TypeOK, Shaped, NEW S, Commit(Requested(task, S), exec)
  PROVE  \A u \in Tasks : Keeps(u)
<1>. DEFINE new == Requested(task, S)
<1>1. ASSUME NEW u \in Tasks
      PROVE  new[u] \in TaskRecord /\ Moves(task[u], new[u]) /\ new[u].st = task[u].st
  <2>1. task[u] \in TaskRecord /\ ShapedRecord(task[u])
    BY DEF TypeOK, Shaped
  <2>2. CASE u \in S /\ Live(task[u])
    <3>1. new[u] = [task[u] EXCEPT !.abort = "request"]
      BY <2>2 DEF Requested
    <3>. HIDE DEF new
    <3>2. Moves(task[u], new[u]) /\ new[u].st = task[u].st
      BY <2>1, <2>2, <3>1, MarkMoves DEF Marks
    <3>. QED BY <3>2 DEF Moves
  <2>3. CASE ~(u \in S /\ Live(task[u]))
    BY <2>1, <2>3 DEF Requested, Moves
  <2>. QED BY <2>2, <2>3
<1>2. new \in [Tasks -> TaskRecord]
  BY <1>1 DEF Requested
<1>. HIDE DEF new
<1>3. task' = new
  BY <1>2, CommitFx DEF new, TypeOK
<1>. QED BY <1>1, <1>3 DEF Keeps, Ends

LEMMA SpawnFx ==
  ASSUME TypeOK, Shaped, MintInv, NEW o \in 0..TaskBound, NEW bg \in BOOLEAN, NEW flag \in BOOLEAN,
         NewId \in Tasks, Commit(NewTask(NewId, o, bg, flag), exec),
         o # 0 => o \in Tasks /\ exec[o].pc = "phase" /\ TakesWork(task[o])
  PROVE  TasksMove
<1>1. PICK id \in Tasks : id = NewId
  OBVIOUS
<1>2. PICK r : r = [NoTask EXCEPT !.st = "pending", !.owner = o, !.bg = bg, !.flag = flag]
  OBVIOUS
<1>3. /\ r \in TaskRecord /\ r.st = "pending" /\ r.owner = o /\ r.abort = "none" /\ r.out = "none"
  BY <1>2 DEF NoTask, TaskRecord, Statuses, Outcomes, Marks
<1>4. NewTask(NewId, o, bg, flag) = [task EXCEPT ![id] = r]
  BY <1>1, <1>2 DEF NewTask
<1>5. task' = [task EXCEPT ![id] = r] /\ task'[id] = r /\ \A u \in Tasks : u # id => task'[u] = task[u]
  <2>1. Commit([task EXCEPT ![id] = r], exec) /\ exec \in [Tasks -> ExecRecord]
    BY <1>4 DEF TypeOK
  <2>2. task' = [task EXCEPT ![id] = r]
    BY <1>3, <2>1, TaskPut, CommitFx
  <2>. QED BY <1>3, <2>2, TaskPut
<1>6. ~Exists(id)
  BY <1>1, Minted
<1>7. Spawned(id, o)
  BY <1>1, <1>3, <1>5, <1>6 DEF Spawned
<1>. QED BY <1>7 DEF TasksMove

(* Every step moves the records so. *)
LEMMA MoveStep ==
  ASSUME TypeOK, Shaped, MintInv, [Next]_vars
  PROVE  TasksMove
<1>a. \A u \in Tasks : task[u] \in TaskRecord /\ ShapedRecord(task[u])
  BY DEF TypeOK, Shaped
<1>b. exec \in [Tasks -> ExecRecord]
  BY DEF TypeOK
<1>. USE <1>a, <1>b DEF TasksMove
<1>1. CASE WorkerWake
  BY <1>1, KeepsSame DEF WorkerWake
<1>2. CASE WorkerAbandon
  <2>1. ASSUME NEW u \in Tasks PROVE Keeps(u)
    <3>1. CASE u \in abandoned /\ Live(task[u]) /\ task[u].abort = "none"
      <4>1. task'[u] = [task[u] EXCEPT !.abort = "restart"]
        BY <1>2, <3>1 DEF WorkerAbandon
      <4>. QED BY <3>1, <4>1, MarkMoves DEF Keeps, Ends, Marks, Live
    <3>2. CASE ~(u \in abandoned /\ Live(task[u]) /\ task[u].abort = "none")
      <4>1. task'[u] = task[u]
        BY <1>2, <3>2 DEF WorkerAbandon
      <4>. QED BY <4>1 DEF Keeps, Ends, Moves
    <3>. QED BY <3>1, <3>2
  <2>. QED BY <2>1
<1>3. CASE WorkerScan
  BY <1>3, KeepsSame DEF WorkerScan
<1>4. CASE WorkerMarks
  <2>0. worker.marks \in [Tasks -> Marks] /\ exec \in [Tasks -> ExecRecord]
    BY DEF TypeOK, WorkerRecord
  <2>. DEFINE new == MarkCommit(task, worker.marks)
  <2>1. ASSUME NEW u \in Tasks
        PROVE  new[u] \in TaskRecord /\ Moves(task[u], new[u]) /\ new[u].st = task[u].st
    <3>1. CASE Live(task[u])
      <4>1. new[u] = [task[u] EXCEPT !.abort = Marked(task[u].abort, worker.marks[u])]
        BY <3>1 DEF MarkCommit
      <4>2. /\ Marked(task[u].abort, worker.marks[u]) \in Marks
            /\ task[u].abort # "none" => Marked(task[u].abort, worker.marks[u]) # "none"
            /\ task[u].abort = "request" => Marked(task[u].abort, worker.marks[u]) = "request"
        BY <2>0, MarkedMark DEF TaskRecord
      <4>. HIDE DEF new
      <4>3. Moves(task[u], new[u]) /\ new[u].st = task[u].st
        BY <3>1, <4>1, <4>2, MarkMoves
      <4>. QED BY <4>3 DEF Moves
    <3>2. CASE ~Live(task[u])
      BY <3>2 DEF MarkCommit, Moves
    <3>. QED BY <3>1, <3>2
  <2>2. new \in [Tasks -> TaskRecord]
    BY <2>1 DEF MarkCommit
  <2>. HIDE DEF new
  <2>3. task' = new
    BY <1>4, <2>0, <2>2, CommitFx DEF WorkerMarks, new
  <2>. QED BY <2>1, <2>3 DEF Keeps, Ends
<1>5. CASE WorkerFinalizeScan
  BY <1>5, KeepsSame DEF WorkerFinalizeScan
<1>6. CASE WorkerFinalize
  <2>0. exec \in [Tasks -> ExecRecord]
    BY DEF TypeOK
  <2>. DEFINE new == [u \in Tasks |-> IF u \in worker.ready /\ task[u].st = "completing"
                                     THEN [task[u] EXCEPT !.st = "terminal"] ELSE task[u]]
  <2>1. ASSUME NEW u \in Tasks
        PROVE  /\ new[u] \in TaskRecord /\ Moves(task[u], new[u])
               /\ ReadyInv /\ new[u].st # task[u].st => Drained(u)
    <3>1. CASE u \in worker.ready /\ task[u].st = "completing"
      <4>1. new[u] = [task[u] EXCEPT !.st = "terminal"]
        BY <3>1
      <4>. HIDE DEF new
      <4>2. ReadyInv => Drained(u)
        BY <1>6, <3>1 DEF WorkerFinalize, ReadyInv
      <4>. QED BY <3>1, <4>1, <4>2 DEF Moves, ShapedRecord, TaskRecord, Live, Statuses
    <3>2. CASE ~(u \in worker.ready /\ task[u].st = "completing")
      BY <3>2 DEF Moves
    <3>. QED BY <3>1, <3>2
  <2>2. new \in [Tasks -> TaskRecord]
    BY <2>1
  <2>3. Commit(new, exec)
    BY <1>6 DEF WorkerFinalize
  <2>. HIDE DEF new
  <2>4. task' = new
    BY <2>0, <2>2, <2>3, CommitFx
  <2>. QED BY <2>1, <2>4 DEF Keeps, Ends
<1>7. CASE WorkerIdleScan
  BY <1>7, KeepsSame DEF WorkerIdleScan
<1>8. CASE WorkerSettle
  BY <1>8, KeepsSame DEF WorkerSettle
<1>9. CASE WorkerList
  BY <1>9, KeepsSame DEF WorkerList
<1>10. CASE WorkerSnapshot
  BY <1>10, KeepsSame DEF WorkerSnapshot
<1>11. CASE WorkerLoopEnd
  BY <1>11, KeepsSame DEF WorkerLoopEnd
<1>12. CASE Create
  <2>1. PICK bg \in Background, flag \in Flagged : Commit(NewTask(NewId, 0, bg, flag), exec)
    BY <1>12 DEF Create
  <2>2. NewId \in Tasks /\ bg \in BOOLEAN /\ flag \in BOOLEAN /\ 0 \in 0..TaskBound
    BY <1>12, SchedulerAssumption, TaskBoundAssumption DEF Create
  <2>. QED BY <2>1, <2>2, SpawnFx
<1>13. CASE Resume
  BY <1>13, KeepsSame DEF Resume
<1>14. CASE AbortConversation
  <2>1. PICK S : Commit(Requested(task, S), exec)
    BY <1>14 DEF AbortConversation
  <2>. QED BY <2>1, RequestedFx
<1>15. CASE Close
  BY <1>15, KeepsSame DEF Close
<1>16. CASE Restart
  <2>1. ASSUME NEW u \in Tasks PROVE Keeps(u)
    <3>1. CASE task[u].st = "running"
      <4>1. task'[u] = [task[u] EXCEPT !.st = "pending"]
        BY <1>16, <3>1 DEF Restart
      <4>. QED BY <3>1, <4>1, StatusMoves DEF Keeps, Ends, Live
    <3>2. CASE task[u].st # "running"
      BY <1>16, <3>2 DEF Restart, Keeps, Ends, Moves
    <3>. QED BY <3>1, <3>2
  <2>. QED BY <2>1
<1>17. CASE WaitIdleCheck
  BY <1>17, KeepsSame DEF WaitIdleCheck
<1>18. CASE WaitIdleRegister
  BY <1>18, KeepsSame DEF WaitIdleRegister
<1>19. CASE WaitIdleDone
  BY <1>19, KeepsSame DEF WaitIdleDone
<1>20. ASSUME NEW t \in Tasks, WorkerSkip(t) PROVE TasksMove
  BY <1>20, KeepsSame DEF WorkerSkip
<1>21. ASSUME NEW t \in Tasks, WorkerResume(t) PROVE TasksMove
  <2>1. Commit([task EXCEPT ![t] = IF task[t].st = "waiting"
                                    THEN [task[t] EXCEPT !.st = "pending", !.on = {}, !.pol = "none"]
                                    ELSE task[t]], exec)
    BY <1>21 DEF WorkerResume, TypeOK
  <2>2. CASE task[t].st = "waiting"
    BY <2>1, <2>2, StatusMoves, CommitKeeps DEF Live
  <2>3. CASE task[t].st # "waiting"
    BY <2>1, <2>3, CommitKeeps DEF Moves
  <2>. QED BY <2>2, <2>3
<1>22. ASSUME NEW t \in Tasks, WorkerOrphan(t) PROVE TasksMove
  <2>1. Commit([task EXCEPT ![t] = Settled(task[t], "orphaned")], exec)
    BY <1>22 DEF WorkerOrphan, TypeOK
  <2>2. task[t].st # "none"
    BY <1>22 DEF WorkerOrphan, Shaped, Exists
  <2>. QED BY <2>1, <2>2, SettledMoves, CommitKeeps
<1>23. ASSUME NEW t \in Tasks, WorkerReserve(t) PROVE TasksMove
  <2>1. CASE Reservable(task[t]) /\ Commit([task EXCEPT ![t].st = "running"], exec)
    <3>1. Live(task[t])
      BY <1>23, <2>1 DEF WorkerReserve, Shaped, Exists, Reservable, Live
    <3>2. [task EXCEPT ![t].st = "running"] = [task EXCEPT ![t] = [task[t] EXCEPT !.st = "running"]]
      OBVIOUS
    <3>. QED BY <2>1, <3>1, <3>2, StatusMoves, CommitKeeps
  <2>2. CASE Quiet(exec)
    BY <2>2, QuietFx, KeepsSame DEF TypeOK
  <2>. QED BY <1>23, <2>1, <2>2 DEF WorkerReserve
<1>24. ASSUME NEW t \in Tasks, WorkerPublish(t) PROVE TasksMove
  BY <1>24, KeepsSame DEF WorkerPublish
<1>25. ASSUME NEW t \in Tasks, ExecBegin(t) PROVE TasksMove
  BY <1>25, KeepsSame DEF ExecBegin, Quiet, Commit
<1>26. ASSUME NEW t \in Tasks, ExecReturned(t) PROVE TasksMove
  BY <1>26, KeepsSame DEF ExecReturned, Quiet, Commit
<1>27. ASSUME NEW t \in Tasks, ExecSettle(t) PROVE TasksMove
  <2>. DEFINE out == IF exec[t].pc = "orphan" THEN "orphaned" ELSE "faulted"
  <2>1. Commit([task EXCEPT ![t] = Settled(task[t], out)], MovesTo(t, "done"))
    BY <1>27 DEF ExecSettle, TypeOK
  <2>2. task[t].st # "none" /\ exec[t].pc \in {"orphan", "fault"}
    BY <1>27 DEF ExecSettle, Shaped, Exists, Active
  <2>3. out \in {"orphaned", "faulted"} /\ (out = "faulted" => exec[t].pc = "fault")
    BY <2>2
  <2>. HIDE DEF out
  <2>. QED BY <2>1, <2>2, <2>3, SettledMoves, CommitKeeps, ExecMoves, ZenonT(60)
<1>28. ASSUME NEW t \in Tasks, ExecHandover(t) PROVE TasksMove
  <2>. DEFINE r == [task[t] EXCEPT !.st = IF task[t].st = "running" THEN "pending" ELSE task[t].st]
  <2>1. Commit([task EXCEPT ![t] = r], MovesTo(t, "done"))
    BY <1>28 DEF ExecHandover, TypeOK
  <2>2. CASE task[t].st = "running"
    <3>1. r = [task[t] EXCEPT !.st = "pending"]
      BY <2>2
    <3>. HIDE DEF r
    <3>. QED BY <2>1, <2>2, <3>1, StatusMoves, CommitKeeps, ExecMoves, ZenonT(60) DEF Live
  <2>3. CASE task[t].st # "running"
    <3>1. r = task[t]
      BY <2>3 DEF TaskRecord
    <3>. HIDE DEF r
    <3>. QED BY <2>1, <3>1, CommitKeeps, ExecMoves, ZenonT(60) DEF Moves
  <2>. QED BY <2>2, <2>3
<1>29. ASSUME NEW t \in Tasks, ExecAborted(t) PROVE TasksMove
  BY <1>29, KeepsSame DEF ExecAborted, Quiet, Commit
<1>30. ASSUME NEW t \in Tasks, ExecDone(t) PROVE TasksMove
  BY <1>30, KeepsSame DEF ExecDone, Quiet, Commit
<1>31. ASSUME NEW t \in Tasks, PhaseCreate(t) PROVE TasksMove
  <2>1. PICK flag \in Flagged : Commit(NewTask(NewId, t, FALSE, flag), exec)
    BY <1>31 DEF PhaseCreate
  <2>2. NewId \in Tasks /\ flag \in BOOLEAN /\ t \in 0..TaskBound /\ t # 0
    BY <1>31, SchedulerAssumption, TaskBoundAssumption DEF PhaseCreate, Tasks
  <2>. QED BY <1>31, <2>1, <2>2, SpawnFx DEF PhaseCreate
<1>32. ASSUME NEW t \in Tasks, PhaseAdvance(t) PROVE TasksMove
  <2>. DEFINE r == [task[t] EXCEPT !.cp = task[t].cp + 1]
  <2>1. Commit([task EXCEPT ![t] = r], exec) /\ Live(task[t])
    BY <1>32 DEF PhaseAdvance, TypeOK, Accepted, Live
  <2>2. Moves(task[t], r) /\ r.st = task[t].st
    BY <2>1 DEF Moves, TaskRecord, ShapedRecord, Live
  <2>. HIDE DEF r
  <2>. QED BY <2>1, <2>2, CommitKeeps DEF Live
<1>33. ASSUME NEW t \in Tasks, PhaseWait(t) PROVE TasksMove
  <2>1. PICK on \in SUBSET Tasks, policy \in {"allSettled", "failFast"} :
          Commit([task EXCEPT ![t] = Waits(t, on, policy)], exec)
    BY <1>33 DEF PhaseWait, WaitSets
  <2>2. task[t].st = "running"
    BY <1>33 DEF PhaseWait, Accepted
  <2>3. Moves(task[t], Waits(t, on, policy)) /\ Waits(t, on, policy).st = "waiting"
    <3>1. PICK r \in TaskRecord : r = task[t]
      OBVIOUS
    <3>2. Waits(t, on, policy) = [r EXCEPT !.st = "waiting", !.on = on, !.pol = policy]
      BY <3>1, Zenon DEF Waits
    <3>3. PICK s : s = [r EXCEPT !.st = "waiting", !.on = on, !.pol = policy]
      OBVIOUS
    <3>4. Moves(r, s) /\ s.st = "waiting"
      BY <2>2, <3>1, <3>3, WaitMoves, ZenonT(60)
    <3>. QED BY <3>1, <3>2, <3>3, <3>4, Zenon
  <2>. QED BY <2>1, <2>3, CommitKeeps
<1>34. ASSUME NEW t \in Tasks, PhaseEnd(t) PROVE TasksMove
  <2>1. PICK outcome \in {"completed", "failed"} : Commit([task EXCEPT ![t] = Ended(t, outcome)], exec)
    BY <1>34 DEF PhaseEnd
  <2>2. task[t].st = "running"
    BY <1>34 DEF PhaseEnd, Accepted
  <2>. QED BY <2>1, <2>2, EndedMoves, CommitKeeps
<1>35. ASSUME NEW t \in Tasks, PhaseReturn(t) PROVE TasksMove
  <2>1. PICK res \in {"ok", "err"} : Quiet([exec EXCEPT ![t].pc = "returned", ![t].res = res])
    BY <1>35 DEF PhaseReturn
  <2>. QED BY <2>1, KeepsSame DEF Quiet, Commit
<1>36. ASSUME NEW t \in Tasks, HandlerEnd(t) PROVE TasksMove
  <2>. DEFINE ex == [exec EXCEPT ![t].pc = "aborted"]
  <2>0. ex \in [Tasks -> ExecRecord]
    BY ExecMoves
  <2>1. CASE Accepted(t, TRUE) /\ \E outcome \in {"aborted", "failed"} :
               Commit([task EXCEPT ![t] = Ended(t, outcome)], ex)
    <3>1. PICK outcome \in {"aborted", "failed"} : Commit([task EXCEPT ![t] = Ended(t, outcome)], ex)
      BY <2>1
    <3>2. task[t].st = "running"
      BY <2>1 DEF Accepted
    <3>. HIDE DEF ex
    <3>. QED BY <2>0, <3>1, <3>2, EndedMoves, CommitKeeps
  <2>2. CASE Quiet(ex)
    BY <2>0, <2>2, QuietFx, KeepsSame
  <2>. QED BY <1>36, <2>1, <2>2 DEF HandlerEnd
<1>37. ASSUME NEW t \in Tasks, AbortTask(t) PROVE TasksMove
  BY <1>37, RequestedFx DEF AbortTask
<1>38. ASSUME NEW t \in Tasks, AbortBlocked(t) PROVE TasksMove
  BY <1>38, KeepsSame DEF AbortBlocked
<1>39. ASSUME NEW t \in Tasks, AbortOrphan(t) PROVE TasksMove
  <2>. DEFINE ex == [exec EXCEPT ![t].stop = (exec[t].pc # "none")]
  <2>1. Commit([task EXCEPT ![t] = Settled(task[t], "orphaned")], ex)
    BY <1>39 DEF AbortOrphan, TypeOK
  <2>2. ex \in [Tasks -> ExecRecord]
    BY ZenonT(60) DEF TypeOK, ExecRecord
  <2>. HIDE DEF ex
  <2>3. task[t].st # "none"
    BY <1>39 DEF AbortOrphan, Shaped, Exists
  <2>. QED BY <2>1, <2>2, <2>3, SettledMoves, CommitKeeps
<1>40. ASSUME NEW t \in Tasks, Install(t) PROVE TasksMove
  BY <1>40, KeepsSame DEF Install
<1>41. CASE UNCHANGED vars
  BY <1>41, KeepsSame
<1>. QED
  BY <1>1, <1>2, <1>3, <1>4, <1>5, <1>6, <1>7, <1>8, <1>9, <1>10, <1>11, <1>12, <1>13,
     <1>14, <1>15, <1>16, <1>17, <1>18, <1>19, <1>20, <1>21, <1>22, <1>23, <1>24, <1>25, <1>26,
     <1>27, <1>28, <1>29, <1>30, <1>31, <1>32, <1>33, <1>34, <1>35, <1>36, <1>37, <1>38, <1>39,
     <1>40, <1>41
     DEF Next, Worker, Exec, Phase, Callers

(* The table keeps its ids. *)
LEMMA TaskFunction ==
  ASSUME TypeOK, [Next]_vars
  PROVE  task' = [u \in Tasks |-> task'[u]]
<1>a. task = [u \in Tasks |-> task[u]]
  BY DEF TypeOK
<1>. USE <1>a
<1>1. CASE WorkerWake
  BY <1>1 DEF WorkerWake
<1>2. CASE WorkerAbandon
  BY <1>2 DEF WorkerAbandon
<1>3. CASE WorkerScan
  BY <1>3 DEF WorkerScan
<1>4. CASE WorkerMarks
  BY <1>4 DEF WorkerMarks, MarkCommit, Commit
<1>5. CASE WorkerFinalizeScan
  BY <1>5 DEF WorkerFinalizeScan
<1>6. CASE WorkerFinalize
  BY <1>6 DEF WorkerFinalize, Commit
<1>7. CASE WorkerIdleScan
  BY <1>7 DEF WorkerIdleScan
<1>8. CASE WorkerSettle
  BY <1>8 DEF WorkerSettle
<1>9. CASE WorkerList
  BY <1>9 DEF WorkerList
<1>10. CASE WorkerSnapshot
  BY <1>10 DEF WorkerSnapshot
<1>11. CASE WorkerLoopEnd
  BY <1>11 DEF WorkerLoopEnd
<1>12. CASE Create
  BY <1>12 DEF Create, NewTask, Commit
<1>13. CASE Resume
  BY <1>13 DEF Resume
<1>14. CASE AbortConversation
  <2>1. PICK S : Commit(Requested(task, S), exec)
    BY <1>14 DEF AbortConversation
  <2>. QED BY <2>1 DEF Requested, Commit
<1>15. CASE Close
  BY <1>15 DEF Close
<1>16. CASE Restart
  BY <1>16 DEF Restart
<1>17. CASE WaitIdleCheck
  BY <1>17 DEF WaitIdleCheck
<1>18. CASE WaitIdleRegister
  BY <1>18 DEF WaitIdleRegister
<1>19. CASE WaitIdleDone
  BY <1>19 DEF WaitIdleDone
<1>20. ASSUME NEW t \in Tasks, WorkerSkip(t) PROVE task' = [u \in Tasks |-> task'[u]]
  BY <1>20 DEF WorkerSkip
<1>21. ASSUME NEW t \in Tasks, WorkerResume(t) PROVE task' = [u \in Tasks |-> task'[u]]
  BY <1>21 DEF WorkerResume, Commit
<1>22. ASSUME NEW t \in Tasks, WorkerOrphan(t) PROVE task' = [u \in Tasks |-> task'[u]]
  BY <1>22 DEF WorkerOrphan, Commit
<1>23. ASSUME NEW t \in Tasks, WorkerReserve(t) PROVE task' = [u \in Tasks |-> task'[u]]
  BY <1>23 DEF WorkerReserve, Quiet, Commit
<1>24. ASSUME NEW t \in Tasks, WorkerPublish(t) PROVE task' = [u \in Tasks |-> task'[u]]
  BY <1>24 DEF WorkerPublish
<1>25. ASSUME NEW t \in Tasks, ExecBegin(t) PROVE task' = [u \in Tasks |-> task'[u]]
  BY <1>25 DEF ExecBegin, Quiet, Commit
<1>26. ASSUME NEW t \in Tasks, ExecReturned(t) PROVE task' = [u \in Tasks |-> task'[u]]
  BY <1>26 DEF ExecReturned, Quiet, Commit
<1>27. ASSUME NEW t \in Tasks, ExecSettle(t) PROVE task' = [u \in Tasks |-> task'[u]]
  BY <1>27 DEF ExecSettle, Commit
<1>28. ASSUME NEW t \in Tasks, ExecHandover(t) PROVE task' = [u \in Tasks |-> task'[u]]
  BY <1>28 DEF ExecHandover, Commit
<1>29. ASSUME NEW t \in Tasks, ExecAborted(t) PROVE task' = [u \in Tasks |-> task'[u]]
  BY <1>29 DEF ExecAborted, Quiet, Commit
<1>30. ASSUME NEW t \in Tasks, ExecDone(t) PROVE task' = [u \in Tasks |-> task'[u]]
  BY <1>30 DEF ExecDone, Quiet, Commit
<1>31. ASSUME NEW t \in Tasks, PhaseCreate(t) PROVE task' = [u \in Tasks |-> task'[u]]
  BY <1>31 DEF PhaseCreate, NewTask, Commit
<1>32. ASSUME NEW t \in Tasks, PhaseAdvance(t) PROVE task' = [u \in Tasks |-> task'[u]]
  BY <1>32 DEF PhaseAdvance, Commit
<1>33. ASSUME NEW t \in Tasks, PhaseWait(t) PROVE task' = [u \in Tasks |-> task'[u]]
  BY <1>33 DEF PhaseWait, Commit
<1>34. ASSUME NEW t \in Tasks, PhaseEnd(t) PROVE task' = [u \in Tasks |-> task'[u]]
  BY <1>34 DEF PhaseEnd, Commit
<1>35. ASSUME NEW t \in Tasks, PhaseReturn(t) PROVE task' = [u \in Tasks |-> task'[u]]
  BY <1>35 DEF PhaseReturn, Quiet, Commit
<1>36. ASSUME NEW t \in Tasks, HandlerEnd(t) PROVE task' = [u \in Tasks |-> task'[u]]
  <2>1. task' = task \/ \E r : task' = [task EXCEPT ![t] = r]
    BY <1>36 DEF HandlerEnd, Quiet, Commit
  <2>. QED BY <2>1
<1>37. ASSUME NEW t \in Tasks, AbortTask(t) PROVE task' = [u \in Tasks |-> task'[u]]
  BY <1>37 DEF AbortTask, Requested, Commit
<1>38. ASSUME NEW t \in Tasks, AbortBlocked(t) PROVE task' = [u \in Tasks |-> task'[u]]
  BY <1>38 DEF AbortBlocked
<1>39. ASSUME NEW t \in Tasks, AbortOrphan(t) PROVE task' = [u \in Tasks |-> task'[u]]
  BY <1>39 DEF AbortOrphan, Commit
<1>40. ASSUME NEW t \in Tasks, Install(t) PROVE task' = [u \in Tasks |-> task'[u]]
  BY <1>40 DEF Install
<1>41. CASE UNCHANGED vars
  BY <1>41
<1>. QED
  BY <1>1, <1>2, <1>3, <1>4, <1>5, <1>6, <1>7, <1>8, <1>9, <1>10, <1>11, <1>12, <1>13,
     <1>14, <1>15, <1>16, <1>17, <1>18, <1>19, <1>20, <1>21, <1>22, <1>23, <1>24, <1>25, <1>26,
     <1>27, <1>28, <1>29, <1>30, <1>31, <1>32, <1>33, <1>34, <1>35, <1>36, <1>37, <1>38, <1>39,
     <1>40, <1>41
     DEF Next, Worker, Exec, Phase, Callers

(* A step of an invocation. *)
ExecMoveTo(t, pc) ==
  \/ exec[t].pc = "none" /\ pc = "begin" /\ worker.pc = "publish" /\ worker'.pc = "loop" /\ t \in Todo
  \/ exec[t].pc = "begin" /\ pc = "phase" /\ task' = task /\ Live(task[t]) /\ task[t].abort = "none"
  \/ exec[t].pc = "begin" /\ pc = "abort" /\ task' = task /\ (WorldFits => Drained(t)) /\ task[t].abort # "none"
  \/ exec[t].pc = "phase" /\ pc = "returned"
  \/ exec[t].pc = "returned" /\ pc \in {"begin", "orphan", "fault", "handover"}
  \/ exec[t].pc \in {"orphan", "fault", "handover"} /\ pc = "done"
  \/ exec[t].pc = "abort" /\ pc = "aborted"
  \/ exec[t].pc = "aborted" /\ pc = "fault"
ExecMove(t) ==
  exec'[t].pc \in {exec[t].pc, "none"} \/ ExecMoveTo(t, exec'[t].pc)
ExecsMove ==
  /\ exec' \in [Tasks -> ExecRecord] /\ dirty' \in BOOLEAN /\ sawIdle' \in BOOLEAN
  /\ \A t \in Tasks : ExecMove(t)

LEMMA ExecSame ==
  ASSUME TypeOK, exec' = exec PROVE exec' \in [Tasks -> ExecRecord] /\ \A t \in Tasks : ExecMove(t)
BY DEF TypeOK, ExecMove

LEMMA CommitExec ==
  ASSUME TypeOK, NEW new, NEW ex \in [Tasks -> ExecRecord], Commit(new, ex)
  PROVE  /\ exec' \in [Tasks -> ExecRecord] /\ \A t \in Tasks : exec'[t].pc = ex[t].pc
         /\ dirty' \in BOOLEAN /\ sawIdle' \in BOOLEAN
<1>1. exec' \in [Tasks -> ExecRecord] /\ \A t \in Tasks : exec'[t].pc = ex[t].pc
  BY DEF Commit, ExecRecord
<1>2. dirty' \in BOOLEAN /\ sawIdle' \in BOOLEAN
  BY DEF Commit, TypeOK
<1>. QED BY <1>1, <1>2

LEMMA CommitSame ==
  ASSUME TypeOK, NEW new, Commit(new, exec)
  PROVE  ExecsMove
BY CommitExec DEF TypeOK, ExecMove, ExecsMove

LEMMA CommitMoves ==
  ASSUME TypeOK, NEW new, NEW t \in Tasks, NEW pc, NEW ex \in [Tasks -> ExecRecord], Commit(new, ex),
         ex[t].pc = pc, \A u \in Tasks : u # t => ex[u] = exec[u], ExecMoveTo(t, pc)
  PROVE  ExecsMove
<1>1. /\ exec' \in [Tasks -> ExecRecord] /\ \A u \in Tasks : exec'[u].pc = ex[u].pc
      /\ dirty' \in BOOLEAN /\ sawIdle' \in BOOLEAN
  BY CommitExec
<1>2. ASSUME NEW u \in Tasks PROVE ExecMove(u)
  <2>1. CASE u = t
    BY <1>1, <2>1 DEF ExecMove
  <2>2. CASE u # t
    BY <1>1, <2>2 DEF ExecMove
  <2>. QED BY <2>1, <2>2
<1>. QED BY <1>1, <1>2 DEF ExecsMove

LEMMA CommitEnds ==
  ASSUME TypeOK, NEW new, NEW t \in Tasks, Commit(new, Cleanup(t))
  PROVE  ExecsMove
<1>1. /\ exec' \in [Tasks -> ExecRecord] /\ \A u \in Tasks : exec'[u].pc = Cleanup(t)[u].pc
      /\ dirty' \in BOOLEAN /\ sawIdle' \in BOOLEAN
  BY ExecMoves, CommitExec
<1>2. ASSUME NEW u \in Tasks PROVE exec'[u].pc \in {exec[u].pc, "none"}
  <2>1. CASE u = t
    BY <1>1, <2>1, CleanupFx
  <2>2. CASE u # t
    BY <1>1, <2>2, CleanupFx
  <2>. QED BY <2>1, <2>2
<1>. QED BY <1>1, <1>2 DEF ExecsMove, ExecMove

(* Every step moves the invocations so. *)
LEMMA ExecStep ==
  ASSUME TypeOK, Shaped, PublishInv, [Next]_vars
  PROVE  ExecsMove
<1>a. exec \in [Tasks -> ExecRecord] /\ dirty \in BOOLEAN /\ sawIdle \in BOOLEAN
  BY DEF TypeOK
<1>. USE <1>a DEF ExecsMove
<1>1. CASE WorkerWake
  BY <1>1, ExecSame DEF WorkerWake
<1>2. CASE WorkerAbandon
  BY <1>2, ExecSame DEF WorkerAbandon
<1>3. CASE WorkerScan
  BY <1>3, ExecSame DEF WorkerScan
<1>4. CASE WorkerMarks
  BY <1>4, CommitSame DEF WorkerMarks
<1>5. CASE WorkerFinalizeScan
  BY <1>5, ExecSame DEF WorkerFinalizeScan
<1>6. CASE WorkerFinalize
  BY <1>6, CommitSame DEF WorkerFinalize
<1>7. CASE WorkerIdleScan
  BY <1>7, ExecSame DEF WorkerIdleScan
<1>8. CASE WorkerSettle
  BY <1>8, ExecSame DEF WorkerSettle
<1>9. CASE WorkerList
  BY <1>9, ExecSame DEF WorkerList
<1>10. CASE WorkerSnapshot
  BY <1>10, ExecSame DEF WorkerSnapshot
<1>11. CASE WorkerLoopEnd
  BY <1>11, ExecSame DEF WorkerLoopEnd
<1>12. CASE Create
  BY <1>12, CommitSame DEF Create
<1>13. CASE Resume
  BY <1>13, ExecSame DEF Resume
<1>14. CASE AbortConversation
  BY <1>14, CommitSame DEF AbortConversation
<1>15. CASE Close
  BY <1>15, ZenonT(60) DEF Close, ExecRecord, ExecMove
<1>16. CASE Restart
  BY <1>16, RestType DEF Restart, ExecMove
<1>17. CASE WaitIdleCheck
  BY <1>17, ExecSame DEF WaitIdleCheck
<1>18. CASE WaitIdleRegister
  BY <1>18, ExecSame DEF WaitIdleRegister
<1>19. CASE WaitIdleDone
  BY <1>19, ExecSame DEF WaitIdleDone
<1>20. ASSUME NEW t \in Tasks, WorkerSkip(t) PROVE ExecsMove
  BY <1>20, ExecSame DEF WorkerSkip
<1>21. ASSUME NEW t \in Tasks, WorkerResume(t) PROVE ExecsMove
  BY <1>21, CommitSame DEF WorkerResume
<1>22. ASSUME NEW t \in Tasks, WorkerOrphan(t) PROVE ExecsMove
  BY <1>22, CommitSame DEF WorkerOrphan
<1>23. ASSUME NEW t \in Tasks, WorkerReserve(t) PROVE ExecsMove
  BY <1>23, CommitSame DEF WorkerReserve, Quiet
<1>24. ASSUME NEW t \in Tasks, WorkerPublish(t) PROVE ExecsMove
  <2>0. dirty' = dirty /\ sawIdle' = sawIdle
    BY <1>24 DEF WorkerPublish
  <2>1. CASE exec' = exec
    BY <2>0, <2>1, ExecSame
  <2>2. CASE exec' = [exec EXCEPT ![t] = [NoExec EXCEPT !.pc = "begin", !.def = worker.defs[t]]]
    <3>1. worker.defs[t] \in Nat
      BY DEF TypeOK, WorkerRecord
    <3>2. PICK x : x = [NoExec EXCEPT !.pc = "begin", !.def = worker.defs[t]]
      OBVIOUS
    <3>3. x \in ExecRecord /\ x.pc = "begin"
      BY <3>1, <3>2, RestType DEF ExecRecord
    <3>4. worker.pc = "publish" /\ worker'.pc = "loop" /\ t \in Todo
      BY <1>24 DEF WorkerPublish, TypeOK, WorkerRecord
    <3>5. exec' = [exec EXCEPT ![t] = x]
      BY <2>2, <3>2
    <3>6. exec[t].pc = "none"
      BY <1>24, <3>4 DEF WorkerPublish, PublishInv, Active
    <3>7. exec' \in [Tasks -> ExecRecord] /\ exec'[t].pc = "begin" /\ \A u \in Tasks : u # t => exec'[u] = exec[u]
      BY <3>3, <3>5
    <3>8. ExecMoveTo(t, "begin")
      BY <3>4, <3>6 DEF ExecMoveTo
    <3>9. ASSUME NEW u \in Tasks PROVE ExecMove(u)
      <4>1. CASE u = t
        BY <3>7, <3>8, <4>1 DEF ExecMove
      <4>2. CASE u # t
        BY <3>7, <4>2 DEF ExecMove
      <4>. QED BY <4>1, <4>2
    <3>. QED BY <2>0, <3>7, <3>9
  <2>. QED BY <1>24, <2>1, <2>2 DEF WorkerPublish
<1>25. ASSUME NEW t \in Tasks, ExecBegin(t) PROVE ExecsMove
  <2>1. exec[t].pc = "begin" /\ task' = task
    BY <1>25 DEF ExecBegin, Quiet, Commit
  <2>2. CASE Quiet(Cleanup(t))
    BY <2>2, CommitEnds DEF Quiet
  <2>3. CASE /\ ~(closed \/ task[t].st = "terminal" \/ (task[t].abort # "none" /\ OwnedLive(task, World, t) # {}))
             /\ Quiet([exec EXCEPT ![t].pc = IF task[t].abort # "none" THEN "abort" ELSE "phase",
                                   ![t].cp = task[t].cp, ![t].res = "ok"])
    <3>. DEFINE pc == IF task[t].abort # "none" THEN "abort" ELSE "phase"
                ex == [exec EXCEPT ![t].pc = pc, ![t].cp = task[t].cp, ![t].res = "ok"]
    <3>1. pc \in {"abort", "phase"} /\ task[t].cp \in Nat
      BY DEF TypeOK, TaskRecord
    <3>2. ex \in [Tasks -> ExecRecord] /\ ex[t].pc = pc /\ \A u \in Tasks : u # t => ex[u] = exec[u]
      <4>. HIDE DEF pc
      <4>. QED BY <3>1, ZenonT(60) DEF ExecRecord
    <3>3. Commit(task, ex)
      BY <2>3 DEF Quiet
    <3>. HIDE DEF ex
    <3>4. ExecMoveTo(t, pc)
      <4>1. Live(task[t])
        BY <2>1, <2>3 DEF Shaped, Active, Exists, Live
      <4>2. WorldFits /\ task[t].abort # "none" => Drained(t)
        BY <2>3, WorldDrained
      <4>. QED BY <2>1, <4>1, <4>2 DEF ExecMoveTo
    <3>. QED BY <3>2, <3>3, <3>4, CommitMoves
  <2>. QED BY <1>25, <2>2, <2>3 DEF ExecBegin
<1>26. ASSUME NEW t \in Tasks, ExecReturned(t) PROVE ExecsMove
  <2>0. exec[t].pc = "returned"
    BY <1>26 DEF ExecReturned
  <2>1. CASE Quiet(Cleanup(t))
    BY <2>1, CommitEnds DEF Quiet
  <2>2. CASE \E pc \in {"begin", "orphan", "fault", "handover"} : Quiet(MovesTo(t, pc))
    <3>1. PICK pc \in {"begin", "orphan", "fault", "handover"} : Quiet(MovesTo(t, pc))
      BY <2>2
    <3>2. ExecMoveTo(t, pc)
      BY <2>0 DEF ExecMoveTo
    <3>3. PICK ex : ex = MovesTo(t, pc)
      OBVIOUS
    <3>4. /\ ex \in [Tasks -> ExecRecord] /\ ex[t].pc = pc
          /\ \A u \in Tasks : u # t => ex[u] = exec[u]
      BY <3>3, StepsFx
    <3>5. Commit(task, ex)
      BY <3>1, <3>3 DEF Quiet
    <3>. QED BY <3>2, <3>4, <3>5, CommitMoves
  <2>3. CASE Quiet([MovesTo(t, "begin") EXCEPT ![t].def = def[t]])
    <3>0. PICK mv : mv = MovesTo(t, "begin")
      OBVIOUS
    <3>1. /\ mv \in [Tasks -> ExecRecord]
          /\ mv = MovesTo(t, "begin") /\ mv[t].pc = "begin" /\ \A u \in Tasks : u # t => mv[u] = exec[u]
      BY <3>0, StepsFx
    <3>2. PICK ex : ex = [mv EXCEPT ![t].def = def[t]]
      OBVIOUS
    <3>3. def[t] \in Nat
      BY DefNat
    <3>4. ex \in [Tasks -> ExecRecord] /\ ex[t].pc = "begin" /\ \A u \in Tasks : u # t => ex[u] = exec[u]
      BY <3>1, <3>2, <3>3 DEF ExecRecord
    <3>5. ExecMoveTo(t, "begin") /\ Commit(task, ex)
      BY <2>0, <2>3, <3>1, <3>2 DEF ExecMoveTo, Quiet
    <3>. QED BY <3>4, <3>5, CommitMoves
  <2>. QED BY <1>26, <2>1, <2>2, <2>3 DEF ExecReturned
<1>27. ASSUME NEW t \in Tasks, ExecSettle(t) PROVE ExecsMove
  <2>1. ExecMoveTo(t, "done")
    BY <1>27 DEF ExecSettle, ExecMoveTo
  <2>2. PICK ex : ex = MovesTo(t, "done")
    OBVIOUS
  <2>3. PICK new : Commit(new, ex)
    BY <1>27, <2>2 DEF ExecSettle
  <2>4. /\ ex \in [Tasks -> ExecRecord] /\ ex[t].pc = "done"
        /\ \A u \in Tasks : u # t => ex[u] = exec[u]
    BY <2>2, StepsFx
  <2>. QED BY <2>1, <2>3, <2>4, CommitMoves
<1>28. ASSUME NEW t \in Tasks, ExecHandover(t) PROVE ExecsMove
  <2>1. ExecMoveTo(t, "done")
    BY <1>28 DEF ExecHandover, ExecMoveTo
  <2>2. PICK ex : ex = MovesTo(t, "done")
    OBVIOUS
  <2>3. PICK new : Commit(new, ex)
    BY <1>28, <2>2 DEF ExecHandover
  <2>4. /\ ex \in [Tasks -> ExecRecord] /\ ex[t].pc = "done"
        /\ \A u \in Tasks : u # t => ex[u] = exec[u]
    BY <2>2, StepsFx
  <2>. QED BY <2>1, <2>3, <2>4, CommitMoves
<1>29. ASSUME NEW t \in Tasks, ExecAborted(t) PROVE ExecsMove
  <2>1. CASE Quiet(Cleanup(t))
    BY <2>1, CommitEnds DEF Quiet
  <2>2. CASE Quiet([exec EXCEPT ![t].pc = "fault"])
    <3>1. ExecMoveTo(t, "fault")
      BY <1>29 DEF ExecAborted, ExecMoveTo
    <3>2. PICK ex : ex = [exec EXCEPT ![t].pc = "fault"]
      OBVIOUS
    <3>3. /\ ex \in [Tasks -> ExecRecord] /\ ex[t].pc = "fault"
          /\ \A u \in Tasks : u # t => ex[u] = exec[u]
      BY <3>2, MovesFx
    <3>4. Commit(task, ex)
      BY <2>2, <3>2 DEF Quiet
    <3>. QED BY <3>1, <3>3, <3>4, CommitMoves
  <2>. QED BY <1>29, <2>1, <2>2 DEF ExecAborted
<1>30. ASSUME NEW t \in Tasks, ExecDone(t) PROVE ExecsMove
  BY <1>30, CommitEnds DEF ExecDone, Quiet
<1>31. ASSUME NEW t \in Tasks, PhaseCreate(t) PROVE ExecsMove
  BY <1>31, CommitSame DEF PhaseCreate
<1>32. ASSUME NEW t \in Tasks, PhaseAdvance(t) PROVE ExecsMove
  BY <1>32, CommitSame DEF PhaseAdvance
<1>33. ASSUME NEW t \in Tasks, PhaseWait(t) PROVE ExecsMove
  BY <1>33, CommitSame DEF PhaseWait
<1>34. ASSUME NEW t \in Tasks, PhaseEnd(t) PROVE ExecsMove
  BY <1>34, CommitSame DEF PhaseEnd
<1>35. ASSUME NEW t \in Tasks, PhaseReturn(t) PROVE ExecsMove
  <2>1. PICK res \in {"ok", "err"} : Quiet([exec EXCEPT ![t].pc = "returned", ![t].res = res])
    BY <1>35 DEF PhaseReturn
  <2>2. PICK ex : ex = [exec EXCEPT ![t].pc = "returned", ![t].res = res]
    OBVIOUS
  <2>3. ex \in [Tasks -> ExecRecord] /\ ex[t].pc = "returned" /\ \A u \in Tasks : u # t => ex[u] = exec[u]
    BY <2>2, ZenonT(60) DEF ExecRecord
  <2>4. ExecMoveTo(t, "returned") /\ Commit(task, ex)
    BY <1>35, <2>1, <2>2 DEF PhaseReturn, ExecMoveTo, Quiet
  <2>. QED BY <2>3, <2>4, CommitMoves
<1>36. ASSUME NEW t \in Tasks, HandlerEnd(t) PROVE ExecsMove
  <2>1. ExecMoveTo(t, "aborted")
    BY <1>36 DEF HandlerEnd, ExecMoveTo
  <2>2. PICK ex : ex = [exec EXCEPT ![t].pc = "aborted"]
    OBVIOUS
  <2>3. PICK new : Commit(new, ex)
    BY <1>36, <2>2 DEF HandlerEnd, Quiet
  <2>4. /\ ex \in [Tasks -> ExecRecord] /\ ex[t].pc = "aborted"
        /\ \A u \in Tasks : u # t => ex[u] = exec[u]
    BY <2>2, MovesFx
  <2>. QED BY <2>1, <2>3, <2>4, CommitMoves
<1>37. ASSUME NEW t \in Tasks, AbortTask(t) PROVE ExecsMove
  BY <1>37, CommitSame DEF AbortTask
<1>38. ASSUME NEW t \in Tasks, AbortBlocked(t) PROVE ExecsMove
  BY <1>38, ExecSame DEF AbortBlocked
<1>39. ASSUME NEW t \in Tasks, AbortOrphan(t) PROVE ExecsMove
  <2>1. PICK ex : ex = [exec EXCEPT ![t].stop = (exec[t].pc # "none")]
    OBVIOUS
  <2>2. ex \in [Tasks -> ExecRecord] /\ \A u \in Tasks : ex[u].pc = exec[u].pc
    BY <2>1, ZenonT(60) DEF ExecRecord
  <2>3. PICK new : Commit(new, ex)
    BY <1>39, <2>1 DEF AbortOrphan
  <2>. QED BY <2>2, <2>3, CommitExec DEF ExecMove
<1>40. ASSUME NEW t \in Tasks, Install(t) PROVE ExecsMove
  BY <1>40, ExecSame DEF Install
<1>41. CASE UNCHANGED vars
  BY <1>41, ExecSame
<1>. QED
  BY <1>1, <1>2, <1>3, <1>4, <1>5, <1>6, <1>7, <1>8, <1>9, <1>10, <1>11, <1>12, <1>13,
     <1>14, <1>15, <1>16, <1>17, <1>18, <1>19, <1>20, <1>21, <1>22, <1>23, <1>24, <1>25, <1>26,
     <1>27, <1>28, <1>29, <1>30, <1>31, <1>32, <1>33, <1>34, <1>35, <1>36, <1>37, <1>38, <1>39,
     <1>40, <1>41
     DEF Next, Worker, Exec, Phase, Callers

(* A step of the rest: the registry, the flags, the callers. *)
RestMove ==
  /\ def' \in [Tasks -> Definitions \cup {0}]
  /\ enabled' \in BOOLEAN /\ closed' \in BOOLEAN
  /\ abandoned' \in SUBSET Tasks /\ inherited' \in SUBSET Tasks
  /\ orphaning' \in SUBSET Tasks /\ \A u \in Tasks : u \in orphaning' => u \in orphaning \/ Exists(u)
  /\ waiter' \in {"none", "checked", "registered", "resolved"}
  /\ restarts' \in Nat

LEMMA RestStep ==
  ASSUME TypeOK, [Next]_vars
  PROVE  RestMove
<1>a. /\ def \in [Tasks -> Definitions \cup {0}]
      /\ enabled \in BOOLEAN /\ closed \in BOOLEAN
      /\ abandoned \in SUBSET Tasks /\ inherited \in SUBSET Tasks
      /\ orphaning \in SUBSET Tasks
      /\ waiter \in {"none", "checked", "registered", "resolved"}
      /\ restarts \in Nat
  BY DEF TypeOK
<1>. USE <1>a DEF RestMove
<1>1. CASE WorkerWake
  BY <1>1 DEF WorkerWake
<1>2. CASE WorkerAbandon
  BY <1>2 DEF WorkerAbandon
<1>3. CASE WorkerScan
  BY <1>3 DEF WorkerScan
<1>4. CASE WorkerMarks
  BY <1>4 DEF WorkerMarks
<1>5. CASE WorkerFinalizeScan
  BY <1>5 DEF WorkerFinalizeScan
<1>6. CASE WorkerFinalize
  BY <1>6 DEF WorkerFinalize
<1>7. CASE WorkerIdleScan
  BY <1>7 DEF WorkerIdleScan
<1>8. CASE WorkerSettle
  BY <1>8 DEF WorkerSettle
<1>9. CASE WorkerList
  BY <1>9 DEF WorkerList
<1>10. CASE WorkerSnapshot
  BY <1>10 DEF WorkerSnapshot
<1>11. CASE WorkerLoopEnd
  BY <1>11 DEF WorkerLoopEnd
<1>12. CASE Create
  BY <1>12 DEF Create
<1>13. CASE Resume
  BY <1>13 DEF Resume
<1>14. CASE AbortConversation
  BY <1>14 DEF AbortConversation
<1>15. CASE Close
  BY <1>15 DEF Close
<1>16. CASE Restart
  <2>1. abandoned' \in SUBSET Tasks /\ inherited' = abandoned' /\ orphaning' = {}
    BY <1>16 DEF Restart
  <2>2. restarts' \in Nat /\ enabled' = FALSE /\ closed' = FALSE /\ waiter' = "none" /\ def' = def
    BY <1>16 DEF Restart
  <2>. QED BY <2>1, <2>2
<1>17. CASE WaitIdleCheck
  BY <1>17 DEF WaitIdleCheck
<1>18. CASE WaitIdleRegister
  BY <1>18 DEF WaitIdleRegister
<1>19. CASE WaitIdleDone
  BY <1>19 DEF WaitIdleDone
<1>20. ASSUME NEW t \in Tasks, WorkerSkip(t) PROVE RestMove
  BY <1>20 DEF WorkerSkip
<1>21. ASSUME NEW t \in Tasks, WorkerResume(t) PROVE RestMove
  BY <1>21 DEF WorkerResume
<1>22. ASSUME NEW t \in Tasks, WorkerOrphan(t) PROVE RestMove
  BY <1>22 DEF WorkerOrphan
<1>23. ASSUME NEW t \in Tasks, WorkerReserve(t) PROVE RestMove
  <2>1. UNCHANGED <<sched, waiter, doubled>>
    BY <1>23 DEF WorkerReserve
  <2>. QED BY <2>1
<1>24. ASSUME NEW t \in Tasks, WorkerPublish(t) PROVE RestMove
  <2>1. UNCHANGED <<sched, task, dirty, waiter, sawIdle>>
    BY <1>24 DEF WorkerPublish
  <2>. QED BY <2>1
<1>25. ASSUME NEW t \in Tasks, ExecBegin(t) PROVE RestMove
  BY <1>25 DEF ExecBegin
<1>26. ASSUME NEW t \in Tasks, ExecReturned(t) PROVE RestMove
  BY <1>26 DEF ExecReturned
<1>27. ASSUME NEW t \in Tasks, ExecSettle(t) PROVE RestMove
  BY <1>27 DEF ExecSettle
<1>28. ASSUME NEW t \in Tasks, ExecHandover(t) PROVE RestMove
  BY <1>28 DEF ExecHandover
<1>29. ASSUME NEW t \in Tasks, ExecAborted(t) PROVE RestMove
  BY <1>29 DEF ExecAborted
<1>30. ASSUME NEW t \in Tasks, ExecDone(t) PROVE RestMove
  BY <1>30 DEF ExecDone
<1>31. ASSUME NEW t \in Tasks, PhaseCreate(t) PROVE RestMove
  BY <1>31 DEF PhaseCreate
<1>32. ASSUME NEW t \in Tasks, PhaseAdvance(t) PROVE RestMove
  BY <1>32 DEF PhaseAdvance
<1>33. ASSUME NEW t \in Tasks, PhaseWait(t) PROVE RestMove
  BY <1>33 DEF PhaseWait
<1>34. ASSUME NEW t \in Tasks, PhaseEnd(t) PROVE RestMove
  BY <1>34 DEF PhaseEnd
<1>35. ASSUME NEW t \in Tasks, PhaseReturn(t) PROVE RestMove
  BY <1>35 DEF PhaseReturn
<1>36. ASSUME NEW t \in Tasks, HandlerEnd(t) PROVE RestMove
  <2>1. UNCHANGED <<sched, worker, waiter, doubled>>
    BY <1>36 DEF HandlerEnd
  <2>. QED BY <2>1
<1>37. ASSUME NEW t \in Tasks, AbortTask(t) PROVE RestMove
  BY <1>37 DEF AbortTask
<1>38. ASSUME NEW t \in Tasks, AbortBlocked(t) PROVE RestMove
  BY <1>38 DEF AbortBlocked, Exists, Live
<1>39. ASSUME NEW t \in Tasks, AbortOrphan(t) PROVE RestMove
  BY <1>39 DEF AbortOrphan
<1>40. ASSUME NEW t \in Tasks, Install(t) PROVE RestMove
  BY <1>40 DEF Install
<1>41. CASE UNCHANGED vars
  BY <1>41
<1>. QED
  BY <1>1, <1>2, <1>3, <1>4, <1>5, <1>6, <1>7, <1>8, <1>9, <1>10, <1>11, <1>12, <1>13,
     <1>14, <1>15, <1>16, <1>17, <1>18, <1>19, <1>20, <1>21, <1>22, <1>23, <1>24, <1>25, <1>26,
     <1>27, <1>28, <1>29, <1>30, <1>31, <1>32, <1>33, <1>34, <1>35, <1>36, <1>37, <1>38, <1>39,
     <1>40, <1>41
     DEF Next, Worker, Exec, Phase, Callers

(* A step is the worker's, a restart, or leaves the worker and what was left *)
(* behind by an earlier process alone.                                      *)
Aside == worker' = worker /\ abandoned' = abandoned /\ inherited' = inherited /\ doubled' = doubled

LEMMA WorkerOrNot ==
  ASSUME [Next]_vars
  PROVE  Worker \/ Restart \/ Aside
<1>1. ASSUME NEW t \in Tasks, Exec(t) PROVE Aside
  BY <1>1 DEF Exec, ExecBegin, ExecReturned, ExecSettle, ExecHandover, ExecAborted, ExecDone, Aside
<1>2. ASSUME NEW t \in Tasks, Phase(t) PROVE Aside
  BY <1>2 DEF Phase, PhaseCreate, PhaseAdvance, PhaseWait, PhaseEnd, PhaseReturn, Aside
<1>3. ASSUME NEW t \in Tasks, HandlerEnd(t) PROVE Aside
  BY <1>3 DEF HandlerEnd, Aside
<1>4. ASSUME Callers PROVE Restart \/ Aside
  <2>1. ASSUME NEW t \in Tasks, AbortTask(t) \/ AbortBlocked(t) \/ AbortOrphan(t) \/ Install(t) PROVE Aside
    BY <2>1 DEF AbortTask, AbortBlocked, AbortOrphan, Install, Aside
  <2>2. ASSUME Create \/ Resume \/ AbortConversation \/ Close PROVE Aside
    BY <2>2 DEF Create, Resume, AbortConversation, Close, Aside
  <2>3. ASSUME WaitIdleCheck \/ WaitIdleRegister \/ WaitIdleDone PROVE Aside
    BY <2>3 DEF WaitIdleCheck, WaitIdleRegister, WaitIdleDone, Aside
  <2>. QED BY <1>4, <2>1, <2>2, <2>3 DEF Callers
<1>5. CASE UNCHANGED vars
  BY <1>5 DEF Aside
<1>. QED BY <1>1, <1>2, <1>3, <1>4, <1>5 DEF Next

LEMMA CascadeType ==
  ASSUME NEW T, NEW P
  PROVE  Cascade(T, P) \in [Tasks -> Marks]
BY DEF Cascade, Marks

LEMMA PlannedType ==
  ASSUME NEW T, NEW P, NEW t
  PROVE  /\ Planned(T, P, t) \in {"none", "resume", "reserve", "reserve_or_orphan"}
         /\ Planned(T, P, t) # "none" => t \in P
BY DEF Planned

LEMMA PassedFx ==
  ASSUME TypeOK, NEW t \in Tasks
  PROVE  /\ Passed(t) \in WorkerRecord /\ Passed(t).pc = worker.pc /\ Passed(t).run = worker.run
         /\ \A u \in Tasks : Passed(t).plan[u] # "none" => worker.plan[u] # "none"
BY DEF TypeOK, WorkerRecord, Passed

(* The worker keeps its shape, and plans existing tasks only. *)
WorkerMove ==
  /\ worker' \in WorkerRecord
  /\ \A u \in Tasks : worker'.plan[u] # "none" => worker.plan[u] # "none" \/ Exists(u)

LEMMA WorkerStep ==
  ASSUME TypeOK, [Next]_vars
  PROVE  WorkerMove
<1>a. worker \in WorkerRecord /\ AtRest \in WorkerRecord /\ \A u \in Tasks : AtRest.plan[u] = "none"
  BY RestType DEF TypeOK
<1>. USE <1>a DEF WorkerMove
<1>1. CASE WorkerWake
  <2>1. PICK pc \in {"abandon", "scan"}, run \in BOOLEAN : worker' = [AtRest EXCEPT !.pc = pc, !.run = run]
    BY <1>1 DEF WorkerWake, TypeOK
  <2>. QED BY <2>1 DEF WorkerRecord
<1>2. CASE WorkerAbandon
  BY <1>2 DEF WorkerAbandon
<1>3. CASE WorkerScan
  <2>1. PICK marks \in [Tasks -> Marks], pc \in {"finalize", "marks"} :
          worker' = [worker EXCEPT !.marks = marks, !.pc = pc]
    <3>. DEFINE stage(u) == IF u \in FailFastTargets(task, World) THEN "request" ELSE Cascade(task, World)[u]
                marks == [u \in Tasks |-> IF Marked(task[u].abort, stage(u)) # task[u].abort
                                            THEN stage(u) ELSE "none"]
    <3>1. \A u \in Tasks : stage(u) \in Marks
      BY CascadeType DEF Marks
    <3>2. worker' = [worker EXCEPT !.marks = marks, !.pc = IF marks = NoMarks THEN "finalize" ELSE "marks"]
      BY <1>3 DEF WorkerScan
    <3>. HIDE DEF stage
    <3>3. marks \in [Tasks -> Marks]
      BY <3>1 DEF Marks
    <3>. HIDE DEF marks
    <3>. QED BY <3>2, <3>3
  <2>. QED BY <2>1 DEF WorkerRecord
<1>4. CASE WorkerMarks
  BY <1>4, RestType DEF WorkerMarks, WorkerRecord
<1>5. CASE WorkerFinalizeScan
  <2>1. PICK ready \in SUBSET Tasks, pc \in {"idle", "list", "wait", "write"} :
          worker' = [worker EXCEPT !.ready = ready, !.pc = pc]
    BY <1>5 DEF WorkerFinalizeScan, ReadyToEnd, World, Page, AfterReconcile
  <2>. QED BY <2>1 DEF WorkerRecord
<1>6. CASE WorkerFinalize
  BY <1>6 DEF WorkerFinalize, WorkerRecord
<1>7. CASE WorkerIdleScan
  BY <1>7 DEF WorkerIdleScan, Idle, WorkerRecord
<1>8. CASE WorkerSettle
  BY <1>8 DEF WorkerSettle, WorkerRecord
<1>9. CASE WorkerList
  <2>1. worker' = [worker EXCEPT !.plan = [u \in Tasks |-> Planned(task, Listed, u)], !.pc = "snapshot"]
    BY <1>9 DEF WorkerList
  <2>2. ASSUME NEW u \in Tasks PROVE Planned(task, Listed, u) # "none" => Exists(u)
    BY PlannedType DEF Listed, Page, Exists
  <2>. QED BY <2>1, <2>2, PlannedType DEF WorkerRecord
<1>10. CASE WorkerSnapshot
  BY <1>10, DefNat DEF WorkerSnapshot, TypeOK, WorkerRecord
<1>11. CASE WorkerLoopEnd
  BY <1>11 DEF WorkerLoopEnd
<1>12. ASSUME NEW t \in Tasks, WorkerSkip(t) PROVE WorkerMove
  BY <1>12, PassedFx DEF WorkerSkip
<1>13. ASSUME NEW t \in Tasks, WorkerResume(t) PROVE WorkerMove
  BY <1>13, PassedFx DEF WorkerResume
<1>14. ASSUME NEW t \in Tasks, WorkerOrphan(t) PROVE WorkerMove
  BY <1>14, PassedFx DEF WorkerOrphan
<1>15. ASSUME NEW t \in Tasks, WorkerReserve(t) PROVE WorkerMove
  <2>1. CASE worker' = [worker EXCEPT !.pc = "publish"]
    BY <2>1 DEF WorkerRecord
  <2>2. CASE worker' = Passed(t)
    BY <2>2, PassedFx
  <2>. QED BY <1>15, <2>1, <2>2 DEF WorkerReserve
<1>16. ASSUME NEW t \in Tasks, WorkerPublish(t) PROVE WorkerMove
  BY <1>16 DEF WorkerPublish, WorkerRecord
<1>17. CASE Restart
  BY <1>17 DEF Restart
<1>18. CASE Aside
  BY <1>18 DEF Aside
<1>. QED
  BY WorkerOrNot, <1>1, <1>2, <1>3, <1>4, <1>5, <1>6, <1>7, <1>8, <1>9, <1>10, <1>11, <1>12, <1>13,
     <1>14, <1>15, <1>16, <1>17, <1>18
     DEF Worker

(* No invocation is published twice. *)
LEMMA DoubledStep ==
  ASSUME TypeOK, PublishInv, [Next]_vars
  PROVE  doubled' = doubled
<1>1. CASE WorkerWake
  BY <1>1 DEF WorkerWake
<1>2. CASE WorkerAbandon
  BY <1>2 DEF WorkerAbandon
<1>3. CASE WorkerScan
  BY <1>3 DEF WorkerScan
<1>4. CASE WorkerMarks
  BY <1>4 DEF WorkerMarks
<1>5. CASE WorkerFinalizeScan
  BY <1>5 DEF WorkerFinalizeScan
<1>6. CASE WorkerFinalize
  BY <1>6 DEF WorkerFinalize
<1>7. CASE WorkerIdleScan
  BY <1>7 DEF WorkerIdleScan
<1>8. CASE WorkerSettle
  BY <1>8 DEF WorkerSettle
<1>9. CASE WorkerList
  BY <1>9 DEF WorkerList
<1>10. CASE WorkerSnapshot
  BY <1>10 DEF WorkerSnapshot
<1>11. CASE WorkerLoopEnd
  BY <1>11 DEF WorkerLoopEnd
<1>12. ASSUME NEW t \in Tasks, WorkerSkip(t) PROVE doubled' = doubled
  BY <1>12 DEF WorkerSkip
<1>13. ASSUME NEW t \in Tasks, WorkerResume(t) PROVE doubled' = doubled
  BY <1>13 DEF WorkerResume
<1>14. ASSUME NEW t \in Tasks, WorkerOrphan(t) PROVE doubled' = doubled
  BY <1>14 DEF WorkerOrphan
<1>15. ASSUME NEW t \in Tasks, WorkerReserve(t) PROVE doubled' = doubled
  BY <1>15 DEF WorkerReserve
<1>16. ASSUME NEW t \in Tasks, WorkerPublish(t) PROVE doubled' = doubled
  BY <1>16 DEF WorkerPublish, PublishInv
<1>17. CASE Restart
  BY <1>17 DEF Restart
<1>18. CASE Aside
  BY <1>18 DEF Aside
<1>. QED
  BY WorkerOrNot, <1>1, <1>2, <1>3, <1>4, <1>5, <1>6, <1>7, <1>8, <1>9, <1>10, <1>11, <1>12, <1>13,
     <1>14, <1>15, <1>16, <1>17, <1>18
     DEF Worker

(* Types are kept. *)
LEMMA TypeStep ==
  ASSUME TypeOK, Shaped, MintInv, PublishInv, [Next]_vars
  PROVE  TypeOK'
<1>1. task' \in [Tasks -> TaskRecord]
  <2>1. ASSUME NEW u \in Tasks PROVE task'[u] \in TaskRecord
    <3>1. TasksMove /\ task[u] \in TaskRecord
      BY MoveStep DEF TypeOK
    <3>. QED BY <3>1 DEF TasksMove, Keeps, Moves, Spawned
  <2>. QED BY <2>1, TaskFunction
<1>2. exec' \in [Tasks -> ExecRecord] /\ dirty' \in BOOLEAN /\ sawIdle' \in BOOLEAN
  BY ExecStep DEF ExecsMove
<1>3. RestMove /\ WorkerMove
  BY RestStep, WorkerStep
<1>4. doubled' \in SUBSET Tasks
  BY DoubledStep DEF TypeOK
<1>. QED BY <1>1, <1>2, <1>3, <1>4 DEF TypeOK, RestMove, WorkerMove

LEMMA ShapedStep ==
  ASSUME TypeOK, Shaped, MintInv, PublishInv, [Next]_vars
  PROVE  Shaped' /\ MintInv'
<1>1. TasksMove /\ ExecsMove /\ RestMove /\ WorkerMove
  BY MoveStep, ExecStep, RestStep, WorkerStep
<1>2. ASSUME NEW u \in Tasks PROVE Exists(u) => Exists(u)'
  BY <1>1 DEF TasksMove, Keeps, Moves, Spawned, Exists
<1>3. ASSUME NEW u \in Tasks PROVE ShapedRecord(task'[u])
  <2>1. CASE \A v \in Tasks : Keeps(v)
    BY <2>1 DEF Keeps, Moves
  <2>2. CASE \E id \in Tasks, o \in 0..TaskBound : Spawned(id, o)
    BY <2>2 DEF Spawned, ShapedRecord, Shaped
  <2>. QED BY <1>1, <2>1, <2>2 DEF TasksMove
<1>4. ASSUME NEW u \in Tasks, task'[u].owner # 0
      PROVE  task'[u].owner \in Tasks /\ Exists(task'[u].owner) /\ task'[u].owner < u
  <2>0. ASSUME task[u].owner # 0 PROVE task[u].owner \in Tasks /\ Exists(task[u].owner) /\ task[u].owner < u
    <3>1. task[u].owner \in 0..TaskBound
      BY DEF TypeOK, TaskRecord
    <3>. QED BY <2>0, <3>1, TaskBoundAssumption DEF Shaped, Tasks
  <2>1. CASE \A v \in Tasks : Keeps(v)
    BY <1>4, <2>0, <2>1 DEF Keeps, Moves
  <2>2. ASSUME NEW id \in Tasks, NEW o \in 0..TaskBound, Spawned(id, o)
        PROVE  task'[u].owner \in Tasks /\ Exists(task'[u].owner) /\ task'[u].owner < u
    <3>1. CASE u # id
      BY <1>4, <2>0, <2>2, <3>1 DEF Spawned
    <3>2. CASE u = id
      <4>1. task'[u].owner = o /\ o \in Tasks /\ Exists(o) /\ id = NewId
        BY <1>4, <2>2, <3>2 DEF Spawned, Exists, TakesWork, Live
      <4>2. \A v \in Created : v < NewId
        BY <4>1, Minted
      <4>. QED BY <3>2, <4>1, <4>2 DEF Created
    <3>. QED BY <3>1, <3>2
  <2>. QED BY <1>1, <2>1, <2>2 DEF TasksMove
<1>5. ASSUME NEW u \in Tasks, (Active(u) \/ worker.plan[u] # "none" \/ u \in orphaning)'
      PROVE  Exists(u)'
  <2>1. CASE Active(u)'
    <3>1. Active(u) \/ u \in Todo
      BY <1>1, <2>1 DEF ExecsMove, ExecMove, ExecMoveTo, Active
    <3>. QED BY <1>2, <3>1 DEF Shaped, Todo
  <2>2. CASE worker'.plan[u] # "none"
    BY <1>1, <1>2, <2>2 DEF WorkerMove, Shaped
  <2>3. CASE u \in orphaning'
    BY <1>1, <1>2, <2>3 DEF RestMove, Shaped
  <2>. QED BY <1>5, <2>1, <2>2, <2>3
<1>6. Shaped'
  <2>1. ASSUME NEW u \in Tasks, task'[u].owner # 0 PROVE Exists(task[u].owner)' /\ task'[u].owner < u
    <3>1. PICK o \in Tasks : o = task'[u].owner
      BY <1>4, <2>1
    <3>2. Exists(o)' /\ o < u
      BY <1>2, <1>4, <2>1, <3>1
    <3>. QED BY <3>1, <3>2 DEF Exists
  <2>. QED BY <1>3, <1>5, <2>1 DEF Shaped
<1>7. MintInv'
  <2>1. CASE \A v \in Tasks : Keeps(v)
    <3>1. Created' = Created
      BY <2>1 DEF Created, Exists, Keeps, Moves
    <3>. QED BY <3>1 DEF MintInv
  <2>2. ASSUME NEW id \in Tasks, NEW o \in 0..TaskBound, Spawned(id, o) PROVE MintInv'
    <3>1. Created' = Created \cup {id} /\ id = NewId
      BY <2>2 DEF Created, Exists, Spawned
    <3>2. \E n \in 0..TaskBound : Created \cup {id} = 1..n
      BY <3>1, Minted
    <3>. QED BY <3>1, <3>2 DEF MintInv
  <2>. QED BY <1>1, <2>1, <2>2 DEF TasksMove
<1>. QED BY <1>6, <1>7

(* Only the worker publishes, and the task it is about to publish has no    *)
(* invocation.                                                              *)
LEMMA PublishStep ==
  ASSUME TypeOK, Shaped, PublishInv, [Next]_vars
  PROVE  PublishInv'
<1>a. ExecsMove
  BY ExecStep
<1>b. AtRest.pc = "wait" /\ worker \in WorkerRecord
  BY RestType DEF TypeOK
<1>. USE <1>b DEF PublishInv
<1>1. CASE WorkerWake
  <2>1. worker'.pc # "publish"
    BY <1>1, RestType DEF WorkerWake, WorkerRecord, TypeOK
  <2>. QED BY <2>1
<1>2. CASE WorkerAbandon
  <2>1. worker'.pc # "publish"
    BY <1>2 DEF WorkerAbandon, WorkerRecord
  <2>. QED BY <2>1
<1>3. CASE WorkerScan
  <2>1. worker'.pc # "publish"
    BY <1>3 DEF WorkerScan, WorkerRecord
  <2>. QED BY <2>1
<1>4. CASE WorkerMarks
  <2>1. worker'.pc # "publish"
    BY <1>4 DEF WorkerMarks, WorkerRecord
  <2>. QED BY <2>1
<1>5. CASE WorkerFinalizeScan
  <2>1. worker'.pc # "publish"
    BY <1>5 DEF WorkerFinalizeScan, WorkerRecord, AfterReconcile
  <2>. QED BY <2>1
<1>6. CASE WorkerFinalize
  <2>1. worker'.pc # "publish"
    BY <1>6 DEF WorkerFinalize, WorkerRecord
  <2>. QED BY <2>1
<1>7. CASE WorkerIdleScan
  <2>1. worker'.pc # "publish"
    BY <1>7 DEF WorkerIdleScan, WorkerRecord
  <2>. QED BY <2>1
<1>8. CASE WorkerSettle
  <2>1. worker'.pc # "publish"
    BY <1>8 DEF WorkerSettle, WorkerRecord
  <2>. QED BY <2>1
<1>9. CASE WorkerList
  <2>1. worker'.pc # "publish"
    BY <1>9 DEF WorkerList, WorkerRecord
  <2>. QED BY <2>1
<1>10. CASE WorkerSnapshot
  <2>1. worker'.pc # "publish"
    BY <1>10 DEF WorkerSnapshot, WorkerRecord
  <2>. QED BY <2>1
<1>11. CASE WorkerLoopEnd
  <2>1. worker'.pc # "publish"
    BY <1>11 DEF WorkerLoopEnd, WorkerRecord
  <2>. QED BY <2>1
<1>12. ASSUME NEW t \in Tasks, WorkerSkip(t) PROVE PublishInv'
  <2>1. worker'.pc # "publish"
    BY <1>12, PassedFx DEF WorkerSkip, Upcoming
  <2>. QED BY <2>1
<1>13. ASSUME NEW t \in Tasks, WorkerResume(t) PROVE PublishInv'
  <2>1. worker'.pc # "publish"
    BY <1>13, PassedFx DEF WorkerResume, Upcoming
  <2>. QED BY <2>1
<1>14. ASSUME NEW t \in Tasks, WorkerOrphan(t) PROVE PublishInv'
  <2>1. worker'.pc # "publish"
    BY <1>14, PassedFx DEF WorkerOrphan, Upcoming
  <2>. QED BY <2>1
<1>15. ASSUME NEW t \in Tasks, WorkerReserve(t) PROVE PublishInv'
  <2>1. CASE worker' = Passed(t)
    <3>1. worker'.pc # "publish"
      BY <1>15, <2>1, PassedFx DEF WorkerReserve, Upcoming
    <3>. QED BY <3>1
  <2>2. CASE worker' = [worker EXCEPT !.pc = "publish"]
    <3>1. worker'.plan = worker.plan
      BY <2>2 DEF WorkerRecord
    <3>2. Todo' = Todo
      BY <3>1 DEF Todo
    <3>3. ASSUME NEW u \in Todo, \A v \in Todo : u <= v PROVE ~Active(u)'
      <4>1. u = t
        BY <1>15, <3>3 DEF WorkerReserve, Upcoming, Todo, Tasks
      <4>2. exec[t].pc = "none"
        BY <1>15 DEF WorkerReserve, Active
      <4>3. worker.pc = "loop"
        BY <1>15 DEF WorkerReserve, Upcoming
      <4>4. exec'[t].pc = "none"
        BY <1>a, <4>2, <4>3 DEF ExecsMove, ExecMove, ExecMoveTo
      <4>. QED BY <4>1, <4>4 DEF Active
    <3>. QED BY <3>2, <3>3
  <2>. QED BY <1>15, <2>1, <2>2 DEF WorkerReserve
<1>16. ASSUME NEW t \in Tasks, WorkerPublish(t) PROVE PublishInv'
  <2>1. worker'.pc # "publish"
    BY <1>16 DEF WorkerPublish, WorkerRecord
  <2>. QED BY <2>1
<1>17. CASE Restart
  <2>1. worker'.pc # "publish"
    BY <1>17 DEF Restart, WorkerRecord
  <2>. QED BY <2>1
<1>18. CASE Aside
  <2>1. CASE worker.pc = "publish"
    <3>1. Todo' = Todo /\ worker' = worker
      BY <1>18 DEF Todo, Aside
    <3>2. ASSUME NEW u \in Todo, \A v \in Todo : u <= v PROVE ~Active(u)'
      <4>1. exec[u].pc = "none" /\ u \in Tasks
        BY <2>1, <3>2 DEF Active, Todo
      <4>2. exec'[u].pc = "none"
        BY <1>a, <2>1, <3>1, <4>1 DEF ExecsMove, ExecMove, ExecMoveTo
      <4>. QED BY <4>2 DEF Active
    <3>. QED BY <3>1, <3>2
  <2>2. CASE worker.pc # "publish"
    BY <1>18, <2>2 DEF Aside
  <2>. QED BY <2>1, <2>2
<1>. QED
  BY WorkerOrNot, <1>1, <1>2, <1>3, <1>4, <1>5, <1>6, <1>7, <1>8, <1>9, <1>10, <1>11, <1>12, <1>13,
     <1>14, <1>15, <1>16, <1>17, <1>18
     DEF Worker

LEMMA HeldCompleting ==
  ASSUME TypeOK, Shaped, MintInv, worker.pc = "write", Aside, [Next]_vars,
         NEW u \in Tasks, task[u].st = "completing"
  PROVE  task'[u].st \in {"completing", "terminal"}
<1>b. task \in [Tasks -> TaskRecord] /\ task[u] \in TaskRecord
  BY DEF TypeOK
<1>. USE <1>b
<1>1. CASE WorkerWake
  BY <1>1 DEF WorkerWake
<1>2. CASE WorkerAbandon
  BY <1>2 DEF WorkerAbandon
<1>3. CASE WorkerScan
  BY <1>3 DEF WorkerScan
<1>4. CASE WorkerMarks
  BY <1>4 DEF WorkerMarks
<1>5. CASE WorkerFinalizeScan
  BY <1>5 DEF WorkerFinalizeScan
<1>6. CASE WorkerFinalize
  <2>1. worker'.pc = "finalize"
    BY <1>6 DEF WorkerFinalize, TypeOK, WorkerRecord
  <2>. QED BY <2>1 DEF Aside
<1>7. CASE WorkerIdleScan
  BY <1>7 DEF WorkerIdleScan
<1>8. CASE WorkerSettle
  BY <1>8 DEF WorkerSettle
<1>9. CASE WorkerList
  BY <1>9 DEF WorkerList
<1>10. CASE WorkerSnapshot
  BY <1>10 DEF WorkerSnapshot
<1>11. CASE WorkerLoopEnd
  BY <1>11 DEF WorkerLoopEnd
<1>12. CASE Create
  <2>1. PICK bg, flag : task' = NewTask(NewId, 0, bg, flag)
    BY <1>12 DEF Create, Commit
  <2>2. u # NewId
    BY <1>12, Minted DEF Create, Exists
  <2>. QED BY <2>1, <2>2 DEF NewTask
<1>13. CASE Resume
  BY <1>13 DEF Resume
<1>14. CASE AbortConversation
  <2>1. PICK S : task' = Requested(task, S)
    BY <1>14 DEF AbortConversation, Commit
  <2>. QED BY <2>1 DEF Requested, TaskRecord
<1>15. CASE Close
  BY <1>15 DEF Close
<1>16. CASE Restart
  <2>1. worker'.pc = "wait"
    BY <1>16, RestType DEF Restart
  <2>. QED BY <2>1 DEF Aside
<1>17. CASE WaitIdleCheck
  BY <1>17 DEF WaitIdleCheck
<1>18. CASE WaitIdleRegister
  BY <1>18 DEF WaitIdleRegister
<1>19. CASE WaitIdleDone
  BY <1>19 DEF WaitIdleDone
<1>20. ASSUME NEW t \in Tasks, WorkerSkip(t) PROVE task'[u].st \in {"completing", "terminal"}
  BY <1>20 DEF WorkerSkip
<1>21. ASSUME NEW t \in Tasks, WorkerResume(t) PROVE task'[u].st \in {"completing", "terminal"}
  BY <1>21 DEF WorkerResume, Upcoming
<1>22. ASSUME NEW t \in Tasks, WorkerOrphan(t) PROVE task'[u].st \in {"completing", "terminal"}
  BY <1>22 DEF WorkerOrphan, Upcoming
<1>23. ASSUME NEW t \in Tasks, WorkerReserve(t) PROVE task'[u].st \in {"completing", "terminal"}
  BY <1>23 DEF WorkerReserve, Upcoming
<1>24. ASSUME NEW t \in Tasks, WorkerPublish(t) PROVE task'[u].st \in {"completing", "terminal"}
  BY <1>24 DEF WorkerPublish
<1>25. ASSUME NEW t \in Tasks, ExecBegin(t) PROVE task'[u].st \in {"completing", "terminal"}
  BY <1>25 DEF ExecBegin, Quiet, Commit
<1>26. ASSUME NEW t \in Tasks, ExecReturned(t) PROVE task'[u].st \in {"completing", "terminal"}
  BY <1>26 DEF ExecReturned, Quiet, Commit
<1>27. ASSUME NEW t \in Tasks, ExecSettle(t) PROVE task'[u].st \in {"completing", "terminal"}
  <2>1. PICK o : task' = [task EXCEPT ![t] = Settled(task[t], o)]
    BY <1>27 DEF ExecSettle, Commit, TypeOK
  <2>. QED BY <2>1 DEF Settled, TaskRecord
<1>28. ASSUME NEW t \in Tasks, ExecHandover(t) PROVE task'[u].st \in {"completing", "terminal"}
  BY <1>28 DEF ExecHandover, Commit, TaskRecord
<1>29. ASSUME NEW t \in Tasks, ExecAborted(t) PROVE task'[u].st \in {"completing", "terminal"}
  BY <1>29 DEF ExecAborted, Quiet, Commit
<1>30. ASSUME NEW t \in Tasks, ExecDone(t) PROVE task'[u].st \in {"completing", "terminal"}
  BY <1>30 DEF ExecDone, Quiet, Commit
<1>31. ASSUME NEW t \in Tasks, PhaseCreate(t) PROVE task'[u].st \in {"completing", "terminal"}
  <2>1. PICK flag : task' = NewTask(NewId, t, FALSE, flag)
    BY <1>31 DEF PhaseCreate, Commit
  <2>2. u # NewId
    BY <1>31, Minted DEF PhaseCreate, Exists
  <2>. QED BY <2>1, <2>2 DEF NewTask
<1>32. ASSUME NEW t \in Tasks, PhaseAdvance(t) PROVE task'[u].st \in {"completing", "terminal"}
  BY <1>32 DEF PhaseAdvance, Commit, Accepted
<1>33. ASSUME NEW t \in Tasks, PhaseWait(t) PROVE task'[u].st \in {"completing", "terminal"}
  <2>1. task[t].st = "running" /\ \E r : task' = [task EXCEPT ![t] = r]
    BY <1>33 DEF PhaseWait, Commit, Accepted
  <2>. QED BY <2>1
<1>34. ASSUME NEW t \in Tasks, PhaseEnd(t) PROVE task'[u].st \in {"completing", "terminal"}
  <2>1. task[t].st = "running" /\ \E r : task' = [task EXCEPT ![t] = r]
    BY <1>34 DEF PhaseEnd, Commit, Accepted
  <2>. QED BY <2>1
<1>35. ASSUME NEW t \in Tasks, PhaseReturn(t) PROVE task'[u].st \in {"completing", "terminal"}
  BY <1>35 DEF PhaseReturn, Quiet, Commit
<1>36. ASSUME NEW t \in Tasks, HandlerEnd(t) PROVE task'[u].st \in {"completing", "terminal"}
  <2>1. CASE task[t].st = "running" /\ \E r : task' = [task EXCEPT ![t] = r]
    BY <2>1
  <2>2. CASE task' = task
    BY <2>2
  <2>. QED BY <1>36, <2>1, <2>2 DEF HandlerEnd, Quiet, Commit, Accepted
<1>37. ASSUME NEW t \in Tasks, AbortTask(t) PROVE task'[u].st \in {"completing", "terminal"}
  BY <1>37 DEF AbortTask, Commit, Requested, TaskRecord
<1>38. ASSUME NEW t \in Tasks, AbortBlocked(t) PROVE task'[u].st \in {"completing", "terminal"}
  BY <1>38 DEF AbortBlocked
<1>39. ASSUME NEW t \in Tasks, AbortOrphan(t) PROVE task'[u].st \in {"completing", "terminal"}
  <2>1. task' = [task EXCEPT ![t] = Settled(task[t], "orphaned")]
    BY <1>39 DEF AbortOrphan, Commit, TypeOK
  <2>. QED BY <2>1 DEF Settled, TaskRecord
<1>40. ASSUME NEW t \in Tasks, Install(t) PROVE task'[u].st \in {"completing", "terminal"}
  BY <1>40 DEF Install
<1>41. CASE UNCHANGED vars
  BY <1>41
<1>. QED
  BY <1>1, <1>2, <1>3, <1>4, <1>5, <1>6, <1>7, <1>8, <1>9, <1>10, <1>11, <1>12, <1>13,
     <1>14, <1>15, <1>16, <1>17, <1>18, <1>19, <1>20, <1>21, <1>22, <1>23, <1>24, <1>25, <1>26,
     <1>27, <1>28, <1>29, <1>30, <1>31, <1>32, <1>33, <1>34, <1>35, <1>36, <1>37, <1>38, <1>39,
     <1>40, <1>41
     DEF Next, Worker, Exec, Phase, Callers

LEMMA HeldStays ==
  ASSUME TypeOK, Shaped, MintInv, worker.pc = "write", Aside, [Next]_vars,
         NEW u \in Tasks, task[u].st \in {"completing", "terminal"}
  PROVE  task'[u].st \in {"completing", "terminal"}
<1>1. CASE task[u].st = "completing"
  BY <1>1, HeldCompleting
<1>2. CASE task[u].st = "terminal"
  <2>1. CASE \A v \in Tasks : Keeps(v)
    BY <1>2, <2>1 DEF Keeps, Moves
  <2>2. CASE \E id \in Tasks, o \in 0..TaskBound : Spawned(id, o)
    BY <1>2, <2>2 DEF Spawned, Exists
  <2>. QED BY <2>1, <2>2, MoveStep DEF TasksMove
<1>. QED BY <1>1, <1>2

(* A new task has no child, and an owner above it only if its owner has. *)
LEMMA SpawnedOwners ==
  ASSUME TypeOK, TypeOK', Shaped, MintInv, NEW id \in Tasks, NEW o \in 0..TaskBound, Spawned(id, o)
  PROVE  /\ \A t \in Tasks \ {id} : Owners(task', t) \subseteq Owners(task, t)
         /\ o = 0 => Owners(task', id) = {}
         /\ o # 0 => Owners(task', id) \subseteq {o} \cup Owners(task, o)
<1>1. task \in [Tasks -> TaskRecord] /\ task' \in [Tasks -> TaskRecord]
  BY DEF TypeOK
<1>2. \A a \in Tasks : a # id => task'[a].owner = task[a].owner
  BY DEF Spawned
<1>3. \A a \in Tasks : task[a].owner # id
  <2>1. ASSUME NEW a \in Tasks, task[a].owner = id PROVE FALSE
    BY <2>1, TaskBoundAssumption DEF Shaped, Spawned, Tasks
  <2>. QED BY <2>1
<1>4. task'[id].owner = o /\ o # id
  BY TaskBoundAssumption DEF Spawned, Exists, TakesWork, Live, Tasks
<1>5. PICK U : U = task'
  OBVIOUS
<1>. QED BY <1>1, <1>2, <1>3, <1>4, <1>5, OwnersSpawned

(* What has no live work below keeps none, unless its own phase creates it. *)
LEMMA DrainedStep ==
  ASSUME TypeOK, TypeOK', Shaped, MintInv, TasksMove, NEW t \in Tasks, Exists(t), Drained(t),
         (\A u \in Tasks : Keeps(u)) \/ ~(exec[t].pc = "phase" /\ TakesWork(task[t]))
  PROVE  Drained(t)'
<1>1. CASE \A u \in Tasks : Keeps(u)
  <2>1. \A a \in Tasks : task[a].owner = task'[a].owner /\ (Live(task'[a]) => Live(task[a]))
    BY <1>1 DEF Keeps, Moves
  <2>2. ASSUME NEW c \in Tasks PROVE Owners(task, c) = Owners(task', c)
    BY <2>1, OwnersSame
  <2>. QED BY <2>1, <2>2 DEF Drained, OwnedLive
<1>2. ASSUME NEW id \in Tasks, NEW o \in 0..TaskBound, Spawned(id, o),
             ~(exec[t].pc = "phase" /\ TakesWork(task[t]))
      PROVE  Drained(t)'
  <2>1. /\ \A c \in Tasks \ {id} : Owners(task', c) \subseteq Owners(task, c)
        /\ o = 0 => Owners(task', id) = {}
        /\ o # 0 => Owners(task', id) \subseteq {o} \cup Owners(task, o)
    BY <1>2, SpawnedOwners
  <2>2. \A c \in Tasks : c # id => task'[c] = task[c]
    BY <1>2 DEF Spawned
  <2>3. ASSUME NEW c \in Tasks, Live(task'[c]), t \in Owners(task', c) PROVE FALSE
    <3>1. CASE c # id
      BY <2>1, <2>2, <2>3, <3>1 DEF Drained, OwnedLive
    <3>2. CASE c = id
      <4>1. o # 0 /\ t \in {o} \cup Owners(task, o)
        BY <2>1, <2>3, <3>2
      <4>2. o \in Tasks /\ exec[o].pc = "phase" /\ TakesWork(task[o])
        BY <1>2, <4>1 DEF Spawned
      <4>3. t # o
        BY <1>2, <4>2
      <4>. QED BY <4>1, <4>2, <4>3 DEF Drained, OwnedLive, TakesWork
    <3>. QED BY <3>1, <3>2
  <2>. QED BY <2>3 DEF Drained, OwnedLive
<1>. QED BY <1>1, <1>2 DEF TasksMove

(* A process only loses heirs: they are orphaned, never added. *)
LEMMA HeirsStep ==
  ASSUME TypeOK, TypeOK', Shaped, TasksMove, inherited \subseteq Created, inherited' = inherited
  PROVE  Heirs' \subseteq Heirs /\ inherited' \subseteq Created'
<1>1. ASSUME NEW a \in inherited PROVE a \in Created' /\ (task[a].out = "orphaned" => task'[a].out = "orphaned")
  <2>1. a \in Tasks /\ Exists(a) /\ ShapedRecord(task[a])
    BY <1>1 DEF Created, Shaped
  <2>2. CASE \A u \in Tasks : Keeps(u)
    BY <2>1, <2>2 DEF Keeps, Moves, ShapedRecord, Created, Exists
  <2>3. CASE \E id \in Tasks, o \in 0..TaskBound : Spawned(id, o)
    BY <2>1, <2>3 DEF Spawned, Created, Exists
  <2>. QED BY <2>2, <2>3 DEF TasksMove
<1>. QED BY <1>1 DEF Heirs

LEMMA CleanStep ==
  ASSUME TypeOK, TypeOK', Shaped, MintInv, TasksMove, inherited \subseteq Created, inherited' = inherited,
         \A o \in Tasks : exec[o].pc = "phase" => Clean(o),
         NEW t \in Tasks, Exists(t) => Clean(t), Exists(t)'
  PROVE  Clean(t)'
<1>0. Heirs' \subseteq Heirs
  BY HeirsStep
<1>1. CASE \A u \in Tasks : Keeps(u)
  <2>1. \A a \in Tasks : task[a].owner = task'[a].owner
    BY <1>1 DEF Keeps, Moves
  <2>2. Owners(task, t) = Owners(task', t)
    BY <2>1, OwnersSame
  <2>3. Exists(t)
    BY <1>1 DEF Keeps, Moves, Exists
  <2>. QED BY <1>0, <2>2, <2>3 DEF Clean
<1>2. ASSUME NEW id \in Tasks, NEW o \in 0..TaskBound, Spawned(id, o) PROVE Clean(t)'
  <2>1. /\ \A c \in Tasks \ {id} : Owners(task', c) \subseteq Owners(task, c)
        /\ o = 0 => Owners(task', id) = {}
        /\ o # 0 => Owners(task', id) \subseteq {o} \cup Owners(task, o)
    BY <1>2, SpawnedOwners
  <2>2. CASE t # id
    <3>1. Exists(t)
      BY <1>2, <2>2 DEF Spawned, Exists
    <3>. QED BY <1>0, <2>1, <2>2, <3>1 DEF Clean
  <2>3. CASE t = id
    <3>1. t \notin inherited
      BY <1>2, <2>3 DEF Spawned, Created
    <3>2. o # 0 => o \in Tasks /\ Clean(o)
      BY <1>2 DEF Spawned
    <3>. QED BY <1>0, <2>1, <2>3, <3>1, <3>2 DEF Clean, Heirs
  <2>. QED BY <2>2, <2>3
<1>. QED BY <1>1, <1>2 DEF TasksMove

(* What the worker found ready to end has no live work until it is written. *)
LEMMA ReadyStep ==
  ASSUME WorldFits, TypeOK, TypeOK', Shaped, MintInv, PublishInv, ReadyInv, [Next]_vars
  PROVE  ReadyInv'
<1>a. AtRest.pc = "wait" /\ worker \in WorkerRecord
  BY RestType DEF TypeOK
<1>. USE <1>a DEF ReadyInv
<1>1. CASE WorkerWake
  <2>1. worker'.pc # "write"
    BY <1>1 DEF WorkerWake, WorkerRecord, TypeOK
  <2>. QED BY <2>1
<1>2. CASE WorkerAbandon
  <2>1. worker'.pc # "write"
    BY <1>2 DEF WorkerAbandon, WorkerRecord
  <2>. QED BY <2>1
<1>3. CASE WorkerScan
  <2>1. worker'.pc # "write"
    BY <1>3 DEF WorkerScan, WorkerRecord
  <2>. QED BY <2>1
<1>4. CASE WorkerMarks
  <2>1. worker'.pc # "write"
    BY <1>4 DEF WorkerMarks, WorkerRecord
  <2>. QED BY <2>1
<1>5. CASE WorkerFinalizeScan
  <2>1. worker'.ready = ReadyToEnd(task, World) /\ task' = task
    BY <1>5 DEF WorkerFinalizeScan, WorkerRecord
  <2>2. ASSUME NEW u \in ReadyToEnd(task, World) PROVE u \in Tasks /\ Drained(u) /\ task[u].st = "completing"
    BY <2>2, WorldDrained DEF ReadyToEnd, World, Page
  <2>3. \A u \in ReadyToEnd(task, World) : Drained(u)' /\ task'[u].st \in {"completing", "terminal"}
    BY <2>1, <2>2 DEF Drained
  <2>. QED BY <2>1, <2>3
<1>6. CASE WorkerFinalize
  <2>1. worker'.pc # "write"
    BY <1>6 DEF WorkerFinalize, WorkerRecord
  <2>. QED BY <2>1
<1>7. CASE WorkerIdleScan
  <2>1. worker'.pc # "write"
    BY <1>7 DEF WorkerIdleScan, WorkerRecord
  <2>. QED BY <2>1
<1>8. CASE WorkerSettle
  <2>1. worker'.pc # "write"
    BY <1>8 DEF WorkerSettle, WorkerRecord
  <2>. QED BY <2>1
<1>9. CASE WorkerList
  <2>1. worker'.pc # "write"
    BY <1>9 DEF WorkerList, WorkerRecord
  <2>. QED BY <2>1
<1>10. CASE WorkerSnapshot
  <2>1. worker'.pc # "write"
    BY <1>10 DEF WorkerSnapshot, WorkerRecord
  <2>. QED BY <2>1
<1>11. CASE WorkerLoopEnd
  <2>1. worker'.pc # "write"
    BY <1>11 DEF WorkerLoopEnd, WorkerRecord
  <2>. QED BY <2>1
<1>12. ASSUME NEW t \in Tasks, WorkerSkip(t) PROVE ReadyInv'
  <2>1. worker'.pc # "write"
    BY <1>12, PassedFx DEF WorkerSkip, WorkerRecord, Upcoming
  <2>. QED BY <2>1
<1>13. ASSUME NEW t \in Tasks, WorkerResume(t) PROVE ReadyInv'
  <2>1. worker'.pc # "write"
    BY <1>13, PassedFx DEF WorkerResume, WorkerRecord, Upcoming
  <2>. QED BY <2>1
<1>14. ASSUME NEW t \in Tasks, WorkerOrphan(t) PROVE ReadyInv'
  <2>1. worker'.pc # "write"
    BY <1>14, PassedFx DEF WorkerOrphan, WorkerRecord, Upcoming
  <2>. QED BY <2>1
<1>15. ASSUME NEW t \in Tasks, WorkerReserve(t) PROVE ReadyInv'
  <2>1. worker'.pc # "write"
    BY <1>15, PassedFx DEF WorkerReserve, WorkerRecord, Upcoming
  <2>. QED BY <2>1
<1>16. ASSUME NEW t \in Tasks, WorkerPublish(t) PROVE ReadyInv'
  <2>1. worker'.pc # "write"
    BY <1>16 DEF WorkerPublish, WorkerRecord
  <2>. QED BY <2>1
<1>17. CASE Restart
  <2>1. worker'.pc # "write"
    BY <1>17 DEF Restart, WorkerRecord
  <2>. QED BY <2>1
<1>18. CASE Aside
  <2>1. CASE worker.pc = "write"
    <3>1. worker' = worker /\ TasksMove /\ worker.ready \subseteq Tasks
      BY <1>18, MoveStep DEF Aside, WorkerRecord
    <3>2. ASSUME NEW u \in worker.ready
          PROVE  Drained(u)' /\ task'[u].st \in {"completing", "terminal"}
      <4>1. u \in Tasks /\ Drained(u) /\ task[u].st \in {"completing", "terminal"}
        BY <2>1, <3>1, <3>2
      <4>2. Exists(u) /\ ~TakesWork(task[u])
        BY <4>1 DEF Exists, TakesWork, Live
      <4>3. Drained(u)'
        BY <3>1, <4>1, <4>2, DrainedStep
      <4>4. task'[u].st \in {"completing", "terminal"}
        BY <1>18, <2>1, <4>1, HeldStays
      <4>. QED BY <4>3, <4>4
    <3>. QED BY <3>1, <3>2
  <2>2. CASE worker.pc # "write"
    BY <1>18, <2>2 DEF Aside
  <2>. QED BY <2>1, <2>2
<1>. QED
  BY WorkerOrNot, <1>1, <1>2, <1>3, <1>4, <1>5, <1>6, <1>7, <1>8, <1>9, <1>10, <1>11, <1>12, <1>13,
     <1>14, <1>15, <1>16, <1>17, <1>18
     DEF Worker

(* Restart leaves no invocation and a resting worker. *)
LEMMA RestartFx ==
  ASSUME TypeOK, Restart
  PROVE  /\ \A t \in Tasks : exec'[t].pc = "none" /\ ~Active(t)'
         /\ worker'.pc = "wait" /\ worker'.run = FALSE
         /\ abandoned' = inherited'
         /\ \A a \in inherited' : a \in Created' /\ Live(task'[a])
<1>1. /\ \A t \in Tasks : exec'[t].pc = "none" /\ ~Active(t)'
      /\ worker'.pc = "wait" /\ worker'.run = FALSE /\ abandoned' = inherited'
  BY RestType DEF Restart, Active
<1>2. ASSUME NEW a \in inherited' PROVE a \in Created' /\ Live(task'[a])
  <2>1. a \in Tasks /\ Live(task[a]) /\ task[a] \in TaskRecord
    BY <1>2 DEF Restart, TypeOK
  <2>2. CASE task[a].st = "running"
    <3>1. task'[a] = [task[a] EXCEPT !.st = "pending"]
      BY <2>1, <2>2 DEF Restart
    <3>2. task'[a].st = "pending"
      BY <2>1, <3>1 DEF TaskRecord
    <3>. QED BY <2>1, <3>2 DEF Live, Created, Exists
  <2>3. CASE task[a].st # "running"
    BY <2>1, <2>3 DEF Restart, Live, Created, Exists
  <2>. QED BY <2>2, <2>3
<1>. QED BY <1>1, <1>2

LEMMA NoRestart ==
  ASSUME [Next]_vars, ~Restart
  PROVE  inherited' = inherited /\ (abandoned' = abandoned \/ WorkerAbandon)
<1>1. ASSUME Worker PROVE inherited' = inherited /\ (abandoned' = abandoned \/ WorkerAbandon)
  <2>1. ASSUME NEW t \in Tasks,
               WorkerSkip(t) \/ WorkerResume(t) \/ WorkerOrphan(t) \/ WorkerReserve(t) \/ WorkerPublish(t)
        PROVE  inherited' = inherited /\ abandoned' = abandoned
    BY <2>1 DEF WorkerSkip, WorkerResume, WorkerOrphan, WorkerReserve, WorkerPublish
  <2>2. CASE WorkerAbandon
    BY <2>2 DEF WorkerAbandon
  <2>3. ASSUME WorkerWake \/ WorkerScan \/ WorkerMarks \/ WorkerFinalizeScan \/ WorkerFinalize
        PROVE  inherited' = inherited /\ abandoned' = abandoned
    BY <2>3 DEF WorkerWake, WorkerScan, WorkerMarks, WorkerFinalizeScan, WorkerFinalize
  <2>4. ASSUME WorkerIdleScan \/ WorkerSettle \/ WorkerList \/ WorkerSnapshot \/ WorkerLoopEnd
        PROVE  inherited' = inherited /\ abandoned' = abandoned
    BY <2>4 DEF WorkerIdleScan, WorkerSettle, WorkerList, WorkerSnapshot, WorkerLoopEnd
  <2>. QED BY <1>1, <2>1, <2>2, <2>3, <2>4 DEF Worker
<1>. QED BY <1>1, WorkerOrNot DEF Aside

(* An abort handler, and a fault that may follow it, stay above no live work. *)
LEMMA HandlerStep ==
  ASSUME WorldFits, TypeOK, TypeOK', Shaped, MintInv, PublishInv, ReadyInv, HandlerInv, SweepInv, [Next]_vars
  PROVE  HandlerInv'
<1>1. TasksMove /\ ExecsMove
  BY MoveStep, ExecStep
<1>2. CASE Restart
  BY <1>2, RestartFx DEF HandlerInv
<1>3. ASSUME ~Restart, NEW t \in Tasks
      PROVE  /\ exec'[t].pc \in {"abort", "aborted"} => Drained(t)' /\ task'[t].abort # "none"
             /\ exec'[t].pc = "fault" => t \notin Heirs' \/ Drained(t)'
  <2>1. ExecMove(t)
    BY <1>1 DEF ExecsMove
  <2>2. Heirs' \subseteq Heirs
    BY <1>1, <1>3, NoRestart, HeirsStep DEF SweepInv, HeirsInv
  <2>3. Active(t) => Exists(t)
    BY DEF Shaped
  <2>4. ASSUME exec'[t].pc \in {"abort", "aborted"} PROVE Drained(t)' /\ task'[t].abort # "none"
    <3>1. CASE exec[t].pc \in {"abort", "aborted"}
      <4>1. Drained(t) /\ task[t].abort # "none" /\ Exists(t)
        BY <2>3, <3>1 DEF HandlerInv, Active
      <4>2. Drained(t)'
        BY <1>1, <3>1, <4>1, DrainedStep
      <4>3. task'[t].abort # "none"
        <5>1. CASE \A u \in Tasks : Keeps(u)
          BY <4>1, <5>1 DEF Keeps, Moves
        <5>2. CASE \E id \in Tasks, o \in 0..TaskBound : Spawned(id, o)
          BY <4>1, <5>2 DEF Spawned
        <5>. QED BY <1>1, <5>1, <5>2 DEF TasksMove
      <4>. QED BY <4>2, <4>3
    <3>2. CASE exec[t].pc \notin {"abort", "aborted"}
      <4>1. task' = task /\ Drained(t) /\ task[t].abort # "none"
        BY <2>1, <2>4, <3>2 DEF ExecMove, ExecMoveTo
      <4>. QED BY <4>1 DEF Drained
    <3>. QED BY <3>1, <3>2
  <2>5. ASSUME exec'[t].pc = "fault", t \in Heirs' PROVE Drained(t)'
    <3>1. exec[t].pc \in {"fault", "aborted", "returned"}
      BY <2>1, <2>5 DEF ExecMove, ExecMoveTo
    <3>2. t \in Heirs
      BY <2>2, <2>5
    <3>3. exec[t].pc # "returned"
      BY <3>2 DEF SweepInv, CleanInv, Clean
    <3>4. Drained(t) /\ Exists(t)
      BY <2>3, <3>1, <3>2, <3>3 DEF HandlerInv, Active
    <3>. QED BY <1>1, <3>1, <3>4, DrainedStep
  <2>. QED BY <2>4, <2>5
<1>4. ~Restart => HandlerInv'
  BY <1>3 DEF HandlerInv
<1>. QED BY <1>2, <1>4

(* An outcome of a task's own code is terminal only above no live work. *)
LEMMA HeldStep ==
  ASSUME WorldFits, TypeOK, TypeOK', Shaped, MintInv, ReadyInv, HeldUntilDrained, [Next]_vars
  PROVE  HeldUntilDrained'
<1>1. TasksMove
  BY MoveStep
<1>2. ASSUME NEW t \in Tasks, task'[t].st = "terminal", task'[t].out \notin {"faulted", "orphaned"}
      PROVE  Drained(t)'
  <2>1. CASE task[t].st = "terminal"
    <3>1. task'[t] = task[t]
      <4>1. CASE \A u \in Tasks : Keeps(u)
        BY <2>1, <4>1 DEF Keeps, Moves
      <4>2. CASE \E id \in Tasks, o \in 0..TaskBound : Spawned(id, o)
        BY <1>2, <4>2 DEF Spawned
      <4>. QED BY <1>1, <4>1, <4>2 DEF TasksMove
    <3>2. Drained(t) /\ Exists(t) /\ ~TakesWork(task[t])
      BY <1>2, <2>1, <3>1 DEF HeldUntilDrained, Drained, Exists, TakesWork, Live
    <3>. QED BY <1>1, <3>2, DrainedStep
  <2>2. CASE task[t].st # "terminal"
    <3>1. \A u \in Tasks : Keeps(u)
      BY <1>1, <1>2, <2>2 DEF TasksMove, Spawned
    <3>2. Drained(t) /\ Exists(t)
      BY <1>2, <2>2, <3>1 DEF Keeps, Ends, Moves, Exists
    <3>. QED BY <1>1, <3>1, <3>2, DrainedStep
  <2>. QED BY <2>1, <2>2
<1>. QED BY <1>2 DEF HeldUntilDrained, Drained

(* A pass that reserves is one that began enabled, with nothing left of an   *)
(* earlier process to mark.                                                 *)
LEMMA PassStep ==
  ASSUME TypeOK, PassInv, [Next]_vars
  PROVE  PassInv'
<1>a. AtRest.pc = "wait" /\ AtRest.run = FALSE /\ AtRest \in WorkerRecord /\ worker \in WorkerRecord
  BY RestType DEF TypeOK
<1>. USE <1>a DEF PassInv
<1>1. CASE WorkerWake
  <2>1. PICK pc \in {"abandon", "scan"}, run \in BOOLEAN :
          worker' = [AtRest EXCEPT !.pc = pc, !.run = run] /\ (run /\ pc # "abandon" => abandoned = {})
    BY <1>1 DEF WorkerWake, TypeOK
  <2>2. worker'.pc = pc /\ worker'.run = run
    BY <2>1 DEF WorkerRecord
  <2>. QED BY <1>1, <2>1, <2>2 DEF WorkerWake
<1>2. CASE WorkerAbandon
  BY <1>2 DEF WorkerAbandon, WorkerRecord
<1>3. CASE WorkerScan
  <2>1. worker'.pc \in {"finalize", "marks"} /\ worker'.run = worker.run
    BY <1>3 DEF WorkerScan, WorkerRecord
  <2>. QED BY <1>3, <2>1 DEF WorkerScan
<1>4. CASE WorkerMarks
  BY <1>4 DEF WorkerMarks, WorkerRecord
<1>5. CASE WorkerFinalizeScan
  <2>1. /\ worker'.pc \in {"idle", "list", "wait", "write"} /\ worker'.run = worker.run
        /\ worker'.pc = "list" => worker.run
    BY <1>5 DEF WorkerFinalizeScan, AfterReconcile, WorkerRecord
  <2>. QED BY <1>5, <2>1 DEF WorkerFinalizeScan
<1>6. CASE WorkerFinalize
  BY <1>6 DEF WorkerFinalize, WorkerRecord
<1>7. CASE WorkerIdleScan
  BY <1>7 DEF WorkerIdleScan, WorkerRecord
<1>8. CASE WorkerSettle
  BY <1>8 DEF WorkerSettle, WorkerRecord
<1>9. CASE WorkerList
  BY <1>9 DEF WorkerList, WorkerRecord
<1>10. CASE WorkerSnapshot
  BY <1>10 DEF WorkerSnapshot, WorkerRecord
<1>11. CASE WorkerLoopEnd
  BY <1>11 DEF WorkerLoopEnd, WorkerRecord
<1>12. ASSUME NEW t \in Tasks, WorkerSkip(t) PROVE PassInv'
  BY <1>12, PassedFx DEF WorkerSkip, Upcoming
<1>13. ASSUME NEW t \in Tasks, WorkerResume(t) PROVE PassInv'
  BY <1>13, PassedFx DEF WorkerResume, Upcoming
<1>14. ASSUME NEW t \in Tasks, WorkerOrphan(t) PROVE PassInv'
  BY <1>14, PassedFx DEF WorkerOrphan, Upcoming
<1>15. ASSUME NEW t \in Tasks, WorkerReserve(t) PROVE PassInv'
  <2>0. worker.pc = "loop" /\ abandoned' = abandoned
    BY <1>15 DEF WorkerReserve, Upcoming
  <2>1. CASE worker' = [worker EXCEPT !.pc = "publish"]
    BY <2>0, <2>1 DEF WorkerRecord
  <2>2. CASE worker' = Passed(t)
    BY <2>0, <2>2, PassedFx
  <2>. QED BY <1>15, <2>1, <2>2 DEF WorkerReserve
<1>16. ASSUME NEW t \in Tasks, WorkerPublish(t) PROVE PassInv'
  BY <1>16 DEF WorkerPublish, WorkerRecord
<1>17. CASE Restart
  BY <1>17, RestartFx
<1>18. CASE Aside
  BY <1>18 DEF Aside
<1>. QED
  BY WorkerOrNot, <1>1, <1>2, <1>3, <1>4, <1>5, <1>6, <1>7, <1>8, <1>9, <1>10, <1>11, <1>12, <1>13,
     <1>14, <1>15, <1>16, <1>17, <1>18
     DEF Worker

(* What an earlier process left behind stays marked, and ends above no live  *)
(* work.                                                                    *)
LEMMA HeirsInvStep ==
  ASSUME WorldFits, TypeOK, TypeOK', Shaped, MintInv, PublishInv, ReadyInv, HandlerInv, SweepInv, [Next]_vars
  PROVE  HeirsInv'
<1>0. TasksMove /\ HeirsInv
  BY MoveStep DEF SweepInv
<1>1. CASE Restart
  <2>1. Heirs' \subseteq inherited' /\ abandoned' = inherited'
    BY <1>1, RestartFx DEF Heirs
  <2>2. \A a \in inherited' : a \in Created' /\ task'[a].st # "terminal"
    BY <1>1, RestartFx DEF Live
  <2>. QED BY <2>1, <2>2 DEF HeirsInv
<1>2. CASE ~Restart
  <2>1. inherited' = inherited /\ (abandoned' = abandoned \/ WorkerAbandon)
    BY <1>2, NoRestart
  <2>2. Heirs' \subseteq Heirs /\ inherited' \subseteq Created' /\ inherited \subseteq Created /\ Heirs \subseteq inherited
    BY <1>0, <2>1, HeirsStep DEF HeirsInv, Heirs
  <2>3. abandoned' # {} => abandoned' = inherited'
    BY <1>0, <2>1 DEF HeirsInv, WorkerAbandon
  <2>4. ASSUME NEW a \in Heirs', abandoned' = {}, Live(task'[a]) PROVE task'[a].abort # "none"
    <3>1. a \in Heirs /\ a \in inherited /\ a \in Tasks /\ Exists(a)
      BY <2>2, <2>4 DEF Created
    <3>2. CASE abandoned = {}
      <4>1. CASE \A u \in Tasks : Keeps(u)
        BY <1>0, <2>4, <3>1, <3>2, <4>1 DEF Keeps, Moves, HeirsInv
      <4>2. CASE \E id \in Tasks, o \in 0..TaskBound : Spawned(id, o)
        BY <1>0, <2>4, <3>1, <3>2, <4>2 DEF Spawned, HeirsInv
      <4>. QED BY <1>0, <4>1, <4>2 DEF TasksMove
    <3>3. CASE abandoned # {}
      <4>1. WorkerAbandon /\ a \in abandoned /\ task[a] \in TaskRecord
        BY <1>0, <2>1, <2>4, <3>1, <3>3 DEF HeirsInv, TypeOK
      <4>2. CASE Live(task[a]) /\ task[a].abort = "none"
        <5>1. task'[a] = [task[a] EXCEPT !.abort = "restart"]
          BY <3>1, <4>1, <4>2 DEF WorkerAbandon
        <5>. QED BY <4>1, <5>1 DEF TaskRecord
      <4>3. CASE ~(Live(task[a]) /\ task[a].abort = "none")
        <5>1. task'[a] = task[a]
          BY <3>1, <4>1, <4>3 DEF WorkerAbandon
        <5>. QED BY <2>4, <4>3, <5>1
      <4>. QED BY <4>2, <4>3
    <3>. QED BY <3>2, <3>3
  <2>5. ASSUME NEW a \in Heirs', task'[a].st = "terminal" PROVE Drained(a)'
    <3>1. a \in Heirs /\ a \in Tasks /\ Exists(a) /\ task'[a].out # "orphaned"
      BY <2>2, <2>5 DEF Created, Heirs
    <3>2. CASE task[a].st = "terminal"
      <4>1. Drained(a) /\ ~TakesWork(task[a])
        BY <1>0, <3>1, <3>2 DEF HeirsInv, TakesWork, Live
      <4>. QED BY <1>0, <3>1, <4>1, DrainedStep
    <3>3. CASE task[a].st # "terminal"
      <4>1. \A u \in Tasks : Keeps(u)
        BY <1>0, <2>5, <3>1, <3>3 DEF TasksMove, Spawned
      <4>2. Drained(a) \/ exec[a].pc = "fault"
        BY <2>5, <3>1, <3>3, <4>1 DEF Keeps, Ends
      <4>3. Drained(a)
        BY <3>1, <4>2 DEF HandlerInv
      <4>. QED BY <1>0, <3>1, <4>1, <4>3, DrainedStep
    <3>. QED BY <3>2, <3>3
  <2>. QED BY <2>2, <2>3, <2>4, <2>5 DEF HeirsInv
<1>. QED BY <1>1, <1>2

(* Live work below a live heir gets a mark from the worker's scan. *)
LEMMA ScanCovers ==
  ASSUME WorldFits, TypeOK, Shaped, SweepInv, WorkerScan, worker.run
  PROVE  \A t \in Tasks : Live(task[t]) /\ ~Clean(t) =>
           task[t].abort # "none" \/ worker'.marks[t] # "none"
<1>1. abandoned = {}
  BY DEF WorkerScan, SweepInv, PassInv
<1>. DEFINE stage(u) == IF u \in FailFastTargets(task, World) THEN "request" ELSE Cascade(task, World)[u]
            marks == [u \in Tasks |-> IF Marked(task[u].abort, stage(u)) # task[u].abort
                                        THEN stage(u) ELSE "none"]
<1>2. worker'.marks = marks
  BY DEF WorkerScan, TypeOK, WorkerRecord
<1>3. ASSUME NEW t \in Tasks, Live(task[t]), ~Clean(t), task[t].abort = "none" PROVE marks[t] # "none"
  <2>1. PICK a \in {t} \cup Owners(task, t) : a \in Heirs
    BY <1>3 DEF Clean
  <2>2. a \in Tasks /\ Exists(a)
    BY <2>1 DEF Heirs, SweepInv, HeirsInv, Created
  <2>3. Live(task[a])
    <3>1. CASE task[a].st = "terminal"
      <4>1. Drained(a)
        BY <2>1, <3>1 DEF SweepInv, HeirsInv
      <4>2. a # t
        BY <1>3, <3>1 DEF Live
      <4>. QED BY <1>3, <2>1, <4>1, <4>2 DEF Drained, OwnedLive
    <3>. QED BY <2>2, <3>1 DEF Live, Exists
  <2>4. task[a].abort # "none"
    BY <1>1, <2>1, <2>3 DEF SweepInv, HeirsInv
  <2>5. a \in IntentAbove(task, t)
    BY <1>3, <2>1, <2>3, <2>4 DEF IntentAbove, CancellationIntent
  <2>6. t \in World
    BY <1>3, TaskBoundAssumption, SchedulerAssumption DEF World, Page, Live, Tasks, WorldFits
  <2>7. Cascade(task, World)[t] \in {"restart", "request"}
    BY <1>3, <2>5, <2>6 DEF Cascade
  <2>8. stage(t) \in {"restart", "request"}
    BY <2>7
  <2>. HIDE DEF stage
  <2>9. Marked(task[t].abort, stage(t)) = stage(t)
    BY <1>3, <2>8 DEF Marked
  <2>. QED BY <1>3, <2>8, <2>9
<1>. QED BY <1>2, <1>3

(* Work below an heir is marked, and stays marked, before anything runs. *)
LEMMA SweptStays ==
  ASSUME TypeOK, TypeOK', Shaped, MintInv, TasksMove, SweepInv, inherited' = inherited,
         NEW t \in Tasks, Live(task'[t]), ~Clean(t)'
  PROVE  Live(task[t]) /\ ~Clean(t) /\ (task[t].abort # "none" => task'[t].abort # "none")
<1>1. Exists(t) /\ ~Clean(t)
  BY CleanStep DEF SweepInv, HeirsInv, CleanInv, Live, Exists
<1>2. CASE \A u \in Tasks : Keeps(u)
  BY <1>1, <1>2 DEF Keeps, Moves
<1>3. CASE \E id \in Tasks, o \in 0..TaskBound : Spawned(id, o)
  BY <1>1, <1>3 DEF Spawned
<1>. QED BY <1>2, <1>3 DEF TasksMove

LEMMA MarksStep ==
  ASSUME WorldFits, TypeOK, TypeOK', Shaped, MintInv, SweepInv, [Next]_vars
  PROVE  MarksInv'
<1>a. /\ AtRest.pc = "wait" /\ AtRest.run = FALSE /\ AtRest \in WorkerRecord /\ worker \in WorkerRecord
      /\ MarksInv
  BY RestType DEF TypeOK, SweepInv
<1>b. TasksMove
  BY MoveStep
<1>. USE <1>a DEF MarksInv
<1>1. CASE WorkerWake
  <2>1. worker'.pc # "marks"
    BY <1>1 DEF WorkerWake, WorkerRecord
  <2>. QED BY <2>1
<1>2. CASE WorkerAbandon
  <2>1. worker'.pc # "marks"
    BY <1>2 DEF WorkerAbandon, WorkerRecord
  <2>. QED BY <2>1
<1>3. CASE WorkerScan
  <2>1. worker'.run = worker.run /\ task' = task /\ inherited' = inherited
    BY <1>3 DEF WorkerScan, WorkerRecord
  <2>2. \A u \in Tasks : Clean(u)' = Clean(u)
    BY <2>1 DEF Clean, Heirs
  <2>. QED BY <1>3, <2>1, <2>2, ScanCovers
<1>4. CASE WorkerMarks
  <2>1. worker'.pc # "marks"
    BY <1>4 DEF WorkerMarks, WorkerRecord
  <2>. QED BY <2>1
<1>5. CASE WorkerFinalizeScan
  <2>1. worker'.pc # "marks"
    BY <1>5 DEF WorkerFinalizeScan, WorkerRecord, AfterReconcile
  <2>. QED BY <2>1
<1>6. CASE WorkerFinalize
  <2>1. worker'.pc # "marks"
    BY <1>6 DEF WorkerFinalize, WorkerRecord
  <2>. QED BY <2>1
<1>7. CASE WorkerIdleScan
  <2>1. worker'.pc # "marks"
    BY <1>7 DEF WorkerIdleScan, WorkerRecord
  <2>. QED BY <2>1
<1>8. CASE WorkerSettle
  <2>1. worker'.pc # "marks"
    BY <1>8 DEF WorkerSettle, WorkerRecord
  <2>. QED BY <2>1
<1>9. CASE WorkerList
  <2>1. worker'.pc # "marks"
    BY <1>9 DEF WorkerList, WorkerRecord
  <2>. QED BY <2>1
<1>10. CASE WorkerSnapshot
  <2>1. worker'.pc # "marks"
    BY <1>10 DEF WorkerSnapshot, WorkerRecord
  <2>. QED BY <2>1
<1>11. CASE WorkerLoopEnd
  <2>1. worker'.pc # "marks"
    BY <1>11 DEF WorkerLoopEnd, WorkerRecord
  <2>. QED BY <2>1
<1>12. ASSUME NEW t \in Tasks, WorkerSkip(t) PROVE MarksInv'
  <2>1. worker'.pc # "marks"
    BY <1>12, PassedFx DEF WorkerSkip, WorkerRecord, Upcoming
  <2>. QED BY <2>1
<1>13. ASSUME NEW t \in Tasks, WorkerResume(t) PROVE MarksInv'
  <2>1. worker'.pc # "marks"
    BY <1>13, PassedFx DEF WorkerResume, WorkerRecord, Upcoming
  <2>. QED BY <2>1
<1>14. ASSUME NEW t \in Tasks, WorkerOrphan(t) PROVE MarksInv'
  <2>1. worker'.pc # "marks"
    BY <1>14, PassedFx DEF WorkerOrphan, WorkerRecord, Upcoming
  <2>. QED BY <2>1
<1>15. ASSUME NEW t \in Tasks, WorkerReserve(t) PROVE MarksInv'
  <2>1. worker'.pc # "marks"
    BY <1>15, PassedFx DEF WorkerReserve, WorkerRecord, Upcoming
  <2>. QED BY <2>1
<1>16. ASSUME NEW t \in Tasks, WorkerPublish(t) PROVE MarksInv'
  <2>1. worker'.pc # "marks"
    BY <1>16 DEF WorkerPublish, WorkerRecord
  <2>. QED BY <2>1
<1>17. CASE Restart
  <2>1. worker'.pc # "marks"
    BY <1>17 DEF Restart, WorkerRecord
  <2>. QED BY <2>1
<1>18. CASE Aside
  <2>1. worker' = worker /\ inherited' = inherited
    BY <1>18 DEF Aside
  <2>2. ASSUME NEW u \in Tasks, worker.run, worker.pc = "marks", Live(task'[u]), ~Clean(u)'
        PROVE  task'[u].abort # "none" \/ worker.marks[u] # "none"
    <3>1. Live(task[u]) /\ ~Clean(u) /\ (task[u].abort # "none" => task'[u].abort # "none")
      BY <1>b, <2>1, <2>2, SweptStays
    <3>. QED BY <2>2, <3>1
  <2>. QED BY <2>1, <2>2
<1>. QED
  BY WorkerOrNot, <1>1, <1>2, <1>3, <1>4, <1>5, <1>6, <1>7, <1>8, <1>9, <1>10, <1>11, <1>12, <1>13,
     <1>14, <1>15, <1>16, <1>17, <1>18
     DEF Worker

LEMMA SweptStep ==
  ASSUME WorldFits, TypeOK, TypeOK', Shaped, MintInv, PublishInv, SweepInv, [Next]_vars
  PROVE  SweptInv'
<1>a. /\ AtRest.pc = "wait" /\ AtRest.run = FALSE /\ AtRest \in WorkerRecord /\ worker \in WorkerRecord
      /\ SweptInv
  BY RestType DEF TypeOK, SweepInv
<1>b. TasksMove /\ ExecsMove
  BY MoveStep, ExecStep
<1>c. ASSUME Swept, ~Restart PROVE Swept'
  <2>1. inherited' = inherited
    BY <1>c, NoRestart
  <2>2. ASSUME NEW u \in Tasks, Live(task'[u]), ~Clean(u)' PROVE task'[u].abort # "none"
    <3>1. Live(task[u]) /\ ~Clean(u) /\ (task[u].abort # "none" => task'[u].abort # "none")
      BY <1>b, <2>1, <2>2, SweptStays
    <3>. QED BY <1>c, <3>1 DEF Swept
  <2>. QED BY <2>2 DEF Swept
<1>d. ASSUME NEW u \in Tasks, Active(u)', ~Restart PROVE Swept'
  <2>1. Active(u) \/ worker.pc = "publish"
    BY <1>b, <1>d DEF ExecsMove, ExecMove, ExecMoveTo, Active
  <2>2. Swept
    BY <1>a, <2>1 DEF SweptInv, SweepInv, PassInv
  <2>. QED BY <1>c, <1>d, <2>2
<1>e. ASSUME worker.run, worker.pc \notin {"wait", "abandon", "scan", "marks"}, ~Restart PROVE Swept'
  BY <1>a, <1>c, <1>e DEF SweptInv
<1>f. CASE Restart
  BY <1>f, RestartFx DEF SweptInv
<1>g. CASE WorkerScan /\ ~Restart
  <2>1. worker'.run = worker.run /\ task' = task /\ inherited' = inherited
    BY <1>a, <1>g DEF WorkerScan, WorkerRecord
  <2>2. ASSUME worker.run, worker'.pc # "marks" PROVE Swept'
    <3>1. worker'.marks = NoMarks
      BY <1>a, <1>g, <2>2 DEF WorkerScan, WorkerRecord
    <3>2. Swept
      BY <1>g, <2>2, <3>1, ScanCovers, RestType DEF Swept
    <3>. QED BY <1>c, <1>g, <3>2
  <2>. QED BY <1>d, <1>g, <2>1, <2>2 DEF SweptInv
<1>h. CASE WorkerMarks /\ ~Restart
  <2>1. worker'.run = worker.run /\ inherited' = inherited
    BY <1>a, <1>h DEF WorkerMarks, WorkerRecord
  <2>2. ASSUME worker.run PROVE Swept'
    <3>1. ASSUME NEW u \in Tasks, Live(task'[u]), ~Clean(u)' PROVE task'[u].abort # "none"
      <4>1. Live(task[u]) /\ ~Clean(u)
        BY <1>b, <2>1, <3>1, SweptStays
      <4>2. task[u].abort # "none" \/ worker.marks[u] # "none"
        BY <1>h, <2>2, <4>1 DEF SweepInv, MarksInv, WorkerMarks
      <4>3. task'[u] = [task[u] EXCEPT !.abort = Marked(task[u].abort, worker.marks[u])]
        BY <1>h, <4>1 DEF WorkerMarks, Commit, MarkCommit
      <4>4. task[u] \in TaskRecord /\ task[u].abort \in Marks /\ worker.marks[u] \in Marks
        BY <1>a DEF TypeOK, TaskRecord, WorkerRecord
      <4>5. Marked(task[u].abort, worker.marks[u]) # "none"
        BY <4>2, <4>4, MarkedMark
      <4>. QED BY <4>3, <4>4, <4>5 DEF TaskRecord
    <3>. QED BY <3>1 DEF Swept
  <2>. QED BY <1>d, <1>h, <2>1, <2>2 DEF SweptInv
<1>i. CASE WorkerWake /\ ~Restart
  <2>1. worker'.pc \in {"abandon", "scan"}
    BY <1>a, <1>i DEF WorkerWake, WorkerRecord
  <2>. QED BY <1>d, <1>i, <2>1 DEF SweptInv
<1>j. CASE ~Restart /\ ~WorkerScan /\ ~WorkerMarks /\ ~WorkerWake
  <2>1. \/ worker'.run = worker.run /\ worker.pc \notin {"wait", "abandon", "scan", "marks"}
        \/ worker' = AtRest \/ worker' = worker
    <3>1. ASSUME NEW t \in Tasks,
                 WorkerSkip(t) \/ WorkerResume(t) \/ WorkerOrphan(t) \/ WorkerReserve(t) \/ WorkerPublish(t)
          PROVE  worker'.run = worker.run /\ worker.pc \in {"loop", "publish"}
      <4>1. CASE WorkerPublish(t)
        BY <1>a, <4>1 DEF WorkerPublish, WorkerRecord
      <4>2. CASE WorkerReserve(t)
        <5>1. worker.pc = "loop"
          BY <4>2 DEF WorkerReserve, Upcoming
        <5>2. CASE worker' = [worker EXCEPT !.pc = "publish"]
          BY <1>a, <5>1, <5>2 DEF WorkerRecord
        <5>3. CASE worker' = Passed(t)
          BY <5>1, <5>3, PassedFx
        <5>. QED BY <4>2, <5>2, <5>3 DEF WorkerReserve
      <4>3. CASE WorkerSkip(t) \/ WorkerResume(t) \/ WorkerOrphan(t)
        BY <4>3, PassedFx DEF WorkerSkip, WorkerResume, WorkerOrphan, Upcoming
      <4>. QED BY <3>1, <4>1, <4>2, <4>3
    <3>2. ASSUME WorkerFinalizeScan \/ WorkerFinalize \/ WorkerIdleScan \/ WorkerSettle \/ WorkerList \/ WorkerSnapshot
          PROVE  worker'.run = worker.run /\ worker.pc \in {"finalize", "write", "idle", "settle", "list", "snapshot"}
      BY <1>a, <3>2 DEF WorkerFinalizeScan, WorkerFinalize, WorkerIdleScan, WorkerSettle, WorkerList, WorkerSnapshot,
                        WorkerRecord
    <3>3. ASSUME WorkerAbandon \/ WorkerLoopEnd PROVE worker' = AtRest
      BY <3>3 DEF WorkerAbandon, WorkerLoopEnd
    <3>. QED BY <1>j, <3>1, <3>2, <3>3, WorkerOrNot DEF Worker, Aside
  <2>2. ASSUME worker'.run, worker'.pc \notin {"wait", "abandon", "scan", "marks"} PROVE Swept'
    BY <1>a, <1>e, <1>j, <2>1, <2>2
  <2>. QED BY <1>d, <1>j, <2>2 DEF SweptInv
<1>. QED BY <1>f, <1>g, <1>h, <1>i, <1>j

LEMMA CleanInvStep ==
  ASSUME TypeOK, TypeOK', Shaped, MintInv, PublishInv, SweepInv, [Next]_vars
  PROVE  CleanInv'
<1>1. TasksMove /\ ExecsMove
  BY MoveStep, ExecStep
<1>2. CASE Restart
  BY <1>2, RestartFx DEF CleanInv
<1>3. ASSUME ~Restart, NEW t \in Tasks, exec'[t].pc \in {"phase", "returned", "handover"} PROVE Clean(t)'
  <2>1. inherited' = inherited
    BY <1>3, NoRestart
  <2>2. Clean(t) /\ Exists(t)
    <3>1. CASE exec[t].pc \in {"phase", "returned", "handover"}
      BY <3>1 DEF SweepInv, CleanInv, Shaped, Active
    <3>2. CASE exec[t].pc \notin {"phase", "returned", "handover"}
      <4>1. exec[t].pc = "begin" /\ Live(task[t]) /\ task[t].abort = "none"
        BY <1>1, <1>3, <3>2 DEF ExecsMove, ExecMove, ExecMoveTo
      <4>2. Swept
        BY <4>1 DEF SweepInv, SweptInv, Active
      <4>. QED BY <4>1, <4>2 DEF Swept, Live, Exists
    <3>. QED BY <3>1, <3>2
  <2>3. Exists(t)'
    BY <1>1, <2>2 DEF TasksMove, Keeps, Moves, Spawned, Exists
  <2>. QED BY <1>1, <2>1, <2>2, <2>3, CleanStep DEF SweepInv, HeirsInv, CleanInv
<1>4. ~Restart => CleanInv'
  BY <1>3 DEF CleanInv
<1>. QED BY <1>2, <1>4

(* The first state. *)
LEMMA InitInv ==
  ASSUME Init
  PROVE  TypeOK /\ SchedulerInv /\ HeldUntilDrained /\ OneInvocation
<1>1. NoTask \in TaskRecord /\ NoTask.st = "none" /\ NoTask.owner = 0 /\ ShapedRecord(NoTask)
  BY TaskBoundAssumption DEF NoTask, TaskRecord, Statuses, Outcomes, Marks, ShapedRecord
<1>2. \A t \in Tasks : task[t] = NoTask /\ exec[t].pc = "none" /\ worker.plan[t] = "none"
  BY RestType DEF Init
<1>3. worker.pc = "wait" /\ worker.run = FALSE /\ worker \in WorkerRecord
  BY RestType DEF Init
<1>4. TypeOK
  <2>1. task \in [Tasks -> TaskRecord] /\ exec \in [Tasks -> ExecRecord]
    BY <1>1, RestType DEF Init
  <2>2. def \in [Tasks -> Definitions \cup {0}]
    BY SchedulerAssumption DEF Init
  <2>. QED BY <1>3, <2>1, <2>2 DEF Init, TypeOK
<1>5. Shaped
  BY <1>1, <1>2 DEF Shaped, Active, Init
<1>6. MintInv
  <2>1. Created = {} /\ 1..0 = {} /\ 0 \in 0..TaskBound
    BY <1>1, <1>2, TaskBoundAssumption DEF Created, Exists
  <2>. QED BY <2>1 DEF MintInv
<1>7. ReadyInv /\ PublishInv /\ HandlerInv /\ HeldUntilDrained
  BY <1>1, <1>2, <1>3 DEF ReadyInv, PublishInv, HandlerInv, HeldUntilDrained
<1>8. SweepInv
  <2>1. inherited = {} /\ abandoned = {} /\ Heirs = {}
    BY DEF Init, Heirs
  <2>. QED BY <1>2, <1>3, <2>1 DEF SweepInv, PassInv, HeirsInv, MarksInv, SweptInv, CleanInv, Active
<1>. QED BY <1>4, <1>5, <1>6, <1>7, <1>8 DEF SchedulerInv, OneInvocation, Init

(* Whatever pages a scan is cut into, records, threads and the registry keep *)
(* their shape (create_task, commit_with, run_worker, run_task_execution).  *)
CoreInv == TypeOK /\ Shaped /\ MintInv /\ PublishInv /\ OneInvocation

THEOREM TypeCorrect == Spec => [](TypeOK /\ Shaped /\ MintInv /\ PublishInv /\ OneInvocation)
<1>1. Init => CoreInv
  BY InitInv DEF CoreInv, SchedulerInv
<1>2. CoreInv /\ [Next]_vars => CoreInv'
  <2>. SUFFICES ASSUME CoreInv, [Next]_vars PROVE CoreInv'
    OBVIOUS
  <2>. USE DEF CoreInv
  <2>1. TypeOK'
    BY TypeStep
  <2>2. Shaped' /\ MintInv'
    BY ShapedStep
  <2>3. PublishInv'
    BY PublishStep
  <2>4. OneInvocation'
    BY DoubledStep DEF OneInvocation
  <2>. QED BY <2>1, <2>2, <2>3, <2>4
<1>. QED BY <1>1, <1>2, PTL DEF Spec, CoreInv

(* No task ever has two invocations: schedule_step commits a reservation     *)
(* after it saw none and publishes before anything else can.                *)
THEOREM NeverDoubled == Spec => []OneInvocation
<1>. QED BY TypeCorrect, PTL

(* An abort request is never taken back, nor downgraded to a restart mark,   *)
(* by reconcile, abort_task, mark_abandoned_on_restart or any other commit.  *)
THEOREM RequestsStand == Spec => RequestStands
<1>1. TypeOK /\ Shaped /\ MintInv /\ PublishInv /\ OneInvocation /\ [Next]_vars
        => [\A t \in Tasks : task[t].abort = "request" => task'[t].abort = "request"]_task
  <2>. SUFFICES ASSUME TypeOK, Shaped, MintInv, [Next]_vars, NEW t \in Tasks, task[t].abort = "request"
                PROVE  task'[t].abort = "request"
    OBVIOUS
  <2>1. CASE \A u \in Tasks : Keeps(u)
    BY <2>1 DEF Keeps, Moves
  <2>2. ASSUME NEW id \in Tasks, NEW o \in 0..TaskBound, Spawned(id, o) PROVE task'[t].abort = "request"
    <3>1. t # id
      BY <2>2 DEF Spawned, Exists, Shaped, ShapedRecord
    <3>. QED BY <2>2, <3>1 DEF Spawned
  <2>. QED BY <2>1, <2>2, MoveStep DEF TasksMove
<1>. QED BY <1>1, TypeCorrect, PTL DEF Spec, RequestStands

(* The inductive invariant of the scheduler, while every record fits the     *)
(* page of reconcile and run_task_execution.                                *)
FullInv == TypeOK /\ SchedulerInv /\ HeldUntilDrained

THEOREM SchedulerCorrect ==
  ASSUME WorldFits
  PROVE  Spec => [](TypeOK /\ SchedulerInv /\ HeldUntilDrained)
<1>1. Init => FullInv
  BY InitInv DEF FullInv
<1>2. FullInv /\ [Next]_vars => FullInv'
  <2>. SUFFICES ASSUME FullInv, [Next]_vars PROVE FullInv'
    OBVIOUS
  <2>. USE DEF FullInv, SchedulerInv
  <2>1. TypeOK'
    BY TypeStep
  <2>2. Shaped' /\ MintInv'
    BY ShapedStep
  <2>3. PublishInv'
    BY PublishStep
  <2>4. ReadyInv'
    BY <2>1, ReadyStep
  <2>5. HandlerInv'
    BY <2>1, HandlerStep
  <2>6. HeldUntilDrained'
    BY <2>1, HeldStep
  <2>7. PassInv'
    BY PassStep DEF SweepInv
  <2>8. HeirsInv'
    BY <2>1, HeirsInvStep
  <2>9. MarksInv'
    BY <2>1, MarksStep
  <2>10. SweptInv'
    BY <2>1, SweptStep
  <2>11. CleanInv'
    BY <2>1, CleanInvStep
  <2>. QED BY <2>1, <2>2, <2>3, <2>4, <2>5, <2>6, <2>7, <2>8, <2>9, <2>10, <2>11 DEF SweepInv
<1>. QED BY <1>1, <1>2, PTL DEF Spec, FullInv

(* An abort handler runs only above no live work: run_task_execution reads    *)
(* the world before it starts one, and nothing creates work below a marked   *)
(* task.                                                                     *)
THEOREM HandlersBottomUp ==
  ASSUME WorldFits
  PROVE  Spec => []AbortBottomUp
<1>1. TypeOK /\ SchedulerInv /\ HeldUntilDrained => AbortBottomUp
  BY DEF SchedulerInv, HandlerInv, AbortBottomUp, Drained
<1>. QED BY <1>1, SchedulerCorrect, PTL

(* An outcome that a task's own code committed ends the task only when the   *)
(* work below has ended (commit_with, finalize_completing).                  *)
THEOREM OutcomesHeld ==
  ASSUME WorldFits
  PROVE  Spec => []HeldUntilDrained
<1>. QED BY SchedulerCorrect, PTL

(* Work that an earlier process left flagged, and what it owns, never runs a *)
(* phase again (mark_abandoned_on_restart, reconcile).                       *)
THEOREM AbandonedStayDown ==
  ASSUME WorldFits
  PROVE  Spec => []AbandonedNotResumed
<1>1. TypeOK /\ SchedulerInv /\ HeldUntilDrained => AbandonedNotResumed
  BY DEF SchedulerInv, SweepInv, CleanInv, AbandonedNotResumed
<1>. QED BY <1>1, SchedulerCorrect, PTL
=============================================================================
