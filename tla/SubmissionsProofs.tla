-------------------------- MODULE SubmissionsProofs --------------------------
(***************************************************************************)
(* Theorems about Submissions, for every number of submissions, rounds and  *)
(* restarts, every set of drafts and waiters and every setting.             *)
(***************************************************************************)
EXTENDS Submissions, FiniteSetTheorems, WellFoundedInduction, TLAPS

(* A commit publishes every settlement that a waiter may be registered for. *)
LEMMA StoreKeeps ==
  ASSUME WaitersInv, NEW new, Store(new), waiting' = waiting
  PROVE  WaitersInv'
BY DEF WaitersInv, NoMissedSettlement, Store

LEMMA WaitersStep == WaitersInv /\ [Next]_vars => WaitersInv'
<1>. SUFFICES ASSUME WaitersInv, [Next]_vars PROVE WaitersInv'
  OBVIOUS
<1>1. CASE Submit
  BY <1>1, StoreKeeps DEF Submit
<1>2. CASE AbortConversation
  BY <1>2, StoreKeeps DEF AbortConversation
<1>3. CASE Restart
  BY <1>3 DEF Restart, WaitersInv, NoMissedSettlement
<1>4. ASSUME NEW i \in Ids, AbortSubmission(i) PROVE WaitersInv'
  BY <1>4, StoreKeeps DEF AbortSubmission
<1>5. ASSUME NEW i \in Ids, Wait(i) \/ CancelWait(i) \/ Observe(i) PROVE WaitersInv'
  BY <1>5 DEF Wait, CancelWait, Observe, WaitersInv, NoMissedSettlement
<1>6. ASSUME NEW t \in Gens, Generation(t) PROVE WaitersInv'
  <2>1. ASSUME NEW new, Commits(t, new) PROVE WaitersInv'
    BY <2>1, StoreKeeps DEF Commits
  <2>. QED BY <1>6, <2>1
           DEF Generation, Prepare, RequestFails, RequestOverflows, RequestRetries, Retry, RequestTools,
               RequestAnswers, FinishTools
<1>7. ASSUME NEW t \in Gens, Scheduled(t) PROVE WaitersInv'
  BY <1>7, StoreKeeps DEF Scheduled, Reserve, Resume, KidsEnd, Unwind, Abort
<1>8. ASSUME NEW t \in Gens, Fault(t) PROVE WaitersInv'
  BY <1>8, StoreKeeps DEF Fault
<1>9. CASE UNCHANGED vars
  BY <1>9 DEF vars, WaitersInv, NoMissedSettlement
<1>. QED BY <1>1, <1>2, <1>3, <1>4, <1>5, <1>6, <1>7, <1>8, <1>9 DEF Next

(* Registry::wait and observe: no registered waiter misses its submission's *)
(* settlement, whichever commit settles it and however late it is published.*)
THEOREM NoSettlementMissed == Spec => []NoMissedSettlement
<1>1. Init => WaitersInv
  BY DEF Init, WaitersInv, NoMissedSettlement
<1>2. WaitersInv => NoMissedSettlement
  BY DEF WaitersInv
<1>. QED BY <1>1, <1>2, WaitersStep, PTL DEF Spec

(* What the helpers leave alone. *)
Beside(x, d) == Shape(x) /\ x.gen = d.gen /\ x.run = d.run

LEMMA SettleFx ==
  ASSUME NEW d, Shape(d), NEW S, NEW st, NEW reason, NEW x, x = Settle(d, S, st, reason)
  PROVE  Beside(x, d)
BY DEF Settle, Shape, Beside

LEMMA InboxFx ==
  ASSUME NEW d, Shape(d), NEW q, NEW x, x = [d EXCEPT !.inbox = q]
  PROVE  Beside(x, d)
BY DEF Shape, Beside

LEMMA CreatedFx ==
  ASSUME NEW d, Shape(d), NEW r, NEW x, x = Created(d, r)
  PROVE  Beside(x, d)
BY DEF Shape, Created, Beside

LEMMA PlaceUserFx ==
  ASSUME NEW d, Shape(d), NEW i, NEW x, x = PlaceUser(d, i)
  PROVE  Beside(x, d)
BY DEF Shape, PlaceUser, Beside

LEMMA PlaceWriteFx ==
  ASSUME NEW d, Shape(d), NEW i, NEW x, x = PlaceWrite(d, i)
  PROVE  Beside(x, d)
<1>1. CASE Stale(d, i)
  <2>1. x = Settle(d, {i}, "unanswered", "stale")
    BY <1>1 DEF PlaceWrite
  <2>. QED BY <2>1, SettleFx
<1>2. CASE ~Stale(d, i)
  <2>1. x = [d EXCEPT !.sub[i].st = "done", !.log = Append(@, i), !.head = HeadAfter(d, i)]
    BY <1>2 DEF PlaceWrite
  <2>. QED BY <2>1 DEF Shape, Beside
<1>. QED BY <1>1, <1>2

LEMMA BoundaryFx ==
  ASSUME NEW d, Shape(d), NEW q, NEW final, NEW x, x = Boundary(d, q, final)
  PROVE  Beside(x, d)
<1>1. PICK a, b, c, e : x = [d EXCEPT !.sub = a, !.log = b, !.head = c, !.inbox = e]
  BY DEF Boundary
<1>. QED BY <1>1 DEF Shape, Beside

(* The tasks and the run that a stored state names. *)
Fresh == [NoGen EXCEPT !.st = "pending"]
Over(outcome) == [NoGen EXCEPT !.st = "terminal", !.out = outcome]
Outcomes == {"faulted", "aborted", "failed", "completed"}

LEMMA NewRecords ==
  /\ Fresh \in GenRecord /\ Fresh.st = "pending" /\ Fresh.out = "none"
  /\ \A o \in Outcomes : Over(o) \in GenRecord /\ Over(o).st = "terminal" /\ Over(o).out = o
BY DEF Fresh, Over, NoGen, GenRecord, Outcomes

LEMMA RunIs ==
  ASSUME NEW t, NEW ins, NEW r, r = [task |-> t, inputs |-> ins]
  PROVE  r.task = t /\ r = [task |-> r.task, inputs |-> r.inputs]
OBVIOUS

LEMMA NoRunIs == NoRun.task = 0 /\ NoRun = [task |-> NoRun.task, inputs |-> NoRun.inputs]
BY DEF NoRun

LEMMA StartRunFx ==
  ASSUME NEW d, Shape(d), NEW ins, NEW n, n = NextGen(d), NEW x, x = StartRun(d, ins)
  PROVE  /\ Shape(x) /\ x.gen = [d.gen EXCEPT ![n] = Fresh]
         /\ x.run.task = n /\ x.run = [task |-> n, inputs |-> ins]
<1>1. PICK r : r = [task |-> n, inputs |-> ins]
  OBVIOUS
<1>2. x = [d EXCEPT !.gen[n] = Fresh, !.run = r]
  BY <1>1 DEF StartRun, Fresh
<1>3. r.task = n /\ r = [task |-> r.task, inputs |-> r.inputs]
  BY <1>1, RunIs
<1>4. PICK g : g = [d.gen EXCEPT ![n] = Fresh]
  OBVIOUS
<1>5. x = [d EXCEPT !.gen = g, !.run = r]
  BY <1>2, <1>4 DEF Shape
<1>6. x.gen = g /\ x.run = r /\ x = [sub |-> x.sub, inbox |-> x.inbox, head |-> x.head, log |-> x.log,
                                     run |-> x.run, gen |-> x.gen]
  BY <1>5 DEF Shape
<1>. QED BY <1>1, <1>3, <1>4, <1>6 DEF Shape

LEMMA JoinRunFx ==
  ASSUME NEW d, Shape(d), NEW t, NEW users, NEW x, x = JoinRun(d, t, users)
  PROVE  Shape(x) /\ x.gen = d.gen /\ x.run.task = d.run.task
<1>1. CASE d.run.task = t
  <2>1. PICK r : r = [d.run EXCEPT !.inputs = @ \o users]
    OBVIOUS
  <2>2. x = [d EXCEPT !.run = r]
    BY <1>1, <2>1 DEF JoinRun, Shape
  <2>3. r.task = d.run.task /\ r = [task |-> r.task, inputs |-> r.inputs]
    BY <2>1 DEF Shape
  <2>. QED BY <2>2, <2>3 DEF Shape
<1>2. CASE d.run.task # t
  BY <1>2 DEF JoinRun
<1>. QED BY <1>1, <1>2

LEMMA EndRunFx ==
  ASSUME NEW d, Shape(d), NEW t, NEW st, NEW reason, NEW x, x = EndRun(d, t, st, reason)
  PROVE  /\ Shape(x) /\ x.gen = d.gen
         /\ d.run.task = t => x.run = NoRun /\ x.run.task = 0
         /\ d.run.task # t => x.run = d.run
<1>1. CASE d.run.task = t
  <2>1. PICK y : y = Settle(d, Items(d.run.inputs), st, reason)
    OBVIOUS
  <2>2. Beside(y, d)
    BY <2>1, SettleFx
  <2>3. x = [y EXCEPT !.run = NoRun]
    BY <1>1, <2>1 DEF EndRun
  <2>. QED BY <1>1, <2>2, <2>3, NoRunIs DEF Beside, Shape
<1>2. CASE d.run.task # t
  BY <1>2 DEF EndRun
<1>. QED BY <1>1, <1>2

LEMMA EndsFx ==
  ASSUME NEW d, Shape(d), NEW t, NEW o, NEW x, x = Ends(d, t, o)
  PROVE  Shape(x) /\ x.gen = [d.gen EXCEPT ![t] = Over(o)] /\ x.run = d.run
BY DEF Ends, Over, Shape

(* A task has the number of tasks before it. *)
LEMMA NextGenFx ==
  ASSUME NEW d, TasksOk(d), NEW n, n = NextGen(d), n \in Gens
  PROVE  d.gen[n].st = "none" /\ \A u \in Gens : u < n => d.gen[u].st # "none"
<1>. DEFINE U == {t \in Gens : d.gen[t].st # "none"}
<1>0. PICK N \in Nat : N = SubmissionBound + RoundBound /\ Gens = 1..N
  BY SubmissionsAssumption DEF Gens
<1>1. IsFiniteSet(Gens) /\ IsFiniteSet(U) /\ Cardinality(U) \in Nat
  <2>1. IsFiniteSet(Gens)
    BY <1>0, FS_Interval
  <2>2. IsFiniteSet(U)
    BY <2>1, FS_Subset
  <2>. QED BY <2>1, <2>2, FS_CardinalityType
<1>2. n = Cardinality(U) + 1 /\ n \in 1..N
  BY <1>0 DEF NextGen
<1>3. d.gen[n].st = "none"
  <2>. SUFFICES ASSUME d.gen[n].st # "none" PROVE FALSE
    OBVIOUS
  <2>1. 1..n \subseteq U
    <3>1. ASSUME NEW k \in 1..n PROVE k \in Gens /\ d.gen[k].st # "none"
      <4>1. k \in Gens /\ n \in Gens /\ (k = n \/ k < n)
        BY <1>0, <1>2
      <4>. QED BY <4>1 DEF TasksOk
    <3>. QED BY <3>1
  <2>2. Cardinality(1..n) <= Cardinality(U)
    BY <1>1, <2>1, FS_Subset
  <2>3. Cardinality(1..n) = n
    BY <1>2, FS_Interval
  <2>. QED BY <1>1, <1>2, <2>2, <2>3
<1>4. ASSUME NEW u \in Gens, u < n PROVE d.gen[u].st # "none"
  <2>. SUFFICES ASSUME d.gen[u].st = "none" PROVE FALSE
    OBVIOUS
  <2>1. u \in 1..N /\ u - 1 \in Nat
    BY <1>0
  <2>2. U \subseteq 1..(u - 1)
    BY <1>0, <1>4, <2>1 DEF TasksOk
  <2>3. Cardinality(U) <= Cardinality(1..(u - 1)) /\ Cardinality(1..(u - 1)) = u - 1
    <3>1. IsFiniteSet(1..(u - 1)) /\ Cardinality(1..(u - 1)) = u - 1
      BY <2>1, FS_Interval
    <3>. QED BY <2>2, <3>1, FS_Subset
  <2>. QED BY <1>1, <1>2, <1>4, <2>1, <2>3
<1>. QED BY <1>3, <1>4

LEMMA KeepsTasks ==
  ASSUME NEW d, TasksOk(d), NEW x, Beside(x, d)
  PROVE  TasksOk(x)
BY DEF TasksOk, Beside

LEMMA BesideTwice ==
  ASSUME NEW d, NEW y, NEW x, Beside(y, d), Beside(x, y)
  PROVE  Beside(x, d)
BY DEF Beside

(* A record of a task changes, and neither begins nor ends it. *)
LEMMA TouchesTasks ==
  ASSUME NEW d, TasksOk(d), NEW x, Shape(x), x.run = d.run, x.gen \in [Gens -> GenRecord],
         \A t \in Gens : /\ LiveGen(x.gen[t]) <=> LiveGen(d.gen[t])
                         /\ x.gen[t].out = d.gen[t].out
                         /\ x.gen[t].st = "none" <=> d.gen[t].st = "none"
  PROVE  TasksOk(x)
<1>1. \A t \in Gens : x.gen[t].out = "faulted" => x.gen[t].st = "terminal"
  BY DEF TasksOk, LiveGen
<1>2. NoRun.task = 0 /\ (d.run # NoRun => d.run.task \in Gens)
  BY NoRunIs DEF TasksOk
<1>. QED BY <1>1, <1>2 DEF TasksOk

Same(g, h) ==
  /\ LiveGen(g) <=> LiveGen(h)
  /\ g.out = h.out
  /\ g.st = "none" <=> h.st = "none"

LEMMA TouchesOne ==
  ASSUME NEW d, TasksOk(d), NEW t \in Gens, NEW g \in GenRecord, Same(g, d.gen[t]),
         NEW x, Shape(x), x.gen = [d.gen EXCEPT ![t] = g], x.run = d.run
  PROVE  TasksOk(x)
<1>1. d.gen \in [Gens -> GenRecord]
  BY DEF TasksOk
<1>2. x.gen \in [Gens -> GenRecord] /\ \A u \in Gens : x.gen[u] = IF u = t THEN g ELSE d.gen[u]
  BY <1>1
<1>3. \A u \in Gens : /\ LiveGen(x.gen[u]) <=> LiveGen(d.gen[u])
                      /\ x.gen[u].out = d.gen[u].out
                      /\ x.gen[u].st = "none" <=> d.gen[u].st = "none"
  BY <1>2 DEF Same
<1>. QED BY <1>2, <1>3, TouchesTasks

LEMMA NextGenPositive ==
  ASSUME NEW d
  PROVE  NextGen(d) # 0
<1>. DEFINE U == {t \in Gens : d.gen[t].st # "none"}
<1>1. IsFiniteSet(Gens)
  <2>1. SubmissionBound + RoundBound \in Nat
    BY SubmissionsAssumption
  <2>. QED BY <2>1, FS_Interval DEF Gens
<1>2. IsFiniteSet(U)
  BY <1>1, FS_Subset
<1>3. Cardinality(U) \in Nat
  BY <1>2, FS_CardinalityType
<1>4. NextGen(d) = Cardinality(U) + 1
  BY DEF NextGen
<1>. QED BY <1>3, <1>4

(* An idle conversation starts a run. *)
LEMMA StartsTasks ==
  ASSUME NEW d, TasksOk(d), d.run = NoRun, NEW ins, NEW x, x = StartRun(d, ins), x.run.task \in Gens \cup {0}
  PROVE  TasksOk(x)
<1>1. PICK n : n = NextGen(d)
  OBVIOUS
<1>2. /\ Shape(d) /\ d.gen \in [Gens -> GenRecord]
      /\ \A t \in Gens : ~LiveGen(d.gen[t])
  <2>1. d.run.task = 0 /\ 0 \notin Gens
    BY NoRunIs DEF Gens
  <2>. QED BY <2>1 DEF TasksOk
<1>3. /\ Shape(x) /\ x.gen = [d.gen EXCEPT ![n] = Fresh]
      /\ x.run.task = n /\ x.run = [task |-> n, inputs |-> ins]
  BY <1>1, <1>2, StartRunFx
<1>4. n \in Gens /\ n # 0
  BY <1>1, <1>3, NextGenPositive
<1>5. d.gen[n].st = "none" /\ \A u \in Gens : u < n => d.gen[u].st # "none"
  BY <1>1, <1>4, NextGenFx
<1>6. x.gen \in [Gens -> GenRecord] /\ \A u \in Gens : x.gen[u] = IF u = n THEN Fresh ELSE d.gen[u]
  BY <1>2, <1>3, <1>4, NewRecords
<1>7. LiveGen(x.gen[n]) /\ \A u \in Gens : u # n => ~LiveGen(x.gen[u])
  BY <1>2, <1>4, <1>6, NewRecords DEF LiveGen
<1>8. ASSUME NEW t \in Gens, NEW u \in Gens, u < t, x.gen[t].st # "none" PROVE x.gen[u].st # "none"
  <2>1. CASE t = n
    BY <1>5, <1>6, <1>8, <2>1, NewRecords
  <2>2. CASE t # n
    BY <1>6, <1>8, <2>2, NewRecords DEF TasksOk
  <2>. QED BY <2>1, <2>2
<1>9. \A t \in Gens : x.gen[t].out = "faulted" => x.gen[t].st = "terminal"
  BY <1>6, NewRecords DEF TasksOk
<1>. QED BY <1>3, <1>4, <1>6, <1>7, <1>8, <1>9 DEF TasksOk

(* The task of the run ends, and a successor takes over. *)
LEMMA SucceedsTasks ==
  ASSUME NEW d, TasksOk(d), NEW t \in Gens, LiveGen(d.gen[t]), NEW y, Shape(y), y.gen = d.gen,
         NEW ins, NEW z, z = StartRun(y, ins), NEW o \in Outcomes, o # "faulted", NEW x, x = Ends(z, t, o),
         x.run.task \in Gens \cup {0}
  PROVE  TasksOk(x)
<1>1. PICK n : n = NextGen(y)
  OBVIOUS
<1>a. n = NextGen(d)
  BY <1>1 DEF NextGen
<1>2. /\ d.gen \in [Gens -> GenRecord]
      /\ \A u \in Gens : u # t => ~LiveGen(d.gen[u])
  BY DEF TasksOk
<1>3. /\ Shape(z) /\ z.gen = [d.gen EXCEPT ![n] = Fresh]
      /\ z.run.task = n /\ z.run = [task |-> n, inputs |-> ins]
  BY <1>1, StartRunFx
<1>b. Shape(x) /\ x.gen = [z.gen EXCEPT ![t] = Over(o)] /\ x.run = z.run
  BY <1>3, EndsFx
<1>4. n \in Gens /\ n # 0
  BY <1>1, <1>3, <1>b, NextGenPositive
<1>5. d.gen[n].st = "none" /\ \A u \in Gens : u < n => d.gen[u].st # "none"
  BY <1>a, <1>4, NextGenFx
<1>c. n # t
  BY <1>5 DEF LiveGen
<1>d. z.gen \in [Gens -> GenRecord] /\ \A u \in Gens : z.gen[u] = IF u = n THEN Fresh ELSE d.gen[u]
  BY <1>2, <1>3, <1>4, NewRecords
<1>6. /\ x.gen \in [Gens -> GenRecord]
      /\ \A u \in Gens : x.gen[u] = IF u = t THEN Over(o) ELSE IF u = n THEN Fresh ELSE d.gen[u]
  BY <1>b, <1>d, NewRecords
<1>7. LiveGen(x.gen[n]) /\ \A u \in Gens : u # n => ~LiveGen(x.gen[u])
  BY <1>2, <1>4, <1>6, <1>c, NewRecords DEF LiveGen
<1>8. ASSUME NEW a \in Gens, NEW u \in Gens, u < a, x.gen[a].st # "none" PROVE x.gen[u].st # "none"
  <2>0. x.gen[u].st = "none" => d.gen[u].st = "none"
    BY <1>6, NewRecords
  <2>1. CASE a = n
    BY <1>5, <1>8, <2>0, <2>1
  <2>2. CASE a # n
    <3>1. d.gen[a].st # "none"
      BY <1>6, <1>8, <2>2, NewRecords DEF LiveGen
    <3>. QED BY <1>8, <2>0, <3>1 DEF TasksOk
  <2>. QED BY <2>1, <2>2
<1>9. \A a \in Gens : x.gen[a].out = "faulted" => x.gen[a].st = "terminal"
  BY <1>6, NewRecords DEF TasksOk
<1>. QED BY <1>3, <1>4, <1>6, <1>7, <1>8, <1>9, <1>b DEF TasksOk

(* The task of the run ends: with its run, or by a fault alone. *)
LEMMA EndsTasks ==
  ASSUME NEW d, TasksOk(d), NEW t \in Gens, LiveGen(d.gen[t]), NEW y, Shape(y), y.gen = d.gen,
         NEW o \in Outcomes, (o # "faulted" /\ y.run = NoRun) \/ (o = "faulted" /\ y.run = d.run),
         NEW x, x = Ends(y, t, o)
  PROVE  TasksOk(x)
<1>1. Shape(x) /\ x.gen = [d.gen EXCEPT ![t] = Over(o)] /\ x.run = y.run
  BY EndsFx
<1>2. /\ d.gen \in [Gens -> GenRecord] /\ d.run.task = t /\ d.run.task \in Gens \cup {0}
      /\ \A u \in Gens : u # t => ~LiveGen(d.gen[u])
  BY DEF TasksOk
<1>3. /\ x.gen \in [Gens -> GenRecord] /\ \A u \in Gens : x.gen[u] = IF u = t THEN Over(o) ELSE d.gen[u]
  BY <1>1, <1>2, NewRecords
<1>4. \A u \in Gens : ~LiveGen(x.gen[u])
  BY <1>2, <1>3, NewRecords DEF LiveGen
<1>5. ASSUME NEW a \in Gens, NEW u \in Gens, u < a, x.gen[a].st # "none" PROVE x.gen[u].st # "none"
  <2>1. d.gen[a].st # "none"
    BY <1>3, <1>5, NewRecords DEF LiveGen
  <2>2. d.gen[u].st # "none"
    BY <1>5, <2>1 DEF TasksOk
  <2>. QED BY <1>3, <2>2, NewRecords
<1>6. \A a \in Gens : x.gen[a].out = "faulted" => x.gen[a].st = "terminal"
  BY <1>3, NewRecords DEF TasksOk
<1>7. /\ x.run.task \in Gens \cup {0} /\ (x.run.task = 0 => x.run = NoRun)
      /\ x.run # NoRun => x.gen[x.run.task].out = "faulted"
  <2>1. CASE o # "faulted" /\ y.run = NoRun
    BY <1>1, <2>1, NoRunIs
  <2>2. CASE o = "faulted" /\ y.run = d.run
    <3>1. x.run = d.run /\ x.gen[t].out = "faulted"
      BY <1>1, <1>3, <2>2, NewRecords
    <3>. QED BY <1>2, <3>1 DEF TasksOk
  <2>. QED BY <2>1, <2>2
<1>. QED BY <1>1, <1>3, <1>4, <1>5, <1>6, <1>7 DEF TasksOk

(* admit_submission. *)
LEMMA AdmitTasks ==
  ASSUME NEW d, TasksOk(d), NEW r, NEW x, x = Admit(d, r), x.run.task \in Gens \cup {0}
  PROVE  TasksOk(x)
<1>0. Shape(d)
  BY DEF TasksOk
<1>1. PICK id, c, q : id = NextId(d) /\ c = Created(d, [r EXCEPT !.st = "queued"]) /\ q = Append(d.inbox, id)
  OBVIOUS
<1>2. Beside(c, d) /\ Shape(c)
  BY <1>0, <1>1, CreatedFx DEF Beside
<1>3. TasksOk(c) /\ c.run = d.run
  BY <1>2, KeepsTasks DEF Beside
<1>4. \/ x = PlaceWrite(c, id)
      \/ x = [c EXCEPT !.inbox = q]
      \/ d.run = NoRun /\ x = StartIfUsers(Boundary(c, q, TRUE), Users(c, q, TRUE))
      \/ d.run = NoRun /\ x = StartRun(PlaceUser(c, id), <<id>>)
  BY <1>1 DEF Admit
<1>5. CASE x = PlaceWrite(c, id)
  <2>1. Beside(x, c)
    BY <1>2, <1>5, PlaceWriteFx
  <2>. QED BY <1>3, <2>1, KeepsTasks
<1>6. CASE x = [c EXCEPT !.inbox = q]
  <2>1. Beside(x, c)
    BY <1>2, <1>6, InboxFx
  <2>. QED BY <1>3, <2>1, KeepsTasks
<1>7. CASE d.run = NoRun /\ x = StartIfUsers(Boundary(c, q, TRUE), Users(c, q, TRUE))
  <2>1. PICK b, us : b = Boundary(c, q, TRUE) /\ us = Users(c, q, TRUE)
    OBVIOUS
  <2>2. Beside(b, c)
    BY <1>2, <2>1, BoundaryFx
  <2>3. TasksOk(b) /\ b.run = NoRun
    BY <1>3, <1>7, <2>2, KeepsTasks DEF Beside
  <2>4. x = b \/ x = StartRun(b, us)
    BY <1>7, <2>1 DEF StartIfUsers
  <2>. QED BY <2>3, <2>4, StartsTasks
<1>8. CASE d.run = NoRun /\ x = StartRun(PlaceUser(c, id), <<id>>)
  <2>1. PICK b, us : b = PlaceUser(c, id) /\ us = <<id>>
    OBVIOUS
  <2>2. Beside(b, c)
    BY <1>2, <2>1, PlaceUserFx
  <2>3. TasksOk(b) /\ b.run = NoRun
    BY <1>3, <1>8, <2>2, KeepsTasks DEF Beside
  <2>4. x = StartRun(b, us)
    BY <1>8, <2>1
  <2>. QED BY <2>3, <2>4, StartsTasks
<1>. QED BY <1>4, <1>5, <1>6, <1>7, <1>8

(* Callers and crashes. *)
LEMMA CallersTasks ==
  ASSUME TasksOk(db), Submit \/ AbortConversation \/ Restart \/ \E i \in Ids : AbortSubmission(i)
  PROVE  TasksOk(db')
<1>0. PICK d : d = db
  OBVIOUS
<1>a. TasksOk(d) /\ Shape(d) /\ d.gen \in [Gens -> GenRecord]
  BY <1>0 DEF TasksOk
<1>1. CASE Submit
  <2>1. PICK r, x : x = Admit(d, r) /\ Store(x)
    BY <1>0, <1>1 DEF Submit
  <2>. QED BY <1>a, <2>1, AdmitTasks DEF Store
<1>2. CASE \E i \in Ids : AbortSubmission(i)
  <2>1. PICK i \in Ids : AbortSubmission(i)
    BY <1>2
  <2>2. PICK y : y = Settle(d, {i}, "unanswered", "aborted")
    OBVIOUS
  <2>3. PICK q, x : x = [y EXCEPT !.inbox = q] /\ db' = x
    BY <1>0, <2>1, <2>2 DEF AbortSubmission, Store
  <2>4. Beside(y, d)
    BY <1>a, <2>2, SettleFx
  <2>5. Beside(x, y)
    BY <2>3, <2>4, InboxFx DEF Beside
  <2>. QED BY <1>a, <2>3, <2>4, <2>5, KeepsTasks
<1>3. CASE AbortConversation
  <2>1. PICK w, x : w = Withdrawn(d) /\ x = [w EXCEPT !.gen = MarkedGens(d)] /\ db' = x
    BY <1>0, <1>3 DEF AbortConversation, Store
  <2>2. PICK y, q : /\ y = Settle(d, {i \in Items(d.inbox) : d.sub[i].kind \in Inputs}, "unanswered", "aborted")
                    /\ w = [y EXCEPT !.inbox = q]
    BY <2>1 DEF Withdrawn
  <2>3. Beside(y, d)
    BY <1>a, <2>2, SettleFx
  <2>4. Beside(w, y)
    BY <2>2, <2>3, InboxFx DEF Beside
  <2>5. Beside(w, d)
    BY <2>3, <2>4, BesideTwice
  <2>6. PICK g : g = MarkedGens(d)
    OBVIOUS
  <2>7. Shape(x) /\ x.gen = g /\ x.run = d.run
    BY <2>1, <2>5, <2>6 DEF Beside, Shape
  <2>8. g = [t \in Gens |-> IF LiveGen(d.gen[t]) THEN [d.gen[t] EXCEPT !.mark = TRUE] ELSE d.gen[t]]
    BY <2>6 DEF MarkedGens
  <2>9. ASSUME NEW t \in Gens
        PROVE  /\ g[t] \in GenRecord
               /\ LiveGen(g[t]) <=> LiveGen(d.gen[t])
               /\ g[t].out = d.gen[t].out
               /\ g[t].st = "none" <=> d.gen[t].st = "none"
    <3>1. PICK h \in GenRecord : h = d.gen[t]
      BY <1>a
    <3>2. PICK k : k = [h EXCEPT !.mark = TRUE]
      OBVIOUS
    <3>3. k \in GenRecord /\ k.st = h.st /\ k.out = h.out
      BY <3>2 DEF GenRecord
    <3>4. g[t] = k \/ g[t] = h
      BY <2>8, <3>1, <3>2
    <3>. QED BY <3>1, <3>3, <3>4 DEF LiveGen
  <2>10. g \in [Gens -> GenRecord]
    BY <2>8, <2>9
  <2>11. TasksOk(x)
    BY <1>a, <2>7, <2>9, <2>10, TouchesTasks
  <2>. QED BY <2>1, <2>11
<1>4. CASE Restart
  <2>1. PICK g : g = [t \in Gens |-> IF d.gen[t].st = "running" THEN [d.gen[t] EXCEPT !.st = "pending"] ELSE d.gen[t]]
    OBVIOUS
  <2>2. PICK x : x = [d EXCEPT !.gen = g] /\ db' = x
    BY <1>0, <1>4, <1>a, <2>1 DEF Restart, Shape
  <2>3. Shape(x) /\ x.gen = g /\ x.run = d.run
    BY <1>a, <2>2 DEF Shape
  <2>9. ASSUME NEW t \in Gens
        PROVE  /\ g[t] \in GenRecord
               /\ LiveGen(g[t]) <=> LiveGen(d.gen[t])
               /\ g[t].out = d.gen[t].out
               /\ g[t].st = "none" <=> d.gen[t].st = "none"
    <3>1. PICK h \in GenRecord : h = d.gen[t]
      BY <1>a
    <3>2. PICK k : k = [h EXCEPT !.st = "pending"]
      OBVIOUS
    <3>3. k \in GenRecord /\ k.st = "pending" /\ k.out = h.out
      BY <3>2 DEF GenRecord
    <3>4. (h.st = "running" /\ g[t] = k) \/ g[t] = h
      BY <2>1, <3>1, <3>2
    <3>. QED BY <3>1, <3>3, <3>4 DEF LiveGen
  <2>10. g \in [Gens -> GenRecord]
    BY <2>1, <2>9
  <2>11. TasksOk(x)
    BY <1>a, <2>3, <2>9, <2>10, TouchesTasks
  <2>. QED BY <2>2, <2>11
<1>. QED BY <1>1, <1>2, <1>3, <1>4

(* One record of a stored state is replaced. *)
LEMMA RecordFx ==
  ASSUME NEW d, TasksOk(d), NEW t \in Gens, NEW g \in GenRecord, Same(g, d.gen[t]),
         NEW x, x = [d EXCEPT !.gen[t] = g]
  PROVE  TasksOk(x)
<1>1. Shape(x) /\ x.gen = [d.gen EXCEPT ![t] = g] /\ x.run = d.run
  BY DEF TasksOk, Shape
<1>. QED BY <1>1, TouchesOne

LEMMA HeadFx ==
  ASSUME NEW d, Shape(d), NEW h, NEW x, x = [d EXCEPT !.head = h]
  PROVE  Beside(x, d)
BY DEF Shape, Beside

(* What the scheduler does with a task. *)
LEMMA ScheduledTasks ==
  ASSUME TasksOk(db), NEW t \in Gens, Scheduled(t) \/ Fault(t)
  PROVE  TasksOk(db')
<1>0. PICK d : d = db
  OBVIOUS
<1>a. TasksOk(d) /\ Shape(d) /\ d.gen \in [Gens -> GenRecord]
  BY <1>0 DEF TasksOk
<1>b. PICK g \in GenRecord : g = d.gen[t]
  BY <1>a
<1>1. ASSUME LiveGen(g), NEW s \in {"running", "pending"}, Store([db EXCEPT !.gen[t].st = s])
      PROVE  TasksOk(db')
  <2>1. PICK h : h = [g EXCEPT !.st = s]
    OBVIOUS
  <2>2. h \in GenRecord /\ h.st = s /\ h.out = g.out
    BY <2>1 DEF GenRecord
  <2>3. PICK x : x = [d EXCEPT !.gen[t] = h]
    OBVIOUS
  <2>4. db' = x
    BY <1>0, <1>1, <1>b, <2>1, <2>3 DEF Store
  <2>5. Same(h, d.gen[t])
    BY <1>1, <1>b, <2>2 DEF Same, LiveGen
  <2>. QED BY <1>a, <2>2, <2>3, <2>4, <2>5, RecordFx
<1>2. CASE Reserve(t)
  BY <1>0, <1>1, <1>2, <1>b DEF Reserve
<1>3. CASE Resume(t)
  BY <1>0, <1>1, <1>3, <1>b DEF Resume, LiveGen
<1>4. CASE KidsEnd(t)
  <2>1. ASSUME NEW k \in {"done", "failed"}, NEW y, TasksOk(y), y.gen = d.gen, db' = [y EXCEPT !.gen[t].kids = k]
        PROVE  TasksOk(db')
    <3>1. PICK h : h = [g EXCEPT !.kids = k]
      OBVIOUS
    <3>2. h \in GenRecord /\ h.st = g.st /\ h.out = g.out
      BY <3>1 DEF GenRecord
    <3>3. PICK x : x = [y EXCEPT !.gen[t] = h]
      OBVIOUS
    <3>4. db' = x
      BY <1>b, <2>1, <3>1, <3>3
    <3>5. Same(h, y.gen[t])
      BY <1>b, <2>1, <3>2 DEF Same, LiveGen
    <3>. QED BY <2>1, <3>2, <3>3, <3>4, <3>5, RecordFx
  <2>2. CASE Store([db EXCEPT !.gen[t].kids = "failed"])
    BY <1>0, <1>a, <2>1, <2>2 DEF Store
  <2>3. ASSUME NEW h, Store([db EXCEPT !.head = h, !.gen[t].kids = "done"]) PROVE TasksOk(db')
    <3>1. PICK y : y = [d EXCEPT !.head = h]
      OBVIOUS
    <3>2. TasksOk(y) /\ y.gen = d.gen
      BY <1>a, <3>1, HeadFx, KeepsTasks DEF Beside
    <3>3. db' = [y EXCEPT !.gen[t].kids = "done"]
      BY <1>0, <2>3, <3>1 DEF Store
    <3>. QED BY <2>1, <3>2, <3>3
  <2>. QED BY <1>4, <2>2, <2>3 DEF KidsEnd
<1>5. ASSUME LiveGen(g), Store(Ends(db, t, "faulted")) PROVE TasksOk(db')
  <2>1. PICK x : x = Ends(d, t, "faulted")
    OBVIOUS
  <2>2. db' = x
    BY <1>0, <1>5, <2>1 DEF Store
  <2>3. TasksOk(x)
    BY <1>a, <1>b, <1>5, <2>1, EndsTasks DEF Outcomes
  <2>. QED BY <2>2, <2>3
<1>6. CASE Unwind(t)
  <2>1. LiveGen(g)
    BY <1>0, <1>6, <1>b DEF Unwind, LiveGen
  <2>2. Store(Ends(db, t, "faulted")) \/ Store(db)
    BY <1>6 DEF Unwind
  <2>. QED BY <1>5, <2>1, <2>2 DEF Store
<1>7. CASE Fault(t)
  BY <1>0, <1>5, <1>7, <1>b DEF Fault, LiveGen
<1>8. CASE Abort(t)
  <2>1. LiveGen(g) /\ d.run.task = t
    BY <1>0, <1>8, <1>a, <1>b DEF Abort, LiveGen, TasksOk
  <2>2. PICK y : y = EndRun(d, t, "unanswered", "aborted")
    OBVIOUS
  <2>3. Shape(y) /\ y.gen = d.gen /\ y.run = NoRun
    BY <1>a, <2>1, <2>2, EndRunFx
  <2>4. PICK x : x = Ends(y, t, "aborted")
    OBVIOUS
  <2>5. TasksOk(x)
    BY <1>a, <1>b, <2>1, <2>3, <2>4, EndsTasks DEF Outcomes
  <2>6. db' = x
    BY <1>0, <1>8, <2>2, <2>4 DEF Abort, Store
  <2>. QED BY <2>5, <2>6
<1>. QED BY <1>2, <1>3, <1>4, <1>6, <1>7, <1>8 DEF Scheduled

(* The phases of a generation task. *)
LEMMA GenerationTasks ==
  ASSUME TasksOk(db), NEW t \in Gens, Generation(t)
  PROVE  TasksOk(db')
<1>0. PICK d : d = db
  OBVIOUS
<1>a. TasksOk(d) /\ Shape(d) /\ d.gen \in [Gens -> GenRecord]
  BY <1>0 DEF TasksOk
<1>b. PICK g \in GenRecord : g = d.gen[t]
  BY <1>a
<1>c. g.st = "running" /\ LiveGen(g) /\ d.run.task = t
  <2>1. g.st = "running"
    BY <1>0, <1>b DEF Generation, Prepare, RequestFails, RequestOverflows, RequestRetries, Retry, RequestTools,
                      RequestAnswers, FinishTools, Phase
  <2>. QED BY <1>a, <1>b, <2>1 DEF LiveGen, TasksOk
<1>d. \A x : Commits(t, x) => db' = x /\ x.run.task \in Gens \cup {0}
  BY DEF Commits, Store
<1>1. ASSUME NEW h \in GenRecord, h.st \in {"running", "waiting"}, h.out = g.out, db' = [d EXCEPT !.gen[t] = h]
      PROVE  TasksOk(db')
  <2>1. Same(h, d.gen[t])
    BY <1>1, <1>b, <1>c DEF Same, LiveGen
  <2>. QED BY <1>a, <1>1, <2>1, RecordFx
<1>2. ASSUME NEW cp \in {"no", "threshold", "overflow"}, NEW ph \in {"prepare", "tools"}, Commits(t, Parks(db, t, ph, cp))
      PROVE  TasksOk(db')
  <2>1. PICK h : h = [g EXCEPT !.st = "waiting", !.phase = ph, !.kids = "live", !.cp = cp]
    OBVIOUS
  <2>2. h \in GenRecord /\ h.st = "waiting" /\ h.out = g.out
    BY <2>1 DEF GenRecord
  <2>3. db' = [d EXCEPT !.gen[t] = h]
    BY <1>0, <1>2, <1>b, <1>d, <2>1 DEF Parks
  <2>. QED BY <1>1, <2>2, <2>3
<1>3. ASSUME Commits(t, ModelError(db, t)) PROVE TasksOk(db')
  <2>2. PICK y : y = EndRun(d, t, "unanswered", "model_error")
    OBVIOUS
  <2>3. Shape(y) /\ y.gen = d.gen /\ y.run = NoRun
    BY <1>a, <1>c, <2>2, EndRunFx
  <2>4. PICK x : x = Ends(y, t, "failed")
    OBVIOUS
  <2>5. TasksOk(x)
    BY <1>a, <1>b, <1>c, <2>3, <2>4, EndsTasks DEF Outcomes
  <2>6. db' = x
    BY <1>0, <1>3, <1>d, <2>2, <2>4 DEF ModelError
  <2>. QED BY <2>5, <2>6
<1>4. ASSUME NEW p \in {"retry", "tools"}, Commits(t, [db EXCEPT !.gen[t].phase = p]) PROVE TasksOk(db')
  <2>1. PICK h : h = [g EXCEPT !.phase = p]
    OBVIOUS
  <2>2. h \in GenRecord /\ h.st = g.st /\ h.out = g.out
    BY <2>1 DEF GenRecord
  <2>3. db' = [d EXCEPT !.gen[t] = h]
    BY <1>0, <1>4, <1>b, <1>d, <2>1
  <2>. QED BY <1>1, <1>c, <2>2, <2>3
<1>5. CASE Prepare(t)
  <2>1. CASE Commits(t, [db EXCEPT !.gen[t] = [@ EXCEPT !.phase = "request", !.kids = "none"]])
    <3>1. PICK h : h = [g EXCEPT !.phase = "request", !.kids = "none"]
      OBVIOUS
    <3>2. h \in GenRecord /\ h.st = g.st /\ h.out = g.out
      BY <3>1 DEF GenRecord
    <3>3. db' = [d EXCEPT !.gen[t] = h]
      BY <1>0, <1>b, <1>d, <2>1, <3>1
    <3>. QED BY <1>1, <1>c, <3>2, <3>3
  <2>. QED BY <1>2, <1>3, <1>5, <2>1 DEF Prepare
<1>6. CASE RequestFails(t)
  BY <1>3, <1>6 DEF RequestFails
<1>7. CASE RequestOverflows(t)
  BY <1>2, <1>7 DEF RequestOverflows
<1>8. CASE RequestRetries(t)
  BY <1>4, <1>8 DEF RequestRetries
<1>9. CASE Retry(t)
  <2>0. PICK m \in Nat : m = g.attempt + 1
    BY DEF GenRecord
  <2>1. PICK h : h = [g EXCEPT !.phase = "prepare", !.attempt = m]
    OBVIOUS
  <2>2. h \in GenRecord /\ h.st = g.st /\ h.out = g.out
    BY <2>1 DEF GenRecord
  <2>3. db' = [d EXCEPT !.gen[t] = h]
    <3>0. PICK e : e = [d.gen[t] EXCEPT !.phase = "prepare", !.attempt = d.gen[t].attempt + 1]
      OBVIOUS
    <3>1. db' = [d EXCEPT !.gen[t] = e]
      BY <1>0, <1>9, <1>d, <3>0 DEF Retry
    <3>2. e = h
      BY <1>b, <2>0, <2>1, <3>0 DEF GenRecord
    <3>. QED BY <3>1, <3>2
  <2>. QED BY <1>1, <1>c, <2>2, <2>3
<1>10. CASE RequestTools(t)
  <2>1. db.gen[t].cp \in {"no", "threshold", "overflow"}
    BY <1>0, <1>b DEF GenRecord
  <2>. QED BY <1>2, <1>4, <1>10, <2>1 DEF RequestTools
<1>e. ASSUME NEW y, Shape(y), y.gen = d.gen, NEW ins, NEW x, x = Ends(StartRun(y, ins), t, "completed"),
             x.run.task \in Gens \cup {0}
      PROVE  TasksOk(x)
  <2>1. PICK z : z = StartRun(y, ins)
    OBVIOUS
  <2>2. x = Ends(z, t, "completed")
    BY <1>e, <2>1
  <2>. QED BY <1>a, <1>b, <1>c, <1>e, <2>1, <2>2, SucceedsTasks DEF Outcomes
<1>f. ASSUME NEW b, Beside(b, d), NEW st, NEW reason, NEW us, NEW x,
             x = Ends(StartIfUsers(EndRun(b, t, st, reason), us), t, "completed"), x.run.task \in Gens \cup {0}
      PROVE  TasksOk(x)
  <2>1. PICK y : y = EndRun(b, t, st, reason)
    OBVIOUS
  <2>2. Shape(y) /\ y.gen = d.gen /\ y.run = NoRun
    <3>1. Shape(b) /\ b.gen = d.gen /\ b.run.task = t
      BY <1>c, <1>f DEF Beside
    <3>. QED BY <2>1, <3>1, EndRunFx
  <2>3. CASE us = <<>>
    <3>1. x = Ends(y, t, "completed")
      BY <1>f, <2>1, <2>3 DEF StartIfUsers
    <3>. QED BY <1>a, <1>b, <1>c, <2>2, <3>1, EndsTasks DEF Outcomes
  <2>4. CASE us # <<>>
    <3>1. x = Ends(StartRun(y, us), t, "completed")
      BY <1>f, <2>1, <2>4 DEF StartIfUsers
    <3>. QED BY <1>e, <1>f, <2>2, <3>1
  <2>. QED BY <2>3, <2>4
<1>11. CASE RequestAnswers(t)
  <2>0. PICK q : q = d.inbox
    OBVIOUS
  <2>1. PICK b, us, x : /\ b = Boundary(d, q, TRUE) /\ Commits(t, x)
                        /\ \/ x = Ends(HandOver(b), t, "completed")
                           \/ x = Ends(StartIfUsers(EndRun(b, t, "done", "none"), us), t, "completed")
    BY <1>0, <1>11, <2>0 DEF RequestAnswers
  <2>2. Beside(b, d) /\ Shape(b) /\ b.gen = d.gen
    <3>1. b = Boundary(d, q, TRUE)
      BY <2>1
    <3>2. Beside(b, d)
      BY <1>a, <3>1, BoundaryFx
    <3>. QED BY <3>2 DEF Beside
  <2>3. db' = x /\ x.run.task \in Gens \cup {0}
    BY <1>d, <2>1
  <2>4. CASE x = Ends(HandOver(b), t, "completed")
    <3>1. PICK ins : ins = b.run.inputs
      OBVIOUS
    <3>2. x = Ends(StartRun(b, ins), t, "completed")
      BY <2>4, <3>1 DEF HandOver
    <3>. QED BY <1>e, <2>2, <2>3, <3>2
  <2>5. CASE x = Ends(StartIfUsers(EndRun(b, t, "done", "none"), us), t, "completed")
    BY <1>f, <2>2, <2>3, <2>5
  <2>. QED BY <2>1, <2>4, <2>5
<1>12. CASE FinishTools(t)
  <2>0. PICK q : q = d.inbox
    OBVIOUS
  <2>1. PICK b, us, x : /\ b = Boundary(d, q, FALSE) /\ Commits(t, x)
                        /\ \/ x = Ends(HandOver(JoinRun(b, t, us)), t, "completed")
                           \/ x = Ends(StartIfUsers(EndRun(b, t, "unanswered", "reset"), us), t, "completed")
    BY <1>0, <1>12, <2>0 DEF FinishTools
  <2>2. Beside(b, d) /\ Shape(b) /\ b.gen = d.gen
    <3>1. b = Boundary(d, q, FALSE)
      BY <2>1
    <3>2. Beside(b, d)
      BY <1>a, <3>1, BoundaryFx
    <3>. QED BY <3>2 DEF Beside
  <2>3. db' = x /\ x.run.task \in Gens \cup {0}
    BY <1>d, <2>1
  <2>4. CASE x = Ends(HandOver(JoinRun(b, t, us)), t, "completed")
    <3>0. PICK j : j = JoinRun(b, t, us)
      OBVIOUS
    <3>1. PICK ins : ins = j.run.inputs
      OBVIOUS
    <3>2. x = Ends(StartRun(j, ins), t, "completed")
      BY <2>4, <3>0, <3>1 DEF HandOver
    <3>3. Shape(j) /\ j.gen = d.gen
      BY <2>2, <3>0, JoinRunFx
    <3>. QED BY <1>e, <2>3, <3>2, <3>3
  <2>5. CASE x = Ends(StartIfUsers(EndRun(b, t, "unanswered", "reset"), us), t, "completed")
    BY <1>f, <2>2, <2>3, <2>5
  <2>. QED BY <2>1, <2>4, <2>5
<1>. QED BY <1>5, <1>6, <1>7, <1>8, <1>9, <1>10, <1>11, <1>12 DEF Generation

LEMMA TasksStep == TasksOk(db) /\ [Next]_vars => TasksOk(db')
<1>. SUFFICES ASSUME TasksOk(db), [Next]_vars PROVE TasksOk(db')
  OBVIOUS
<1>1. CASE \E i \in Ids : Wait(i) \/ CancelWait(i) \/ Observe(i)
  BY <1>1 DEF Wait, CancelWait, Observe
<1>2. CASE UNCHANGED vars
  BY <1>2 DEF vars
<1>3. CASE Next
  BY <1>1, <1>3, CallersTasks, GenerationTasks, ScheduledTasks DEF Next
<1>. QED BY <1>2, <1>3

(* start_run, hand_over, end_run and the scheduler's commits: tasks are      *)
(* created in order and a run never names a task that does not exist.        *)
THEOREM TasksCorrect == Spec => []TasksInv
<1>1. Init => TasksInv
  <2>. SUFFICES ASSUME Init PROVE TasksOk(db)
    BY DEF TasksInv
  <2>1. PICK g, d : /\ g = [t \in Gens |-> NoGen] /\ d = db
                    /\ d = [sub |-> [i \in Ids |-> NoSub], inbox |-> <<>>, head |-> 0, log |-> <<>>,
                            run |-> NoRun, gen |-> g]
    BY DEF Init
  <2>2. NoGen \in GenRecord /\ NoGen.st = "none" /\ NoGen.out = "none"
    BY DEF NoGen, GenRecord
  <2>3. Shape(d) /\ d.gen = g /\ d.run = NoRun
    BY <2>1, NoRunIs DEF Shape
  <2>4. TasksOk(d)
    BY <2>1, <2>2, <2>3, NoRunIs DEF TasksOk, LiveGen
  <2>. QED BY <2>1, <2>4
<1>2. TasksInv /\ [Next]_vars => TasksInv'
  <2>1. TasksInv' <=> TasksOk(db')
    BY DEF TasksInv
  <2>. QED BY <2>1, TasksStep DEF TasksInv
<1>. QED BY <1>1, <1>2, PTL DEF Spec

(* At most one generation task is live, the one the live run names, and     *)
(* only a fault leaves a run with an ended task, through boundaries,        *)
(* hand-overs, retries, aborts, faults and crashes.                         *)
THEOREM OneGenerationLive == Spec => []OneGeneration
<1>1. TasksInv => OneGeneration
  <2>. SUFFICES ASSUME TasksOk(db) PROVE OneGeneration
    BY DEF TasksInv
  <2>1. db.run # NoRun => db.run.task \in Gens
    BY DEF TasksOk
  <2>. QED BY <2>1 DEF TasksOk, OneGeneration, Faulted
<1>. QED BY <1>1, TasksCorrect, PTL
-----------------------------------------------------------------------------
(***************************************************************************)
(* What is kept of submissions: the inbox, the inputs of the run, the       *)
(* transcript and its head.  A boundary places any number of items one      *)
(* after the other, so the proofs go by induction on how many are placed.   *)
(***************************************************************************)
(* Induction over Nat, for sets: the finite subsets of Nat are well-founded *)
(* under inclusion, and so are the intervals below a number.                *)
LEMMA LeastElement ==
  ASSUME NEW S \in SUBSET Nat, S # {}
  PROVE  \E n \in S : \A m \in S : ~(m < n)
<1>. DEFINE Below(n) == 0..(n - 1)
            T == {Below(n) : n \in S}
<1>1. IsWellFoundedOn(StrictSubsetOrdering(Nat), FiniteSubsetsOf(Nat))
  BY FS_StrictSubsetOrderingWellFounded
<1>2. T \subseteq FiniteSubsetsOf(Nat)
  <2>1. ASSUME NEW n \in S PROVE Below(n) \in SUBSET Nat /\ IsFiniteSet(Below(n))
    <3>1. n \in Nat /\ 0 \in Int /\ n - 1 \in Int
      OBVIOUS
    <3>2. IsFiniteSet(0..(n - 1))
      BY <3>1, FS_Interval, Zenon
    <3>. QED BY <3>1, <3>2
  <2>. QED BY <2>1 DEF FiniteSubsetsOf
<1>3. T # {}
  OBVIOUS
<1>. HIDE DEF T
<1>4. PICK x \in T : \A y \in T : ~(<<y, x>> \in StrictSubsetOrdering(Nat))
  BY <1>1, <1>2, <1>3, WFMin, Zenon
<1>5. PICK n \in S : x = Below(n)
  BY <1>4 DEF T
<1>6. ASSUME NEW m \in S, m < n PROVE FALSE
  <2>1. Below(m) \in T
    BY DEF T
  <2>2. /\ Below(m) \subseteq Below(n) /\ Below(m) # Below(n)
        /\ Below(m) \subseteq Nat /\ Below(n) \subseteq Nat
    BY <1>6
  <2>3. <<Below(m), Below(n)>> \in StrictSubsetOrdering(Nat)
    BY <2>2 DEF StrictSubsetOrdering
  <2>. QED BY <2>1, <2>3, <1>4, <1>5
<1>. QED BY <1>6

LEMMA SetInduction ==
  ASSUME NEW S, 0 \in S, \A n \in Nat : n \in S => n + 1 \in S
  PROVE  Nat \subseteq S
<1>. SUFFICES ASSUME Nat \ S # {} PROVE FALSE
  OBVIOUS
<1>1. PICK n \in Nat \ S : \A m \in Nat \ S : ~(m < n)
  BY LeastElement
<1>2. n # 0 /\ n - 1 \in Nat /\ n - 1 < n
  BY <1>1
<1>3. n - 1 \in S
  BY <1>1, <1>2
<1>4. (n - 1) + 1 = n
  BY <1>1
<1>. QED BY <1>2, <1>3, <1>4

(* Those and PlaceAll are recursive: their recursions have a solution for   *)
(* every length.                                                            *)
Kept(f, q, S, k) ==
  f = [n \in 0..k |->
         IF n = 0 THEN <<>>
         ELSE IF q[n] \in S THEN Append(f[n - 1], q[n]) ELSE f[n - 1]]

LEMMA ThoseUnfolds ==
  ASSUME NEW q, Len(q) \in Nat, NEW S
  PROVE  \E f : Kept(f, q, S, Len(q)) /\ Those(q, S) = f[Len(q)]
<1>. DEFINE Good == {k \in Nat : \E f : Kept(f, q, S, k)}
<1>1. 0 \in Good
  <2>. DEFINE f == [n \in 0..0 |-> <<>>]
  <2>1. Kept(f, q, S, 0)
    BY DEF Kept
  <2>. HIDE DEF f
  <2>. QED BY <2>1
<1>2. ASSUME NEW k \in Nat, k \in Good PROVE k + 1 \in Good
  <2>1. PICK f : Kept(f, q, S, k)
    BY <1>2
  <2>. DEFINE Step(x, n) == IF q[n] \in S THEN Append(x, q[n]) ELSE x
              g == [n \in 0..(k + 1) |-> IF n <= k THEN f[n] ELSE Step(f[k], k + 1)]
  <2>2. ASSUME NEW n \in 0..(k + 1)
        PROVE  g[n] = IF n = 0 THEN <<>> ELSE Step(g[n - 1], n)
    <3>1. CASE n = 0
      BY <2>1, <3>1 DEF Kept
    <3>2. CASE n \in 1..k
      <4>1. g[n] = f[n] /\ g[n - 1] = f[n - 1] /\ n \in 0..k /\ n # 0
        BY <3>2
      <4>2. f[n] = Step(f[n - 1], n)
        BY <2>1, <4>1 DEF Kept
      <4>. HIDE DEF g, Step
      <4>. QED BY <4>1, <4>2
    <3>3. CASE n = k + 1
      <4>. HIDE DEF Step
      <4>1. g[n] = Step(f[k], k + 1) /\ g[n - 1] = f[k] /\ n # 0
        BY <3>3
      <4>. HIDE DEF g
      <4>. QED BY <4>1, <3>3
    <3>. QED BY <3>1, <3>2, <3>3
  <2>3. Kept(g, q, S, k + 1)
    <3>1. g = [n \in 0..(k + 1) |-> g[n]]
      OBVIOUS
    <3>. HIDE DEF g
    <3>. QED BY <2>2, <3>1 DEF Kept
  <2>. HIDE DEF g
  <2>. QED BY <2>3
<1>3. Len(q) \in Good
  <2>. HIDE DEF Good
  <2>. QED BY <1>1, <1>2, SetInduction
<1>. DEFINE F == CHOOSE f : f = [n \in 0..Len(q) |->
                   IF n = 0 THEN <<>>
                   ELSE IF q[n] \in S THEN Append(f[n - 1], q[n]) ELSE f[n - 1]]
<1>4. Kept(F, q, S, Len(q))
  BY <1>3, Zenon DEF Kept
<1>5. Those(q, S) = F[Len(q)]
  BY Zenon DEF Those
<1>. HIDE DEF F
<1>. QED BY <1>4, <1>5

Left(f, d, s, k) ==
  f = [n \in 0..k |-> IF n = 0 THEN d ELSE Place(f[n - 1], s[n])]

LEMMA PlaceAllUnfolds ==
  ASSUME NEW d, NEW s, Len(s) \in Nat
  PROVE  \E f : Left(f, d, s, Len(s)) /\ PlaceAll(d, s) = f[Len(s)]
<1>. DEFINE Good == {k \in Nat : \E f : Left(f, d, s, k)}
<1>1. 0 \in Good
  <2>. DEFINE f == [n \in 0..0 |-> d]
  <2>1. Left(f, d, s, 0)
    BY DEF Left
  <2>. HIDE DEF f
  <2>. QED BY <2>1
<1>2. ASSUME NEW k \in Nat, k \in Good PROVE k + 1 \in Good
  <2>1. PICK f : Left(f, d, s, k)
    BY <1>2
  <2>. DEFINE g == [n \in 0..(k + 1) |-> IF n <= k THEN f[n] ELSE Place(f[k], s[k + 1])]
  <2>2. ASSUME NEW n \in 0..(k + 1)
        PROVE  g[n] = IF n = 0 THEN d ELSE Place(g[n - 1], s[n])
    <3>1. CASE n = 0
      BY <2>1, <3>1 DEF Left
    <3>2. CASE n \in 1..k
      <4>1. g[n] = f[n] /\ g[n - 1] = f[n - 1] /\ n \in 0..k /\ n # 0
        BY <3>2
      <4>. HIDE DEF g
      <4>. QED BY <2>1, <4>1 DEF Left
    <3>3. CASE n = k + 1
      <4>1. g[n] = Place(f[k], s[k + 1]) /\ g[n - 1] = f[k] /\ n # 0
        BY <3>3
      <4>. HIDE DEF g
      <4>. QED BY <4>1, <3>3
    <3>. QED BY <3>1, <3>2, <3>3
  <2>3. Left(g, d, s, k + 1)
    <3>1. g = [n \in 0..(k + 1) |-> g[n]]
      OBVIOUS
    <3>. HIDE DEF g
    <3>. QED BY <2>2, <3>1 DEF Left
  <2>. HIDE DEF g
  <2>. QED BY <2>3
<1>3. Len(s) \in Good
  <2>. HIDE DEF Good
  <2>. QED BY <1>1, <1>2, SetInduction
<1>. DEFINE F == CHOOSE f : f = [n \in 0..Len(s) |-> IF n = 0 THEN d ELSE Place(f[n - 1], s[n])]
<1>4. Left(F, d, s, Len(s))
  BY <1>3, Zenon DEF Left
<1>5. PlaceAll(d, s) = F[Len(s)]
  BY Zenon DEF PlaceAll
<1>. HIDE DEF F
<1>. QED BY <1>4, <1>5

LEMMA IdsAre == Ids \subseteq Nat /\ IsFiniteSet(Ids) /\ \A i \in Ids : i # 0
<1>1. SubmissionBound \in Nat
  BY SubmissionsAssumption
<1>2. IsFiniteSet(1..SubmissionBound)
  BY <1>1, FS_Interval
<1>. QED BY <1>1, <1>2 DEF Ids

(* Sequences of submissions. *)
LEMMA AppendFx ==
  ASSUME NEW s \in Seq(Ids), NEW i \in Ids, NEW x, x = Append(s, i)
  PROVE  /\ x \in Seq(Ids) /\ Len(x) = Len(s) + 1 /\ x[Len(s) + 1] = i
         /\ \A k \in 1..Len(s) : x[k] = s[k]
         /\ Items(x) = Items(s) \cup {i}
         /\ Rising(s) /\ (\A j \in Items(s) : j < i) => Rising(x)
<1>1. /\ x \in Seq(Ids) /\ Len(x) = Len(s) + 1 /\ x[Len(s) + 1] = i /\ Len(s) \in Nat
      /\ \A k \in 1..Len(s) : x[k] = s[k]
  OBVIOUS
<1>2. Items(x) = Items(s) \cup {i}
  <2>1. ASSUME NEW j \in Items(x) PROVE j \in Items(s) \cup {i}
    <3>1. PICK k \in 1..Len(x) : j = x[k]
      BY DEF Items
    <3>2. k \in 1..Len(s) \/ k = Len(s) + 1
      BY <1>1
    <3>. QED BY <1>1, <3>1, <3>2 DEF Items
  <2>2. ASSUME NEW j \in Items(s) PROVE j \in Items(x)
    <3>1. PICK k \in 1..Len(s) : j = s[k]
      BY DEF Items
    <3>2. k \in 1..Len(x) /\ x[k] = j
      BY <1>1, <3>1
    <3>. QED BY <3>2 DEF Items
  <2>3. i \in Items(x)
    <3>1. Len(s) + 1 \in 1..Len(x)
      BY <1>1
    <3>. QED BY <1>1, <3>1 DEF Items
  <2>. QED BY <2>1, <2>2, <2>3
<1>3. ASSUME Rising(s), \A j \in Items(s) : j < i PROVE Rising(x)
  <2>. SUFFICES ASSUME NEW a \in 1..Len(x), NEW b \in 1..Len(x), a < b PROVE x[a] < x[b]
    BY DEF Rising
  <2>1. a \in 1..Len(s) /\ (b \in 1..Len(s) \/ b = Len(s) + 1)
    BY <1>1
  <2>2. s[a] \in Items(s)
    BY <2>1 DEF Items
  <2>. QED BY <1>1, <1>3, <2>1, <2>2 DEF Rising
<1>. QED BY <1>1, <1>2, <1>3

LEMMA RisingDistinct ==
  ASSUME NEW s \in Seq(Ids), Rising(s)
  PROVE  Distinct(s)
<1>. SUFFICES ASSUME NEW a \in 1..Len(s), NEW b \in 1..Len(s), s[a] = s[b], a # b PROVE FALSE
  BY DEF Distinct
<1>0. s[a] \in Ids /\ s[b] \in Ids
  OBVIOUS
<1>1. s[a] \in Nat /\ s[b] \in Nat
  BY <1>0, IdsAre, Zenon
<1>2. s[a] < s[b] \/ s[b] < s[a]
  BY DEF Rising
<1>. QED BY <1>1, <1>2

LEMMA ThoseFx ==
  ASSUME NEW q \in Seq(Ids), Rising(q), NEW S, NEW x, x = Those(q, S)
  PROVE  x \in Seq(Ids) /\ Rising(x) /\ Items(x) = Items(q) \cap S
<1>0. Len(q) \in Nat
  OBVIOUS
<1>1. PICK f : Kept(f, q, S, Len(q)) /\ Those(q, S) = f[Len(q)]
  BY <1>0, ThoseUnfolds
<1>2. f[0] = <<>>
  BY <1>0, <1>1 DEF Kept
<1>3. ASSUME NEW n \in 1..Len(q)
      PROVE  f[n] = IF q[n] \in S THEN Append(f[n - 1], q[n]) ELSE f[n - 1]
  <2>1. n \in 0..Len(q) /\ n # 0
    BY <1>0
  <2>. QED BY <1>1, <2>1 DEF Kept
<1>. DEFINE Up(n) == {q[k] : k \in 1..n}
            Right(n) == f[n] \in Seq(Ids) /\ Rising(f[n]) /\ Items(f[n]) = Up(n) \cap S
            Good == {n \in Nat : n <= Len(q) => Right(n)}
<1>4. 0 \in Good
  <2>1. f[0] \in Seq(Ids) /\ Len(f[0]) = 0 /\ 1..0 = {}
    BY <1>2
  <2>2. Items(f[0]) = {} /\ Up(0) = {} /\ Rising(f[0])
    BY <2>1 DEF Rising, Items
  <2>. QED BY <2>1, <2>2
<1>5. ASSUME NEW n \in Nat, n \in Good PROVE n + 1 \in Good
  <2>. SUFFICES ASSUME n + 1 <= Len(q) PROVE Right(n + 1)
    OBVIOUS
  <2>1. Right(n) /\ n + 1 \in 1..Len(q) /\ q[n + 1] \in Ids
    BY <1>0, <1>5
  <2>2. Up(n + 1) = Up(n) \cup {q[n + 1]}
    BY <1>5
  <2>3. f[n + 1] = IF q[n + 1] \in S THEN Append(f[n], q[n + 1]) ELSE f[n]
    BY <1>3, <2>1
  <2>4. CASE q[n + 1] \notin S
    BY <2>1, <2>2, <2>3, <2>4
  <2>5. CASE q[n + 1] \in S
    <3>1. \A j \in Items(f[n]) : j < q[n + 1]
      BY <1>0, <2>1 DEF Rising
    <3>2. f[n + 1] = Append(f[n], q[n + 1])
      BY <2>3, <2>5
    <3>a. f[n] \in Seq(Ids) /\ Rising(f[n]) /\ q[n + 1] \in Ids
      BY <2>1
    <3>. HIDE DEF Up, Right
    <3>3. f[n + 1] \in Seq(Ids) /\ Rising(f[n + 1]) /\ Items(f[n + 1]) = Items(f[n]) \cup {q[n + 1]}
      <4>1. PICK y, i, z : y = f[n] /\ i = q[n + 1] /\ z = f[n + 1]
        OBVIOUS
      <4>2. y \in Seq(Ids) /\ i \in Ids /\ z = Append(y, i) /\ Rising(y) /\ \A j \in Items(y) : j < i
        BY <3>1, <3>2, <3>a, <4>1
      <4>3. z \in Seq(Ids) /\ Rising(z) /\ Items(z) = Items(y) \cup {i}
        BY <4>2, AppendFx
      <4>. QED BY <4>1, <4>3
    <3>. QED BY <2>1, <2>2, <2>5, <3>3 DEF Right
  <2>. QED BY <2>4, <2>5
<1>6. Len(q) \in Good
  <2>. HIDE DEF Good
  <2>. QED BY <1>0, <1>4, <1>5, SetInduction
<1>7. Up(Len(q)) = Items(q)
  BY DEF Items
<1>. QED BY <1>0, <1>1, <1>6, <1>7

(* What has become of d when the items of S are placed, in an order that    *)
(* lets each follow the others.                                             *)
Gone(r) == IF r.kind \in Writes THEN r.st \in {"done", "unanswered"} ELSE r.st = "placed"
Placing(d, x, S) ==
  /\ Shape(x) /\ x.sub \in [Ids -> SubRecord]
  /\ \A i \in Ids : /\ Recorded(x.sub[i])
                    /\ x.sub[i].kind = d.sub[i].kind /\ x.sub[i].pin = d.sub[i].pin
  /\ \A i \in Ids \ S : x.sub[i] = d.sub[i]
  /\ \A i \in S : Gone(x.sub[i])
  /\ x.log \in Seq(Ids) /\ Len(d.log) <= Len(x.log)
  /\ \A k \in 1..Len(d.log) : x.log[k] = d.log[k]
  /\ \A k \in 1..Len(x.log) : k > Len(d.log) => x.log[k] \in S
  /\ \A a, b \in 1..Len(x.log) : Len(d.log) < a /\ a < b => InOrder(d, x.log[a], x.log[b])
  /\ x.head \in d.head..Len(x.log)

Placeable(d, S, i) ==
  /\ S \subseteq Ids /\ i \in Ids \ S /\ d.sub[i].st = "queued"
  /\ d.sub[i].pin <= Len(d.log) /\ \A j \in S : InOrder(d, j, i)

Ground(d) ==
  /\ Shape(d) /\ d.sub \in [Ids -> SubRecord] /\ \A i \in Ids : Recorded(d.sub[i])
  /\ d.log \in Seq(Ids) /\ d.head \in 0..Len(d.log)

LEMMA PlacesOne ==
  ASSUME NEW d, Ground(d), NEW S, NEW i, Placeable(d, S, i), NEW y, Placing(d, y, S),
         NEW r \in SubRecord, Recorded(r), r.kind = d.sub[i].kind, r.pin = d.sub[i].pin, Gone(r),
         NEW x, Shape(x), x.sub = [y.sub EXCEPT ![i] = r],
         \/ x.log = y.log /\ x.head = y.head
         \/ x.log = Append(y.log, i) /\ x.head \in y.head..(Len(y.log) + 1)
  PROVE  Placing(d, x, S \cup {i})
<1>0. /\ i \in Ids /\ y.sub \in [Ids -> SubRecord] /\ S \subseteq Ids
      /\ y.log \in Seq(Ids) /\ Len(y.log) \in Nat /\ Len(d.log) \in Nat /\ d.head \in Nat
      /\ y.head \in Nat /\ Len(d.log) <= Len(y.log) /\ y.head <= Len(y.log) /\ d.head <= y.head
  BY DEF Placing, Ground, Placeable
<1>1. /\ x.sub \in [Ids -> SubRecord] /\ \A j \in Ids : x.sub[j] = IF j = i THEN r ELSE y.sub[j]
  BY <1>0
<1>2. /\ \A j \in Ids : /\ Recorded(x.sub[j])
                        /\ x.sub[j].kind = d.sub[j].kind /\ x.sub[j].pin = d.sub[j].pin
      /\ \A j \in Ids \ (S \cup {i}) : x.sub[j] = d.sub[j]
      /\ \A j \in S \cup {i} : Gone(x.sub[j])
  BY <1>0, <1>1 DEF Placing
<1>3. CASE x.log = y.log /\ x.head = y.head
  BY <1>1, <1>2, <1>3 DEF Placing
<1>4. CASE x.log = Append(y.log, i) /\ x.head \in y.head..(Len(y.log) + 1)
  <2>1. /\ x.log \in Seq(Ids) /\ Len(x.log) = Len(y.log) + 1 /\ x.log[Len(y.log) + 1] = i
        /\ \A k \in 1..Len(y.log) : x.log[k] = y.log[k]
    BY <1>0, <1>4, AppendFx
  <2>2. \A k \in 1..Len(x.log) : k \in 1..Len(y.log) \/ k = Len(y.log) + 1
    BY <1>0, <2>1
  <2>3. \A k \in 1..Len(d.log) : x.log[k] = d.log[k]
    <3>1. \A k \in 1..Len(d.log) : k \in 1..Len(y.log)
      BY <1>0
    <3>. QED BY <2>1, <3>1 DEF Placing
  <2>4. \A k \in 1..Len(x.log) : k > Len(d.log) => x.log[k] \in S \cup {i}
    BY <2>1, <2>2 DEF Placing
  <2>5. ASSUME NEW a \in 1..Len(x.log), NEW b \in 1..Len(x.log), Len(d.log) < a, a < b
        PROVE  InOrder(d, x.log[a], x.log[b])
    <3>1. a \in 1..Len(y.log)
      BY <1>0, <2>1, <2>5
    <3>2. CASE b \in 1..Len(y.log)
      BY <2>1, <2>5, <3>1, <3>2 DEF Placing
    <3>3. CASE b = Len(y.log) + 1
      <4>1. y.log[a] \in S
        BY <2>5, <3>1 DEF Placing
      <4>. QED BY <2>1, <3>1, <3>3, <4>1 DEF Placeable
    <3>. QED BY <2>2, <3>2, <3>3
  <2>6. Len(d.log) <= Len(x.log) /\ x.head \in d.head..Len(x.log)
    BY <1>0, <1>4, <2>1
  <2>. QED BY <1>1, <1>2, <2>1, <2>3, <2>4, <2>5, <2>6 DEF Placing
<1>. QED BY <1>3, <1>4

LEMMA PlaceFx ==
  ASSUME NEW d, Ground(d), NEW S, NEW i, Placeable(d, S, i), NEW y, Placing(d, y, S),
         NEW x, x = Place(y, i)
  PROVE  Placing(d, x, S \cup {i})
<1>0. /\ Shape(y) /\ y.sub \in [Ids -> SubRecord] /\ i \in Ids /\ y.sub[i] \in SubRecord
      /\ y.sub[i] = d.sub[i] /\ y.sub[i].st = "queued" /\ y.sub[i].reason = "none"
      /\ y.head \in Nat /\ y.log \in Seq(Ids) /\ Len(y.log) \in Nat /\ y.head <= Len(y.log)
      /\ y.sub[i].pin \in Nat /\ y.sub[i].pin <= Len(y.log)
  <2>1. /\ Shape(y) /\ y.sub \in [Ids -> SubRecord] /\ i \in Ids
        /\ y.sub[i] = d.sub[i] /\ y.sub[i].st = "queued" /\ Recorded(d.sub[i])
    BY DEF Placing, Placeable, Ground
  <2>2. y.sub[i] \in SubRecord /\ y.sub[i].pin \in Nat
    BY <2>1 DEF SubRecord
  <2>3. /\ y.head \in Nat /\ y.log \in Seq(Ids) /\ Len(y.log) \in Nat /\ y.head <= Len(y.log)
        /\ Len(d.log) <= Len(y.log) /\ Len(d.log) \in Nat /\ y.sub[i].pin <= Len(d.log)
    BY <2>1 DEF Placing, Placeable, Ground
  <2>. QED BY <2>1, <2>2, <2>3 DEF Recorded
<1>1. CASE y.sub[i].kind \in Writes /\ Stale(y, i)
  <2>1. PICK r : r = [y.sub[i] EXCEPT !.st = "unanswered", !.reason = "stale"]
    OBVIOUS
  <2>2. r \in SubRecord /\ r.st = "unanswered" /\ r.reason = "stale" /\ r.kind = y.sub[i].kind /\ r.pin = y.sub[i].pin
    BY <1>0, <2>1 DEF SubRecord
  <2>3. x = Settle(y, {i}, "unanswered", "stale")
    BY <1>1 DEF Place, PlaceWrite
  <2>4. Shape(x) /\ x.log = y.log /\ x.head = y.head /\ x.sub = [y.sub EXCEPT ![i] = r]
    <3>1. [j \in Ids |-> IF j \in {i} /\ ~Settled(y.sub[j])
             THEN [y.sub[j] EXCEPT !.st = "unanswered", !.reason = "stale"] ELSE y.sub[j]]
          = [y.sub EXCEPT ![i] = r]
      BY <1>0, <2>1 DEF Settled
    <3>. QED BY <1>0, <2>3, <3>1 DEF Settle, Shape
  <2>5. Recorded(r) /\ Gone(r)
    BY <1>1, <2>2 DEF Recorded, Gone
  <2>. QED BY <1>0, <2>2, <2>4, <2>5, PlacesOne
<1>2. CASE y.sub[i].kind \in Writes /\ ~Stale(y, i)
  <2>1. PICK r : r = [y.sub[i] EXCEPT !.st = "done"]
    OBVIOUS
  <2>2. r \in SubRecord /\ r.st = "done" /\ r.reason = "none" /\ r.kind = y.sub[i].kind /\ r.pin = y.sub[i].pin
    BY <1>0, <2>1 DEF SubRecord
  <2>3. x = [y EXCEPT !.sub[i].st = "done", !.log = Append(@, i), !.head = HeadAfter(y, i)]
    BY <1>2 DEF Place, PlaceWrite
  <2>4. Shape(x) /\ x.log = Append(y.log, i) /\ x.head = HeadAfter(y, i) /\ x.sub = [y.sub EXCEPT ![i] = r]
    BY <1>0, <2>1, <2>3 DEF Shape
  <2>5. HeadAfter(y, i) \in y.head..(Len(y.log) + 1)
    BY <1>0, <1>2 DEF HeadAfter, Stale
  <2>6. Recorded(r) /\ Gone(r)
    BY <1>2, <2>2 DEF Recorded, Gone, Inputs, Writes
  <2>. QED BY <1>0, <2>2, <2>4, <2>5, <2>6, PlacesOne, SMTT(60)
<1>3. CASE y.sub[i].kind \notin Writes
  <2>1. PICK r : r = [y.sub[i] EXCEPT !.st = "placed"]
    OBVIOUS
  <2>2. r \in SubRecord /\ r.st = "placed" /\ r.reason = "none" /\ r.kind = y.sub[i].kind /\ r.pin = y.sub[i].pin
    BY <1>0, <2>1 DEF SubRecord
  <2>3. x = [y EXCEPT !.sub[i].st = "placed", !.log = Append(@, i)]
    BY <1>3 DEF Place, PlaceUser
  <2>4. Shape(x) /\ x.log = Append(y.log, i) /\ x.head = y.head /\ x.sub = [y.sub EXCEPT ![i] = r]
    BY <1>0, <2>1, <2>3 DEF Shape
  <2>5. r.kind \in Inputs
    BY <1>0, <1>3, <2>2 DEF SubRecord
  <2>6. Recorded(r) /\ Gone(r)
    BY <1>3, <2>2, <2>5 DEF Recorded, Gone
  <2>7. x.head \in y.head..(Len(y.log) + 1)
    BY <1>0, <2>4
  <2>. QED BY <1>0, <2>2, <2>4, <2>6, <2>7, PlacesOne, SMTT(60)
<1>. QED BY <1>1, <1>2, <1>3

LEMMA PlaceAllFx ==
  ASSUME NEW d, Ground(d), NEW s \in Seq(Ids), Distinct(s),
         \A k \in 1..Len(s) : d.sub[s[k]].st = "queued" /\ d.sub[s[k]].pin <= Len(d.log),
         \A a, b \in 1..Len(s) : a < b => InOrder(d, s[a], s[b]),
         NEW x, x = PlaceAll(d, s)
  PROVE  Placing(d, x, Items(s))
<1>0. Len(s) \in Nat
  OBVIOUS
<1>1. PICK f : Left(f, d, s, Len(s)) /\ PlaceAll(d, s) = f[Len(s)]
  BY <1>0, PlaceAllUnfolds
<1>2. f[0] = d
  BY <1>0, <1>1 DEF Left
<1>3. ASSUME NEW n \in 1..Len(s)
      PROVE  f[n] = Place(f[n - 1], s[n])
  <2>1. n \in 0..Len(s) /\ n # 0
    BY <1>0
  <2>. QED BY <1>1, <2>1 DEF Left
<1>. DEFINE Up(n) == {s[k] : k \in 1..n}
            Good == {n \in Nat : n <= Len(s) => Placing(d, f[n], Up(n))}
<1>4. 0 \in Good
  <2>1. Up(0) = {}
    OBVIOUS
  <2>2. Placing(d, d, {})
    BY DEF Placing, Ground
  <2>. QED BY <1>2, <2>1, <2>2
<1>5. ASSUME NEW n \in Nat, n \in Good PROVE n + 1 \in Good
  <2>. SUFFICES ASSUME n + 1 <= Len(s) PROVE Placing(d, f[n + 1], Up(n + 1))
    OBVIOUS
  <2>1. Placing(d, f[n], Up(n)) /\ n + 1 \in 1..Len(s) /\ s[n + 1] \in Ids
    BY <1>0, <1>5
  <2>2. Up(n + 1) = Up(n) \cup {s[n + 1]}
    BY <1>5
  <2>3. f[n + 1] = Place(f[n], s[n + 1])
    BY <1>3, <2>1
  <2>4. Placeable(d, Up(n), s[n + 1])
    <3>1. \A k \in 1..n : k \in 1..Len(s) /\ k < n + 1
      BY <1>0
    <3>2. Up(n) \subseteq Ids /\ s[n + 1] \notin Up(n)
      BY <2>1, <3>1 DEF Distinct
    <3>3. \A j \in Up(n) : InOrder(d, j, s[n + 1])
      BY <2>1, <3>1
    <3>. QED BY <2>1, <3>2, <3>3 DEF Placeable
  <2>. HIDE DEF Up
  <2>. QED BY <2>1, <2>2, <2>3, <2>4, PlaceFx
<1>6. Len(s) \in Good
  <2>. HIDE DEF Good
  <2>. QED BY <1>0, <1>4, <1>5, SetInduction
<1>7. Up(Len(s)) = Items(s)
  BY DEF Items
<1>8. Placing(d, f[Len(s)], Up(Len(s)))
  <2>. HIDE DEF Up
  <2>. QED BY <1>0, <1>6
<1>. QED BY <1>1, <1>7, <1>8, Zenon

Spliced(x, s, t) ==
  \A a, b \in 1..Len(x) : a < b =>
    \/ x[a] \in Items(s) /\ x[b] \in Items(t)
    \/ \E m, n \in 1..Len(s) : m < n /\ x[a] = s[m] /\ x[b] = s[n]
    \/ \E m, n \in 1..Len(t) : m < n /\ x[a] = t[m] /\ x[b] = t[n]

LEMMA ConcatFx ==
  ASSUME NEW s \in Seq(Ids), NEW t \in Seq(Ids), NEW x, x = s \o t
  PROVE  /\ x \in Seq(Ids) /\ Items(x) = Items(s) \cup Items(t)
         /\ Spliced(x, s, t)
         /\ Distinct(s) /\ Distinct(t) /\ Items(s) \cap Items(t) = {} => Distinct(x)
<1>1. /\ x \in Seq(Ids) /\ Len(s) \in Nat /\ Len(t) \in Nat /\ Len(x) = Len(s) + Len(t)
      /\ \A k \in 1..Len(x) : x[k] = IF k <= Len(s) THEN s[k] ELSE t[k - Len(s)]
  OBVIOUS
<1>2. \A k \in 1..Len(x) : \/ k \in 1..Len(s) /\ x[k] = s[k] /\ s[k] \in Items(s)
                           \/ k > Len(s) /\ k - Len(s) \in 1..Len(t) /\ x[k] = t[k - Len(s)] /\ t[k - Len(s)] \in Items(t)
  BY <1>1 DEF Items
<1>3. Items(x) = Items(s) \cup Items(t)
  <2>1. \A i \in Items(x) : i \in Items(s) \cup Items(t)
    BY <1>2 DEF Items
  <2>2. \A k \in 1..Len(s) : k \in 1..Len(x) /\ x[k] = s[k]
    BY <1>1
  <2>3. \A k \in 1..Len(t) : k + Len(s) \in 1..Len(x) /\ x[k + Len(s)] = t[k]
    BY <1>1
  <2>4. \A i \in Items(s) : i \in Items(x)
    BY <2>2 DEF Items
  <2>5. \A i \in Items(t) : i \in Items(x)
    BY <2>3 DEF Items
  <2>. QED BY <2>1, <2>4, <2>5
<1>4. ASSUME NEW a \in 1..Len(x), NEW b \in 1..Len(x), a < b
      PROVE  \/ x[a] \in Items(s) /\ x[b] \in Items(t)
             \/ \E m, n \in 1..Len(s) : m < n /\ x[a] = s[m] /\ x[b] = s[n]
             \/ \E m, n \in 1..Len(t) : m < n /\ x[a] = t[m] /\ x[b] = t[n]
  <2>1. CASE b \in 1..Len(s)
    <3>1. a \in 1..Len(s)
      BY <1>4, <2>1
    <3>2. x[a] = s[a] /\ x[b] = s[b]
      BY <1>1, <2>1, <3>1
    <3>. QED BY <1>4, <2>1, <3>1, <3>2
  <2>2. CASE a > Len(s)
    <3>1. a - Len(s) \in 1..Len(t) /\ b - Len(s) \in 1..Len(t) /\ a - Len(s) < b - Len(s)
      BY <1>1, <1>4, <2>2
    <3>2. x[a] = t[a - Len(s)] /\ x[b] = t[b - Len(s)]
      BY <1>1, <1>4, <2>2
    <3>. QED BY <3>1, <3>2
  <2>3. CASE a \in 1..Len(s) /\ b > Len(s)
    BY <1>1, <1>2, <2>3
  <2>4. b \in 1..Len(s) \/ a > Len(s) \/ (a \in 1..Len(s) /\ b > Len(s))
    BY <1>1
  <2>. QED BY <2>1, <2>2, <2>3, <2>4
<1>5. ASSUME Distinct(s), Distinct(t), Items(s) \cap Items(t) = {} PROVE Distinct(x)
  <2>. SUFFICES ASSUME NEW a \in 1..Len(x), NEW b \in 1..Len(x), a < b, x[a] = x[b] PROVE FALSE
    <3>1. \A a, b \in 1..Len(x) : a # b => a < b \/ b < a
      OBVIOUS
    <3>. QED BY <3>1 DEF Distinct
  <2>1. \/ x[a] \in Items(s) /\ x[b] \in Items(t)
        \/ \E m, n \in 1..Len(s) : m < n /\ x[a] = s[m] /\ x[b] = s[n]
        \/ \E m, n \in 1..Len(t) : m < n /\ x[a] = t[m] /\ x[b] = t[n]
    BY <1>4
  <2>2. (\A m, n \in 1..Len(s) : m < n => s[m] # s[n]) /\ (\A m, n \in 1..Len(t) : m < n => t[m] # t[n])
    BY <1>5 DEF Distinct
  <2>. QED BY <1>5, <2>1, <2>2
<1>6. Spliced(x, s, t)
  BY <1>4 DEF Spliced
<1>. QED BY <1>1, <1>3, <1>5, <1>6

LEMMA ItemsAre ==
  ASSUME NEW q \in Seq(Ids)
  PROVE  Items(q) \subseteq Ids
BY DEF Items

LEMMA OfModeFx ==
  ASSUME NEW d, NEW q \in Seq(Ids), Rising(q), NEW mode, NEW x, x = OfMode(d, q, mode)
  PROVE  /\ x \in Seq(Ids) /\ Rising(x)
         /\ \A i : i \in Items(x) <=> i \in Items(q) /\ Mode(d.sub[i].kind) = mode
<1>1. PICK S : S = {i \in Ids : Mode(d.sub[i].kind) = mode}
  OBVIOUS
<1>2. x = Those(q, S)
  BY <1>1 DEF OfMode
<1>3. x \in Seq(Ids) /\ Rising(x) /\ Items(x) = Items(q) \cap S
  BY <1>2, ThoseFx
<1>. QED BY <1>1, <1>3, ItemsAre

(* What pick takes goes before what it leaves. *)
LEMMA PickFx ==
  ASSUME NEW d, NEW q \in Seq(Ids), Rising(q), NEW mode, NEW queueMode, NEW p, p = Pick(d, q, mode, queueMode)
  PROVE  /\ \A i \in p : i \in Items(q) /\ Mode(d.sub[i].kind) = mode
         /\ \A i \in p, j \in Items(q) : j \notin p /\ Mode(d.sub[j].kind) = mode => i < j
<1>1. PICK s : s = OfMode(d, q, mode)
  OBVIOUS
<1>2. /\ s \in Seq(Ids) /\ Rising(s)
      /\ \A i : i \in Items(s) <=> i \in Items(q) /\ Mode(d.sub[i].kind) = mode
  BY <1>1, OfModeFx, Zenon
<1>3. \A j \in Items(q) : Mode(d.sub[j].kind) = mode => j \in Items(s)
  BY <1>2, ItemsAre
<1>4. p = IF queueMode = "one" /\ s # <<>> THEN {s[1]} ELSE Items(s)
  BY <1>1 DEF Pick
<1>5. CASE queueMode = "one" /\ s # <<>>
  <2>1. p = {s[1]} /\ Len(s) \in Nat /\ 1 \in 1..Len(s)
    BY <1>2, <1>4, <1>5
  <2>2. s[1] \in Items(s)
    BY <2>1 DEF Items
  <2>3. ASSUME NEW j \in Items(s), j # s[1] PROVE s[1] < j
    <3>1. PICK k \in 1..Len(s) : j = s[k]
      BY DEF Items
    <3>2. 1 < k
      BY <2>1, <2>3, <3>1
    <3>. QED BY <1>2, <2>1, <3>1, <3>2 DEF Rising
  <2>. QED BY <1>2, <1>3, <2>1, <2>2, <2>3
<1>6. CASE ~(queueMode = "one" /\ s # <<>>)
  BY <1>2, <1>3, <1>4, <1>6
<1>. QED BY <1>5, <1>6

LEMMA UsersFx ==
  ASSUME NEW d, NEW q \in Seq(Ids), Rising(q), NEW final, NEW x, x = Users(d, q, final)
  PROVE  /\ x \in Seq(Ids) /\ Rising(x)
         /\ \A i \in Items(x) : i \in Items(q) /\ Mode(d.sub[i].kind) \in {"steer", "followUp"}
         /\ \A i \in Items(x), j \in Items(q) :
              j \notin Items(x) /\ Mode(d.sub[j].kind) = Mode(d.sub[i].kind) => i < j
<1>1. PICK s, f : s = Pick(d, q, "steer", SteeringMode) /\ f = Pick(d, q, "followUp", FollowUpMode)
  OBVIOUS
<1>2. /\ \A i \in s : i \in Items(q) /\ Mode(d.sub[i].kind) = "steer"
      /\ \A i \in s, j \in Items(q) : j \notin s /\ Mode(d.sub[j].kind) = "steer" => i < j
  BY <1>1, PickFx
<1>3. /\ \A i \in f : i \in Items(q) /\ Mode(d.sub[i].kind) = "followUp"
      /\ \A i \in f, j \in Items(q) : j \notin f /\ Mode(d.sub[j].kind) = "followUp" => i < j
  BY <1>1, PickFx
<1>4. PICK p : p = s \cup (IF final \/ HasReset(d, q) THEN f ELSE {})
  OBVIOUS
<1>5. x = Those(q, p)
  BY <1>1, <1>4 DEF Users
<1>6. x \in Seq(Ids) /\ Rising(x) /\ Items(x) = Items(q) \cap p
  BY <1>5, ThoseFx
<1>7. (p = s \/ p = s \cup f) /\ Items(x) = p
  BY <1>2, <1>3, <1>4, <1>6
<1>. QED BY <1>2, <1>3, <1>6, <1>7

(* What leaves the inbox: the writes, then the users, in an order each mode *)
(* accepts, and nothing that is left had to go before.                      *)
LEMMA LeavingFx ==
  ASSUME NEW d, d.sub \in [Ids -> SubRecord], NEW q \in Seq(Ids), Rising(q), NEW final,
         NEW users, users = Users(d, q, final), NEW s, s = Leaving(d, q, final)
  PROVE  /\ s \in Seq(Ids) /\ Distinct(s) /\ Items(users) \subseteq Items(s) /\ Items(s) \subseteq Items(q)
         /\ \A i \in Items(s) : i \in Items(users) <=> d.sub[i].kind \notin Writes
         /\ \A a, b \in 1..Len(s) : a < b => InOrder(d, s[a], s[b])
         /\ \A i \in Items(s), j \in Items(q) : j \notin Items(s) => InOrder(d, i, j)
<1>1. PICK w : w = OfMode(d, q, "write")
  OBVIOUS
<1>2. /\ w \in Seq(Ids) /\ Rising(w)
      /\ \A i : i \in Items(w) <=> i \in Items(q) /\ Mode(d.sub[i].kind) = "write"
  BY <1>1, OfModeFx, Zenon
<1>3. /\ users \in Seq(Ids) /\ Rising(users)
      /\ \A i \in Items(users) : i \in Items(q) /\ Mode(d.sub[i].kind) \in {"steer", "followUp"}
      /\ \A i \in Items(users), j \in Items(q) :
           j \notin Items(users) /\ Mode(d.sub[j].kind) = Mode(d.sub[i].kind) => i < j
  BY UsersFx
<1>4. s = w \o users
  BY <1>1 DEF Leaving
<1>5. Distinct(w) /\ Distinct(users) /\ Items(w) \cap Items(users) = {}
  <2>1. Distinct(w) /\ Distinct(users)
    BY <1>2, <1>3, RisingDistinct
  <2>. QED BY <1>2, <1>3, <2>1
<1>6. s \in Seq(Ids) /\ Items(s) = Items(w) \cup Items(users) /\ Distinct(s) /\ Spliced(s, w, users)
  <2>1. w \in Seq(Ids) /\ users \in Seq(Ids)
    BY <1>2, <1>3
  <2>. QED BY <1>4, <1>5, <2>1, ConcatFx
<1>7. \A a, b \in 1..Len(s) : a < b => InOrder(d, s[a], s[b])
  <2>. SUFFICES ASSUME NEW a \in 1..Len(s), NEW b \in 1..Len(s), a < b PROVE InOrder(d, s[a], s[b])
    OBVIOUS
  <2>1. CASE s[a] \in Items(w) /\ s[b] \in Items(users)
    <3>1. Mode(d.sub[s[a]].kind) = "write" /\ Mode(d.sub[s[b]].kind) \in {"steer", "followUp"}
      BY <1>2, <1>3, <2>1
    <3>. QED BY <3>1 DEF InOrder
  <2>2. CASE \E m, n \in 1..Len(w) : m < n /\ s[a] = w[m] /\ s[b] = w[n]
    <3>1. s[a] < s[b]
      BY <1>2, <2>2 DEF Rising
    <3>. QED BY <3>1 DEF InOrder
  <2>3. CASE \E m, n \in 1..Len(users) : m < n /\ s[a] = users[m] /\ s[b] = users[n]
    <3>1. s[a] < s[b]
      BY <1>3, <2>3 DEF Rising
    <3>. QED BY <3>1 DEF InOrder
  <2>. QED BY <1>6, <2>1, <2>2, <2>3 DEF Spliced
<1>8. ASSUME NEW i \in Items(s), NEW j \in Items(q), j \notin Items(s) PROVE InOrder(d, i, j)
  <2>1. CASE i \in Items(w)
    <3>1. Mode(d.sub[i].kind) = "write" /\ Mode(d.sub[j].kind) # "write"
      BY <1>2, <1>6, <1>8, <2>1
    <3>. QED BY <3>1 DEF InOrder
  <2>2. CASE i \in Items(users)
    <3>1. Mode(d.sub[j].kind) = Mode(d.sub[i].kind) => i < j
      BY <1>3, <1>6, <1>8, <2>2
    <3>. QED BY <3>1 DEF InOrder
  <2>. QED BY <1>6, <2>1, <2>2
<1>9. ASSUME NEW i \in Items(s) PROVE i \in Items(users) <=> d.sub[i].kind \notin Writes
  <2>1. i \in Ids /\ d.sub[i].kind \in Inputs \cup Writes
    BY <1>6, ItemsAre DEF SubRecord
  <2>2. Mode(d.sub[i].kind) = "write" <=> d.sub[i].kind \in Writes
    BY <2>1 DEF Mode, Inputs, Writes
  <2>. QED BY <1>2, <1>3, <1>6, <2>2
<1>a. Items(users) \subseteq Items(s) /\ Items(s) \subseteq Items(q)
  BY <1>2, <1>3, <1>6
<1>. QED BY <1>6, <1>7, <1>8, <1>9, <1>a

(* apply_boundary, for an inbox q of any length. *)
LEMMA BoundaryBooks ==
  ASSUME NEW d, Shape(d), NEW q, NEW e, e = [d EXCEPT !.inbox = q], NEW ins, Books(e, ins),
         NEW final, NEW users, users = Users(d, q, final), NEW x, x = Boundary(d, q, final)
  PROVE  /\ users \in Seq(Ids) /\ Books(x, ins \o users)
         /\ x.head >= d.head
<1>1. e.sub = d.sub /\ e.log = d.log /\ e.head = d.head /\ e.inbox = q
  BY DEF Shape
<1>2. /\ d.sub \in [Ids -> SubRecord] /\ q \in Seq(Ids) /\ Rising(q) /\ Ground(d)
      /\ ins \in Seq(Ids) /\ Distinct(ins) /\ Len(d.log) \in Nat /\ d.head \in Nat
  BY <1>1 DEF Books, Ground
<1>3. PICK s : s = Leaving(d, q, final)
  OBVIOUS
<1>4. /\ s \in Seq(Ids) /\ Distinct(s) /\ Items(users) \subseteq Items(s) /\ Items(s) \subseteq Items(q)
      /\ \A i \in Items(s) : i \in Items(users) <=> d.sub[i].kind \notin Writes
      /\ \A a, b \in 1..Len(s) : a < b => InOrder(d, s[a], s[b])
      /\ \A i \in Items(s), j \in Items(q) : j \notin Items(s) => InOrder(d, i, j)
  BY <1>2, <1>3, LeavingFx
<1>5. users \in Seq(Ids) /\ Rising(users)
  BY <1>2, UsersFx
<1>6. \A i \in Items(s) : i \in Ids /\ d.sub[i].st = "queued" /\ d.sub[i].pin <= Len(d.log)
  BY <1>1, <1>4, ItemsAre DEF Books
<1>7. PICK y : y = PlaceAll(d, s)
  OBVIOUS
<1>8. Placing(d, y, Items(s))
  <2>1. \A k \in 1..Len(s) : d.sub[s[k]].st = "queued" /\ d.sub[s[k]].pin <= Len(d.log)
    BY <1>6 DEF Items
  <2>. QED BY <1>2, <1>4, <1>7, <2>1, PlaceAllFx
<1>9. PICK r : r = Those(q, Ids \ Items(s))
  OBVIOUS
<1>a. r \in Seq(Ids) /\ Rising(r) /\ \A i : i \in Items(r) <=> i \in Items(q) /\ i \notin Items(s)
  <2>1. r \in Seq(Ids) /\ Rising(r) /\ Items(r) = Items(q) \cap (Ids \ Items(s))
    BY <1>2, <1>9, ThoseFx
  <2>. QED BY <1>2, <2>1, ItemsAre
<1>b. x.sub = y.sub /\ x.log = y.log /\ x.head = y.head /\ x.inbox = r
  <2>1. x = [d EXCEPT !.sub = y.sub, !.log = y.log, !.head = y.head, !.inbox = r]
    BY <1>3, <1>7, <1>9 DEF Boundary
  <2>. QED BY <2>1 DEF Shape
<1>c. x.sub \in [Ids -> SubRecord] /\ \A i \in Ids : Recorded(x.sub[i])
  BY <1>8, <1>b DEF Placing
<1>d. \A i \in Items(s) : /\ x.sub[i].st \notin {"none", "queued"}
                          /\ i \in Items(users) <=> x.sub[i].st = "placed"
  BY <1>4, <1>6, <1>8, <1>b DEF Placing, Gone
<1>e. \A i \in Ids : i \notin Items(s) => x.sub[i] = d.sub[i]
  BY <1>8, <1>b DEF Placing
<1>f. \A i, j \in Ids : i < j /\ x.sub[j].st # "none" => x.sub[i].st # "none"
  <2>1. \A i \in Ids : x.sub[i].st = "none" <=> d.sub[i].st = "none"
    BY <1>6, <1>d, <1>e
  <2>. QED BY <1>1, <2>1 DEF Books
<1>g. \A i \in Ids : i \in Items(x.inbox) <=> x.sub[i].st = "queued"
  <2>1. \A i \in Ids : i \in Items(q) <=> d.sub[i].st = "queued"
    BY <1>1 DEF Books
  <2>. QED BY <1>a, <1>b, <1>d, <1>e, <2>1
<1>h. PICK z : z = ins \o users
  OBVIOUS
<1>i. /\ z \in Seq(Ids) /\ Distinct(z) /\ \A i \in Ids : i \in Items(z) <=> x.sub[i].st = "placed"
  <2>1. \A i \in Ids : i \in Items(ins) <=> d.sub[i].st = "placed"
    BY <1>1 DEF Books
  <2>2. Items(ins) \cap Items(users) = {}
    BY <1>4, <1>6, <2>1
  <2>3. z \in Seq(Ids) /\ Distinct(z) /\ Items(z) = Items(ins) \cup Items(users)
    BY <1>2, <1>5, <1>h, <2>2, RisingDistinct, ConcatFx
  <2>. QED BY <1>4, <1>6, <1>d, <1>e, <2>1, <2>3
<1>j. /\ x.log \in Seq(Ids) /\ Len(x.log) \in Nat /\ Len(d.log) <= Len(x.log)
      /\ x.head \in 0..Len(x.log) /\ x.head >= d.head
      /\ \A i \in Ids : x.sub[i].kind = d.sub[i].kind /\ x.sub[i].pin = d.sub[i].pin
  BY <1>2, <1>8, <1>b DEF Placing
<1>k. \A i \in Ids : x.sub[i].pin <= Len(x.log)
  <2>1. \A i \in Ids : d.sub[i].pin \in Nat /\ d.sub[i].pin <= Len(d.log)
    BY <1>1, <1>2 DEF Books, SubRecord
  <2>. QED BY <1>2, <1>j, <2>1, SMTT(60)
<1>l. \A i, j \in Ids : InOrder(d, i, j) => InOrder(x, i, j)
  BY <1>j DEF InOrder
<1>m. \A k \in 1..Len(x.log) : \/ k \in 1..Len(d.log) /\ x.log[k] = d.log[k]
                               \/ k > Len(d.log) /\ x.log[k] \in Items(s)
  BY <1>2, <1>8, <1>b, <1>j DEF Placing
<1>n. \A k \in 1..Len(x.log) : x.sub[x.log[k]].st # "none"
  <2>1. \A k \in 1..Len(d.log) : d.log[k] \in Ids /\ d.sub[d.log[k]].st # "none"
    BY <1>1 DEF Books
  <2>. QED BY <1>d, <1>e, <1>m, <2>1
<1>o. ASSUME NEW a \in 1..Len(x.log), NEW b \in 1..Len(x.log), a < b
      PROVE  InOrder(x, x.log[a], x.log[b])
  <2>1. CASE b \in 1..Len(d.log) /\ x.log[b] = d.log[b]
    <3>1. a \in 1..Len(d.log) /\ x.log[a] = d.log[a]
      BY <1>2, <1>m, <1>o, <2>1
    <3>2. InOrder(d, d.log[a], d.log[b]) /\ d.log[a] \in Ids /\ d.log[b] \in Ids
      <4>1. InOrder(e, d.log[a], d.log[b])
        BY <1>1, <1>o, <2>1, <3>1 DEF Books
      <4>2. d.log \in Seq(Ids)
        BY <1>2 DEF Ground
      <4>. QED BY <1>1, <2>1, <3>1, <4>1, <4>2 DEF InOrder
    <3>. QED BY <1>l, <2>1, <3>1, <3>2
  <2>2. CASE b > Len(d.log) /\ x.log[b] \in Items(s)
    <3>1. x.log[b] \in Items(q) /\ x.log[b] \in Ids /\ x.log[a] \in Ids
      BY <1>4, <1>6, <1>j, <2>2
    <3>2. CASE a \in 1..Len(d.log) /\ x.log[a] = d.log[a]
      <4>1. InOrder(e, d.log[a], x.log[b])
        BY <1>1, <3>1, <3>2 DEF Books
      <4>2. InOrder(d, d.log[a], x.log[b])
        BY <1>1, <4>1 DEF InOrder
      <4>. QED BY <1>l, <3>1, <3>2, <4>2
    <3>3. CASE a > Len(d.log)
      <4>1. InOrder(d, x.log[a], x.log[b])
        BY <1>8, <1>b, <1>o, <3>3 DEF Placing
      <4>. QED BY <1>l, <3>1, <4>1
    <3>. QED BY <1>m, <3>2, <3>3
  <2>. QED BY <1>m, <2>1, <2>2
<1>p. ASSUME NEW k \in 1..Len(x.log), NEW i \in Items(x.inbox) PROVE InOrder(x, x.log[k], i)
  <2>1. i \in Items(q) /\ i \notin Items(s) /\ i \in Ids /\ x.log[k] \in Ids
    BY <1>2, <1>a, <1>b, <1>j, <1>p, ItemsAre
  <2>2. InOrder(d, x.log[k], i)
    <3>1. CASE k \in 1..Len(d.log) /\ x.log[k] = d.log[k]
      <4>1. InOrder(e, d.log[k], i)
        BY <1>1, <2>1, <3>1 DEF Books
      <4>. QED BY <1>1, <3>1, <4>1 DEF InOrder
    <3>2. CASE x.log[k] \in Items(s)
      BY <1>4, <2>1, <3>2
    <3>. QED BY <1>m, <3>1, <3>2
  <2>. QED BY <1>l, <2>1, <2>2
<1>q. Books(x, z)
  BY <1>a, <1>b, <1>c, <1>f, <1>g, <1>i, <1>j, <1>k, <1>n, <1>o, <1>p DEF Books
<1>. QED BY <1>5, <1>h, <1>j, <1>q

(* What the helpers leave of the books. *)
Aside(x, d) == x.sub = d.sub /\ x.inbox = d.inbox /\ x.log = d.log /\ x.head = d.head

LEMMA AsideBooks ==
  ASSUME NEW d, NEW ins, Books(d, ins), NEW x, Aside(x, d)
  PROVE  Books(x, ins)
<1>1. \A i, j : InOrder(d, i, j) => InOrder(x, i, j)
  BY DEF Aside, InOrder
<1>. QED BY <1>1 DEF Books, Aside

LEMMA GenAside ==
  ASSUME NEW d, Shape(d), NEW g, NEW x, x = [d EXCEPT !.gen = g]
  PROVE  Shape(x) /\ Aside(x, d) /\ x.run = d.run
BY DEF Shape, Aside

LEMMA StartRunAside ==
  ASSUME NEW d, Shape(d), NEW ins, NEW x, x = StartRun(d, ins)
  PROVE  Shape(x) /\ Aside(x, d) /\ x.run.inputs = ins
<1>1. PICK n, r : n = NextGen(d) /\ r = [task |-> n, inputs |-> ins]
  OBVIOUS
<1>2. x = [d EXCEPT !.gen[n] = Fresh, !.run = r]
  BY <1>1 DEF StartRun, Fresh
<1>3. Aside(x, d)
  BY <1>2 DEF Shape, Aside
<1>4. Shape(x) /\ x.run = [task |-> n, inputs |-> ins]
  <2>1. r.task = n /\ r = [task |-> r.task, inputs |-> r.inputs]
    BY <1>1, RunIs
  <2>. QED BY <1>1, <1>2, <2>1 DEF Shape
<1>. QED BY <1>3, <1>4

LEMMA JoinRunAside ==
  ASSUME NEW d, Shape(d), NEW t, d.run.task = t, NEW users, NEW x, x = JoinRun(d, t, users)
  PROVE  Shape(x) /\ Aside(x, d) /\ x.run.inputs = d.run.inputs \o users
<1>1. PICK r : r = [d.run EXCEPT !.inputs = @ \o users]
  OBVIOUS
<1>2. x = [d EXCEPT !.run = r]
  BY <1>1 DEF JoinRun, Shape
<1>3. r.inputs = d.run.inputs \o users
  BY <1>1 DEF Shape
<1>4. x.run = r /\ Aside(x, d)
  BY <1>2 DEF Shape, Aside
<1>. QED BY <1>3, <1>4, JoinRunFx

LEMMA EndsAside ==
  ASSUME NEW d, Shape(d), NEW t, NEW o, NEW x, x = Ends(d, t, o)
  PROVE  Shape(x) /\ Aside(x, d) /\ x.run = d.run
<1>1. Aside(x, d)
  BY DEF Ends, Shape, Aside
<1>2. Shape(x) /\ x.run = d.run
  BY DEF Ends, Shape
<1>. QED BY <1>1, <1>2

(* Settling S, whose members are admitted. *)
Reasons == {"none", "aborted", "stale", "model_error", "reset"}
Ended(st, reason) == st \in {"done", "unanswered"} /\ reason \in Reasons /\ (st = "unanswered" <=> reason # "none")

Settles(d, x, S) ==
  /\ Shape(x) /\ x.inbox = d.inbox /\ x.log = d.log /\ x.head = d.head /\ x.run = d.run
  /\ x.sub \in [Ids -> SubRecord]
  /\ \A i \in Ids : /\ Recorded(x.sub[i]) /\ (x.sub[i].st = "none" <=> d.sub[i].st = "none")
                    /\ x.sub[i].kind = d.sub[i].kind /\ x.sub[i].pin = d.sub[i].pin
                    /\ i \notin S => x.sub[i] = d.sub[i]
                    /\ i \in S => Settled(x.sub[i])

LEMMA SettleBooks ==
  ASSUME NEW d, Shape(d), d.sub \in [Ids -> SubRecord], \A i \in Ids : Recorded(d.sub[i]),
         NEW S, \A i \in S : i \in Ids /\ d.sub[i].st # "none", NEW st, NEW reason, Ended(st, reason),
         NEW x, x = Settle(d, S, st, reason)
  PROVE  Settles(d, x, S)
<1>1. PICK m : m = [i \in Ids |-> IF i \in S /\ ~Settled(d.sub[i])
                                  THEN [d.sub[i] EXCEPT !.st = st, !.reason = reason] ELSE d.sub[i]]
  OBVIOUS
<1>2. x = [d EXCEPT !.sub = m]
  BY <1>1 DEF Settle
<1>3. Shape(x) /\ x.sub = m /\ x.inbox = d.inbox /\ x.log = d.log /\ x.head = d.head /\ x.run = d.run
  BY <1>2 DEF Shape
<1>4. ASSUME NEW i \in Ids
      PROVE  /\ m[i] \in SubRecord /\ Recorded(m[i]) /\ (m[i].st = "none" <=> d.sub[i].st = "none")
             /\ m[i].kind = d.sub[i].kind /\ m[i].pin = d.sub[i].pin
             /\ i \notin S => m[i] = d.sub[i]
             /\ i \in S => Settled(m[i])
  <2>1. PICK r \in SubRecord : r = d.sub[i]
    OBVIOUS
  <2>2. PICK e : e = [r EXCEPT !.st = st, !.reason = reason]
    OBVIOUS
  <2>3. e \in SubRecord /\ e.st = st /\ e.reason = reason /\ e.kind = r.kind /\ e.pin = r.pin
    BY <2>2 DEF SubRecord, Ended, Reasons
  <2>4. m[i] = IF i \in S /\ ~Settled(r) THEN e ELSE r
    BY <1>1, <2>1, <2>2
  <2>5. Recorded(e) /\ Settled(e) /\ e.st # "none"
    BY <2>3 DEF Recorded, Settled, Ended
  <2>6. i \in S => r.st # "none"
    BY <2>1
  <2>. QED BY <2>1, <2>3, <2>4, <2>5, <2>6
<1>5. m \in [Ids -> SubRecord]
  BY <1>1, <1>4
<1>. QED BY <1>3, <1>4, <1>5 DEF Settles

(* end_run settles the inputs of a run; those of the next one stay. *)
LEMMA EndRunBooks ==
  ASSUME NEW d, Shape(d), NEW t, d.run.task = t, NEW ins, ins = d.run.inputs, ins \in Seq(Ids),
         NEW users \in Seq(Ids), Books(d, ins \o users), NEW st, NEW reason, Ended(st, reason),
         NEW x, x = EndRun(d, t, st, reason)
  PROVE  Shape(x) /\ Books(x, users) /\ x.head = d.head /\ x.run = NoRun
<1>1. PICK z : z = ins \o users
  OBVIOUS
<1>2. /\ z \in Seq(Ids) /\ Books(d, z) /\ Distinct(z) /\ \A i \in Ids : i \in Items(z) <=> d.sub[i].st = "placed"
  BY <1>1 DEF Books
<1>3. Items(z) = Items(ins) \cup Items(users)
  BY <1>1, ConcatFx
<1>4. Distinct(users) /\ Items(ins) \cap Items(users) = {}
  <2>1. /\ Len(z) = Len(ins) + Len(users) /\ Len(ins) \in Nat /\ Len(users) \in Nat
        /\ \A k \in 1..Len(ins) : k \in 1..Len(z) /\ z[k] = ins[k]
        /\ \A k \in 1..Len(users) : k + Len(ins) \in 1..Len(z) /\ z[k + Len(ins)] = users[k]
    BY <1>1
  <2>2. Distinct(users)
    <3>. SUFFICES ASSUME NEW a \in 1..Len(users), NEW b \in 1..Len(users), users[a] = users[b] PROVE a = b
      BY DEF Distinct
    <3>1. /\ a + Len(ins) \in 1..Len(z) /\ b + Len(ins) \in 1..Len(z)
          /\ z[a + Len(ins)] = z[b + Len(ins)]
      BY <2>1
    <3>2. a + Len(ins) = b + Len(ins)
      BY <1>2, <3>1 DEF Distinct
    <3>. QED BY <2>1, <3>2
  <2>3. ASSUME NEW a \in 1..Len(ins), NEW b \in 1..Len(users), ins[a] = users[b] PROVE FALSE
    <3>1. a \in 1..Len(z) /\ b + Len(ins) \in 1..Len(z) /\ z[a] = z[b + Len(ins)]
      BY <2>1, <2>3
    <3>2. a = b + Len(ins)
      BY <1>2, <3>1 DEF Distinct
    <3>. QED BY <2>1, <3>2
  <2>4. Items(ins) \cap Items(users) = {}
    BY <2>3 DEF Items
  <2>. QED BY <2>2, <2>4
<1>5. PICK S, y : S = Items(ins) /\ y = Settle(d, S, st, reason)
  OBVIOUS
<1>6. x = [y EXCEPT !.run = NoRun]
  BY <1>5 DEF EndRun
<1>7. \A i \in S : i \in Ids /\ d.sub[i].st = "placed"
  BY <1>2, <1>3, <1>5, ItemsAre
<1>8. d.sub \in [Ids -> SubRecord] /\ (\A i \in Ids : Recorded(d.sub[i])) /\ \A i \in S : i \in Ids /\ d.sub[i].st # "none"
  BY <1>2, <1>7 DEF Books
<1>9. /\ Shape(y) /\ y.inbox = d.inbox /\ y.log = d.log /\ y.head = d.head /\ y.run = d.run
      /\ y.sub \in [Ids -> SubRecord]
      /\ \A i \in Ids : /\ Recorded(y.sub[i]) /\ (y.sub[i].st = "none" <=> d.sub[i].st = "none")
                        /\ y.sub[i].kind = d.sub[i].kind /\ y.sub[i].pin = d.sub[i].pin
                        /\ i \notin S => y.sub[i] = d.sub[i]
                        /\ i \in S => Settled(y.sub[i])
  <2>1. Settles(d, y, S)
    BY <1>5, <1>8, SettleBooks, Zenon
  <2>. QED BY <2>1 DEF Settles
<1>a. \A i \in Ids : y.sub[i].st = "queued" <=> d.sub[i].st = "queued"
  BY <1>7, <1>9 DEF Settled
<1>b. \A i \in Ids : i \in Items(users) <=> y.sub[i].st = "placed"
  BY <1>2, <1>3, <1>4, <1>5, <1>9 DEF Settled
<1>c. \A i, j \in Ids : InOrder(d, i, j) => InOrder(y, i, j)
  BY <1>9 DEF InOrder
<1>d. Books(y, users)
  <2>1. d.log \in Seq(Ids) /\ d.inbox \in Seq(Ids) /\ Items(d.inbox) \subseteq Ids
    BY <1>2, ItemsAre DEF Books
  <2>2. \A i, j \in Ids : i < j /\ y.sub[j].st # "none" => y.sub[i].st # "none"
    BY <1>2, <1>9 DEF Books
  <2>3. \A i \in Ids : y.sub[i].pin <= Len(y.log)
    BY <1>2, <1>9 DEF Books
  <2>4. \A k \in 1..Len(y.log) : y.sub[y.log[k]].st # "none"
    <3>1. \A k \in 1..Len(d.log) : d.log[k] \in Ids /\ d.sub[d.log[k]].st # "none"
      BY <1>2, <2>1 DEF Books
    <3>. QED BY <1>9, <3>1
  <2>5. \A a, b \in 1..Len(y.log) : a < b => InOrder(y, y.log[a], y.log[b])
    BY <1>2, <1>9, <1>c, <2>1 DEF Books
  <2>6. \A k \in 1..Len(y.log), i \in Items(y.inbox) : InOrder(y, y.log[k], i)
    BY <1>2, <1>9, <1>c, <2>1 DEF Books
  <2>. QED BY <1>2, <1>4, <1>9, <1>a, <1>b, <2>2, <2>3, <2>4, <2>5, <2>6 DEF Books
<1>e. Shape(x) /\ Aside(x, y) /\ x.run = NoRun
  BY <1>6, <1>9, NoRunIs DEF Shape, Aside
<1>. QED BY <1>9, <1>d, <1>e, AsideBooks DEF Aside

(* abort_submission and withdraw_queued_inputs take G out of the inbox. *)
LEMMA WithdrawBooks ==
  ASSUME NEW d, Shape(d), NEW ins, Books(d, ins), NEW G, G \subseteq Items(d.inbox),
         NEW y, y = Settle(d, G, "unanswered", "aborted"),
         NEW x, x = [y EXCEPT !.inbox = Those(d.inbox, Ids \ G)]
  PROVE  Shape(x) /\ Books(x, ins) /\ x.head = d.head /\ x.run = d.run
<1>1. d.inbox \in Seq(Ids) /\ Rising(d.inbox) /\ Items(d.inbox) \subseteq Ids /\ d.log \in Seq(Ids)
  BY ItemsAre DEF Books
<1>2. \A i \in G : i \in Ids /\ d.sub[i].st = "queued"
  BY <1>1 DEF Books
<1>3. d.sub \in [Ids -> SubRecord] /\ (\A i \in Ids : Recorded(d.sub[i])) /\ \A i \in G : i \in Ids /\ d.sub[i].st # "none"
  BY <1>2 DEF Books
<1>a. Ended("unanswered", "aborted")
  BY DEF Ended, Reasons
<1>4. /\ Shape(y) /\ y.inbox = d.inbox /\ y.log = d.log /\ y.head = d.head /\ y.run = d.run
      /\ y.sub \in [Ids -> SubRecord]
      /\ \A i \in Ids : /\ Recorded(y.sub[i]) /\ (y.sub[i].st = "none" <=> d.sub[i].st = "none")
                        /\ y.sub[i].kind = d.sub[i].kind /\ y.sub[i].pin = d.sub[i].pin
                        /\ i \notin G => y.sub[i] = d.sub[i]
                        /\ i \in G => Settled(y.sub[i])
  <2>1. Settles(d, y, G)
    BY <1>3, <1>a, SettleBooks, Zenon
  <2>. QED BY <2>1 DEF Settles
<1>5. PICK q : q = Those(d.inbox, Ids \ G)
  OBVIOUS
<1>6. q \in Seq(Ids) /\ Rising(q) /\ \A i \in Ids : i \in Items(q) <=> i \in Items(d.inbox) /\ i \notin G
  <2>1. q \in Seq(Ids) /\ Rising(q) /\ Items(q) = Items(d.inbox) \cap (Ids \ G)
    BY <1>1, <1>5, ThoseFx
  <2>. QED BY <2>1
<1>7. Shape(x) /\ x.inbox = q /\ x.sub = y.sub /\ x.log = d.log /\ x.head = d.head /\ x.run = d.run
  BY <1>4, <1>5 DEF Shape
<1>8. \A i \in Ids : i \in Items(q) <=> x.sub[i].st = "queued"
  BY <1>2, <1>4, <1>6, <1>7 DEF Settled, Books
<1>9. \A i \in Ids : i \in Items(ins) <=> x.sub[i].st = "placed"
  <2>1. \A i \in Ids : i \in Items(ins) <=> d.sub[i].st = "placed"
    BY DEF Books
  <2>. QED BY <1>2, <1>4, <1>7, <2>1 DEF Settled
<1>c. \A i, j \in Ids : InOrder(d, i, j) => InOrder(x, i, j)
  BY <1>4, <1>7 DEF InOrder
<1>d. Books(x, ins)
  <2>2. \A i, j \in Ids : i < j /\ x.sub[j].st # "none" => x.sub[i].st # "none"
    BY <1>4, <1>7, SMTT(60) DEF Books
  <2>3. \A i \in Ids : x.sub[i].pin <= Len(x.log)
    BY <1>4, <1>7 DEF Books
  <2>4. \A k \in 1..Len(x.log) : x.sub[x.log[k]].st # "none"
    BY <1>1, <1>4, <1>7 DEF Books
  <2>5. \A a, b \in 1..Len(x.log) : a < b => InOrder(x, x.log[a], x.log[b])
    <3>1. \A a, b \in 1..Len(d.log) : a < b => InOrder(d, d.log[a], d.log[b]) /\ d.log[a] \in Ids /\ d.log[b] \in Ids
      BY <1>1 DEF Books
    <3>. QED BY <1>7, <1>c, <3>1
  <2>6. ASSUME NEW k \in 1..Len(x.log), NEW i \in Items(x.inbox) PROVE InOrder(x, x.log[k], i)
    <3>1. i \in Ids /\ i \in Items(d.inbox) /\ d.log[k] \in Ids
      BY <1>1, <1>6, <1>7, ItemsAre
    <3>2. InOrder(d, d.log[k], i)
      BY <1>7, <3>1 DEF Books
    <3>. QED BY <1>7, <1>c, <3>1, <3>2
  <2>. QED BY <1>4, <1>6, <1>7, <1>8, <1>9, <2>2, <2>3, <2>4, <2>5, <2>6 DEF Books
<1>. QED BY <1>7, <1>d

(* A new submission has the number of submissions before it. *)
LEMMA NextIdFx ==
  ASSUME NEW d, d.sub \in [Ids -> SubRecord],
         \A i, j \in Ids : i < j /\ d.sub[j].st # "none" => d.sub[i].st # "none",
         NEW n, n = NextId(d), n \in Ids
  PROVE  d.sub[n].st = "none" /\ \A u \in Ids : u < n <=> d.sub[u].st # "none"
<1>. DEFINE U == {i \in Ids : d.sub[i].st # "none"}
<1>0. PICK N \in Nat : N = SubmissionBound /\ Ids = 1..N
  BY SubmissionsAssumption DEF Ids
<1>1. IsFiniteSet(Ids) /\ IsFiniteSet(U) /\ Cardinality(U) \in Nat
  <2>1. IsFiniteSet(Ids)
    BY <1>0, FS_Interval
  <2>2. IsFiniteSet(U)
    BY <2>1, FS_Subset
  <2>. QED BY <2>1, <2>2, FS_CardinalityType
<1>2. n = Cardinality(U) + 1 /\ n \in 1..N
  BY <1>0 DEF NextId, Admitted
<1>3. d.sub[n].st = "none"
  <2>. SUFFICES ASSUME d.sub[n].st # "none" PROVE FALSE
    OBVIOUS
  <2>1. 1..n \subseteq U
    <3>1. ASSUME NEW k \in 1..n PROVE k \in Ids /\ d.sub[k].st # "none"
      <4>1. k \in Ids /\ n \in Ids /\ (k = n \/ k < n)
        BY <1>0, <1>2
      <4>. QED BY <4>1
    <3>. QED BY <3>1
  <2>2. Cardinality(1..n) <= Cardinality(U)
    BY <1>1, <2>1, FS_Subset
  <2>3. Cardinality(1..n) = n
    BY <1>2, FS_Interval
  <2>. QED BY <1>1, <1>2, <2>2, <2>3
<1>4. ASSUME NEW u \in Ids, u < n PROVE d.sub[u].st # "none"
  <2>. SUFFICES ASSUME d.sub[u].st = "none" PROVE FALSE
    OBVIOUS
  <2>1. u \in 1..N /\ u - 1 \in Nat
    BY <1>0
  <2>2. U \subseteq 1..(u - 1)
    <3>1. ASSUME NEW k \in Ids, d.sub[k].st # "none" PROVE k \in 1..(u - 1)
      <4>1. ~(u < k) /\ u # k
        BY <1>4, <3>1
      <4>. QED BY <1>0, <4>1
    <3>. QED BY <3>1
  <2>3. Cardinality(U) <= Cardinality(1..(u - 1)) /\ Cardinality(1..(u - 1)) = u - 1
    <3>1. IsFiniteSet(1..(u - 1)) /\ Cardinality(1..(u - 1)) = u - 1
      BY <2>1, FS_Interval
    <3>. QED BY <2>2, <3>1, FS_Subset
  <2>. QED BY <1>1, <1>2, <1>4, <2>1, <2>3
<1>5. ASSUME NEW u \in Ids, d.sub[u].st # "none" PROVE u < n
  <2>1. ~(n < u) /\ n # u
    BY <1>3, <1>5
  <2>. QED BY <1>0, <1>2, <2>1
<1>. QED BY <1>3, <1>4, <1>5

(* create_submission.  The draft joins the inbox, or is placed at once. *)
LEMMA CreateFx ==
  ASSUME NEW d, Shape(d), NEW ins, Books(d, ins), NEW id, id = NextId(d), id \in Ids, NEW r, NEW c, c = Created(d, r)
  PROVE  /\ Shape(c) /\ c.sub = [d.sub EXCEPT ![id] = r] /\ c.inbox = d.inbox /\ c.log = d.log
         /\ c.head = d.head /\ c.run = d.run
         /\ d.sub[id].st = "none" /\ \A u \in Ids : u < id <=> d.sub[u].st # "none"
<1>1. d.sub[id].st = "none" /\ \A u \in Ids : u < id <=> d.sub[u].st # "none"
  BY NextIdFx DEF Books
<1>2. c = [d EXCEPT !.sub[id] = r]
  BY DEF Created
<1>. QED BY <1>1, <1>2 DEF Shape

Drafted(d, r) == r \in SubRecord /\ r.st = "queued" /\ r.reason = "none" /\ r.pin <= Len(d.log)

LEMMA QueueBooks ==
  ASSUME NEW d, Shape(d), NEW ins, Books(d, ins), NEW id, id = NextId(d), id \in Ids,
         NEW r, Drafted(d, r), NEW c, c = Created(d, r), NEW e, e = [c EXCEPT !.inbox = Append(d.inbox, id)]
  PROVE  Shape(e) /\ Books(e, ins) /\ e.head = d.head /\ e.run = d.run
<1>1. /\ Shape(c) /\ c.sub = [d.sub EXCEPT ![id] = r] /\ c.inbox = d.inbox /\ c.log = d.log
      /\ c.head = d.head /\ c.run = d.run
      /\ d.sub[id].st = "none" /\ \A u \in Ids : u < id <=> d.sub[u].st # "none"
  BY CreateFx
<1>2. PICK q : q = Append(d.inbox, id)
  OBVIOUS
<1>3. Shape(e) /\ e.sub = c.sub /\ e.inbox = q /\ e.log = d.log /\ e.head = d.head /\ e.run = d.run
  BY <1>1, <1>2 DEF Shape
<1>4. /\ d.sub \in [Ids -> SubRecord] /\ d.inbox \in Seq(Ids) /\ Rising(d.inbox) /\ d.log \in Seq(Ids)
      /\ \A i \in Ids : i \in Items(d.inbox) <=> d.sub[i].st = "queued"
      /\ Items(d.inbox) \subseteq Ids
  BY ItemsAre DEF Books
<1>5. e.sub \in [Ids -> SubRecord] /\ \A i \in Ids : e.sub[i] = IF i = id THEN r ELSE d.sub[i]
  <2>1. r \in SubRecord
    BY DEF Drafted
  <2>2. e.sub = [d.sub EXCEPT ![id] = r]
    BY <1>1, <1>3
  <2>. QED BY <1>4, <2>1, <2>2
<1>6. \A i \in Items(d.inbox) : i < id
  BY <1>1, <1>4
<1>7. q \in Seq(Ids) /\ Rising(q) /\ Items(q) = Items(d.inbox) \cup {id}
  BY <1>2, <1>4, <1>6, AppendFx
<1>8. \A i \in Ids : Recorded(e.sub[i])
  BY <1>5 DEF Books, Drafted, Recorded
<1>9. \A i, j \in Ids : i < j /\ e.sub[j].st # "none" => e.sub[i].st # "none"
  <2>. SUFFICES ASSUME NEW i \in Ids, NEW j \in Ids, i < j, e.sub[j].st # "none", i # id PROVE d.sub[i].st # "none"
    BY <1>5 DEF Drafted
  <2>1. CASE j = id
    BY <1>1, <2>1
  <2>2. CASE j # id
    BY <1>5, <2>2 DEF Books
  <2>. QED BY <2>1, <2>2
<1>a. \A i \in Ids : i \in Items(q) <=> e.sub[i].st = "queued"
  BY <1>4, <1>5, <1>7 DEF Drafted
<1>b. \A i \in Ids : i \in Items(ins) <=> e.sub[i].st = "placed"
  <2>1. \A i \in Ids : i \in Items(ins) <=> d.sub[i].st = "placed"
    BY DEF Books
  <2>. QED BY <1>1, <1>5, <2>1 DEF Drafted
<1>c. \A i \in Ids : e.sub[i].pin <= Len(e.log)
  BY <1>3, <1>5 DEF Books, Drafted
<1>d. \A k \in 1..Len(d.log) : d.log[k] \in Ids /\ d.sub[d.log[k]].st # "none" /\ d.log[k] # id
  BY <1>1, <1>4 DEF Books
<1>e. \A i, j \in Ids : i # id /\ j # id /\ InOrder(d, i, j) => InOrder(e, i, j)
  BY <1>5 DEF InOrder
<1>f. \A k \in 1..Len(e.log) : e.sub[e.log[k]].st # "none"
  BY <1>3, <1>5, <1>d
<1>g. ASSUME NEW a \in 1..Len(e.log), NEW b \in 1..Len(e.log), a < b PROVE InOrder(e, e.log[a], e.log[b])
  <2>1. a \in 1..Len(d.log) /\ b \in 1..Len(d.log) /\ e.log[a] = d.log[a] /\ e.log[b] = d.log[b]
    BY <1>3
  <2>2. InOrder(d, d.log[a], d.log[b])
    BY <1>g, <2>1 DEF Books
  <2>. QED BY <1>d, <1>e, <2>1, <2>2
<1>h. ASSUME NEW k \in 1..Len(e.log), NEW i \in Items(e.inbox) PROVE InOrder(e, e.log[k], i)
  <2>1. k \in 1..Len(d.log) /\ e.log[k] = d.log[k]
    BY <1>3
  <2>2. CASE i = id
    <3>1. d.log[k] < id
      BY <1>1, <1>d, <2>1
    <3>. QED BY <2>1, <2>2, <3>1 DEF InOrder
  <2>3. CASE i # id
    <3>1. i \in Items(d.inbox) /\ i \in Ids
      BY <1>3, <1>4, <1>7, <2>3
    <3>2. InOrder(d, d.log[k], i)
      BY <2>1, <3>1 DEF Books
    <3>. QED BY <1>d, <1>e, <2>1, <2>3, <3>1, <3>2
  <2>. QED BY <2>2, <2>3
<1>i. Books(e, ins)
  <2>1. ins \in Seq(Ids) /\ Distinct(ins) /\ d.head \in 0..Len(d.log)
    BY DEF Books
  <2>. QED BY <1>3, <1>4, <1>5, <1>7, <1>8, <1>9, <1>a, <1>b, <1>c, <1>f, <1>g, <1>h, <2>1 DEF Books
<1>. QED BY <1>3, <1>i

LEMMA DirectBooks ==
  ASSUME NEW d, Shape(d), NEW ins, Books(d, ins), NEW id, id = NextId(d), id \in Ids,
         NEW r, Drafted(d, r), NEW c, c = Created(d, r), r.kind = "display" \/ d.inbox = <<>>,
         NEW x, x = Place(c, id), x.inbox = d.inbox
  PROVE  /\ r.kind \in Writes => Books(x, ins)
         /\ r.kind \notin Writes /\ ins = <<>> => Books(x, <<id>>)
         /\ x.head >= d.head
<1>1. /\ Shape(c) /\ c.sub = [d.sub EXCEPT ![id] = r] /\ c.inbox = d.inbox /\ c.log = d.log
      /\ c.head = d.head /\ c.run = d.run
      /\ d.sub[id].st = "none" /\ \A u \in Ids : u < id <=> d.sub[u].st # "none"
  BY CreateFx
<1>2. /\ d.sub \in [Ids -> SubRecord] /\ d.inbox \in Seq(Ids) /\ Rising(d.inbox) /\ d.log \in Seq(Ids)
      /\ \A i \in Ids : i \in Items(d.inbox) <=> d.sub[i].st = "queued"
      /\ Items(d.inbox) \subseteq Ids /\ d.head \in 0..Len(d.log) /\ Len(d.log) \in Nat /\ d.head \in Nat
      /\ ins \in Seq(Ids) /\ Distinct(ins)
  BY ItemsAre DEF Books
<1>3. c.sub \in [Ids -> SubRecord] /\ \A i \in Ids : c.sub[i] = IF i = id THEN r ELSE d.sub[i]
  BY <1>1, <1>2 DEF Drafted
<1>4. Ground(c)
  <2>1. \A i \in Ids : Recorded(c.sub[i])
    BY <1>3 DEF Books, Drafted, Recorded
  <2>. QED BY <1>1, <1>2, <1>3, <2>1 DEF Ground
<1>5. Placing(c, x, {} \cup {id})
  <2>1. Placing(c, c, {})
    BY <1>2, <1>4 DEF Placing, Ground
  <2>2. Placeable(c, {}, id)
    BY <1>1, <1>3 DEF Placeable, Drafted
  <2>. QED BY <1>4, <2>1, <2>2, PlaceFx
<1>6. /\ x.sub \in [Ids -> SubRecord]
      /\ \A i \in Ids : Recorded(x.sub[i]) /\ x.sub[i].kind = c.sub[i].kind /\ x.sub[i].pin = c.sub[i].pin
      /\ \A i \in Ids : i # id => x.sub[i] = d.sub[i]
      /\ Gone(x.sub[id]) /\ x.sub[id].kind = r.kind
      /\ x.log \in Seq(Ids) /\ Len(d.log) <= Len(x.log) /\ Len(x.log) \in Nat
      /\ x.head \in d.head..Len(x.log)
  BY <1>1, <1>3, <1>5 DEF Placing
<1>7. /\ \A k \in 1..Len(d.log) : x.log[k] = d.log[k]
      /\ \A k \in 1..Len(x.log) : k > Len(d.log) => x.log[k] = id
      /\ \A a, b \in 1..Len(x.log) : Len(d.log) < a /\ a < b => InOrder(c, x.log[a], x.log[b])
  BY <1>1, <1>5 DEF Placing
<1>8. \A k \in 1..Len(x.log) : \/ k \in 1..Len(d.log) /\ x.log[k] = d.log[k]
                               \/ k > Len(d.log) /\ x.log[k] = id
  BY <1>2, <1>6, <1>7
<1>d. \A k \in 1..Len(d.log) : d.log[k] \in Ids /\ d.sub[d.log[k]].st # "none" /\ d.log[k] # id /\ d.log[k] < id
  BY <1>1, <1>2 DEF Books
<1>e. /\ \A i, j \in Ids : i # id /\ j # id /\ InOrder(d, i, j) => InOrder(x, i, j)
      /\ \A i, j \in Ids : InOrder(c, i, j) => InOrder(x, i, j)
  BY <1>3, <1>6 DEF InOrder
<1>f. x.sub[id].st \notin {"none", "queued"} /\ (x.sub[id].st = "placed" <=> r.kind \notin Writes)
  BY <1>6 DEF Gone
<1>9. \A i, j \in Ids : i < j /\ x.sub[j].st # "none" => x.sub[i].st # "none"
  <2>. SUFFICES ASSUME NEW i \in Ids, NEW j \in Ids, i < j, x.sub[j].st # "none", i # id PROVE d.sub[i].st # "none"
    BY <1>6, <1>f
  <2>1. CASE j = id
    BY <1>1, <2>1
  <2>2. CASE j # id
    BY <1>6, <2>2 DEF Books
  <2>. QED BY <2>1, <2>2
<1>a. \A i \in Ids : i \in Items(x.inbox) <=> x.sub[i].st = "queued"
  BY <1>1, <1>2, <1>6, <1>f
<1>c. \A i \in Ids : x.sub[i].pin <= Len(x.log)
  <2>1. \A i \in Ids : c.sub[i].pin \in Nat /\ c.sub[i].pin <= Len(d.log)
    <3>1. \A i \in Ids : d.sub[i].pin <= Len(d.log)
      BY DEF Books
    <3>2. r.pin <= Len(d.log)
      BY DEF Drafted
    <3>3. \A i \in Ids : c.sub[i].pin \in Nat
      BY <1>3 DEF SubRecord
    <3>. QED BY <1>3, <3>1, <3>2, <3>3
  <2>2. /\ Len(d.log) \in Nat /\ Len(x.log) \in Nat /\ Len(d.log) <= Len(x.log)
        /\ \A i \in Ids : x.sub[i].pin = c.sub[i].pin
    BY <1>2, <1>6
  <2>. QED BY <2>1, <2>2
<1>g. \A k \in 1..Len(x.log) : x.sub[x.log[k]].st # "none"
  BY <1>6, <1>8, <1>d, <1>f
<1>h. ASSUME NEW a \in 1..Len(x.log), NEW b \in 1..Len(x.log), a < b PROVE InOrder(x, x.log[a], x.log[b])
  <2>1. CASE b \in 1..Len(d.log) /\ x.log[b] = d.log[b]
    <3>1. a \in 1..Len(d.log) /\ x.log[a] = d.log[a]
      BY <1>2, <1>8, <1>h, <2>1
    <3>2. InOrder(d, d.log[a], d.log[b])
      BY <1>h, <2>1, <3>1 DEF Books
    <3>. QED BY <1>d, <1>e, <2>1, <3>1, <3>2
  <2>2. CASE b > Len(d.log) /\ x.log[b] = id
    <3>2. CASE a \in 1..Len(d.log) /\ x.log[a] = d.log[a]
      BY <1>d, <2>2, <3>2 DEF InOrder
    <3>3. CASE a > Len(d.log)
      <4>1. InOrder(c, x.log[a], x.log[b]) /\ x.log[a] \in Ids /\ x.log[b] \in Ids
        BY <1>6, <1>7, <1>h, <3>3
      <4>. QED BY <1>e, <4>1
    <3>. QED BY <1>8, <3>2, <3>3
  <2>. QED BY <1>8, <2>1, <2>2
<1>i. ASSUME NEW k \in 1..Len(x.log), NEW i \in Items(x.inbox) PROVE InOrder(x, x.log[k], i)
  <2>1. i \in Items(d.inbox) /\ i \in Ids /\ i # id
    BY <1>1, <1>2, <1>i
  <2>2. CASE k \in 1..Len(d.log) /\ x.log[k] = d.log[k]
    <3>1. InOrder(d, d.log[k], i)
      BY <2>1, <2>2 DEF Books
    <3>. QED BY <1>d, <1>e, <2>1, <2>2, <3>1
  <2>3. CASE x.log[k] = id
    <3>1. r.kind = "display"
      <4>1. d.inbox # <<>>
        BY <2>1 DEF Items
      <4>. QED BY <4>1
    <3>. QED BY <1>6, <2>3, <3>1 DEF InOrder
  <2>. QED BY <1>8, <2>2, <2>3
<1>j. ASSUME NEW z \in Seq(Ids), Distinct(z), \A i \in Ids : i \in Items(z) <=> x.sub[i].st = "placed" PROVE Books(x, z)
  <2>1. x.head \in 0..Len(x.log)
    BY <1>2, <1>6
  <2>. QED BY <1>2, <1>6, <1>9, <1>a, <1>c, <1>g, <1>h, <1>i, <1>j, <2>1 DEF Books
<1>k. \A i \in Ids : i \in Items(ins) <=> d.sub[i].st = "placed"
  BY DEF Books
<1>l. ASSUME r.kind \in Writes PROVE Books(x, ins)
  <2>1. \A i \in Ids : i \in Items(ins) <=> x.sub[i].st = "placed"
    BY <1>1, <1>6, <1>f, <1>k, <1>l
  <2>. QED BY <1>2, <1>j, <2>1
<1>m. ASSUME r.kind \notin Writes, ins = <<>> PROVE Books(x, <<id>>)
  <2>1. <<id>> \in Seq(Ids) /\ Distinct(<<id>>) /\ Items(<<id>>) = {id} /\ Items(ins) = {}
    BY <1>m DEF Distinct, Items
  <2>2. \A i \in Ids : i \in Items(<<id>>) <=> x.sub[i].st = "placed"
    BY <1>6, <1>f, <1>k, <1>m, <2>1
  <2>. QED BY <1>j, <2>1, <2>2
<1>n. x.head >= d.head
  BY <1>2, <1>6
<1>. QED BY <1>l, <1>m, <1>n

LEMMA PlaceInbox ==
  ASSUME NEW d, Shape(d), NEW i, NEW x, x = PlaceWrite(d, i) \/ x = PlaceUser(d, i)
  PROVE  x.inbox = d.inbox
<1>1. CASE x = PlaceUser(d, i)
  BY <1>1 DEF Shape, PlaceUser
<1>2. CASE x = PlaceWrite(d, i) /\ Stale(d, i)
  <2>1. x = Settle(d, {i}, "unanswered", "stale")
    BY <1>2 DEF PlaceWrite
  <2>. QED BY <2>1 DEF Settle, Shape
<1>3. CASE x = PlaceWrite(d, i) /\ ~Stale(d, i)
  <2>1. x = [d EXCEPT !.sub[i].st = "done", !.log = Append(@, i), !.head = HeadAfter(d, i)]
    BY <1>3 DEF PlaceWrite
  <2>. QED BY <2>1 DEF Shape
<1>. QED BY <1>1, <1>2, <1>3

(* admit_submission, whatever is queued and whatever runs. *)
LEMMA AdmitBooks ==
  ASSUME NEW d, Shape(d), Books(d, d.run.inputs), NextId(d) \in Ids,
         NEW kind \in Inputs \cup Writes, NEW pin \in 0..Len(d.log), NEW x, x = Admit(d, Draft(kind, pin))
  PROVE  Books(x, x.run.inputs) /\ x.head >= d.head
<1>0. PICK ins : ins = d.run.inputs
  OBVIOUS
<1>a. Books(d, ins) /\ d.log \in Seq(Ids) /\ d.head \in Nat /\ ins \in Seq(Ids)
  BY <1>0 DEF Books
<1>1. PICK id, p, r, c, q :
        /\ id = NextId(d) /\ p = Draft(kind, pin) /\ r = [p EXCEPT !.st = "queued"]
        /\ c = Created(d, r) /\ q = Append(d.inbox, id)
  OBVIOUS
<1>2. r.kind = kind /\ p.kind = kind /\ Drafted(d, r)
  <2>1. p = [st |-> "none", reason |-> "none", kind |-> kind, pin |-> pin]
    BY <1>1 DEF Draft, NoSub
  <2>2. r = [st |-> "queued", reason |-> "none", kind |-> kind, pin |-> pin]
    BY <1>1, <2>1
  <2>3. pin \in Nat /\ pin <= Len(d.log)
    BY <1>a
  <2>. QED BY <2>1, <2>2, <2>3 DEF Drafted, SubRecord
<1>3. /\ Shape(c) /\ c.sub = [d.sub EXCEPT ![id] = r] /\ c.inbox = d.inbox /\ c.run = d.run /\ c.head = d.head
  BY <1>1, <1>a, CreateFx, SMTT(60)
<1>4. c.sub[id] = r
  BY <1>1, <1>3, <1>a DEF Books
<1>b. ASSUME NEW e, e = [c EXCEPT !.inbox = q] PROVE Books(e, ins) /\ e.head = d.head /\ e.run = d.run
  <2>1. e = [c EXCEPT !.inbox = Append(d.inbox, id)]
    BY <1>1, <1>b
  <2>2. Books(e, ins)
    BY <1>1, <1>2, <1>a, <2>1, QueueBooks
  <2>3. e.head = d.head /\ e.run = d.run
    BY <1>3, <1>b DEF Shape
  <2>. QED BY <2>2, <2>3
<1>5. \/ (kind = "display" \/ (d.inbox = <<>> /\ kind \in Writes)) /\ x = PlaceWrite(c, id)
      \/ x = [c EXCEPT !.inbox = q]
      \/ d.run = NoRun /\ x = StartIfUsers(Boundary(c, q, TRUE), Users(c, q, TRUE))
      \/ d.run = NoRun /\ d.inbox = <<>> /\ kind \notin Writes /\ x = StartRun(PlaceUser(c, id), <<id>>)
  <2>1. x = Admit(d, p)
    BY <1>1
  <2>2. x = IF p.kind = "display" /\ ~HasReset(d, d.inbox) THEN PlaceWrite(c, id)
            ELSE IF d.run # NoRun THEN [c EXCEPT !.inbox = q]
            ELSE IF d.inbox # <<>> THEN StartIfUsers(Boundary(c, q, TRUE), Users(c, q, TRUE))
            ELSE IF p.kind \in Writes THEN PlaceWrite(c, id)
            ELSE StartRun(PlaceUser(c, id), <<id>>)
    BY <1>1, <2>1 DEF Admit
  <2>. QED BY <1>2, <2>2, Zenon
<1>6. CASE (kind = "display" \/ (d.inbox = <<>> /\ kind \in Writes)) /\ x = PlaceWrite(c, id)
  <2>1. r.kind \in Writes /\ (r.kind = "display" \/ d.inbox = <<>>)
    BY <1>2, <1>6 DEF Writes
  <2>2. x = Place(c, id)
    BY <1>4, <1>6, <2>1 DEF Place
  <2>3. x.inbox = d.inbox
    BY <1>3, <1>6, PlaceInbox
  <2>4. Books(x, ins) /\ x.head >= d.head
    BY <1>1, <1>2, <1>a, <2>1, <2>2, <2>3, DirectBooks
  <2>5. x.run = d.run
    BY <1>3, <1>6, PlaceWriteFx DEF Beside
  <2>. QED BY <1>0, <2>4, <2>5
<1>7. CASE x = [c EXCEPT !.inbox = q]
  <2>1. Books(x, ins) /\ x.head = d.head /\ x.run = d.run
    BY <1>7, <1>b
  <2>. QED BY <1>0, <1>a, <2>1
<1>8. CASE d.run = NoRun /\ x = StartIfUsers(Boundary(c, q, TRUE), Users(c, q, TRUE))
  <2>1. PICK e, b, us : e = [c EXCEPT !.inbox = q] /\ b = Boundary(c, q, TRUE) /\ us = Users(c, q, TRUE)
    OBVIOUS
  <2>2. Books(e, ins)
    BY <1>b, <2>1
  <2>3. us \in Seq(Ids) /\ Books(b, ins \o us) /\ b.head >= c.head
    BY <1>3, <2>1, <2>2, BoundaryBooks
  <2>4. ins = <<>>
    BY <1>0, <1>8 DEF NoRun
  <2>5. ins \o us = us
    BY <2>3, <2>4
  <2>6. Books(b, us) /\ b.head >= d.head
    BY <1>3, <2>3, <2>5
  <2>7. Shape(b) /\ b.run = d.run
    <3>1. Beside(b, c)
      BY <1>3, <2>1, BoundaryFx
    <3>. QED BY <1>3, <3>1 DEF Beside
  <2>8. CASE us = <<>>
    <3>1. x = b
      BY <1>8, <2>1, <2>8 DEF StartIfUsers
    <3>. QED BY <1>0, <2>4, <2>6, <2>7, <2>8, <3>1
  <2>9. CASE us # <<>>
    <3>1. x = StartRun(b, us)
      BY <1>8, <2>1, <2>9 DEF StartIfUsers
    <3>2. Aside(x, b) /\ x.run.inputs = us
      BY <2>7, <3>1, StartRunAside
    <3>3. Books(x, us)
      BY <2>6, <3>2, AsideBooks
    <3>. QED BY <2>6, <3>2, <3>3 DEF Aside
  <2>. QED BY <2>8, <2>9
<1>9. CASE d.run = NoRun /\ d.inbox = <<>> /\ kind \notin Writes /\ x = StartRun(PlaceUser(c, id), <<id>>)
  <2>1. PICK b, us : b = PlaceUser(c, id) /\ us = <<id>>
    OBVIOUS
  <2>2. b = Place(c, id)
    BY <1>2, <1>4, <1>9, <2>1 DEF Place
  <2>3. b.inbox = d.inbox
    BY <1>3, <2>1, PlaceInbox
  <2>4. ins = <<>>
    BY <1>0, <1>9 DEF NoRun
  <2>5. Books(b, <<id>>) /\ b.head >= d.head
    <3>1. id = NextId(d) /\ id \in Ids /\ c = Created(d, r) /\ Drafted(d, r) /\ Books(d, ins)
      BY <1>1, <1>2, <1>a
    <3>2. r.kind \notin Writes /\ d.inbox = <<>>
      BY <1>2, <1>9
    <3>. QED BY <2>2, <2>3, <2>4, <3>1, <3>2, DirectBooks, ZenonT(60)
  <2>6. Shape(b)
    BY <1>3, <2>1, PlaceUserFx DEF Beside
  <2>7. x = StartRun(b, us)
    BY <1>9, <2>1
  <2>8. Aside(x, b) /\ x.run.inputs = us
    BY <2>6, <2>7, StartRunAside
  <2>9. Books(x, us)
    BY <2>1, <2>5, <2>8, AsideBooks
  <2>. QED BY <2>5, <2>8, <2>9 DEF Aside
<1>. QED BY <1>5, <1>6, <1>7, <1>8, <1>9

(* Every step keeps the books and never moves the head back. *)
Onward(x, d) == Books(x, x.run.inputs) /\ x.head >= d.head

LEMMA AsideOnward ==
  ASSUME NEW d, Books(d, d.run.inputs), NEW x, Aside(x, d), x.run = d.run
  PROVE  Onward(x, d)
<1>1. Books(x, d.run.inputs)
  BY AsideBooks
<1>2. d.head \in Nat /\ x.head = d.head
  BY DEF Books, Aside
<1>. QED BY <1>1, <1>2 DEF Onward

LEMMA WithdrawOnward ==
  ASSUME NEW d, Shape(d), Books(d, d.run.inputs), NEW G, G \subseteq Items(d.inbox),
         NEW x, x = [Settle(d, G, "unanswered", "aborted") EXCEPT !.inbox = Those(@, Ids \ G)]
  PROVE  Shape(x) /\ x.run = d.run /\ Onward(x, d)
<1>1. PICK ins, y : ins = d.run.inputs /\ y = Settle(d, G, "unanswered", "aborted")
  OBVIOUS
<1>2. y.inbox = d.inbox
  BY <1>1 DEF Settle, Shape
<1>3. x = [y EXCEPT !.inbox = Those(d.inbox, Ids \ G)]
  BY <1>1, <1>2
<1>4. Books(d, ins) /\ d.head \in Nat
  BY <1>1 DEF Books
<1>5. Shape(x) /\ Books(x, ins) /\ x.head = d.head /\ x.run = d.run
  <2>1. y = Settle(d, G, "unanswered", "aborted") /\ Books(d, ins)
    BY <1>1, <1>4
  <2>2. Books(x, ins)
    BY <1>3, <2>1, WithdrawBooks
  <2>3. Beside(y, d)
    BY <2>1, SettleFx
  <2>4. Beside(x, y)
    <3>1. PICK q : q = Those(d.inbox, Ids \ G)
      OBVIOUS
    <3>2. Shape(y) /\ x = [y EXCEPT !.inbox = q]
      BY <1>3, <2>3, <3>1 DEF Beside
    <3>. QED BY <3>2, InboxFx
  <2>5. x.head = d.head
    BY <1>3, <2>1 DEF Settle, Shape
  <2>. QED BY <2>2, <2>3, <2>4, <2>5 DEF Beside
<1>. QED BY <1>1, <1>4, <1>5 DEF Onward

LEMMA CallersBooks ==
  ASSUME TasksOk(db), BooksInv, Submit \/ AbortConversation \/ Restart \/ \E i \in Ids : AbortSubmission(i)
  PROVE  Onward(db', db)
<1>0. PICK d : d = db
  OBVIOUS
<1>a. Shape(d) /\ Books(d, d.run.inputs)
  BY <1>0 DEF TasksOk, BooksInv
<1>1. CASE Submit
  <2>0. PICK kind \in Drafts :
           \E pin \in IF kind = "pinned" THEN 0..Len(d.log) ELSE {0} : Store(Admit(d, Draft(kind, pin)))
    BY <1>0, <1>1 DEF Submit
  <2>1. PICK pin \in IF kind = "pinned" THEN 0..Len(d.log) ELSE {0} : Store(Admit(d, Draft(kind, pin)))
    BY <2>0
  <2>2. kind \in Inputs \cup Writes
    BY SubmissionsAssumption
  <2>3. pin \in 0..Len(d.log)
    <3>1. Len(d.log) \in Nat
      BY <1>a DEF Books
    <3>. QED BY <2>1, <3>1
  <2>4. NextId(d) \in Ids
    BY <1>0, <1>1 DEF Submit
  <2>5. PICK x : x = Admit(d, Draft(kind, pin))
    OBVIOUS
  <2>6. db' = x
    BY <2>1, <2>5 DEF Store
  <2>7. Books(x, x.run.inputs) /\ x.head >= d.head
    BY <1>a, <2>2, <2>3, <2>4, <2>5, AdmitBooks
  <2>. QED BY <1>0, <2>6, <2>7 DEF Onward
<1>2. CASE \E i \in Ids : AbortSubmission(i)
  <2>1. PICK i \in Ids : AbortSubmission(i)
    BY <1>2
  <2>2. PICK G, x : /\ G = {i}
                    /\ x = [Settle(d, G, "unanswered", "aborted") EXCEPT !.inbox = Those(@, Ids \ G)] /\ db' = x
    BY <1>0, <2>1 DEF AbortSubmission, Store
  <2>3. G \subseteq Items(d.inbox)
    BY <1>0, <1>a, <2>1, <2>2 DEF AbortSubmission, Books
  <2>4. Onward(x, d)
    BY <1>a, <2>2, <2>3, WithdrawOnward
  <2>. QED BY <1>0, <2>2, <2>4
<1>3. CASE AbortConversation
  <2>1. PICK w, x : w = Withdrawn(d) /\ x = [w EXCEPT !.gen = MarkedGens(d)] /\ db' = x
    BY <1>0, <1>3 DEF AbortConversation, Store
  <2>2. PICK G : G = {i \in Items(d.inbox) : d.sub[i].kind \in Inputs}
    OBVIOUS
  <2>3. w = [Settle(d, G, "unanswered", "aborted") EXCEPT !.inbox = Those(@, Ids \ G)]
    BY <2>1, <2>2 DEF Withdrawn
  <2>4. G \subseteq Items(d.inbox)
    BY <2>2
  <2>5. Shape(w) /\ w.run = d.run /\ Books(w, w.run.inputs) /\ w.head >= d.head
    BY <1>a, <2>3, <2>4, WithdrawOnward DEF Onward
  <2>6. PICK g : g = MarkedGens(d)
    OBVIOUS
  <2>7. Aside(x, w) /\ x.run = w.run
    BY <2>1, <2>5, <2>6, GenAside
  <2>8. Books(x, x.run.inputs) /\ x.head = w.head
    BY <2>5, <2>7, AsideOnward DEF Onward, Aside
  <2>. QED BY <1>0, <2>1, <2>5, <2>8 DEF Onward
<1>4. CASE Restart
  <2>1. PICK g : g = [t \in Gens |-> IF d.gen[t].st = "running" THEN [d.gen[t] EXCEPT !.st = "pending"] ELSE d.gen[t]]
    OBVIOUS
  <2>2. PICK x : x = [d EXCEPT !.gen = g] /\ db' = x
    BY <1>0, <1>4, <1>a, <2>1 DEF Restart, Shape
  <2>3. Aside(x, d) /\ x.run = d.run
    BY <1>a, <2>2, GenAside
  <2>4. Onward(x, d)
    BY <1>a, <2>3, AsideOnward
  <2>. QED BY <1>0, <2>2, <2>4
<1>. QED BY <1>1, <1>2, <1>3, <1>4

(* end_run and the commit that ends the task, with no user placed. *)
LEMMA OverOnward ==
  ASSUME NEW d, Shape(d), Books(d, d.run.inputs), NEW t, d.run.task = t, NEW st, NEW reason, Ended(st, reason),
         NEW o, NEW x, x = Ends(EndRun(d, t, st, reason), t, o)
  PROVE  Onward(x, d)
<1>1. PICK ins, y, no : ins = d.run.inputs /\ y = EndRun(d, t, st, reason) /\ no = <<>>
  OBVIOUS
<1>2. ins \in Seq(Ids) /\ no \in Seq(Ids) /\ ins \o no = ins /\ Books(d, ins) /\ d.head \in Nat
  BY <1>1 DEF Books
<1>3. Books(d, ins \o no)
  BY <1>2
<1>4. Shape(y) /\ Books(y, no) /\ y.head = d.head /\ y.run = NoRun
  <2>1. ins = d.run.inputs /\ ins \in Seq(Ids) /\ no \in Seq(Ids) /\ y = EndRun(d, t, st, reason)
    BY <1>1, <1>2
  <2>2. Books(y, no)
    BY <1>3, <2>1, EndRunBooks
  <2>3. Shape(y) /\ y.run = NoRun
    BY <2>1, EndRunFx
  <2>4. y.head = d.head
    BY <1>3, <2>1, EndRunBooks
  <2>. QED BY <2>2, <2>3, <2>4
<1>5. x = Ends(y, t, o)
  BY <1>1
<1>6. Aside(x, y) /\ x.run = NoRun
  BY <1>4, <1>5, EndsAside
<1>7. Books(x, no) /\ x.head = d.head
  BY <1>4, <1>6, AsideBooks DEF Aside
<1>8. x.run.inputs = no
  BY <1>1, <1>6 DEF NoRun
<1>. QED BY <1>2, <1>7, <1>8 DEF Onward

LEMMA ScheduledBooks ==
  ASSUME TasksOk(db), BooksInv, NEW t \in Gens, Scheduled(t) \/ Fault(t)
  PROVE  Onward(db', db)
<1>0. PICK d : d = db
  OBVIOUS
<1>a. Shape(d) /\ Books(d, d.run.inputs)
  BY <1>0 DEF TasksOk, BooksInv
<1>1. ASSUME NEW g, NEW x, x = [d EXCEPT !.gen = g], db' = x PROVE Onward(db', db)
  <2>1. Aside(x, d) /\ x.run = d.run
    BY <1>a, <1>1, GenAside
  <2>2. Onward(x, d)
    BY <1>a, <2>1, AsideOnward
  <2>. QED BY <1>0, <1>1, <2>2
<1>2. CASE Reserve(t)
  <2>1. PICK g : g = [d.gen EXCEPT ![t].st = "running"]
    OBVIOUS
  <2>2. db' = [d EXCEPT !.gen = g]
    BY <1>0, <1>2, <1>a, <2>1 DEF Reserve, Store, Shape
  <2>. QED BY <1>1, <2>2
<1>3. CASE Resume(t)
  <2>1. PICK g : g = [d.gen EXCEPT ![t].st = "pending"]
    OBVIOUS
  <2>2. db' = [d EXCEPT !.gen = g]
    BY <1>0, <1>3, <1>a, <2>1 DEF Resume, Store, Shape
  <2>. QED BY <1>1, <2>2
<1>4. CASE KidsEnd(t)
  <2>1. CASE Store([db EXCEPT !.gen[t].kids = "failed"])
    <3>1. PICK g : g = [d.gen EXCEPT ![t].kids = "failed"]
      OBVIOUS
    <3>2. db' = [d EXCEPT !.gen = g]
      BY <1>0, <1>a, <2>1, <3>1 DEF Store, Shape
    <3>. QED BY <1>1, <3>2
  <2>2. ASSUME NEW h \in d.head..Len(d.log), Store([db EXCEPT !.head = h, !.gen[t].kids = "done"]) PROVE Onward(db', db)
    <3>1. PICK g, x : g = [d.gen EXCEPT ![t].kids = "done"] /\ x = [d EXCEPT !.head = h, !.gen = g]
      OBVIOUS
    <3>2. db' = x
      BY <1>0, <1>a, <2>2, <3>1 DEF Store, Shape
    <3>3. x.sub = d.sub /\ x.inbox = d.inbox /\ x.log = d.log /\ x.head = h /\ x.run = d.run
      BY <1>a, <3>1 DEF Shape
    <3>4. \A i, j : InOrder(d, i, j) => InOrder(x, i, j)
      BY <3>3 DEF InOrder
    <3>5. h \in 0..Len(d.log) /\ h >= d.head
      BY <1>a DEF Books
    <3>6. Books(x, d.run.inputs)
      BY <1>a, <3>3, <3>4, <3>5 DEF Books
    <3>. QED BY <1>0, <3>2, <3>3, <3>5, <3>6 DEF Onward
  <2>3. \A h \in IF db.gen[t].phase = "prepare" THEN db.head..Len(db.log) ELSE {db.head} : h \in d.head..Len(d.log)
    BY <1>0, <1>a DEF Books
  <2>. QED BY <1>4, <2>1, <2>2, <2>3 DEF KidsEnd
<1>5. ASSUME Store(Ends(db, t, "faulted")) PROVE Onward(db', db)
  <2>1. PICK x : x = Ends(d, t, "faulted") /\ db' = x
    BY <1>0, <1>5 DEF Store
  <2>2. Aside(x, d) /\ x.run = d.run
    BY <1>a, <2>1, EndsAside
  <2>3. Onward(x, d)
    BY <1>a, <2>2, AsideOnward
  <2>. QED BY <1>0, <2>1, <2>3
<1>6. CASE Unwind(t)
  <2>1. Store(Ends(db, t, "faulted")) \/ Store(db)
    BY <1>6 DEF Unwind
  <2>2. CASE Store(db)
    <3>1. db' = d /\ Aside(d, d)
      BY <1>0, <2>2 DEF Store, Aside
    <3>2. Onward(d, d)
      BY <1>a, <3>1, AsideOnward
    <3>. QED BY <1>0, <3>1, <3>2
  <2>. QED BY <1>5, <2>1, <2>2
<1>7. CASE Fault(t)
  BY <1>5, <1>7 DEF Fault
<1>8. CASE Abort(t)
  <2>1. d.run.task = t
    BY <1>0, <1>8 DEF Abort, LiveGen, TasksOk
  <2>2. Ended("unanswered", "aborted")
    BY DEF Ended, Reasons
  <2>3. PICK x : x = Ends(EndRun(d, t, "unanswered", "aborted"), t, "aborted") /\ db' = x
    BY <1>0, <1>8 DEF Abort, Store
  <2>4. Onward(x, d)
    BY <1>a, <2>1, <2>2, <2>3, OverOnward
  <2>. QED BY <1>0, <2>3, <2>4
<1>. QED BY <1>2, <1>3, <1>4, <1>6, <1>7, <1>8 DEF Scheduled

(* The phases of a generation task.  A boundary that places users ends the   *)
(* run and starts theirs, or they join it and a successor takes it over.     *)
LEMMA SwapOnward ==
  ASSUME NEW d, Shape(d), Books(d, d.run.inputs), NEW t, d.run.task = t, NEW final,
         NEW q, q = d.inbox, NEW us, us = Users(d, q, final), NEW b, b = Boundary(d, q, final),
         NEW st, NEW reason, Ended(st, reason),
         NEW x, x = Ends(StartIfUsers(EndRun(b, t, st, reason), us), t, "completed")
  PROVE  Onward(x, d)
<1>1. PICK ins, e : ins = d.run.inputs /\ e = [d EXCEPT !.inbox = q]
  OBVIOUS
<1>2. e = d
  BY <1>1 DEF Shape
<1>3. Books(e, ins) /\ ins \in Seq(Ids)
  <2>1. Books(e, ins)
    BY <1>1, <1>2
  <2>. QED BY <2>1 DEF Books
<1>4. us \in Seq(Ids) /\ Books(b, ins \o us) /\ b.head >= d.head
  BY <1>1, <1>3, BoundaryBooks
<1>5. Beside(b, d)
  BY BoundaryFx
<1>6. Shape(b) /\ b.run = d.run /\ b.run.task = t /\ ins = b.run.inputs
  BY <1>1, <1>5 DEF Beside
<1>7. PICK y : y = EndRun(b, t, st, reason)
  OBVIOUS
<1>8. Shape(y) /\ y.run = NoRun
  BY <1>6, <1>7, EndRunFx
<1>9. Books(y, us)
  BY <1>3, <1>4, <1>6, <1>7, EndRunBooks
<1>10. y.head = b.head
  BY <1>3, <1>4, <1>6, <1>7, EndRunBooks
<1>11. PICK z : z = StartIfUsers(y, us)
  OBVIOUS
<1>12. Shape(z) /\ Aside(z, y) /\ z.run.inputs = us
  <2>1. CASE us = <<>>
    <3>1. z = y
      BY <1>11, <2>1 DEF StartIfUsers
    <3>2. z.run.inputs = <<>>
      BY <1>8, <3>1 DEF NoRun
    <3>. QED BY <1>8, <2>1, <3>1, <3>2 DEF Aside
  <2>2. CASE us # <<>>
    <3>1. z = StartRun(y, us)
      BY <1>11, <2>2 DEF StartIfUsers
    <3>. QED BY <1>8, <3>1, StartRunAside
  <2>. QED BY <2>1, <2>2
<1>13. x = Ends(z, t, "completed")
  BY <1>7, <1>11
<1>14. Aside(x, z) /\ x.run = z.run
  BY <1>12, <1>13, EndsAside
<1>15. Books(z, us)
  BY <1>9, <1>12, AsideBooks
<1>16. Books(x, us)
  BY <1>14, <1>15, AsideBooks
<1>17. x.run.inputs = us /\ x.head = b.head
  BY <1>10, <1>12, <1>14 DEF Aside
<1>. QED BY <1>4, <1>16, <1>17 DEF Onward

(* j is the run as it stands after the boundary: its inputs are in the books. *)
LEMMA HandOnward ==
  ASSUME NEW j, Shape(j), NEW ins, ins = j.run.inputs, Books(j, ins), NEW t,
         NEW x, x = Ends(HandOver(j), t, "completed")
  PROVE  Books(x, x.run.inputs) /\ x.head = j.head
<1>1. PICK z : z = StartRun(j, ins)
  OBVIOUS
<1>2. Shape(z) /\ Aside(z, j) /\ z.run.inputs = ins
  BY <1>1, StartRunAside
<1>3. x = Ends(z, t, "completed")
  BY <1>1 DEF HandOver
<1>4. Aside(x, z) /\ x.run = z.run
  BY <1>2, <1>3, EndsAside
<1>5. Books(z, ins)
  BY <1>2, AsideBooks
<1>6. Books(x, ins)
  BY <1>4, <1>5, AsideBooks
<1>. QED BY <1>2, <1>4, <1>6 DEF Aside

LEMMA GenerationBooks ==
  ASSUME TasksOk(db), BooksInv, NEW t \in Gens, Generation(t)
  PROVE  Onward(db', db)
<1>0. PICK d : d = db
  OBVIOUS
<1>a. Shape(d) /\ Books(d, d.run.inputs) /\ d.gen \in [Gens -> GenRecord]
  BY <1>0 DEF TasksOk, BooksInv
<1>c. d.run.task = t
  <2>1. db.gen[t].st = "running"
    BY DEF Generation, Prepare, RequestFails, RequestOverflows, RequestRetries, Retry, RequestTools,
           RequestAnswers, FinishTools, Phase
  <2>. QED BY <1>0, <2>1 DEF LiveGen, TasksOk
<1>d. \A x : Commits(t, x) => db' = x
  BY DEF Commits, Store
<1>1. ASSUME NEW h, Commits(t, [db EXCEPT !.gen[t] = h]) PROVE Onward(db', db)
  <2>1. PICK g, x : g = [d.gen EXCEPT ![t] = h] /\ x = [d EXCEPT !.gen = g]
    OBVIOUS
  <2>2. db' = x
    BY <1>0, <1>1, <1>a, <1>d, <2>1 DEF Shape
  <2>3. Aside(x, d) /\ x.run = d.run
    BY <1>a, <2>1, GenAside
  <2>4. Onward(x, d)
    BY <1>a, <2>3, AsideOnward
  <2>. QED BY <1>0, <2>2, <2>4
<1>2. ASSUME NEW cp, NEW ph, Commits(t, Parks(db, t, ph, cp)) PROVE Onward(db', db)
  <2>1. PICK h : h = [db.gen[t] EXCEPT !.st = "waiting", !.phase = ph, !.kids = "live", !.cp = cp]
    OBVIOUS
  <2>2. Commits(t, [db EXCEPT !.gen[t] = h])
    BY <1>2, <2>1 DEF Parks
  <2>. QED BY <1>1, <2>2
<1>3. ASSUME Commits(t, ModelError(db, t)) PROVE Onward(db', db)
  <2>1. PICK x : x = Ends(EndRun(d, t, "unanswered", "model_error"), t, "failed")
    OBVIOUS
  <2>2. db' = x
    BY <1>0, <1>3, <1>d, <2>1 DEF ModelError
  <2>3. Ended("unanswered", "model_error")
    BY DEF Ended, Reasons
  <2>4. Onward(x, d)
    BY <1>a, <1>c, <2>1, <2>3, OverOnward
  <2>. QED BY <1>0, <2>2, <2>4
<1>4. ASSUME NEW p, Commits(t, [db EXCEPT !.gen[t].phase = p]) PROVE Onward(db', db)
  <2>1. PICK h : h = [db.gen[t] EXCEPT !.phase = p]
    OBVIOUS
  <2>2. Commits(t, [db EXCEPT !.gen[t] = h])
    BY <1>4, <2>1
  <2>. QED BY <1>1, <2>2
<1>5. CASE Prepare(t)
  <2>1. CASE Commits(t, [db EXCEPT !.gen[t] = [@ EXCEPT !.phase = "request", !.kids = "none"]])
    <3>1. PICK h : h = [db.gen[t] EXCEPT !.phase = "request", !.kids = "none"]
      OBVIOUS
    <3>2. Commits(t, [db EXCEPT !.gen[t] = h])
      BY <2>1, <3>1
    <3>. QED BY <1>1, <3>2
  <2>. QED BY <1>2, <1>3, <1>5, <2>1 DEF Prepare
<1>6. CASE RequestFails(t)
  BY <1>3, <1>6 DEF RequestFails
<1>7. CASE RequestOverflows(t)
  BY <1>2, <1>7 DEF RequestOverflows
<1>8. CASE RequestRetries(t)
  BY <1>4, <1>8 DEF RequestRetries
<1>9. CASE Retry(t)
  <2>1. PICK h : h = [db.gen[t] EXCEPT !.phase = "prepare", !.attempt = db.gen[t].attempt + 1]
    OBVIOUS
  <2>2. Commits(t, [db EXCEPT !.gen[t] = h])
    BY <1>9, <2>1 DEF Retry
  <2>. QED BY <1>1, <2>2
<1>10. CASE RequestTools(t)
  BY <1>2, <1>4, <1>10 DEF RequestTools
<1>e. PICK q, ins, e : q = d.inbox /\ ins = d.run.inputs /\ e = [d EXCEPT !.inbox = q]
  OBVIOUS
<1>f. e = d
  BY <1>a, <1>e DEF Shape
<1>g. Books(e, ins) /\ ins \in Seq(Ids) /\ d.head \in Nat
  BY <1>a, <1>e, <1>f DEF Books
<1>h. ASSUME NEW final, NEW us, us = Users(d, q, final), NEW b, b = Boundary(d, q, final)
      PROVE  us \in Seq(Ids) /\ Books(b, ins \o us) /\ b.head >= d.head /\ Beside(b, d)
  <2>1. Beside(b, d)
    BY <1>a, <1>h, BoundaryFx
  <2>2. us \in Seq(Ids) /\ Books(b, ins \o us) /\ b.head >= d.head
    BY <1>a, <1>e, <1>g, <1>h, BoundaryBooks
  <2>. QED BY <2>1, <2>2
<1>11. CASE RequestAnswers(t)
  <2>1. PICK us, b, x : /\ us = Users(d, q, TRUE) /\ b = Boundary(d, q, TRUE) /\ Commits(t, x)
                        /\ \/ us = <<>> /\ x = Ends(HandOver(b), t, "completed")
                           \/ x = Ends(StartIfUsers(EndRun(b, t, "done", "none"), us), t, "completed")
    BY <1>0, <1>11, <1>e DEF RequestAnswers
  <2>2. db' = x
    BY <1>d, <2>1
  <2>3. CASE us = <<>> /\ x = Ends(HandOver(b), t, "completed")
    <3>1. Books(b, ins \o us) /\ b.head >= d.head /\ Beside(b, d)
      BY <1>h, <2>1
    <3>2. ins \o us = ins
      BY <1>g, <2>3
    <3>3. Books(b, ins) /\ Shape(b) /\ ins = b.run.inputs
      BY <1>e, <3>1, <3>2 DEF Beside
    <3>4. Books(x, x.run.inputs) /\ x.head = b.head
      BY <2>3, <3>3, HandOnward
    <3>. QED BY <1>0, <2>2, <3>1, <3>4 DEF Onward
  <2>4. CASE x = Ends(StartIfUsers(EndRun(b, t, "done", "none"), us), t, "completed")
    <3>1. Ended("done", "none")
      BY DEF Ended, Reasons
    <3>2. us = Users(d, q, TRUE) /\ b = Boundary(d, q, TRUE) /\ q = d.inbox
      BY <1>e, <2>1
    <3>3. Onward(x, d)
      BY <1>a, <1>c, <2>4, <3>1, <3>2, SwapOnward
    <3>. QED BY <1>0, <2>2, <3>3
  <2>. QED BY <2>1, <2>3, <2>4
<1>12. CASE FinishTools(t)
  <2>1. PICK us, b, x : /\ us = Users(d, q, FALSE) /\ b = Boundary(d, q, FALSE) /\ Commits(t, x)
                        /\ \/ x = Ends(HandOver(JoinRun(b, t, us)), t, "completed")
                           \/ x = Ends(StartIfUsers(EndRun(b, t, "unanswered", "reset"), us), t, "completed")
    BY <1>0, <1>12, <1>e DEF FinishTools
  <2>2. db' = x
    BY <1>d, <2>1
  <2>3. CASE x = Ends(HandOver(JoinRun(b, t, us)), t, "completed")
    <3>1. Books(b, ins \o us) /\ b.head >= d.head /\ Beside(b, d)
      BY <1>h, <2>1
    <3>2. Shape(b) /\ b.run.task = t /\ ins = b.run.inputs
      BY <1>c, <1>e, <3>1 DEF Beside
    <3>3. PICK j, all : j = JoinRun(b, t, us) /\ all = ins \o us
      OBVIOUS
    <3>4. Shape(j) /\ Aside(j, b) /\ j.run.inputs = b.run.inputs \o us
      BY <3>2, <3>3, JoinRunAside, ZenonT(60)
    <3>5. all = j.run.inputs /\ Books(b, all)
      BY <3>1, <3>2, <3>3, <3>4
    <3>6. Books(j, all) /\ j.head = b.head
      BY <3>4, <3>5, AsideBooks DEF Aside
    <3>7. x = Ends(HandOver(j), t, "completed")
      BY <2>3, <3>3
    <3>8. Books(x, x.run.inputs) /\ x.head = j.head
      BY <3>4, <3>5, <3>6, <3>7, HandOnward
    <3>. QED BY <1>0, <2>2, <3>1, <3>6, <3>8 DEF Onward
  <2>4. CASE x = Ends(StartIfUsers(EndRun(b, t, "unanswered", "reset"), us), t, "completed")
    <3>1. Ended("unanswered", "reset")
      BY DEF Ended, Reasons
    <3>2. us = Users(d, q, FALSE) /\ b = Boundary(d, q, FALSE) /\ q = d.inbox
      BY <1>e, <2>1
    <3>3. Onward(x, d)
      BY <1>a, <1>c, <2>4, <3>1, <3>2, SwapOnward
    <3>. QED BY <1>0, <2>2, <3>3
  <2>. QED BY <2>1, <2>3, <2>4
<1>. QED BY <1>5, <1>6, <1>7, <1>8, <1>9, <1>10, <1>11, <1>12 DEF Generation

LEMMA BooksStep == TasksInv /\ BooksInv /\ [Next]_vars => BooksInv' /\ (db'.head >= db.head)
<1>. SUFFICES ASSUME TasksOk(db), BooksInv, [Next]_vars PROVE Onward(db', db)
  BY DEF TasksInv, BooksInv, Onward
<1>0. ASSUME UNCHANGED db PROVE Onward(db', db)
  <2>1. db.head \in Nat
    BY DEF BooksInv, Books
  <2>. QED BY <1>0, <2>1 DEF Onward, BooksInv
<1>1. CASE \E i \in Ids : Wait(i) \/ CancelWait(i) \/ Observe(i)
  BY <1>0, <1>1 DEF Wait, CancelWait, Observe
<1>2. CASE UNCHANGED vars
  BY <1>0, <1>2 DEF vars
<1>3. CASE Next
  BY <1>1, <1>3, CallersBooks, GenerationBooks, ScheduledBooks DEF Next
<1>. QED BY <1>2, <1>3

LEMMA BooksInit == Init => BooksInv
<1>. SUFFICES ASSUME Init PROVE Books(db, db.run.inputs)
  BY DEF BooksInv
<1>1. PICK m, no : m = [i \in Ids |-> NoSub] /\ no = <<>>
  OBVIOUS
<1>2. /\ db.sub = m /\ db.inbox = no /\ db.head = 0 /\ db.log = no /\ db.run.inputs = no
  BY <1>1 DEF Init, NoRun
<1>3. no \in Seq(Ids) /\ Len(no) = 0 /\ Items(no) = {} /\ Rising(no) /\ Distinct(no)
  BY <1>1 DEF Items, Rising, Distinct
<1>4. NoSub \in SubRecord /\ Recorded(NoSub) /\ NoSub.st = "none" /\ NoSub.pin = 0
  BY DEF NoSub, SubRecord, Recorded, Inputs, Writes
<1>5. m \in [Ids -> SubRecord] /\ \A i \in Ids : m[i] = NoSub
  BY <1>1, <1>4
<1>. QED BY <1>2, <1>3, <1>4, <1>5 DEF Books

(* admit_submission, apply_boundary, join_run_inputs, hand_over, end_run,    *)
(* withdraw_queued_inputs: the inbox holds the queued submissions in the     *)
(* order of admission, the run the placed ones, and the transcript nothing   *)
(* that a queued one had to go before, for any number of submissions.        *)
THEOREM BooksCorrect == Spec => []BooksInv
<1>. QED BY BooksInit, BooksStep, TasksCorrect, PTL DEF Spec

(* How often an item occurs in a sequence without repetitions. *)
LEMMA CountFx ==
  ASSUME NEW s \in Seq(Ids), Distinct(s), NEW i
  PROVE  Count(s, i) = IF i \in Items(s) THEN 1 ELSE 0
<1>1. CASE i \in Items(s)
  <2>1. PICK k \in 1..Len(s) : s[k] = i
    BY <1>1 DEF Items
  <2>2. {n \in 1..Len(s) : s[n] = i} = {k}
    BY <2>1 DEF Distinct
  <2>3. Cardinality({k}) = 1
    BY FS_Singleton
  <2>. QED BY <1>1, <2>2, <2>3 DEF Count
<1>2. CASE i \notin Items(s)
  <2>1. {n \in 1..Len(s) : s[n] = i} = {}
    BY <1>2 DEF Items
  <2>2. Cardinality({}) = 0
    BY FS_EmptySet
  <2>. QED BY <1>2, <2>1, <2>2 DEF Count
<1>. QED BY <1>1, <1>2

(* apply_boundary, join_run_inputs, hand_over, end_run and                   *)
(* withdraw_queued_inputs: no submission is lost, answered twice or placed   *)
(* twice: a queued one is in the inbox once, a placed one belongs to the     *)
(* live run once.                                                            *)
THEOREM SubmissionsAreAccounted == Spec => []SubmissionsAccounted
<1>1. BooksInv => SubmissionsAccounted
  <2>. SUFFICES ASSUME BooksInv, NEW i \in Ids
                PROVE  /\ Count(db.inbox, i) = IF db.sub[i].st = "queued" THEN 1 ELSE 0
                       /\ Count(db.run.inputs, i) = IF db.sub[i].st = "placed" THEN 1 ELSE 0
    BY DEF SubmissionsAccounted
  <2>1. /\ db.inbox \in Seq(Ids) /\ Rising(db.inbox) /\ (i \in Items(db.inbox) <=> db.sub[i].st = "queued")
        /\ db.run.inputs \in Seq(Ids) /\ Distinct(db.run.inputs)
        /\ (i \in Items(db.run.inputs) <=> db.sub[i].st = "placed")
    BY DEF BooksInv, Books
  <2>2. Distinct(db.inbox)
    BY <2>1, RisingDistinct
  <2>3. /\ Count(db.inbox, i) = IF i \in Items(db.inbox) THEN 1 ELSE 0
        /\ Count(db.run.inputs, i) = IF i \in Items(db.run.inputs) THEN 1 ELSE 0
    BY <2>1, <2>2, CountFx
  <2>. QED BY <2>1, <2>3
<1>. QED BY <1>1, BooksCorrect, PTL

(* admit_submission and apply_boundary: the submissions of a mode enter the  *)
(* transcript in the order of their admission, however long the inbox was.   *)
THEOREM PlacedInOrder == Spec => []PlacementOrder
<1>1. BooksInv => PlacementOrder
  BY DEF BooksInv, Books, PlacementOrder
<1>. QED BY <1>1, BooksCorrect, PTL

(* append_write_entry, is_stale and place_summary: no commit moves the head  *)
(* of the context back.                                                      *)
THEOREM HeadOnlyAdvances == Spec => HeadNeverRetreats
<1>1. TasksInv /\ BooksInv /\ [Next]_vars => [db'.head >= db.head]_vars
  BY BooksStep
<1>. QED BY <1>1, TasksCorrect, BooksCorrect, PTL DEF Spec, HeadNeverRetreats
=============================================================================
