----------------------------- MODULE SessionLine -----------------------------
(***************************************************************************)
(* The durable Session of src/durable/Session.cpp: its mutation line, the   *)
(* documents a commit stages, adopts and publishes, the cache of committed  *)
(* incarnations and the document watches.                                   *)
(*                                                                          *)
(* The line is a recursive mutex and a queue.  Between two steps either     *)
(* nobody holds it, or the pump holds it and the active job is at           *)
(*   "run"      popped, its callback not yet called                         *)
(*   "storage"  its batch is with the storage                               *)
(*   "done"     settled; listeners and its completion run, and they may     *)
(*              call back into the Session                                  *)
(* A storage that settles later (Detach) lets the pump return, so that other*)
(* threads find the line free with the job still active.                    *)
(*                                                                          *)
(* A document's content is abstracted to the sequence number of the commit  *)
(* that wrote it (rev), an incarnation to the one that created it (inc).    *)
(* pump_requested is TRUE whenever the pump's loop tests it with the line   *)
(* inactive, and close_finishing differs from storage_closed only inside    *)
(* one step: neither is kept.                                               *)
(***************************************************************************)
EXTENDS Naturals, Sequences

CONSTANTS
  Docs,          \* document addresses
  Watchers,      \* document watches
  Versions,      \* versions of the definition, 1 upwards
  AsyncStorage,  \* the storage may settle a commit after the call returned
  JobBound,      \* bound: jobs admitted to the line
  CloseBound     \* bound: close() calls

ASSUME SessionAssumption ==
  /\ Versions \subseteq Nat \ {0}
  /\ AsyncStorage \in BOOLEAN
  /\ JobBound \in Nat /\ CloseBound \in Nat

VARIABLES
  closed, failed, storage_closed,
  close_waiters,     \* close_completions not yet called
  close_calls,       \* close() calls so far
  pending_line, line_active, pumping_commits,
  job,               \* the active job and, for a commit, what it staged
  store,             \* the storage: the current incarnation per address
  seq,               \* the storage's last sequence number
  cached_documents,
  watches,
  admitted,          \* history: jobs admitted so far
  answers            \* history: completions called, in order

line  == <<pending_line, line_active, pumping_commits, job>>
ends  == <<closed, failed, storage_closed, close_waiters, close_calls>>
vars  == <<line, ends, store, seq, cached_documents, watches, admitted,
           answers>>
-----------------------------------------------------------------------------
Absent == [inc |-> 0, rev |-> 0, ver |-> 0, deltas |-> 0]
NoCache == [inc |-> 0, rev |-> 0, ver |-> 0, sver |-> 0, deltas |-> 0]
Unreadable == [NoCache EXCEPT !.ver = 1]
NoJob == [id |-> 0, kind |-> "none", at |-> "none", result |-> "none",
          ver |-> 0, staged |-> [d \in Docs |-> <<>>]]
Unwatched == [doc |-> "none", at |-> "none", registered |-> FALSE,
              cancelled |-> FALSE, end |-> "none", inc |-> 0, rev |-> 0,
              ver |-> 0, pending |-> <<>>, replays |-> TRUE]

(* What a transaction does to an address: doc() without a change, doc() and *)
(* a change, retire_doc(), a change then a retirement, a retirement then    *)
(* doc() for the replacement.                                               *)
Touches == {"none", "get", "edit", "retire", "editRetire", "replace"}

(* load_document: the cache serves only the version it was materialized     *)
(* for; another version evicts it and reads the storage, where a newer      *)
(* stored version is an error.                                              *)
Load(v, d) ==
  IF cached_documents[d] # NoCache /\ cached_documents[d].ver = v
  THEN cached_documents[d]
  ELSE IF store[d] = Absent THEN NoCache
  ELSE IF store[d].ver > v THEN Unreadable
  ELSE [inc |-> store[d].inc, rev |-> store[d].rev, ver |-> v,
        sver |-> store[d].ver, deltas |-> store[d].deltas]

CacheAfterLoad(v, d) == IF Load(v, d) = Unreadable THEN NoCache ELSE Load(v, d)

(* One staged document.  change: it was acquired through doc(), so that a   *)
(* revision is prepared; ops: the prepared operations are not empty.        *)
Created(retire) ==
  [created |-> TRUE, change |-> TRUE, ops |-> FALSE, retire |-> retire,
   checkpoint |-> FALSE, from |-> NoCache]
Loaded(l, touch, checkpoint) ==
  [created |-> FALSE, change |-> touch \in {"get", "edit", "editRetire"},
   ops |-> touch \in {"edit", "editRetire"},
   retire |-> touch \in {"retire", "editRetire", "replace"},
   checkpoint |-> checkpoint, from |-> l]

Staged(l, touch, checkpoint) ==
  IF touch = "none" \/ (touch = "retire" /\ l = NoCache) THEN <<>>
  ELSE IF l = NoCache THEN <<Created(touch = "editRetire")>>
  ELSE IF touch = "replace" THEN <<Loaded(l, touch, FALSE), Created(FALSE)>>
  ELSE <<Loaded(l, touch, checkpoint)>>

MigrationOnly(s, v) == ~s.created /\ s.from.sver < v
Written(s, v) == s.created \/ s.retire \/ MigrationOnly(s, v) \/ s.ops
IsBase(s, v) == s.created \/ MigrationOnly(s, v) \/ (s.ops /\ s.checkpoint)
-----------------------------------------------------------------------------
(* What settling a batch as number n does, one staged document at a time.   *)

(* The storage.  A retirement is written alone: the change of an incarnation*)
(* that is acquired and retired is not.                                     *)
StoreAfter(st, s, v, n) ==
  IF s.retire THEN Absent
  ELSE IF s.created THEN [inc |-> n, rev |-> n, ver |-> v, deltas |-> 0]
  ELSE IF ~Written(s, v) THEN st
  ELSE [inc |-> st.inc, rev |-> IF s.ops THEN n ELSE st.rev, ver |-> v,
        deltas |-> IF IsBase(s, v) THEN 0 ELSE st.deltas + 1]

(* cached_documents: every acquired incarnation is adopted, written or not. *)
CacheKeepsRetired(c, s, v, n) ==
  IF ~s.change THEN c
  ELSE [inc |-> IF s.created THEN n ELSE s.from.inc,
        rev |-> IF s.created \/ s.ops THEN n ELSE s.from.rev,
        ver |-> v, sver |-> v,
        deltas |-> IF IsBase(s, v) THEN 0 ELSE s.from.deltas + 1]
CacheAfter(c, s, v, n) ==
  IF s.retire THEN NoCache
  ELSE IF ~s.change THEN c
  ELSE [inc |-> IF s.created THEN n ELSE s.from.inc,
        rev |-> IF s.created \/ s.ops THEN n ELSE s.from.rev,
        ver |-> v, sver |-> v,
        deltas |-> IF IsBase(s, v) THEN 0 ELSE s.from.deltas + 1]

(* The frame one observer gets: the null value, the committed operations    *)
(* when it observes this version, the whole value otherwise; none when the  *)
(* operations are empty.                                                    *)
Frames(w, s, v, n) ==
  IF s.retire
  THEN <<[whole |-> TRUE, from |-> 0, rev |-> 0, ver |-> w.ver]>>
  ELSE IF ~s.change THEN <<>>
  ELSE IF w.ver # v
  THEN <<[whole |-> TRUE, from |-> 0,
          rev |-> IF s.ops THEN n ELSE s.from.rev, ver |-> v]>>
  ELSE IF s.ops
  THEN <<[whole |-> FALSE, from |-> s.from.rev, rev |-> n, ver |-> v]>>
  ELSE <<>>

(* An observer takes a frame: operations are good only on the revision they *)
(* were made for.                                                           *)
Deliver(w, f) ==
  [w EXCEPT !.rev = f.rev, !.replays = @ /\ (f.whole \/ f.from = w.rev)]

Stopped(w) == w.end # "none"
Ended(w, reason) == [w EXCEPT !.end = reason, !.pending = <<>>]
SampleCancellation(w) ==
  IF w.cancelled /\ ~Stopped(w) THEN Ended(w, "cancelled") ELSE w

(* A retirement ends a started watch; one that is not started keeps its     *)
(* frames, and leaves the registry with the others.                         *)
WatchAfterRetained(w, s, v, n) ==
  LET x == SampleCancellation(w)
      fs == Frames(w, s, v, n)
      seen == [x EXCEPT !.ver = fs[1].ver]
  IN  IF ~w.registered \/ (~s.retire /\ ~s.change) THEN w
      ELSE IF Stopped(x) THEN [x EXCEPT !.registered = FALSE]
      ELSE IF fs = <<>> THEN x
      ELSE IF x.at = "held" THEN [seen EXCEPT !.pending = @ \o fs]
      ELSE Deliver(seen, fs[1])
WatchAfter(w, s, v, n) ==
  LET x == SampleCancellation(w)
      fs == Frames(w, s, v, n)
      seen == [x EXCEPT !.ver = fs[1].ver, !.registered = ~s.retire]
  IN  IF ~w.registered \/ (~s.retire /\ ~s.change) THEN w
      ELSE IF Stopped(x) THEN [x EXCEPT !.registered = FALSE]
      ELSE IF fs = <<>> THEN x
      ELSE IF x.at = "held" THEN [seen EXCEPT !.pending = @ \o fs]
      ELSE IF s.retire THEN Ended(Deliver(seen, fs[1]), "retired")
      ELSE Deliver(seen, fs[1])

(* An address has at most two staged documents, the second the replacement  *)
(* of the first.                                                            *)
StoreSettled(d, n) ==
  LET ss == job.staged[d]
      one == StoreAfter(store[d], ss[1], job.ver, n)
  IN  IF ss = <<>> THEN store[d]
      ELSE IF Len(ss) = 1 THEN one
      ELSE StoreAfter(one, ss[2], job.ver, n)
CacheSettled(d, n) ==
  LET ss == job.staged[d]
      one == CacheAfter(cached_documents[d], ss[1], job.ver, n)
  IN  IF ss = <<>> THEN cached_documents[d]
      ELSE IF Len(ss) = 1 THEN one
      ELSE CacheAfter(one, ss[2], job.ver, n)
WatchSettled(w, n) ==
  LET ss == IF w.doc \in Docs THEN job.staged[w.doc] ELSE <<>>
      one == WatchAfter(w, ss[1], job.ver, n)
  IN  IF ss = <<>> THEN w
      ELSE IF Len(ss) = 1 THEN one
      ELSE WatchAfter(one, ss[2], job.ver, n)
-----------------------------------------------------------------------------
(* The line. *)

Answer(j, result) == [id |-> j.id, result |-> result]
(* reject_pending_line, in admission order. *)
Rejections(pend) == [k \in 1..Len(pend) |-> Answer(pend[k], "failed")]
Popped(j) == [NoJob EXCEPT !.id = j.id, !.kind = j.kind, !.at = "run"]

(* finish_close_if_ready, called with the line idle and the queue empty.    *)
FinishCloseOne ==
  /\ storage_closed' = closed'
  /\ close_waiters' = IF closed' THEN close_waiters - 1 ELSE close_waiters
FinishClose ==
  /\ storage_closed' = closed'
  /\ close_waiters' = IF closed' THEN 0 ELSE close_waiters

(* The pump's next iteration once the line is inactive: the head starts, or *)
(* what is queued behind a failure is rejected and the pump returns.        *)
AdvanceNewest(pend, given) ==
  IF pend # <<>> /\ ~failed
  THEN /\ pumping_commits' = TRUE /\ line_active' = TRUE
       /\ job' = Popped(pend[Len(pend)])
       /\ pending_line' = SubSeq(pend, 1, Len(pend) - 1)
       /\ answers' = given
       /\ UNCHANGED <<storage_closed, close_waiters>>
  ELSE /\ pumping_commits' = FALSE /\ line_active' = FALSE
       /\ job' = NoJob /\ pending_line' = <<>>
       /\ answers' = given \o Rejections(pend)
       /\ FinishClose
AdvanceClosing(pend, given) ==
  IF pend # <<>> /\ ~failed
  THEN /\ pumping_commits' = TRUE /\ line_active' = TRUE
       /\ job' = Popped(Head(pend)) /\ pending_line' = Tail(pend)
       /\ answers' = given
       /\ FinishClose
  ELSE /\ pumping_commits' = FALSE /\ line_active' = FALSE
       /\ job' = NoJob /\ pending_line' = <<>>
       /\ answers' = given \o Rejections(pend)
       /\ FinishClose
AdvanceLeavingOpen(pend, given) ==
  IF pend # <<>> /\ ~failed
  THEN /\ pumping_commits' = TRUE /\ line_active' = TRUE
       /\ job' = Popped(Head(pend)) /\ pending_line' = Tail(pend)
       /\ answers' = given
       /\ UNCHANGED <<storage_closed, close_waiters>>
  ELSE /\ pumping_commits' = FALSE /\ line_active' = FALSE
       /\ job' = NoJob /\ pending_line' = <<>>
       /\ answers' = given \o Rejections(pend)
       /\ UNCHANGED <<storage_closed, close_waiters>>
Advance(pend, given) ==
  IF pend # <<>> /\ ~failed
  THEN /\ pumping_commits' = TRUE /\ line_active' = TRUE
       /\ job' = Popped(Head(pend)) /\ pending_line' = Tail(pend)
       /\ answers' = given
       /\ UNCHANGED <<storage_closed, close_waiters>>
  ELSE /\ pumping_commits' = FALSE /\ line_active' = FALSE
       /\ job' = NoJob /\ pending_line' = <<>>
       /\ answers' = given \o Rejections(pend)
       /\ FinishClose

(* pump_line as a caller finds it: nothing to do while the pump runs; after *)
(* a failure the queue is rejected even while a job is still active.        *)
PumpLine(pend, waiters) ==
  IF pumping_commits \/ line_active
  THEN /\ UNCHANGED <<pumping_commits, line_active, job, storage_closed>>
       /\ close_waiters' = waiters
       /\ IF failed /\ ~pumping_commits
          THEN /\ pending_line' = <<>>
               /\ answers' = answers \o Rejections(pend)
          ELSE pending_line' = pend /\ UNCHANGED answers
  ELSE Advance(pend, answers)

(* Whoever calls the Session holds its mutex: another thread while the pump *)
(* does not, or a callback of the active job.                               *)
Enters == ~pumping_commits \/ job.at = "done"
-----------------------------------------------------------------------------
Init ==
  /\ closed = FALSE /\ failed = FALSE /\ storage_closed = FALSE
  /\ close_waiters = 0 /\ close_calls = 0
  /\ pending_line = <<>> /\ line_active = FALSE /\ pumping_commits = FALSE
  /\ job = NoJob
  /\ store = [d \in Docs |-> Absent] /\ seq = 0
  /\ cached_documents = [d \in Docs |-> NoCache]
  /\ watches = [w \in Watchers |-> Unwatched]
  /\ admitted = 0 /\ answers = <<>>

(* commit() and the two line reads, from the check under the mutex on.      *)
Admit(kind) ==
  /\ Enters /\ ~closed /\ ~failed
  /\ admitted < JobBound
  /\ admitted' = admitted + 1
  /\ UNCHANGED <<closed, failed, close_calls, store, seq, cached_documents,
                 watches>>
  /\ PumpLine(Append(pending_line, [id |-> admitted + 1, kind |-> kind]),
              close_waiters)

Close ==
  /\ Enters /\ close_calls < CloseBound
  /\ closed' = TRUE
  /\ close_calls' = close_calls + 1
  /\ PumpLine(pending_line, close_waiters + 1)
  /\ UNCHANGED <<failed, store, seq, cached_documents, watches, admitted>>

(* snapshot(): load_document under the mutex. *)
Snapshot(d, v) ==
  /\ Enters /\ ~closed /\ ~failed
  /\ cached_documents' = [cached_documents EXCEPT ![d] = CacheAfterLoad(v, d)]
  /\ UNCHANGED <<line, ends, store, seq, watches, admitted, answers>>

(* watch_doc(): an address without an incarnation gets no watch.            *)
WatchDoc(w, d, v) ==
  /\ Enters /\ ~closed /\ ~failed
  /\ watches[w] = Unwatched
  /\ Load(v, d) \notin {NoCache, Unreadable}
  /\ cached_documents' = [cached_documents EXCEPT ![d] = Load(v, d)]
  /\ watches' = [watches EXCEPT ![w] =
       [Unwatched EXCEPT !.doc = d, !.at = "held", !.registered = TRUE,
                         !.inc = Load(v, d).inc, !.rev = Load(v, d).rev,
                         !.ver = v]]
  /\ UNCHANGED <<line, ends, store, seq, admitted, answers>>

(* DocumentWatch::start: the frames buffered so far, in commit order. *)
StartWatch(w) ==
  LET x == SampleCancellation(watches[w])
      fs == x.pending
      n == Len(fs)
  IN  /\ Enters
      /\ x.at = "held"
      /\ watches' = [watches EXCEPT ![w] =
           IF Stopped(x) THEN x
           ELSE IF n = 0 THEN [x EXCEPT !.at = "started"]
           ELSE [x EXCEPT !.at = "started", !.pending = <<>>,
                          !.rev = fs[n].rev,
                          !.replays = @ /\ \A k \in 1..n : fs[k].whole \/
                             fs[k].from = (IF k = 1 THEN x.rev
                                           ELSE fs[k - 1].rev)]]
      /\ UNCHANGED <<line, ends, store, seq, cached_documents, admitted,
                     answers>>

StopWatch(w) ==
  LET x == SampleCancellation(watches[w])
  IN  /\ Enters
      /\ x.at # "none" /\ ~Stopped(watches[w])
      /\ watches' = [watches EXCEPT ![w] =
                       IF Stopped(x) THEN x ELSE Ended(x, "stopped")]
      /\ UNCHANGED <<line, ends, store, seq, cached_documents, admitted,
                     answers>>

(* The context a watch was acquired with is cancelled, on any thread. *)
CancelWatch(w) ==
  /\ watches[w].at # "none" /\ ~watches[w].cancelled /\ ~Stopped(watches[w])
  /\ watches' = [watches EXCEPT ![w].cancelled = TRUE]
  /\ UNCHANGED <<line, ends, store, seq, cached_documents, admitted, answers>>
-----------------------------------------------------------------------------
Settled(j, result) == [j EXCEPT !.at = "done", !.result = result]

RunRead ==
  /\ job.at = "run" /\ job.kind = "read"
  /\ \E result \in {"ok", "error"} : job' = Settled(job, result)
  /\ UNCHANGED <<pending_line, line_active, pumping_commits, ends, store, seq,
                 cached_documents, watches, admitted, answers>>

(* commit_now: the callback acquires its documents with the definition of   *)
(* version v.  It fails of itself, at an address it cannot read or at       *)
(* assembly, and nothing is staged; a batch without a write never reaches   *)
(* the storage; any other one does.  table: it writes records as well.      *)
RunCommit(v, touch, checkpoint, table) ==
  LET touched == {d \in Docs : touch[d] # "none"}
      staged == [d \in Docs |-> Staged(Load(v, d), touch[d], checkpoint)]
      writes == table \/ \E d \in Docs : \E k \in 1..Len(staged[d]) :
                           Written(staged[d][k], v)
      readable == \A d \in touched : Load(v, d) # Unreadable
  IN  /\ job.at = "run" /\ job.kind = "commit"
      /\ cached_documents' = [d \in Docs |->
           IF d \in touched THEN CacheAfterLoad(v, d) ELSE cached_documents[d]]
      /\ \/ job' = Settled(job, "rejected")
         \/ readable /\ ~writes /\ job' = Settled(job, "ok")
         \/ /\ readable /\ writes
            /\ job' = [job EXCEPT !.at = "storage", !.ver = v,
                                  !.staged = staged]
      /\ UNCHANGED <<pending_line, line_active, pumping_commits, ends, store,
                     seq, watches, admitted, answers>>

(* The storage returns without having settled: so does the pump. *)
Detach ==
  /\ AsyncStorage
  /\ job.at = "storage" /\ pumping_commits
  /\ pumping_commits' = FALSE
  /\ UNCHANGED <<pending_line, line_active, job, ends, store, seq,
                 cached_documents, watches, admitted, answers>>

(* CommitState::settle after the storage stored the batch. *)
Settle ==
  /\ job.at = "storage"
  /\ seq' = seq + 1
  /\ store' = [d \in Docs |-> StoreSettled(d, seq + 1)]
  /\ cached_documents' = [d \in Docs |-> CacheSettled(d, seq + 1)]
  /\ watches' = [w \in Watchers |-> WatchSettled(watches[w], seq + 1)]
  /\ job' = Settled(job, "ok")
  /\ UNCHANGED <<pending_line, line_active, pumping_commits, ends, admitted,
                 answers>>

(* The storage failed: the Session fails, which closes admission. *)
SettleFailed ==
  /\ job.at = "storage"
  /\ failed' = TRUE /\ closed' = TRUE
  /\ job' = Settled(job, "storage")
  /\ UNCHANGED <<pending_line, line_active, pumping_commits, storage_closed,
                 close_waiters, close_calls, store, seq, cached_documents,
                 watches, admitted, answers>>

(* The job's completion is called and the line moves on. *)
Complete ==
  /\ job.at = "done"
  /\ UNCHANGED <<closed, failed, close_calls, store, seq, cached_documents,
                 watches, admitted>>
  /\ Advance(pending_line, Append(answers, Answer(job, job.result)))

Line ==
  \/ RunRead
  \/ \E v \in Versions, touch \in [Docs -> Touches],
        checkpoint, table \in BOOLEAN : RunCommit(v, touch, checkpoint, table)
  \/ Settle \/ SettleFailed
  \/ Complete

Host ==
  \/ Admit("commit") \/ Admit("read")
  \/ Close
  \/ \E d \in Docs, v \in Versions : Snapshot(d, v)
  \/ \E w \in Watchers :
       \/ \E d \in Docs, v \in Versions : WatchDoc(w, d, v)
       \/ StartWatch(w) \/ StopWatch(w) \/ CancelWatch(w)

Next == Line \/ Detach \/ Host

Spec == Init /\ [][Next]_vars

(* The pump runs a popped job, the storage settles, callbacks return. *)
FairSpec == Spec /\ WF_vars(Line)
-----------------------------------------------------------------------------
Frame == [whole : BOOLEAN, from : Nat, rev : Nat, ver : Nat]
StoreRecord == [inc : Nat, rev : Nat, ver : Nat, deltas : Nat]
CacheRecord == [inc : Nat, rev : Nat, ver : Nat, sver : Nat, deltas : Nat]
StagedDocument ==
  [created : BOOLEAN, change : BOOLEAN, ops : BOOLEAN, retire : BOOLEAN,
   checkpoint : BOOLEAN, from : CacheRecord]
Entry == [id : Nat, kind : {"commit", "read"}]
JobRecord ==
  [id : Nat, kind : {"none", "commit", "read"},
   at : {"none", "run", "storage", "done"},
   result : {"none", "ok", "error", "rejected", "storage"},
   ver : Nat, staged : [Docs -> Seq(StagedDocument)]]
WatchRecord ==
  [doc : Docs \cup {"none"}, at : {"none", "held", "started"},
   registered : BOOLEAN, cancelled : BOOLEAN,
   end : {"none", "cancelled", "stopped", "retired"}, inc : Nat, rev : Nat,
   ver : Nat, pending : Seq(Frame), replays : BOOLEAN]
Answered ==
  [id : Nat, result : {"ok", "error", "rejected", "storage", "failed"}]

(* Every variable of the Session has its type. *)
TypeOK ==
  /\ closed \in BOOLEAN /\ failed \in BOOLEAN /\ storage_closed \in BOOLEAN
  /\ close_waiters \in Nat /\ close_calls \in Nat
  /\ pending_line \in Seq(Entry)
  /\ line_active \in BOOLEAN /\ pumping_commits \in BOOLEAN
  /\ job \in JobRecord
  /\ store \in [Docs -> StoreRecord] /\ seq \in Nat
  /\ cached_documents \in [Docs -> CacheRecord]
  /\ watches \in [Watchers -> WatchRecord]
  /\ admitted \in Nat /\ answers \in Seq(Answered)

Idle == ~line_active /\ ~pumping_commits

Ordered(ans) ==
  \A i, k \in 1..Len(ans) : i < k =>
    \/ ans[i].id < ans[k].id
    \/ ans[k].result = "storage" /\ ans[i].id > ans[k].id

(* The line is a queue: completions are called once each and in admission   *)
(* order, whatever callbacks and other threads do meanwhile (only the job   *)
(* that failed the Session may be overtaken), and an idle line has          *)
(* answered every job it admitted.                                          *)
AnsweredInOrder ==
  /\ Ordered(answers)
  /\ Idle => Len(answers) = admitted /\ pending_line = <<>>

(* Session.cpp:889: the queued jobs "are rejected in admission order once   *)
(* the failing job's own completion has been delivered".                    *)
FailingJobAnsweredFirst ==
  \A k \in 1..Len(answers) : answers[k].result = "failed" =>
    \E i \in 1..k - 1 : answers[i].result = "storage"

(* The storage is closed last: with no job active, queued or unanswered and *)
(* no close() waiting, also when a callback closes or the Session fails.    *)
StorageClosedLast ==
  storage_closed =>
    closed /\ Idle /\ Len(answers) = admitted /\ close_waiters = 0

(* The cache never serves an incarnation, revision or stored version that   *)
(* is not the storage's, whatever versions read it and commits fail.        *)
CacheCoherent ==
  ~failed => \A d \in Docs :
    LET c == cached_documents[d] IN
    c # NoCache => /\ c.inc = store[d].inc /\ c.rev = store[d].rev
                   /\ c.sver = store[d].ver /\ c.sver <= c.ver

(* Session.cpp:669: an "acquired-but-unchanged incarnation publishes        *)
(* nothing", so that the cached number of deltas is the storage's.          *)
DeltasCounted ==
  ~failed => \A d \in Docs : cached_documents[d] # NoCache =>
    cached_documents[d].deltas = store[d].deltas

LastRev(w) == IF w.pending = <<>> THEN w.rev
              ELSE w.pending[Len(w.pending)].rev

(* A watch can replay its frames: operations always meet the revision they  *)
(* were made for; what a live watch has, or has buffered, is the current    *)
(* revision of the incarnation it was acquired for; it never follows the    *)
(* replacement of a retired one.                                            *)
WatchFollows ==
  \A w \in Watchers : LET x == watches[w] IN
    /\ x.replays
    /\ x.registered /\ ~Stopped(x) =>
         x.inc = store[x.doc].inc /\ LastRev(x) = store[x.doc].rev
    /\ x.at # "none" /\ ~Stopped(x) /\ ~x.registered => LastRev(x) = 0

(* Session.cpp:779: a retirement "delivers its canonical null frame and then*)
(* closes the watch with Retired".                                          *)
RetiredWatchEnds ==
  \A w \in Watchers : LET x == watches[w] IN
    x.at = "started" /\ x.rev = 0 => x.end = "retired"

(* Every admitted job is answered, and a close, or a failure, ends with the *)
(* storage closed and every waiter told.                                    *)
LineDrains ==
  /\ closed ~> (storage_closed /\ close_waiters = 0)
  /\ \A n \in 1..JobBound : (admitted >= n) ~> (Len(answers) >= n)

(* What the proofs need beside the types.                                   *)

(* The line: its flags agree with the active job, and what follows a failure*)
(* is the failing job's completion.                                         *)
LineInv ==
  /\ line_active <=> job.at # "none"
  /\ pumping_commits => line_active
  /\ Idle => pending_line = <<>>
  /\ job.at = "done" <=> job.result # "none"
  /\ failed => closed /\ (line_active => job.at = "done" /\ job.result = "storage")

(* The queue: every job is answered, active or queued, ids are queued in    *)
(* admission order behind the active job and what was answered, and only a  *)
(* job that failed the Session is overtaken.                                *)
QueueInv ==
  /\ Len(answers) + (IF line_active THEN 1 ELSE 0) + Len(pending_line) = admitted
  /\ \A k \in 1..Len(pending_line) :
       pending_line[k].id = (admitted - Len(pending_line)) + k
  /\ line_active => job.id <= admitted - Len(pending_line)
  /\ \A k \in 1..Len(answers) :
       /\ answers[k].id <= admitted - Len(pending_line)
       /\ line_active => \/ answers[k].id < job.id
                         \/ job.result = "storage" /\ answers[k].id # job.id

(* A stored or cached document has an incarnation. *)
StoreInv ==
  \A d \in Docs : /\ store[d].inc = 0 => store[d] = Absent
                  /\ cached_documents[d].inc = 0 => cached_documents[d] = NoCache

(* A batch that is with the storage was staged from what the storage has.   *)
Fresh(s, d) ==
  /\ ~s.created /\ (s.change \/ s.retire) /\ (s.ops => s.change)
  /\ s.from.inc # 0 /\ s.from.inc = store[d].inc /\ s.from.rev = store[d].rev
  /\ s.from.sver = store[d].ver /\ s.from.sver <= job.ver
New(s) == s.created /\ s.change /\ ~s.ops
StagedInv ==
  job.at = "storage" =>
    \A d \in Docs : LET ss == job.staged[d] IN
      \/ ss = <<>>
      \/ Len(ss) = 1 /\ (Fresh(ss[1], d) \/ (New(ss[1]) /\ store[d] = Absent))
      \/ Len(ss) = 2 /\ Fresh(ss[1], d) /\ ss[1].retire /\ New(ss[2])

(* Frames wait in commit order, each made for what the one before left.     *)
FramesInv ==
  \A w \in Watchers : LET x == watches[w] IN
    /\ x.registered => x.doc \in Docs /\ x.at # "none" /\ x.inc # 0
    /\ x.at # "held" => x.pending = <<>>
    /\ \A k \in 1..Len(x.pending) :
         \/ x.pending[k].whole
         \/ x.pending[k].from = (IF k = 1 THEN x.rev ELSE x.pending[k - 1].rev)

SessionInv == LineInv /\ QueueInv /\ StoreInv /\ StagedInv /\ FramesInv
=============================================================================
