---------------------------- MODULE JsonlStorage -----------------------------
(***************************************************************************)
(* JsonlStorage: a session's records in main.jsonl, one commit marker per   *)
(* line, and one sidecar file per document and per live task.  A commit     *)
(* appends its sidecar records first and its marker last; opening rebuilds  *)
(* the state from the markers and drops what no marker confirms.            *)
(*                                                                          *)
(* The ordinal of a sidecar record is the position of its write in the      *)
(* batch.  A file holds complete lines and perhaps a torn last one.         *)
(* Symbolic links, substituted files, scratch files of replacements and     *)
(* power loss are left out.                                                 *)
(***************************************************************************)
EXTENDS StorageState

CONSTANTS
  Fsync,        \* JsonlStorageOptions::fsync
  Versions,     \* document versions in use
  Copies,       \* the points in time documents are copied at, {}: no copies
  Revive,       \* the client writes tasks that are already terminal
  Rewrites,     \* the client writes a document repeatedly in a batch
  CommitBound,  \* bound: writes of all commits tried
  WriteBound    \* bound: writes in a batch

ASSUME StoreAssumption ==
  /\ Fsync \in BOOLEAN /\ Revive \in BOOLEAN /\ Rewrites \in BOOLEAN
  /\ Copies \subseteq Nat
  /\ Versions \subseteq Nat \ {0}
  /\ CommitBound \in Nat /\ WriteBound \in Nat

VARIABLES
  main, mainTorn,   \* main.jsonl: markers [seq, ops], and a torn last line
  side, sideTorn,   \* the sidecars: records [seq, ord, base, ver, val]
  status,           \* "down", "up" or "poisoned"
  st,               \* StorageState of the open instance
  pc,               \* "idle", "append" or "reclaim"
  cur,              \* the encoded commit: seq, ops, and whether it is lost
  todo,             \* sidecars still to append
  plan,             \* reclamations still to apply, [file, keep]
  tried,            \* writes of the commits tried
  ref,              \* history: the state every published marker promises
  minted, reminted, \* history: largest id minted; one was minted again
  deferred          \* history: files whose reclamation failed since the open

disk == <<main, mainTorn, side, sideTorn>>
work == <<pc, cur, todo, plan>>
hist == <<tried, ref, minted, reminted, deferred>>
vars == <<disk, status, st, work, hist>>

Files == Docs \cup Tasks
NoCommit == [seq |-> 0, ops |-> <<>>, lost |-> FALSE]
LastSeq == IF main = <<>> THEN 0 ELSE Last(main).seq
-----------------------------------------------------------------------------
(* The writes of a client: ids come from mint_id.  A Session does not       *)
(* replace a terminal task and writes a document once in a batch, unless it *)
(* is created and retired there.                                            *)
Write(kind, id, ver) == [kind |-> kind, id |-> id, ver |-> ver, from |-> 0, at |-> Current]
Writes ==
  {Write("entry", 0, 1)} \cup {Write("retire", d, 1) : d \in Docs}
  \cup {Write(k, d, v) : k \in {"create", "base", "delta"}, d \in Docs, v \in Versions}
  \cup {Write(k, t, 1) : k \in {"live", "terminal"}, t \in Tasks}
  \cup {[Write("copy", d, 1) EXCEPT !.from = e, !.at = p] :
          d \in Docs, e \in Docs, p \in Copies}
Batches == UNION {[1..n -> Writes] : n \in 1..WriteBound}

Supplied(batch) ==
  \A i \in DOMAIN batch :
    LET w == batch[i] IN
    /\ w.id < st.nextId
    /\ w.id \in Tasks /\ st.tasks[w.id].status = "terminal" => Revive
    /\ \A j \in 1..(i - 1) :
         w.id \in Docs /\ batch[j].id = w.id =>
           Rewrites \/ (batch[j].kind = "create" /\ w.kind = "retire")
-----------------------------------------------------------------------------
(* encode_commit *)
HasSidecar(w) == w.kind \in {"create", "copy", "base", "delta", "live"}

(* A copy is encoded from the source's file, not from memory. *)
SourceLines(w) == {r \in Range(side[w.from]) : w.at = Current \/ r.seq <= w.at}
SourceValue(w) == Replay(side[w.from], w.at).val

(* No base in the file: the whole commit is encoded as nothing. *)
Unencodable(batch) ==
  \E i \in DOMAIN batch :
    batch[i].kind = "copy" /\ ~ \E r \in SourceLines(batch[i]) : r.base

(* sidecar_line: the version field of a line is always 1. *)
Line(w, s, i) ==
  [seq |-> s, ord |-> i, base |-> w.kind # "delta", ver |-> 1,
   val |-> IF w.kind = "copy" THEN SourceValue(w) ELSE << <<s, i>> >>]

(* add_sidecar: the lines of a file in write order, and the files in the    *)
(* order of their first lines.                                              *)
GoesTo(w, f) == HasSidecar(w) /\ w.id = f
Lines(batch, s, f) ==
  LET lines[i \in 0..Len(batch)] ==
        IF i = 0 THEN <<>>
        ELSE IF GoesTo(batch[i], f) THEN Append(lines[i - 1], Line(batch[i], s, i))
        ELSE lines[i - 1]
  IN  lines[Len(batch)]

FilesOf(batch) ==
  LET files[i \in 0..Len(batch)] ==
        IF i = 0 THEN <<>>
        ELSE LET fs == files[i - 1] IN
             IF HasSidecar(batch[i]) /\ batch[i].id \notin Range(fs)
             THEN Append(fs, batch[i].id) ELSE fs
  IN  files[Len(batch)]

(* The lines of a file from a position on. *)
Before(p, q) == p[1] < q[1] \/ (p[1] = q[1] /\ p[2] < q[2])
From(q, p) ==
  LET lines[n \in 0..Len(q)] ==
        IF n = 0 THEN <<>>
        ELSE IF Before(<<q[n].seq, q[n].ord>>, p) THEN lines[n - 1]
        ELSE Append(lines[n - 1], q[n])
  IN  lines[Len(q)]

(* The reclamations a commit authorizes: the file of a retired current-only *)
(* document and of a task that ends up terminal goes, the file of a         *)
(* current-only document with a new base is cut to what follows it.         *)
Of(batch, id, kinds) == {i \in DOMAIN batch : batch[i].id = id /\ batch[i].kind \in kinds}
RetiredBy(batch, d) == Of(batch, d, {"retire"}) # {}
FinalTerminalAny(batch, t) == Of(batch, t, {"terminal"}) # {}
FinalTerminal(batch, t) ==
  LET is == Of(batch, t, {"live", "terminal"}) IN
  is # {} /\ batch[Max(is)].kind = "terminal"
ReclamationsOfTasks(batch, s) ==
  {[file |-> t, keep |-> <<>>] : t \in {u \in Tasks : FinalTerminal(batch, u)}}
Reclamations(batch, s) ==
  {[file |-> d, keep |-> <<>>] : d \in {e \in Docs \ Rewindable : RetiredBy(batch, e)}}
  \cup {[file |-> d, keep |-> From(Lines(batch, s, d), <<s, Max(Of(batch, d, {"base"}))>>)] :
          d \in {e \in Docs \ Rewindable : Of(batch, e, {"base"}) # {} /\ ~RetiredBy(batch, e)}}
  \cup {[file |-> t, keep |-> <<>>] : t \in {u \in Tasks : FinalTerminal(batch, u)}}
-----------------------------------------------------------------------------
(* recover, as functions of the files *)
OpAt(p) == main[p[1]].ops[p[2]]
OpsOf(id, kinds) ==
  {p \in (DOMAIN main) \X (1..WriteBound) :
     p[2] \in DOMAIN main[p[1]].ops /\ OpAt(p).id = id /\ OpAt(p).kind \in kinds}
Latest(ps) == CHOOSE p \in ps : \A q \in ps : q = p \/ Before(q, p)

Found(f, s, i) == {r \in Range(side[f]) : r.seq = s /\ r.ord = i}
FoundAt(p, f) == Found(f, main[p[1]].seq, p[2])

(* final_task_live *)
FinalLive(t) ==
  LET ps == OpsOf(t, {"live", "terminal"}) IN ps # {} /\ OpAt(Latest(ps)).kind = "live"
RetiredInMain(d) == OpsOf(d, {"retire"}) # {}

(* latest_bases, and the operations recovery takes for reclaimed: the       *)
(* document is retired, or a newer base is in its file.                     *)
Bases(d) ==
  {p \in OpsOf(d, {"create", "copy", "base", "delta"}) : \E r \in FoundAt(p, d) : r.base}
Reclaimed(d, p) ==
  RetiredInMain(d) \/ (Bases(d) # {} /\ Before(p, Latest(Bases(d))))

Confirmed(f, r) ==
  \E m \in Range(main) :
    /\ m.seq = r.seq /\ r.ord \in DOMAIN m.ops
    /\ HasSidecar(m.ops[r.ord]) /\ m.ops[r.ord].id = f
TailStart(f) == SelectInSeq(side[f], LAMBDA r : ~Confirmed(f, r))
KeptLines(f) == IF TailStart(f) = 0 THEN side[f] ELSE SubSeq(side[f], 1, TailStart(f) - 1)

(* Why opening fails. *)
MissingLine ==
  \E f \in Files : \E p \in OpsOf(f, {"create", "copy", "base", "delta", "live"}) :
    /\ FoundAt(p, f) = {}
    /\ IF f \in Tasks THEN FinalLive(f) ELSE ~Reclaimed(f, p)
Disordered ==
  \/ \E m \in 2..Len(main) : main[m].seq <= main[m - 1].seq
  \/ \E f \in Files : \E n \in 2..Len(side[f]) :
       ~Before(<<side[f][n-1].seq, side[f][n-1].ord>>, <<side[f][n].seq, side[f][n].ord>>)
BadTail ==
  \E f \in Files : TailStart(f) # 0 /\
    \E n \in TailStart(f)..Len(side[f]) :
      Confirmed(f, side[f][n]) \/ side[f][n].seq <= LastSeq
(* Replay one operation.  A reclaimed creation comes back empty; a copy is  *)
(* recomputed from its source as replayed so far.                           *)
Restore(x, p) ==
  LET w == OpAt(p)   s == main[p[1]].seq IN
  CASE w.kind \in {"entry", "terminal", "retire", "copy"} -> Apply(x, w, s, p[2])
    [] w.kind = "live" -> IF FinalLive(w.id) THEN Apply(x, w, s, p[2]) ELSE x
    [] w.kind = "create" ->
         PutDoc(x, w.id, s, IF FoundAt(p, w.id) = {} THEN [ver |-> 1, val |-> <<>>]
                            ELSE CHOOSE r \in FoundAt(p, w.id) : TRUE)
    [] w.kind \in {"base", "delta"} ->
         IF Reclaimed(w.id, p) THEN x
         ELSE LET r == CHOOSE r \in FoundAt(p, w.id) : TRUE
              IN ChangeDoc(x, w.id, s, r.base, r)

(* The states between the operations of a marker, and after the markers. *)
Restored(x, m) ==
  LET after[i \in 0..Len(main[m].ops)] ==
        IF i = 0 THEN x ELSE Restore(after[i - 1], <<m, i>>)
  IN  after
RestoreMarker(x, m) ==
  [Restored(x, m)[Len(main[m].ops)] EXCEPT !.nextSeq = main[m].seq + 1]
RecoveredTo(n) ==
  LET after[m \in 0..n] == IF m = 0 THEN Empty ELSE RestoreMarker(after[m - 1], m)
  IN  after[n]
Recovered == RecoveredTo(Len(main))

(* A delta needs its document in the state before the whole commit, not     *)
(* before the write.  (That its operations also apply to that older value   *)
(* depends on the data and is left out.)                                    *)
UnreadableDelta ==
  \E d \in Docs : \E p \in OpsOf(d, {"delta"}) :
    /\ ~Reclaimed(d, p)
    /\ ~AliveAt(RecoveredTo(p[1] - 1), d, Current)

(* state.restore rejects an operation as apply does; a delta continues the  *)
(* version its line has.                                                    *)
Restorable(x, p) ==
  LET w == OpAt(p) IN
  \/ w.kind \in {"base", "delta"} /\ Reclaimed(w.id, p)
  \/ /\ Admitted(x, main[p[1]].ops, p[2])
     /\ w.kind = "delta" => \A r \in FoundAt(p, w.id) : Continues(x, w.id, r.ver)
Unrestorable ==
  \E m \in DOMAIN main : \E i \in DOMAIN main[m].ops :
    ~Restorable(Restored(RecoveredTo(m - 1), m)[i - 1], <<m, i>>)
Rejected == MissingLine \/ Disordered \/ BadTail \/ UnreadableDelta \/ Unrestorable

(* The reclamation recovery tries again. *)
RetainedAfterBase(d) ==
  LET b == Latest(Bases(d)) IN From(KeptLines(d), <<main[b[1]].seq, b[2] + 1>>)
Retained(d) ==
  LET b == Latest(Bases(d)) IN From(KeptLines(d), <<main[b[1]].seq, b[2]>>)
RecoveryPlanOfTasks ==
  {[file |-> t, keep |-> <<>>] : t \in {u \in Tasks : side[u] # <<>> /\ (KeptLines(u) = <<>> \/ ~FinalLive(u))}}
RecoveryPlan ==
  {[file |-> t, keep |-> <<>>] : t \in {u \in Tasks : side[u] # <<>> /\ (KeptLines(u) = <<>> \/ ~FinalLive(u))}}
  \cup {[file |-> d, keep |-> <<>>] :
          d \in {e \in Docs : side[e] # <<>> /\ (KeptLines(e) = <<>> \/ RetiredInMain(e))}}
  \cup {[file |-> d, keep |-> Retained(d)] :
          d \in {e \in Docs : /\ KeptLines(e) # <<>> /\ ~RetiredInMain(e) /\ Bases(e) # {}
                              /\ Retained(e) # KeptLines(e)}}
-----------------------------------------------------------------------------
Init ==
  /\ main = <<>> /\ mainTorn = FALSE
  /\ side = [f \in Files |-> <<>>] /\ sideTorn = {}
  /\ status = "down" /\ st = Empty
  /\ pc = "idle" /\ cur = NoCommit /\ todo = <<>> /\ plan = {}
  /\ tried = 0 /\ ref = Empty /\ minted = 0 /\ reminted = FALSE /\ deferred = {}

Idle(planned) == IF planned = {} THEN "idle" ELSE "reclaim"

(* open: repair the files, rebuild the state, then reclaim. *)
OpenKeepingTorn ==
  /\ status # "up" /\ ~Rejected
  /\ mainTorn' = FALSE
  /\ sideTorn' = {f \in sideTorn : KeptLines(f) = side[f]}
  /\ side' = [f \in Files |-> KeptLines(f)]
  /\ status' = "up" /\ st' = Recovered
  /\ plan' = RecoveryPlan /\ pc' = Idle(plan')
  /\ cur' = NoCommit /\ todo' = <<>> /\ deferred' = {}
  /\ UNCHANGED <<main, tried, ref, minted, reminted>>
Open ==
  /\ status # "up" /\ ~Rejected
  /\ mainTorn' = FALSE /\ sideTorn' = {}
  /\ side' = [f \in Files |-> KeptLines(f)]
  /\ status' = "up" /\ st' = Recovered
  /\ plan' = RecoveryPlan /\ pc' = Idle(plan')
  /\ cur' = NoCommit /\ todo' = <<>> /\ deferred' = {}
  /\ UNCHANGED <<main, tried, ref, minted, reminted>>

(* Opening stops half-way, by a crash or by a failed truncation: some of    *)
(* the files are repaired.                                                  *)
OpenInterrupted ==
  /\ status # "up" /\ ~Rejected
  /\ mainTorn' = FALSE
  /\ \E fs \in SUBSET Files :
       /\ fs # {}
       /\ sideTorn' = sideTorn \ fs
       /\ side' = [f \in Files |-> IF f \in fs THEN KeptLines(f) ELSE side[f]]
  /\ status' = "down"
  /\ st' = Empty /\ pc' = "idle" /\ cur' = NoCommit /\ todo' = <<>> /\ plan' = {}
  /\ UNCHANGED <<main, hist>>

MintId ==
  /\ status = "up" /\ pc = "idle"
  /\ \E f \in Files : st.nextId <= f
  /\ st' = [st EXCEPT !.nextId = @ + 1]
  /\ minted' = Larger(minted, st.nextId)
  /\ reminted' = (reminted \/ st.nextId <= minted)
  /\ UNCHANGED <<disk, status, work, tried, ref, deferred>>

(* commit: validate and encode. *)
BeginCommit(batch) ==
  /\ status = "up" /\ pc = "idle" /\ tried + Len(batch) <= CommitBound
  /\ Supplied(batch) /\ Valid(st, batch)
  /\ tried' = tried + Len(batch)
  /\ cur' = [seq |-> st.nextSeq, ops |-> batch, lost |-> Unencodable(batch)]
  /\ todo' = IF Unencodable(batch) THEN <<>> ELSE FilesOf(batch)
  /\ pc' = "append"
  /\ UNCHANGED <<disk, status, st, plan, ref, minted, reminted, deferred>>

NewLines == Lines(cur.ops, cur.seq, Head(todo))

AppendSidecar ==
  /\ pc = "append" /\ todo # <<>>
  /\ side' = [side EXCEPT ![Head(todo)] = @ \o NewLines]
  /\ todo' = Tail(todo)
  /\ UNCHANGED <<main, mainTorn, sideTorn, status, st, pc, cur, plan, hist>>

(* The instance is poisoned by the failure of a write or a flush, or the    *)
(* process ends there.                                                      *)
GivesUpMidCommit ==
  /\ status' \in {"poisoned", "down"}
  /\ UNCHANGED <<st, pc, cur, todo, plan>>
GivesUp ==
  /\ status' \in {"poisoned", "down"}
  /\ st' = Empty /\ pc' = "idle" /\ cur' = NoCommit /\ todo' = <<>> /\ plan' = {}

(* Part of the bytes are in the file: complete lines, and perhaps a torn one. *)
AppendSidecarFails ==
  /\ pc = "append" /\ todo # <<>>
  /\ \E n \in 0..Len(NewLines) :
       /\ side' = [side EXCEPT ![Head(todo)] = @ \o SubSeq(NewLines, 1, n)]
       /\ sideTorn' \in {sideTorn} \cup IF n < Len(NewLines) THEN {sideTorn \cup {Head(todo)}} ELSE {}
  /\ GivesUp
  /\ UNCHANGED <<main, mainTorn, hist>>

(* Every sidecar is flushed before the marker exists. *)
FlushSidecarFails ==
  /\ pc = "append" /\ todo = <<>> /\ Fsync
  /\ ~cur.lost /\ FilesOf(cur.ops) # <<>>
  /\ GivesUp
  /\ UNCHANGED <<disk, hist>>

Marker == [seq |-> cur.seq, ops |-> cur.ops]
Published == ApplyBatch(ref, cur.ops, cur.seq)

(* The marker is the commit point; memory follows, then reclamation. *)
AppendMarkerUnapplied ==
  /\ pc = "append" /\ todo = <<>>
  /\ main' = IF cur.lost THEN main ELSE Append(main, Marker)
  /\ ref' = Published
  /\ plan' = IF cur.lost THEN {} ELSE Reclamations(cur.ops, cur.seq)
  /\ pc' = Idle(plan') /\ cur' = NoCommit
  /\ UNCHANGED <<mainTorn, side, sideTorn, status, st, todo, tried, minted, reminted, deferred>>
AppendMarker ==
  /\ pc = "append" /\ todo = <<>>
  /\ main' = IF cur.lost THEN main ELSE Append(main, Marker)
  /\ st' = ApplyBatch(st, cur.ops, cur.seq) /\ ref' = Published
  /\ plan' = IF cur.lost THEN {} ELSE Reclamations(cur.ops, cur.seq)
  /\ pc' = Idle(plan') /\ cur' = NoCommit
  /\ UNCHANGED <<mainTorn, side, sideTorn, status, todo, tried, minted, reminted, deferred>>

(* The error may come after the last byte: the batch is published. *)
AppendMarkerFails ==
  /\ pc = "append" /\ todo = <<>> /\ ~cur.lost
  /\ \/ main' = Append(main, Marker) /\ ref' = Published /\ UNCHANGED mainTorn
     \/ mainTorn' \in {mainTorn, TRUE} /\ UNCHANGED <<main, ref>>
  /\ GivesUp
  /\ UNCHANGED <<side, sideTorn, tried, minted, reminted, deferred>>

(* reclaim_sidecars: a rename or an unlink, each of which may fail. *)
Reclaim(r) ==
  /\ pc = "reclaim" /\ r \in plan
  /\ side' = [side EXCEPT ![r.file] = r.keep]
  /\ plan' = plan \ {r} /\ pc' = Idle(plan')
  /\ UNCHANGED <<main, mainTorn, sideTorn, status, st, cur, todo, hist>>
ReclaimFails(r) ==
  /\ pc = "reclaim" /\ r \in plan
  /\ plan' = plan \ {r} /\ pc' = Idle(plan')
  /\ deferred' = deferred \cup {r.file}
  /\ UNCHANGED <<disk, status, st, cur, todo, tried, ref, minted, reminted>>

(* main.jsonl cannot be flushed: the whole pass is put off. *)
ReclamationDeferred ==
  /\ pc = "reclaim" /\ Fsync
  /\ plan' = {} /\ pc' = "idle"
  /\ deferred' = deferred \cup {r.file : r \in plan}
  /\ UNCHANGED <<disk, status, st, cur, todo, tried, ref, minted, reminted>>

(* close, or the process ends, anywhere. *)
Stop ==
  /\ status = "up"
  /\ status' = "down"
  /\ st' = Empty /\ pc' = "idle" /\ cur' = NoCommit /\ todo' = <<>> /\ plan' = {}
  /\ UNCHANGED <<disk, hist>>

Next ==
  \/ Open \/ OpenInterrupted \/ MintId \/ Stop
  \/ \E batch \in Batches : BeginCommit(batch)
  \/ AppendSidecar \/ AppendSidecarFails \/ FlushSidecarFails
  \/ AppendMarker \/ AppendMarkerFails
  \/ \E r \in plan : Reclaim(r) \/ ReclaimFails(r)
  \/ ReclamationDeferred

Spec == Init /\ [][Next]_vars
-----------------------------------------------------------------------------
(* The types of the store's state. *)
TypeOK ==
  /\ \A n \in DOMAIN main : main[n].ops \in Batches /\ main[n].seq \in Nat
  /\ mainTorn \in BOOLEAN /\ sideTorn \subseteq Files
  /\ \A f \in Files : \A n \in DOMAIN side[f] :
       side[f][n].seq \in 1..(LastSeq + 1) /\ side[f][n].ord \in 1..WriteBound
  /\ status \in {"down", "up", "poisoned"}
  /\ pc \in {"idle", "append", "reclaim"} /\ (status # "up" => pc = "idle")
  /\ \A r \in plan : r.file \in Files
  /\ deferred \subseteq Files /\ minted \in Nat /\ reminted \in BOOLEAN

(* Recovery never refuses a store that only this code, its crashes and its  *)
(* I/O failures have touched: wherever the process stops, in a commit, a    *)
(* reclamation or a recovery, the next open succeeds.                       *)
AlwaysReopens == ~Rejected

(* At every moment the files restore exactly the published batches: none is *)
(* lost, none comes back in part, and a batch whose marker was never        *)
(* completed leaves no trace.                                               *)
CommittedSurvives == ~Rejected => View(Recovered) = View(ref)

(* Reads of an open store and reads after a reopen agree. *)
MemoryMatchesFiles == status = "up" /\ pc # "append" => View(st) = View(Recovered)

(* An open store has no torn line and no stale record: all that follows is  *)
(* appended behind complete, confirmed lines, under a sequence no file has  *)
(* seen, except the records of the commit under way.                        *)
OpenStoreClean ==
  status = "up" =>
    /\ ~mainTorn /\ sideTorn = {}
    /\ \A f \in Files : \A r \in Range(side[f]) :
         Confirmed(f, r) \/ (pc = "append" /\ r.seq = cur.seq)
    /\ st.nextSeq > LastSeq

(* A successful commit has written its marker: sequences have no gap.       *)
AckMeansMarker == status = "up" /\ pc = "idle" => st.nextSeq = LastSeq + 1

(* The files do not grow with the history: unless a reclamation failed, a   *)
(* terminal task and a retired document have no sidecar left and the        *)
(* sidecar of a current-only document begins with its newest base.          *)
SidecarsReclaimed ==
  status = "up" /\ pc = "idle" =>
    /\ \A t \in Tasks \ deferred : st.tasks[t].status # "live" => side[t] = <<>>
    /\ \A d \in Docs \ (deferred \cup Rewindable) :
         Len(side[d]) = Len(st.docs[d].revs)

(* A rewindable document "keeps every revision": a read at any earlier      *)
(* sequence gives what it gave before the reopen.                           *)
HistoryKept ==
  status = "up" /\ pc = "idle" =>
    \A d \in Rewindable : \A at \in 1..LastSeq :
      AliveAt(ref, d, at) => Value(st, d, at) = Value(ref, d, at)

(* A document comes back with the version it was stored under, so that a    *)
(* Session migrates it exactly once.                                        *)
VersionsKept ==
  \A d \in Docs : ~Rejected /\ AliveAt(ref, d, Current) =>
    Materialized(Recovered, d, Current).ver = Materialized(ref, d, Current).ver

(* An id is greater than every id minted before, also across a reopen. *)
MintedFresh == ~reminted

(* What a reopen would show: View(Recovered), so written that TLC evaluates *)
(* Recovered once.                                                          *)
Shown == CHOOSE v \in {View(x) : x \in {Recovered}} : TRUE

(* The store implements Storage's contract: what a reopen would show, at    *)
(* every moment, is the effect of whole batches, each accepted where it     *)
(* came, and nothing but a commit changes it.                               *)
Contract == INSTANCE AtomicStore WITH state <- ref, shown <- Shown, service <- status
ImplementsAtomicStore == Contract!Spec
=============================================================================
