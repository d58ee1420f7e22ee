---------------------------- MODULE StorageState -----------------------------
(***************************************************************************)
(* StorageState: the records of one session in memory and what a committed  *)
(* write does to them.  Every storage backend keeps one; JsonlStorage       *)
(* rebuilds it from its files.                                              *)
(*                                                                          *)
(* A write is [kind, id, ver, from, at]; the i-th write of the commit with  *)
(* sequence s has the stamp <<s, i>>, which stands for its content.  The    *)
(* value of a document is the content of its newest base followed by the    *)
(* deltas applied to it: a sequence of stamps.                              *)
(*                                                                          *)
(* Conversations, entries and submissions live in the commit marker alone:  *)
(* the kind "entry" stands for all three, without an id of its own.         *)
(* Addresses are left out: every document has one of its own.               *)
(***************************************************************************)
EXTENDS Naturals, Sequences, FiniteSets, SequencesExt

CONSTANTS
  Docs, Tasks,   \* ids of document incarnations and of tasks
  Rewindable     \* the documents that keep their history

ASSUME IdsAssumption ==
  /\ Docs \subseteq Nat \ {0} /\ Tasks \subseteq Nat \ {0}
  /\ Docs \cap Tasks = {} /\ Rewindable \subseteq Docs

Current == 0     \* DocumentPoint::current(); other points are sequences
Larger(a, b) == IF a < b THEN b ELSE a

NoDoc  == [created |-> 0, retired |-> 0, revs |-> <<>>]
NoTask == [status |-> "none", stamp |-> <<>>]
Empty  == [docs |-> [d \in Docs |-> NoDoc], tasks |-> [t \in Tasks |-> NoTask],
           entries |-> {}, nextSeq |-> 1, nextId |-> 1]

Exists(st, d)  == st.docs[d].created # 0
Retired(st, d) == st.docs[d].retired # 0

(* is_alive_at *)
AliveAt(st, d, at) ==
  IF at = Current THEN Exists(st, d) /\ ~Retired(st, d)
  ELSE /\ Exists(st, d) /\ st.docs[d].created <= at
       /\ Retired(st, d) => at < st.docs[d].retired

(* materialize: replay from the newest base at or before the point. *)
Replayed(v, r, at) ==
  IF at # Current /\ at < r.seq THEN v
  ELSE IF r.base THEN [ver |-> r.ver, val |-> r.val]
  ELSE [ver |-> v.ver, val |-> v.val \o r.val]
Replay(revs, at) ==
  LET after[n \in 0..Len(revs)] ==
        IF n = 0 THEN [ver |-> 1, val |-> <<>>]
        ELSE Replayed(after[n - 1], revs[n], at)
  IN  after[Len(revs)]
Materialized(st, d, at) == Replay(st.docs[d].revs, at)
Value(st, d, at) == Materialized(st, d, at).val
-----------------------------------------------------------------------------
WithId(st, id) == [st EXCEPT !.nextId = Larger(@, id + 1)]

PutDoc(st, d, s, content) ==
  WithId([st EXCEPT !.docs[d] =
            [created |-> s, retired |-> 0,
             revs |-> <<[seq |-> s, base |-> TRUE, ver |-> content.ver,
                         val |-> content.val]>>]], d)

(* A base replaces the history of a current-only document. *)
ChangeDoc(st, d, s, base, content) ==
  LET rev == [seq |-> s, base |-> base, ver |-> content.ver, val |-> content.val] IN
  [st EXCEPT !.docs[d] =
     [created |-> @.created, retired |-> @.retired,
      revs |-> IF base /\ d \notin Rewindable THEN <<rev>> ELSE Append(@.revs, rev)]]

RetireDoc(st, d, s) ==
  [st EXCEPT !.docs[d] = [created |-> @.created, retired |-> s,
                          revs |-> IF d \in Rewindable THEN @.revs ELSE <<>>]]

(* A task write replaces the record, whatever its status was. *)
PutTask(st, t, status, stamp) ==
  WithId([st EXCEPT !.tasks[t] = [status |-> status, stamp |-> stamp]], t)

PutEntry(st, stamp) == [st EXCEPT !.entries = @ \cup {stamp}]

(* Impl::apply, the effect of the i-th write of commit s. *)
Apply(st, w, s, i) ==
  LET stamp == <<s, i>>
      content == [ver |-> w.ver, val |-> <<stamp>>] IN
  CASE w.kind = "entry"  -> PutEntry(st, stamp)
    [] w.kind = "create" -> PutDoc(st, w.id, s, content)
    [] w.kind = "copy"   -> PutDoc(st, w.id, s, Materialized(st, w.from, w.at))
    [] w.kind = "base"   -> ChangeDoc(st, w.id, s, TRUE, content)
    [] w.kind = "delta"  -> ChangeDoc(st, w.id, s, FALSE, content)
    [] w.kind = "retire" -> RetireDoc(st, w.id, s)
    [] w.kind \in {"live", "terminal"} -> PutTask(st, w.id, w.kind, stamp)

(* The states between the writes of a batch. *)
Applied(st, batch, s) ==
  LET after[i \in 0..Len(batch)] ==
        IF i = 0 THEN st ELSE Apply(after[i - 1], batch[i], s, i)
  IN  after
ApplyBatch(st, batch, s) ==
  [Applied(st, batch, s)[Len(batch)] EXCEPT !.nextSeq = Larger(@, s + 1)]

(* Impl::apply, what it rejects.  A copy reads the state before the batch,  *)
(* so its source may not be written in the batch; a point in time is only   *)
(* for rewindable documents, and source and copy agree on that.             *)
Admitted(st, batch, i) ==
  LET w == batch[i] IN
  CASE w.kind = "create" -> ~Exists(st, w.id)
    [] w.kind = "copy" ->
         /\ ~Exists(st, w.id) /\ AliveAt(st, w.from, w.at)
         /\ w.from \in Rewindable <=> w.id \in Rewindable
         /\ w.at # Current => w.from \in Rewindable
         /\ \A j \in DOMAIN batch : batch[j].kind = "entry" \/ batch[j].id # w.from
    [] w.kind \in {"base", "delta", "retire"} -> Exists(st, w.id) /\ ~Retired(st, w.id)
    [] w.kind \in {"live", "terminal", "entry"} -> TRUE

(* A delta continues the version of the newest revision: a new version      *)
(* needs a base.                                                            *)
Continues(st, d, ver) ==
  LET revs == st.docs[d].revs IN revs # <<>> /\ Last(revs).ver = ver

Legal(st, batch, i) ==
  /\ Admitted(st, batch, i)
  /\ batch[i].kind = "delta" => Continues(st, batch[i].id, batch[i].ver)

(* validate: every write is legal where the batch reaches it. *)
Valid(st, batch) ==
  \A i \in DOMAIN batch : Legal(Applied(st, batch, st.nextSeq)[i - 1], batch, i)

(* Everything a read at the current point can see. *)
View(st) ==
  [docs |-> [d \in Docs |-> IF AliveAt(st, d, Current)
                            THEN <<"alive", Value(st, d, Current)>>
                            ELSE <<"no document", <<>> >>],
   tasks |-> st.tasks, entries |-> st.entries, nextSeq |-> st.nextSeq]
=============================================================================
