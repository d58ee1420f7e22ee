------------------------- MODULE JsonlStorageProofs --------------------------
(***************************************************************************)
(* Theorems about JsonlStorage: a store that only this code, its crashes    *)
(* and its failures have touched always reopens, what it restores is what   *)
(* was published, reads agree with it, files do not outlive their use, and  *)
(* the store implements AtomicStore.                                        *)
(*                                                                          *)
(* They hold for the writes of a Session that forks no conversation         *)
(* (Disciplined).  A fork copies documents, and of a copy they are false:   *)
(* see JsonlStorageCopy, and JsonlStorageRevive and JsonlStorageRewrite for *)
(* the writes no Session sends.                                             *)
(*                                                                          *)
(* What recovery computes depends on the whole of main.jsonl, so the        *)
(* invariant describes the files by the positions <<marker, write>> of the  *)
(* operations they hold (part 1), recovery is related to the published      *)
(* state by induction over these positions (parts 7 and 8), and every step  *)
(* is shown to keep the description (parts 4 to 6 and 9).                   *)
(***************************************************************************)
EXTENDS JsonlStorage, FiniteSetTheorems, WellFoundedInduction, TLAPS

(* No document is copied, which only a fork does; no terminal task is       *)
(* written again, and no document twice in a batch other than to be created *)
(* and retired, which no Session does.                                      *)
Disciplined == Copies = {} /\ ~Revive /\ ~Rewrites
-----------------------------------------------------------------------------
(* 1. The invariant *)
DocKinds  == {"create", "base", "delta", "retire"}
BaseKinds == {"create", "base"}
SideKinds == {"create", "base", "delta", "live"}
TaskKinds == {"live", "terminal"}

Stamps   == Seq(Seq(Nat))
Revs     == [seq : Nat, base : BOOLEAN, ver : Nat, val : Stamps]
DocRecs  == [created : Nat, retired : Nat, revs : Seq(Revs)]
TaskRecs == [status : {"none", "live", "terminal"}, stamp : Seq(Nat)]
States   == [docs : [Docs -> DocRecs], tasks : [Tasks -> TaskRecs],
             entries : SUBSET Seq(Nat), nextSeq : Nat, nextId : Nat]
Records  == [seq : Nat, ord : Nat, base : BOOLEAN, ver : Nat, val : Stamps]
Markers  == [seq : Nat, ops : Batches]

(* The operations of main.jsonl and the lines they stand for. *)
Op(mn, p) == mn[p[1]].ops[p[2]]
Ops(mn, id, kinds) ==
  {p \in (DOMAIN mn) \X (1..WriteBound) :
     p[2] \in DOMAIN mn[p[1]].ops /\ Op(mn, p).id = id /\ Op(mn, p).kind \in kinds}
Key(r) == <<r.seq, r.ord>>
Has(q, p) == \E j \in DOMAIN q : Key(q[j]) = p
LineOf(mn, p) ==
  [seq |-> p[1], ord |-> p[2], base |-> Op(mn, p).kind # "delta", ver |-> 1,
   val |-> << <<p[1], p[2]>> >>]
Sorted(q) == \A j, k \in DOMAIN q : j < k => Before(Key(q[j]), Key(q[k]))

(* The writes of a document: created first, retired last, one in a batch.   *)
DocFits(mn, rf, d) ==
  /\ \A p, q \in Ops(mn, d, DocKinds) :
       p[1] = q[1] /\ p[2] < q[2] => Op(mn, p).kind = "create" /\ Op(mn, q).kind = "retire"
  /\ \A p \in Ops(mn, d, {"create"}), q \in Ops(mn, d, DocKinds) : q = p \/ Before(p, q)
  /\ \A p \in Ops(mn, d, {"retire"}), q \in Ops(mn, d, DocKinds) : q = p \/ Before(q, p)
  /\ Ops(mn, d, DocKinds) # {} => Exists(rf, d)
  /\ Exists(rf, d) => Ops(mn, d, {"create"}) # {}
  /\ Retired(rf, d) <=> Ops(mn, d, {"retire"}) # {}

Newest(mn, d, b) ==
  /\ b \in Ops(mn, d, BaseKinds)
  /\ \A q \in Ops(mn, d, BaseKinds) : ~Before(b, q)

(* The status of a task is that of its last write. *)
Ends(mn, t, p) ==
  /\ p \in Ops(mn, t, TaskKinds)
  /\ \A q \in Ops(mn, t, TaskKinds) : q = p \/ Before(q, p)
TaskFits(mn, rf, t) ==
  \/ Ops(mn, t, TaskKinds) = {} /\ rf.tasks[t].status = "none"
  \/ \E p \in Ops(mn, t, TaskKinds) : Ends(mn, t, p) /\ rf.tasks[t].status = Op(mn, p).kind

(* What was published is what the markers say. *)
Promises(h, mn) ==
  h = [n \in 0..Len(mn) |->
         IF n = 0 THEN Empty ELSE ApplyBatch(h[n - 1], mn[n].ops, mn[n].seq)]
MarkersFit(mn, rf) ==
  /\ mn \in Seq(Markers) /\ rf \in States
  /\ \A n \in DOMAIN mn : mn[n].seq = n
  /\ rf.nextSeq = Len(mn) + 1
  /\ \A d \in Docs : DocFits(mn, rf, d)
  /\ \A t \in Tasks : TaskFits(mn, rf, t)
MainFits(mn, rf) ==
  /\ MarkersFit(mn, rf)
  /\ \E h : Promises(h, mn) /\ rf = h[Len(mn)]

(* A line of a sidecar is that of a published write, or its sequence is the *)
(* one no marker has yet.  No line that recovery needs is missing.          *)
RecordFits(mn, f, r) ==
  IF r.seq <= Len(mn)
  THEN Key(r) \in Ops(mn, f, SideKinds) /\ r = LineOf(mn, Key(r))
  ELSE r.seq = Len(mn) + 1
Covers(mn, d, q) ==
  \E b \in Ops(mn, d, BaseKinds) :
    /\ Newest(mn, d, b)
    /\ \A p \in Ops(mn, d, SideKinds) : Before(p, b) \/ Has(q, p)
FileFits(mn, rf, f, q) ==
  /\ q \in Seq(Records) /\ Sorted(q)
  /\ \A j \in DOMAIN q : RecordFits(mn, f, q[j])
  /\ f \in Docs /\ AliveAt(rf, f, Current) => Covers(mn, f, q)
  /\ f \in Tasks /\ rf.tasks[f].status = "live" =>
       \A p \in Ops(mn, f, {"live"}) : Has(q, p)
SideFits(mn, rf, sd) ==
  /\ sd = [f \in Files |-> sd[f]]
  /\ \A f \in Files : FileFits(mn, rf, f, sd[f])

NoTail(mn, q) == \A j \in DOMAIN q : q[j].seq <= Len(mn)

(* A reclamation drops no line that recovery needs. *)
Dead(rf, f, q) ==
  \/ q = <<>>
  \/ f \in Tasks /\ rf.tasks[f].status # "live"
  \/ f \in Docs /\ Retired(rf, f)
Cuts(mn, d, q, keep) ==
  \E b \in Ops(mn, d, BaseKinds) :
    /\ Newest(mn, d, b)
    /\ \A j \in DOMAIN keep : ~Before(Key(keep[j]), b) /\ \E k \in DOMAIN q : q[k] = keep[j]
    /\ \A k \in DOMAIN q : Before(Key(q[k]), b) \/ \E j \in DOMAIN keep : keep[j] = q[k]
EntryFits(mn, rf, sd, r) ==
  /\ r.file \in Files /\ r.keep \in Seq(Records) /\ Sorted(r.keep)
  /\ \/ r.keep = <<>> /\ Dead(rf, r.file, sd[r.file])
     \/ r.file \in Docs /\ AliveAt(rf, r.file, Current) /\ Cuts(mn, r.file, sd[r.file], r.keep)

(* What a file holds when no reclamation of it is pending or was put off. *)
Tight(mn, rf, f, q) ==
  \/ \A j \in DOMAIN q : q[j].seq > Len(mn)
  \/ f \in Tasks /\ rf.tasks[f].status = "live"
  \/ f \in Rewindable
  \/ /\ f \in Docs /\ AliveAt(rf, f, Current)
     /\ \E b \in Ops(mn, f, BaseKinds) :
          Newest(mn, f, b) /\ \A j \in DOMAIN q : ~Before(Key(q[j]), b)

(* Two states that a read of the current point cannot tell apart. *)
Lives(a) == a.created # 0 /\ a.retired = 0
LikeDoc(a, b, d) ==
  /\ a.created = b.created /\ a.retired = b.retired
  /\ Lives(a) => Replay(a.revs, Current).val = Replay(b.revs, Current).val
  /\ Lives(a) /\ d \notin Rewindable => Len(a.revs) = Len(b.revs)
  /\ ~Lives(a) /\ d \notin Rewindable => a.revs = <<>> /\ b.revs = <<>>
Like(x, y) ==
  /\ x.tasks = y.tasks /\ x.entries = y.entries /\ x.nextSeq = y.nextSeq
  /\ \A d \in Docs : LikeDoc(x.docs[d], y.docs[d], d)

(* The batch of the commit under way, and what is in the files of it. *)
Sent(x, batch) ==
  \A i \in DOMAIN batch :
    /\ batch[i].id \in Tasks => x.tasks[batch[i].id].status # "terminal"
    /\ \A j \in 1..(i - 1) :
         batch[i].id \in Docs /\ batch[j].id = batch[i].id =>
           batch[j].kind = "create" /\ batch[i].kind = "retire"
Appended(batch, s, f, q) ==
  /\ \A j \in DOMAIN q : q[j].seq = s =>
       /\ q[j].ord \in DOMAIN batch /\ GoesTo(batch[q[j].ord], f)
       /\ q[j] = Line(batch[q[j].ord], s, q[j].ord)
  /\ \A i \in DOMAIN batch : GoesTo(batch[i], f) => Has(q, <<s, i>>)
CommitFits ==
  /\ cur.seq = Len(main) + 1 /\ cur.ops \in Batches /\ cur.lost = FALSE
  /\ Sent(st, cur.ops) /\ Valid(st, cur.ops)
  /\ todo \in Seq(Files) /\ \A i, j \in DOMAIN todo : todo[i] = todo[j] => i = j
  /\ \A i \in DOMAIN todo : NoTail(main, side[todo[i]])
  /\ \A f \in Files : (\E i \in DOMAIN todo : todo[i] = f) \/ Appended(cur.ops, cur.seq, f, side[f])

InstanceFits ==
  /\ status \in {"down", "up", "poisoned"} /\ pc \in {"idle", "append", "reclaim"}
  /\ status # "up" => pc = "idle"
  /\ pc # "reclaim" => plan = {}
  /\ status = "up" =>
       /\ mainTorn = FALSE /\ sideTorn = {} /\ st \in States /\ Like(st, ref)
       /\ pc # "append" => \A f \in Files : NoTail(main, side[f])
       /\ \A f \in Files \ deferred :
            (\E r \in plan : r.file = f) \/ Tight(main, ref, f, side[f])
  /\ \A r \in plan : EntryFits(main, ref, side, r)
  /\ pc = "append" => CommitFits

(* The part of the invariant TLC evaluates: all but that the published      *)
(* state is that of a run over the markers, which quantifies over functions.*)
FilesFit == MarkersFit(main, ref) /\ SideFits(main, ref, side)

Inv == MainFits(main, ref) /\ SideFits(main, ref, side) /\ InstanceFits
-----------------------------------------------------------------------------
(* 2. Recursion *)
(* Induction over Nat, for sets: the finite subsets of Nat are well-founded *)
(* under inclusion, and so are the intervals below a number.                *)
LEMMA LeastElement ==
  ASSUME NEW S \in SUBSET Nat, S # {}
  PROVE  \E n \in S : \A m \in S : ~(m < n)
<1>. DEFINE Below(n) == 0..(n - 1)
            T == {Below(n) : n \in S}
<1>1. IsWellFoundedOn(StrictSubsetOrdering(Nat), FiniteSubsetsOf(Nat))
  BY FS_StrictSubsetOrderingWellFounded
<1>2. T \subseteq FiniteSubsetsOf(Nat)
  <2>1. ASSUME NEW n \in S PROVE Below(n) \in SUBSET Nat /\ IsFiniteSet(Below(n))
    <3>1. n \in Nat /\ 0 \in Int /\ n - 1 \in Int
      OBVIOUS
    <3>2. IsFiniteSet(0..(n - 1))
      BY <3>1, FS_Interval, Zenon
    <3>. QED BY <3>1, <3>2
  <2>. QED BY <2>1 DEF FiniteSubsetsOf
<1>3. T # {}
  OBVIOUS
<1>. HIDE DEF T
<1>4. PICK x \in T : \A y \in T : ~(<<y, x>> \in StrictSubsetOrdering(Nat))
  BY <1>1, <1>2, <1>3, WFMin, Zenon
<1>5. PICK n \in S : x = Below(n)
  BY <1>4 DEF T
<1>6. ASSUME NEW m \in S, m < n PROVE FALSE
  <2>1. Below(m) \in T
    BY DEF T
  <2>2. /\ Below(m) \subseteq Below(n) /\ Below(m) # Below(n)
        /\ Below(m) \subseteq Nat /\ Below(n) \subseteq Nat
    BY <1>6
  <2>3. <<Below(m), Below(n)>> \in StrictSubsetOrdering(Nat)
    BY <2>2 DEF StrictSubsetOrdering
  <2>. QED BY <2>1, <2>3, <1>4, <1>5
<1>. QED BY <1>6

LEMMA SetInduction ==
  ASSUME NEW S, 0 \in S, \A n \in Nat : n \in S => n + 1 \in S
  PROVE  Nat \subseteq S
<1>. SUFFICES ASSUME Nat \ S # {} PROVE FALSE
  OBVIOUS
<1>1. PICK n \in Nat \ S : \A m \in Nat \ S : ~(m < n)
  BY LeastElement
<1>2. n # 0 /\ n - 1 \in Nat /\ n - 1 < n
  BY <1>1
<1>3. n - 1 \in S
  BY <1>1, <1>2
<1>4. (n - 1) + 1 = n
  BY <1>1
<1>. QED BY <1>2, <1>3, <1>4

(* The recursions of the model have a solution for every length. *)
Replays(f, revs, at, k) ==
  f = [n \in 0..k |-> IF n = 0 THEN [ver |-> 1, val |-> <<>>] ELSE Replayed(f[n - 1], revs[n], at)]

LEMMA ReplayUnfolds ==
  ASSUME NEW revs, NEW at, Len(revs) \in Nat
  PROVE  \E f : Replays(f, revs, at, Len(revs)) /\ Replay(revs, at) = f[Len(revs)]
<1>. DEFINE Good == {k \in Nat : \E f : Replays(f, revs, at, k)}
<1>1. 0 \in Good
  <2>. DEFINE f == [n \in 0..0 |-> [ver |-> 1, val |-> <<>>]]
  <2>1. Replays(f, revs, at, 0)
    BY DEF Replays
  <2>. HIDE DEF f
  <2>. QED BY <2>1
<1>2. ASSUME NEW k \in Nat, k \in Good PROVE k + 1 \in Good
  <2>1. PICK f : Replays(f, revs, at, k)
    BY <1>2
  <2>. DEFINE Step(x, n) == Replayed(x, revs[n], at)
              g == [n \in 0..(k + 1) |-> IF n <= k THEN f[n] ELSE Step(f[k], k + 1)]
  <2>0. f = [n \in 0..k |-> IF n = 0 THEN [ver |-> 1, val |-> <<>>] ELSE Step(f[n - 1], n)]
    BY <2>1 DEF Replays
  <2>. HIDE DEF Step
  <2>2. ASSUME NEW n \in 0..(k + 1)
        PROVE  g[n] = IF n = 0 THEN [ver |-> 1, val |-> <<>>] ELSE Step(g[n - 1], n)
    <3>1. CASE n = 0
      BY <2>0, <3>1
    <3>2. CASE n \in 1..k
      <4>1. g[n] = f[n] /\ g[n - 1] = f[n - 1] /\ n \in 0..k /\ n # 0
        BY <3>2
      <4>2. f[n] = Step(f[n - 1], n)
        BY <2>0, <4>1
      <4>. HIDE DEF g
      <4>. QED BY <4>1, <4>2
    <3>3. CASE n = k + 1
      <4>1. g[n] = Step(f[k], k + 1) /\ g[n - 1] = f[k] /\ n # 0
        BY <3>3
      <4>. HIDE DEF g
      <4>. QED BY <4>1, <3>3
    <3>. QED BY <3>1, <3>2, <3>3
  <2>3. Replays(g, revs, at, k + 1)
    <3>1. g = [n \in 0..(k + 1) |-> g[n]]
      OBVIOUS
    <3>. HIDE DEF g
    <3>2. g = [n \in 0..(k + 1) |-> IF n = 0 THEN [ver |-> 1, val |-> <<>>] ELSE Step(g[n - 1], n)]
      BY <2>2, <3>1
    <3>. QED BY <3>2, Zenon DEF Replays, Step
  <2>. HIDE DEF g
  <2>. QED BY <2>3
<1>3. Len(revs) \in Good
  <2>. HIDE DEF Good
  <2>. QED BY <1>1, <1>2, SetInduction
<1>. DEFINE F == CHOOSE f : f = [n \in 0..Len(revs) |->
                   IF n = 0 THEN [ver |-> 1, val |-> <<>>] ELSE Replayed(f[n - 1], revs[n], at)]
<1>4. Replays(F, revs, at, Len(revs))
  BY <1>3, Zenon DEF Replays
<1>5. Replay(revs, at) = F[Len(revs)]
  BY Zenon DEF Replay
<1>. HIDE DEF F
<1>. QED BY <1>4, <1>5

Applies(f, x0, batch, s, k) ==
  f = [n \in 0..k |-> IF n = 0 THEN x0 ELSE Apply(f[n - 1], batch[n], s, n)]

LEMMA AppliedUnfolds ==
  ASSUME NEW x0, NEW batch, NEW s, Len(batch) \in Nat
  PROVE  \E f : Applies(f, x0, batch, s, Len(batch)) /\ Applied(x0, batch, s) = f
<1>. DEFINE Good == {k \in Nat : \E f : Applies(f, x0, batch, s, k)}
<1>1. 0 \in Good
  <2>. DEFINE f == [n \in 0..0 |-> x0]
  <2>1. Applies(f, x0, batch, s, 0)
    BY DEF Applies
  <2>. HIDE DEF f
  <2>. QED BY <2>1
<1>2. ASSUME NEW k \in Nat, k \in Good PROVE k + 1 \in Good
  <2>1. PICK f : Applies(f, x0, batch, s, k)
    BY <1>2
  <2>. DEFINE Step(x, n) == Apply(x, batch[n], s, n)
              g == [n \in 0..(k + 1) |-> IF n <= k THEN f[n] ELSE Step(f[k], k + 1)]
  <2>0. f = [n \in 0..k |-> IF n = 0 THEN x0 ELSE Step(f[n - 1], n)]
    BY <2>1 DEF Applies
  <2>. HIDE DEF Step
  <2>2. ASSUME NEW n \in 0..(k + 1)
        PROVE  g[n] = IF n = 0 THEN x0 ELSE Step(g[n - 1], n)
    <3>1. CASE n = 0
      BY <2>0, <3>1
    <3>2. CASE n \in 1..k
      <4>1. g[n] = f[n] /\ g[n - 1] = f[n - 1] /\ n \in 0..k /\ n # 0
        BY <3>2
      <4>2. f[n] = Step(f[n - 1], n)
        BY <2>0, <4>1
      <4>. HIDE DEF g
      <4>. QED BY <4>1, <4>2
    <3>3. CASE n = k + 1
      <4>1. g[n] = Step(f[k], k + 1) /\ g[n - 1] = f[k] /\ n # 0
        BY <3>3
      <4>. HIDE DEF g
      <4>. QED BY <4>1, <3>3
    <3>. QED BY <3>1, <3>2, <3>3
  <2>3. Applies(g, x0, batch, s, k + 1)
    <3>1. g = [n \in 0..(k + 1) |-> g[n]]
      OBVIOUS
    <3>. HIDE DEF g
    <3>2. g = [n \in 0..(k + 1) |-> IF n = 0 THEN x0 ELSE Step(g[n - 1], n)]
      BY <2>2, <3>1
    <3>. QED BY <3>2, Zenon DEF Applies, Step
  <2>. HIDE DEF g
  <2>. QED BY <2>3
<1>3. Len(batch) \in Good
  <2>. HIDE DEF Good
  <2>. QED BY <1>1, <1>2, SetInduction
<1>. DEFINE F == CHOOSE f : f = [n \in 0..Len(batch) |->
                   IF n = 0 THEN x0 ELSE Apply(f[n - 1], batch[n], s, n)]
<1>4. Applies(F, x0, batch, s, Len(batch))
  BY <1>3, Zenon DEF Applies
<1>5. Applied(x0, batch, s) = F
  BY Zenon DEF Applied
<1>. HIDE DEF F
<1>. QED BY <1>4, <1>5

Encodes(f, batch, s, file, k) ==
  f = [n \in 0..k |-> IF n = 0 THEN <<>> ELSE IF GoesTo(batch[n], file) THEN Append(f[n - 1], Line(batch[n], s, n)) ELSE f[n - 1]]

LEMMA LinesUnfold ==
  ASSUME NEW batch, NEW s, NEW file, Len(batch) \in Nat
  PROVE  \E f : Encodes(f, batch, s, file, Len(batch)) /\ Lines(batch, s, file) = f[Len(batch)]
<1>. DEFINE Good == {k \in Nat : \E f : Encodes(f, batch, s, file, k)}
<1>1. 0 \in Good
  <2>. DEFINE f == [n \in 0..0 |-> <<>>]
  <2>1. Encodes(f, batch, s, file, 0)
    BY DEF Encodes
  <2>. HIDE DEF f
  <2>. QED BY <2>1
<1>2. ASSUME NEW k \in Nat, k \in Good PROVE k + 1 \in Good
  <2>1. PICK f : Encodes(f, batch, s, file, k)
    BY <1>2
  <2>. DEFINE Step(x, n) == IF GoesTo(batch[n], file) THEN Append(x, Line(batch[n], s, n)) ELSE x
              g == [n \in 0..(k + 1) |-> IF n <= k THEN f[n] ELSE Step(f[k], k + 1)]
  <2>0. f = [n \in 0..k |-> IF n = 0 THEN <<>> ELSE Step(f[n - 1], n)]
    BY <2>1 DEF Encodes
  <2>. HIDE DEF Step
  <2>2. ASSUME NEW n \in 0..(k + 1)
        PROVE  g[n] = IF n = 0 THEN <<>> ELSE Step(g[n - 1], n)
    <3>1. CASE n = 0
      BY <2>0, <3>1
    <3>2. CASE n \in 1..k
      <4>1. g[n] = f[n] /\ g[n - 1] = f[n - 1] /\ n \in 0..k /\ n # 0
        BY <3>2
      <4>2. f[n] = Step(f[n - 1], n)
        BY <2>0, <4>1
      <4>. HIDE DEF g
      <4>. QED BY <4>1, <4>2
    <3>3. CASE n = k + 1
      <4>1. g[n] = Step(f[k], k + 1) /\ g[n - 1] = f[k] /\ n # 0
        BY <3>3
      <4>. HIDE DEF g
      <4>. QED BY <4>1, <3>3
    <3>. QED BY <3>1, <3>2, <3>3
  <2>3. Encodes(g, batch, s, file, k + 1)
    <3>1. g = [n \in 0..(k + 1) |-> g[n]]
      OBVIOUS
    <3>. HIDE DEF g
    <3>2. g = [n \in 0..(k + 1) |-> IF n = 0 THEN <<>> ELSE Step(g[n - 1], n)]
      BY <2>2, <3>1
    <3>. QED BY <3>2, Zenon DEF Encodes, Step
  <2>. HIDE DEF g
  <2>. QED BY <2>3
<1>3. Len(batch) \in Good
  <2>. HIDE DEF Good
  <2>. QED BY <1>1, <1>2, SetInduction
<1>. DEFINE F == CHOOSE f : f = [n \in 0..Len(batch) |->
                   IF n = 0 THEN <<>> ELSE IF GoesTo(batch[n], file) THEN Append(f[n - 1], Line(batch[n], s, n)) ELSE f[n - 1]]
<1>4. Encodes(F, batch, s, file, Len(batch))
  BY <1>3, Zenon DEF Encodes
<1>5. Lines(batch, s, file) = F[Len(batch)]
  BY Zenon DEF Lines
<1>. HIDE DEF F
<1>. QED BY <1>4, <1>5

Collects(f, batch, k) ==
  f = [n \in 0..k |-> IF n = 0 THEN <<>> ELSE IF HasSidecar(batch[n]) /\ batch[n].id \notin Range(f[n - 1]) THEN Append(f[n - 1], batch[n].id) ELSE f[n - 1]]

LEMMA FilesUnfold ==
  ASSUME NEW batch, Len(batch) \in Nat
  PROVE  \E f : Collects(f, batch, Len(batch)) /\ FilesOf(batch) = f[Len(batch)]
<1>. DEFINE Good == {k \in Nat : \E f : Collects(f, batch, k)}
<1>1. 0 \in Good
  <2>. DEFINE f == [n \in 0..0 |-> <<>>]
  <2>1. Collects(f, batch, 0)
    BY DEF Collects
  <2>. HIDE DEF f
  <2>. QED BY <2>1
<1>2. ASSUME NEW k \in Nat, k \in Good PROVE k + 1 \in Good
  <2>1. PICK f : Collects(f, batch, k)
    BY <1>2
  <2>. DEFINE Step(x, n) == IF HasSidecar(batch[n]) /\ batch[n].id \notin Range(x) THEN Append(x, batch[n].id) ELSE x
              g == [n \in 0..(k + 1) |-> IF n <= k THEN f[n] ELSE Step(f[k], k + 1)]
  <2>0. f = [n \in 0..k |-> IF n = 0 THEN <<>> ELSE Step(f[n - 1], n)]
    BY <2>1 DEF Collects
  <2>. HIDE DEF Step
  <2>2. ASSUME NEW n \in 0..(k + 1)
        PROVE  g[n] = IF n = 0 THEN <<>> ELSE Step(g[n - 1], n)
    <3>1. CASE n = 0
      BY <2>0, <3>1
    <3>2. CASE n \in 1..k
      <4>1. g[n] = f[n] /\ g[n - 1] = f[n - 1] /\ n \in 0..k /\ n # 0
        BY <3>2
      <4>2. f[n] = Step(f[n - 1], n)
        BY <2>0, <4>1
      <4>. HIDE DEF g
      <4>. QED BY <4>1, <4>2
    <3>3. CASE n = k + 1
      <4>1. g[n] = Step(f[k], k + 1) /\ g[n - 1] = f[k] /\ n # 0
        BY <3>3
      <4>. HIDE DEF g
      <4>. QED BY <4>1, <3>3
    <3>. QED BY <3>1, <3>2, <3>3
  <2>3. Collects(g, batch, k + 1)
    <3>1. g = [n \in 0..(k + 1) |-> g[n]]
      OBVIOUS
    <3>. HIDE DEF g
    <3>2. g = [n \in 0..(k + 1) |-> IF n = 0 THEN <<>> ELSE Step(g[n - 1], n)]
      BY <2>2, <3>1
    <3>. QED BY <3>2, Zenon DEF Collects, Step
  <2>. HIDE DEF g
  <2>. QED BY <2>3
<1>3. Len(batch) \in Good
  <2>. HIDE DEF Good
  <2>. QED BY <1>1, <1>2, SetInduction
<1>. DEFINE F == CHOOSE f : f = [n \in 0..Len(batch) |->
                   IF n = 0 THEN <<>> ELSE IF HasSidecar(batch[n]) /\ batch[n].id \notin Range(f[n - 1]) THEN Append(f[n - 1], batch[n].id) ELSE f[n - 1]]
<1>4. Collects(F, batch, Len(batch))
  BY <1>3, Zenon DEF Collects
<1>5. FilesOf(batch) = F[Len(batch)]
  BY Zenon DEF FilesOf
<1>. HIDE DEF F
<1>. QED BY <1>4, <1>5

Drops(f, q, p, k) ==
  f = [n \in 0..k |-> IF n = 0 THEN <<>> ELSE IF Before(<<q[n].seq, q[n].ord>>, p) THEN f[n - 1] ELSE Append(f[n - 1], q[n])]

LEMMA FromUnfolds ==
  ASSUME NEW q, NEW p, Len(q) \in Nat
  PROVE  \E f : Drops(f, q, p, Len(q)) /\ From(q, p) = f[Len(q)]
<1>. DEFINE Good == {k \in Nat : \E f : Drops(f, q, p, k)}
<1>1. 0 \in Good
  <2>. DEFINE f == [n \in 0..0 |-> <<>>]
  <2>1. Drops(f, q, p, 0)
    BY DEF Drops
  <2>. HIDE DEF f
  <2>. QED BY <2>1
<1>2. ASSUME NEW k \in Nat, k \in Good PROVE k + 1 \in Good
  <2>1. PICK f : Drops(f, q, p, k)
    BY <1>2
  <2>. DEFINE Step(x, n) == IF Before(<<q[n].seq, q[n].ord>>, p) THEN x ELSE Append(x, q[n])
              g == [n \in 0..(k + 1) |-> IF n <= k THEN f[n] ELSE Step(f[k], k + 1)]
  <2>0. f = [n \in 0..k |-> IF n = 0 THEN <<>> ELSE Step(f[n - 1], n)]
    BY <2>1 DEF Drops
  <2>. HIDE DEF Step
  <2>2. ASSUME NEW n \in 0..(k + 1)
        PROVE  g[n] = IF n = 0 THEN <<>> ELSE Step(g[n - 1], n)
    <3>1. CASE n = 0
      BY <2>0, <3>1
    <3>2. CASE n \in 1..k
      <4>1. g[n] = f[n] /\ g[n - 1] = f[n - 1] /\ n \in 0..k /\ n # 0
        BY <3>2
      <4>2. f[n] = Step(f[n - 1], n)
        BY <2>0, <4>1
      <4>. HIDE DEF g
      <4>. QED BY <4>1, <4>2
    <3>3. CASE n = k + 1
      <4>1. g[n] = Step(f[k], k + 1) /\ g[n - 1] = f[k] /\ n # 0
        BY <3>3
      <4>. HIDE DEF g
      <4>. QED BY <4>1, <3>3
    <3>. QED BY <3>1, <3>2, <3>3
  <2>3. Drops(g, q, p, k + 1)
    <3>1. g = [n \in 0..(k + 1) |-> g[n]]
      OBVIOUS
    <3>. HIDE DEF g
    <3>2. g = [n \in 0..(k + 1) |-> IF n = 0 THEN <<>> ELSE Step(g[n - 1], n)]
      BY <2>2, <3>1
    <3>. QED BY <3>2, Zenon DEF Drops, Step
  <2>. HIDE DEF g
  <2>. QED BY <2>3
<1>3. Len(q) \in Good
  <2>. HIDE DEF Good
  <2>. QED BY <1>1, <1>2, SetInduction
<1>. DEFINE F == CHOOSE f : f = [n \in 0..Len(q) |->
                   IF n = 0 THEN <<>> ELSE IF Before(<<q[n].seq, q[n].ord>>, p) THEN f[n - 1] ELSE Append(f[n - 1], q[n])]
<1>4. Drops(F, q, p, Len(q))
  BY <1>3, Zenon DEF Drops
<1>5. From(q, p) = F[Len(q)]
  BY Zenon DEF From
<1>. HIDE DEF F
<1>. QED BY <1>4, <1>5

Restores(f, x0, m, k) ==
  f = [n \in 0..k |-> IF n = 0 THEN x0 ELSE Restore(f[n - 1], <<m, n>>)]

LEMMA RestoredUnfolds ==
  ASSUME NEW x0, NEW m, Len(main[m].ops) \in Nat
  PROVE  \E f : Restores(f, x0, m, Len(main[m].ops)) /\ Restored(x0, m) = f
<1>. DEFINE Good == {k \in Nat : \E f : Restores(f, x0, m, k)}
<1>1. 0 \in Good
  <2>. DEFINE f == [n \in 0..0 |-> x0]
  <2>1. Restores(f, x0, m, 0)
    BY DEF Restores
  <2>. HIDE DEF f
  <2>. QED BY <2>1
<1>2. ASSUME NEW k \in Nat, k \in Good PROVE k + 1 \in Good
  <2>1. PICK f : Restores(f, x0, m, k)
    BY <1>2
  <2>. DEFINE Step(x, n) == Restore(x, <<m, n>>)
              g == [n \in 0..(k + 1) |-> IF n <= k THEN f[n] ELSE Step(f[k], k + 1)]
  <2>0. f = [n \in 0..k |-> IF n = 0 THEN x0 ELSE Step(f[n - 1], n)]
    BY <2>1 DEF Restores
  <2>. HIDE DEF Step
  <2>2. ASSUME NEW n \in 0..(k + 1)
        PROVE  g[n] = IF n = 0 THEN x0 ELSE Step(g[n - 1], n)
    <3>1. CASE n = 0
      BY <2>0, <3>1
    <3>2. CASE n \in 1..k
      <4>1. g[n] = f[n] /\ g[n - 1] = f[n - 1] /\ n \in 0..k /\ n # 0
        BY <3>2
      <4>2. f[n] = Step(f[n - 1], n)
        BY <2>0, <4>1
      <4>. HIDE DEF g
      <4>. QED BY <4>1, <4>2
    <3>3. CASE n = k + 1
      <4>1. g[n] = Step(f[k], k + 1) /\ g[n - 1] = f[k] /\ n # 0
        BY <3>3
      <4>. HIDE DEF g
      <4>. QED BY <4>1, <3>3
    <3>. QED BY <3>1, <3>2, <3>3
  <2>3. Restores(g, x0, m, k + 1)
    <3>1. g = [n \in 0..(k + 1) |-> g[n]]
      OBVIOUS
    <3>. HIDE DEF g
    <3>2. g = [n \in 0..(k + 1) |-> IF n = 0 THEN x0 ELSE Step(g[n - 1], n)]
      BY <2>2, <3>1
    <3>. QED BY <3>2, Zenon DEF Restores, Step
  <2>. HIDE DEF g
  <2>. QED BY <2>3
<1>3. Len(main[m].ops) \in Good
  <2>. HIDE DEF Good
  <2>. QED BY <1>1, <1>2, SetInduction
<1>. DEFINE F == CHOOSE f : f = [n \in 0..Len(main[m].ops) |->
                   IF n = 0 THEN x0 ELSE Restore(f[n - 1], <<m, n>>)]
<1>4. Restores(F, x0, m, Len(main[m].ops))
  BY <1>3, Zenon DEF Restores
<1>5. Restored(x0, m) = F
  BY Zenon DEF Restored
<1>. HIDE DEF F
<1>. QED BY <1>4, <1>5

Recovers(f, k) ==
  f = [n \in 0..k |-> IF n = 0 THEN Empty ELSE RestoreMarker(f[n - 1], n)]

LEMMA RecoveredUnfolds ==
  ASSUME NEW N \in Nat
  PROVE  \E f : Recovers(f, N) /\ RecoveredTo(N) = f[N]
<1>. DEFINE Good == {k \in Nat : \E f : Recovers(f, k)}
<1>1. 0 \in Good
  <2>. DEFINE f == [n \in 0..0 |-> Empty]
  <2>1. Recovers(f, 0)
    BY DEF Recovers
  <2>. HIDE DEF f
  <2>. QED BY <2>1
<1>2. ASSUME NEW k \in Nat, k \in Good PROVE k + 1 \in Good
  <2>1. PICK f : Recovers(f, k)
    BY <1>2
  <2>. DEFINE Step(x, n) == RestoreMarker(x, n)
              g == [n \in 0..(k + 1) |-> IF n <= k THEN f[n] ELSE Step(f[k], k + 1)]
  <2>0. f = [n \in 0..k |-> IF n = 0 THEN Empty ELSE Step(f[n - 1], n)]
    BY <2>1 DEF Recovers
  <2>. HIDE DEF Step
  <2>2. ASSUME NEW n \in 0..(k + 1)
        PROVE  g[n] = IF n = 0 THEN Empty ELSE Step(g[n - 1], n)
    <3>1. CASE n = 0
      BY <2>0, <3>1
    <3>2. CASE n \in 1..k
      <4>1. g[n] = f[n] /\ g[n - 1] = f[n - 1] /\ n \in 0..k /\ n # 0
        BY <3>2
      <4>2. f[n] = Step(f[n - 1], n)
        BY <2>0, <4>1
      <4>. HIDE DEF g
      <4>. QED BY <4>1, <4>2
    <3>3. CASE n = k + 1
      <4>1. g[n] = Step(f[k], k + 1) /\ g[n - 1] = f[k] /\ n # 0
        BY <3>3
      <4>. HIDE DEF g
      <4>. QED BY <4>1, <3>3
    <3>. QED BY <3>1, <3>2, <3>3
  <2>3. Recovers(g, k + 1)
    <3>1. g = [n \in 0..(k + 1) |-> g[n]]
      OBVIOUS
    <3>. HIDE DEF g
    <3>2. g = [n \in 0..(k + 1) |-> IF n = 0 THEN Empty ELSE Step(g[n - 1], n)]
      BY <2>2, <3>1
    <3>. QED BY <3>2, Zenon DEF Recovers, Step
  <2>. HIDE DEF g
  <2>. QED BY <2>3
<1>3. N \in Good
  <2>. HIDE DEF Good
  <2>. QED BY <1>1, <1>2, SetInduction
<1>. DEFINE F == CHOOSE f : f = [n \in 0..N |->
                   IF n = 0 THEN Empty ELSE RestoreMarker(f[n - 1], n)]
<1>4. Recovers(F, N)
  BY <1>3, Zenon DEF Recovers
<1>5. RecoveredTo(N) = F[N]
  BY Zenon DEF RecoveredTo
<1>. HIDE DEF F
<1>. QED BY <1>4, <1>5

-----------------------------------------------------------------------------
(* 3. Writes and what they do to a state *)
LEMMA IdShape ==
  /\ Docs \subseteq Nat /\ Tasks \subseteq Nat /\ 0 \notin Docs /\ 0 \notin Tasks
  /\ \A f : ~(f \in Docs /\ f \in Tasks)
BY IdsAssumption

Shaped(w) ==
  /\ w.kind \in {"entry"} \cup DocKinds \cup TaskKinds
  /\ w.id \in Nat /\ w.ver \in Nat
  /\ w.kind = "entry" => w.id = 0
  /\ w.kind \in DocKinds => w.id \in Docs
  /\ w.kind \in TaskKinds => w.id \in Tasks
  /\ Versions \subseteq {1} => w.ver = 1

LEMMA WriteShape ==
  ASSUME Copies = {}, NEW w \in Writes
  PROVE  Shaped(w)
<1>1. CASE w = Write("entry", 0, 1)
  BY <1>1 DEF Shaped, Write, DocKinds, TaskKinds
<1>2. CASE \E d \in Docs : w = Write("retire", d, 1)
  BY <1>2, IdShape DEF Shaped, Write, DocKinds, TaskKinds
<1>3. CASE \E k \in {"create", "base", "delta"}, d \in Docs, v \in Versions : w = Write(k, d, v)
  BY <1>3, IdShape, StoreAssumption DEF Shaped, Write, DocKinds, TaskKinds
<1>4. CASE \E k \in {"live", "terminal"}, t \in Tasks : w = Write(k, t, 1)
  BY <1>4, IdShape DEF Shaped, Write, DocKinds, TaskKinds
<1>. QED BY <1>1, <1>2, <1>3, <1>4 DEF Writes

LEMMA BatchShape ==
  ASSUME Copies = {}, NEW b \in Batches
  PROVE  /\ b \in Seq(Writes) /\ Len(b) \in 1..WriteBound /\ DOMAIN b = 1..Len(b)
         /\ Len(b) \in Nat
         /\ \A i \in DOMAIN b : b[i] \in Writes /\ Shaped(b[i])
<1>1. PICK n \in 1..WriteBound : b \in [1..n -> Writes]
  BY DEF Batches
<1>2. n \in Nat /\ b \in Seq(Writes) /\ Len(b) = n /\ DOMAIN b = 1..n
  BY <1>1, StoreAssumption
<1>3. \A i \in DOMAIN b : b[i] \in Writes
  BY <1>1
<1>. QED BY <1>1, <1>2, <1>3, WriteShape

LEMMA LargerShape ==
  ASSUME NEW a \in Nat, NEW b \in Nat
  PROVE  Larger(a, b) \in Nat /\ a <= Larger(a, b) /\ b <= Larger(a, b)
BY DEF Larger

LEMMA StateShape ==
  ASSUME NEW x \in States
  PROVE  /\ x.docs \in [Docs -> DocRecs] /\ x.tasks \in [Tasks -> TaskRecs]
         /\ x.entries \subseteq Seq(Nat) /\ x.nextSeq \in Nat /\ x.nextId \in Nat
         /\ \A d \in Docs : /\ x.docs[d] \in DocRecs /\ x.docs[d].created \in Nat
                            /\ x.docs[d].retired \in Nat /\ x.docs[d].revs \in Seq(Revs)
BY DEF States, DocRecs

Rest(x, y) == x.tasks = y.tasks /\ x.entries = y.entries /\ x.nextSeq = y.nextSeq

(* A state with new documents and a new nextId. *)
LEMMA WithDocs ==
  ASSUME NEW x \in States, NEW v \in [Docs -> DocRecs], NEW n \in Nat
  PROVE  /\ [x EXCEPT !.docs = v] \in States
         /\ [x EXCEPT !.docs = v].docs = v
         /\ Rest([x EXCEPT !.docs = v], x)
         /\ [x EXCEPT !.docs = v].nextId = x.nextId
         /\ [x EXCEPT !.nextId = n] \in States
         /\ [x EXCEPT !.nextId = n].nextId = n
         /\ [x EXCEPT !.nextId = n].docs = x.docs
         /\ Rest([x EXCEPT !.nextId = n], x)
BY DEF States, Rest

LEMMA NextIdShape ==
  ASSUME NEW x \in States, NEW id \in Files
  PROVE  Larger(x.nextId, id + 1) \in Nat
<1>1. x.nextId \in Nat /\ id + 1 \in Nat
  BY StateShape, IdShape DEF Files
<1>. QED BY <1>1, LargerShape

(* What a write makes of a document; r is the revision it brings. *)
RevOf(w, s, i) ==
  [seq |-> s, base |-> w.kind # "delta", ver |-> w.ver, val |-> << <<s, i>> >>]
DocAfter(a, d, kind, s, r) ==
  CASE kind = "create" -> [created |-> s, retired |-> 0, revs |-> <<r>>]
    [] kind = "base"   -> [created |-> a.created, retired |-> a.retired,
                           revs |-> IF d \in Rewindable THEN Append(a.revs, r) ELSE <<r>>]
    [] kind = "delta"  -> [created |-> a.created, retired |-> a.retired, revs |-> Append(a.revs, r)]
    [] kind = "retire" -> [created |-> a.created, retired |-> s,
                           revs |-> IF d \in Rewindable THEN a.revs ELSE <<>>]
Changes(x, y, d, a) == y \in States /\ Rest(y, x) /\ y.docs = [x.docs EXCEPT ![d] = a]

LEMMA PutDocEffect ==
  ASSUME NEW x \in States, NEW d \in Docs, NEW s \in Nat, NEW c, c.ver \in Nat, c.val \in Stamps,
         NEW r, r = [seq |-> s, base |-> TRUE, ver |-> c.ver, val |-> c.val]
  PROVE  /\ Changes(x, PutDoc(x, d, s, c), d, DocAfter(x.docs[d], d, "create", s, r))
         /\ PutDoc(x, d, s, c).nextId = Larger(x.nextId, d + 1)
<1>. DEFINE a == [created |-> s, retired |-> 0, revs |-> <<r>>]
            v == [x.docs EXCEPT ![d] = a]
            z == [x EXCEPT !.docs = v]
            n == Larger(x.nextId, d + 1)
            y == PutDoc(x, d, s, c)
<1>1. r \in Revs
  BY DEF Revs
<1>2. a \in DocRecs
  BY <1>1 DEF DocRecs
<1>3. n \in Nat
  BY NextIdShape DEF Files
<1>. HIDE DEF a, n
<1>4. v \in [Docs -> DocRecs]
  BY <1>2, StateShape
<1>. HIDE DEF v
<1>5. z \in States /\ z.docs = v /\ Rest(z, x) /\ z.nextId = x.nextId
  BY <1>4, <1>3, WithDocs
<1>6. y = [z EXCEPT !.nextId = Larger(z.nextId, d + 1)]
  BY DEF PutDoc, WithId, z, v, a
<1>7. y = [z EXCEPT !.nextId = n]
  BY <1>5, <1>6 DEF n
<1>. HIDE DEF z, y
<1>8. y \in States /\ y.docs = z.docs /\ Rest(y, z) /\ y.nextId = n
  <2>1. z \in States
    BY <1>5
  <2>2. /\ [z EXCEPT !.nextId = n] \in States /\ [z EXCEPT !.nextId = n].docs = z.docs
        /\ Rest([z EXCEPT !.nextId = n], z) /\ [z EXCEPT !.nextId = n].nextId = n
    BY <1>3, <1>4, <2>1, WithDocs
  <2>. QED BY <1>7, <2>2, Zenon
<1>9. a = DocAfter(x.docs[d], d, "create", s, r)
  BY DEF DocAfter, a
<1>. QED BY <1>5, <1>8, <1>9 DEF Rest, v, n, y, Changes

(* ChangeDoc with a base and with a delta. *)
Based(x, d, s, c) == ChangeDoc(x, d, s, TRUE, c)
Extended(x, d, s, c) == ChangeDoc(x, d, s, FALSE, c)

LEMMA BaseEffect ==
  ASSUME NEW x \in States, NEW d \in Docs, NEW s \in Nat, NEW c, c.ver \in Nat, c.val \in Stamps,
         NEW r, r = [seq |-> s, base |-> TRUE, ver |-> c.ver, val |-> c.val]
  PROVE  /\ Changes(x, Based(x, d, s, c), d, DocAfter(x.docs[d], d, "base", s, r))
         /\ Based(x, d, s, c).nextId = x.nextId
<1>. DEFINE q == IF d \notin Rewindable THEN <<r>> ELSE Append(x.docs[d].revs, r)
            a == [created |-> x.docs[d].created, retired |-> x.docs[d].retired, revs |-> q]
            v == [x.docs EXCEPT ![d] = a]
            y == Based(x, d, s, c)
<1>1. r \in Revs
  BY DEF Revs
<1>0. x.docs \in [Docs -> DocRecs] /\ x.docs[d] \in DocRecs /\ x.docs[d].revs \in Seq(Revs)
  BY StateShape
<1>2. q \in Seq(Revs)
  BY <1>1, <1>0
<1>3. y = [x EXCEPT !.docs = v]
  BY DEF Based, ChangeDoc, q
<1>. HIDE DEF q
<1>4. a \in DocRecs
  BY <1>2, <1>0 DEF DocRecs
<1>. HIDE DEF a
<1>5. v \in [Docs -> DocRecs]
  BY <1>4, <1>0
<1>. HIDE DEF v, y
<1>6. y \in States /\ y.docs = v /\ Rest(y, x) /\ y.nextId = x.nextId
  BY <1>5, <1>3, WithDocs
<1>7. a = DocAfter(x.docs[d], d, "base", s, r)
  BY DEF DocAfter, a, q
<1>. QED BY <1>6, <1>7 DEF v, y, Changes

LEMMA DeltaEffect ==
  ASSUME NEW x \in States, NEW d \in Docs, NEW s \in Nat, NEW c, c.ver \in Nat, c.val \in Stamps,
         NEW r, r = [seq |-> s, base |-> FALSE, ver |-> c.ver, val |-> c.val]
  PROVE  /\ Changes(x, Extended(x, d, s, c), d, DocAfter(x.docs[d], d, "delta", s, r))
         /\ Extended(x, d, s, c).nextId = x.nextId
<1>. DEFINE q == Append(x.docs[d].revs, r)
            a == [created |-> x.docs[d].created, retired |-> x.docs[d].retired, revs |-> q]
            v == [x.docs EXCEPT ![d] = a]
            y == Extended(x, d, s, c)
<1>1. r \in Revs
  BY DEF Revs
<1>0. x.docs \in [Docs -> DocRecs] /\ x.docs[d] \in DocRecs /\ x.docs[d].revs \in Seq(Revs)
  BY StateShape
<1>2. q \in Seq(Revs)
  BY <1>1, <1>0
<1>3. y = [x EXCEPT !.docs = v]
  BY DEF Extended, ChangeDoc, q
<1>. HIDE DEF q
<1>4. a \in DocRecs
  BY <1>2, <1>0 DEF DocRecs
<1>. HIDE DEF a
<1>5. v \in [Docs -> DocRecs]
  BY <1>4, <1>0
<1>. HIDE DEF v, y
<1>6. y \in States /\ y.docs = v /\ Rest(y, x) /\ y.nextId = x.nextId
  BY <1>5, <1>3, WithDocs
<1>7. a = DocAfter(x.docs[d], d, "delta", s, r)
  BY DEF DocAfter, a, q
<1>. QED BY <1>6, <1>7 DEF v, y, Changes

LEMMA RetireDocEffect ==
  ASSUME NEW x \in States, NEW d \in Docs, NEW s \in Nat, NEW r
  PROVE  /\ Changes(x, RetireDoc(x, d, s), d, DocAfter(x.docs[d], d, "retire", s, r))
         /\ RetireDoc(x, d, s).nextId = x.nextId
<1>. DEFINE q == IF d \in Rewindable THEN x.docs[d].revs ELSE <<>>
            a == [created |-> x.docs[d].created, retired |-> s, revs |-> q]
            v == [x.docs EXCEPT ![d] = a]
            y == RetireDoc(x, d, s)
<1>0. x.docs \in [Docs -> DocRecs] /\ x.docs[d] \in DocRecs /\ x.docs[d].revs \in Seq(Revs)
  BY StateShape
<1>1. q \in Seq(Revs)
  BY <1>0
<1>2. y = [x EXCEPT !.docs = v]
  BY DEF RetireDoc, q
<1>. HIDE DEF q
<1>3. a \in DocRecs
  BY <1>1, <1>0 DEF DocRecs
<1>. HIDE DEF a
<1>4. v \in [Docs -> DocRecs]
  BY <1>3, <1>0
<1>. HIDE DEF v, y
<1>5. y \in States /\ y.docs = v /\ Rest(y, x) /\ y.nextId = x.nextId
  BY <1>4, <1>2, WithDocs
<1>6. a = DocAfter(x.docs[d], d, "retire", s, r)
  BY DEF DocAfter, a, q
<1>. QED BY <1>5, <1>6 DEF v, y, Changes

LEMMA PutTaskEffect ==
  ASSUME NEW x \in States, NEW t \in Tasks, NEW k \in TaskKinds, NEW p \in Seq(Nat)
  PROVE  LET y == PutTask(x, t, k, p) IN
         /\ y \in States /\ y.docs = x.docs /\ y.entries = x.entries /\ y.nextSeq = x.nextSeq
         /\ y.tasks = [x.tasks EXCEPT ![t] = [status |-> k, stamp |-> p]]
         /\ y.nextId = Larger(x.nextId, t + 1)
<1>. DEFINE a == [status |-> k, stamp |-> p]
            v == [x.tasks EXCEPT ![t] = a]
            z == [x EXCEPT !.tasks = v]
            n == Larger(x.nextId, t + 1)
            y == PutTask(x, t, k, p)
<1>1. a \in TaskRecs
  BY DEF TaskRecs, TaskKinds
<1>2. n \in Nat
  BY NextIdShape DEF Files
<1>. HIDE DEF a, n
<1>3. v \in [Tasks -> TaskRecs]
  BY <1>1, StateShape
<1>. HIDE DEF v
<1>4. z \in States /\ z.docs = x.docs /\ z.tasks = v /\ z.entries = x.entries
      /\ z.nextSeq = x.nextSeq /\ z.nextId = x.nextId
  BY <1>3 DEF States
<1>5. y = [z EXCEPT !.nextId = Larger(z.nextId, t + 1)]
  BY DEF PutTask, WithId, z, v, a
<1>6. y = [z EXCEPT !.nextId = n]
  BY <1>4, <1>5 DEF n
<1>7. x.docs \in [Docs -> DocRecs]
  BY StateShape
<1>. HIDE DEF z, y
<1>8. y \in States /\ y.docs = z.docs /\ Rest(y, z) /\ y.nextId = n
  BY <1>2, <1>4, <1>6, <1>7, WithDocs
<1>. QED BY <1>4, <1>8 DEF Rest, v, a, n, y

LEMMA PutEntryEffect ==
  ASSUME NEW x \in States, NEW p \in Seq(Nat)
  PROVE  LET y == PutEntry(x, p) IN
         /\ y \in States /\ y.docs = x.docs /\ y.tasks = x.tasks /\ y.nextSeq = x.nextSeq
         /\ y.entries = x.entries \cup {p} /\ y.nextId = x.nextId
BY DEF PutEntry, States

(* The effect of the i-th write of commit s. *)
OnDoc(w, d)  == w.kind \in DocKinds /\ w.id = d
OnTask(w, t) == w.kind \in TaskKinds /\ w.id = t
Effect(x, y, w, s, i) ==
  /\ y \in States /\ y.nextSeq = x.nextSeq
  /\ \A d \in Docs :
       y.docs[d] = IF OnDoc(w, d) THEN DocAfter(x.docs[d], d, w.kind, s, RevOf(w, s, i))
                                  ELSE x.docs[d]
  /\ \A t \in Tasks :
       y.tasks[t] = IF OnTask(w, t) THEN [status |-> w.kind, stamp |-> <<s, i>>] ELSE x.tasks[t]
  /\ y.entries = IF w.kind = "entry" THEN x.entries \cup {<<s, i>>} ELSE x.entries
  /\ y.nextId = IF w.kind \in {"create"} \cup TaskKinds THEN Larger(x.nextId, w.id + 1)
                                                        ELSE x.nextId

LEMMA StampShape ==
  ASSUME NEW s \in Nat, NEW i \in Nat
  PROVE  <<s, i>> \in Seq(Nat) /\ << <<s, i>> >> \in Stamps
<1>1. <<s, i>> \in Seq(Nat)
  OBVIOUS
<1>2. ASSUME NEW z \in Seq(Nat) PROVE <<z>> \in Seq(Seq(Nat))
  OBVIOUS
<1>. QED BY <1>1, <1>2 DEF Stamps

LEMMA ApplyEffect ==
  ASSUME NEW x \in States, NEW w, Shaped(w), NEW s \in Nat, NEW i \in Nat
  PROVE  Effect(x, Apply(x, w, s, i), w, s, i)
<1>. DEFINE y == Apply(x, w, s, i)
            p == <<s, i>>
            c == [ver |-> w.ver, val |-> <<p>>]
            r == RevOf(w, s, i)
<1>. HIDE DEF r
<1>1. p \in Seq(Nat) /\ <<p>> \in Stamps
  BY StampShape
<1>2. w.ver \in Nat /\ w.kind \in {"entry"} \cup DocKinds \cup TaskKinds
      /\ (w.kind \in DocKinds => w.id \in Docs) /\ (w.kind \in TaskKinds => w.id \in Tasks)
  BY DEF Shaped
<1>3. c.ver \in Nat /\ c.val \in Stamps /\ c.ver = w.ver /\ c.val = <<p>>
  BY <1>1, <1>2
<1>4. x.docs \in [Docs -> DocRecs] /\ x.tasks \in [Tasks -> TaskRecs]
  BY StateShape
<1>5. r = [seq |-> s, base |-> w.kind # "delta", ver |-> w.ver, val |-> <<p>>]
  BY DEF r, RevOf
<1>. HIDE DEF p
<1>6. CASE w.kind = "entry"
  <2>1. y = PutEntry(x, p)
    BY <1>6 DEF Apply, p
  <2>. HIDE DEF y
  <2>2. y \in States /\ y.docs = x.docs /\ y.tasks = x.tasks /\ y.nextSeq = x.nextSeq
        /\ y.entries = x.entries \cup {p} /\ y.nextId = x.nextId
    BY <2>1, <1>1, PutEntryEffect
  <2>. QED BY <2>2, <1>6 DEF Effect, OnDoc, OnTask, DocKinds, TaskKinds, y, p
<1>7. CASE w.kind = "create"
  <2>1. y = PutDoc(x, w.id, s, c)
    BY <1>7 DEF Apply, p
  <2>2. w.id \in Docs
    BY <1>2, <1>7 DEF DocKinds
  <2>. HIDE DEF y
  <2>3. Changes(x, y, w.id, DocAfter(x.docs[w.id], w.id, "create", s, r)) /\ y.nextId = Larger(x.nextId, w.id + 1)
    <3>1. r = [seq |-> s, base |-> TRUE, ver |-> c.ver, val |-> c.val]
      BY <1>3, <1>5, <1>7
    <3>. HIDE DEF c
    <3>. QED BY <2>1, <2>2, <3>1, <1>3, PutDocEffect
  <2>4. \A d \in Docs : y.docs[d] = IF OnDoc(w, d) THEN DocAfter(x.docs[d], d, w.kind, s, r)
                                    ELSE x.docs[d]
    BY <2>2, <2>3, <1>4, <1>7 DEF OnDoc, DocKinds, Changes
  <2>. QED BY <2>3, <2>4, <1>7 DEF Effect, OnTask, TaskKinds, y, r, Rest, Changes
<1>8. CASE w.kind = "base"
  <2>1. y = Based(x, w.id, s, c)
    BY <1>8 DEF Apply, p, Based
  <2>2. w.id \in Docs
    BY <1>2, <1>8 DEF DocKinds
  <2>. HIDE DEF y
  <2>3. Changes(x, y, w.id, DocAfter(x.docs[w.id], w.id, "base", s, r)) /\ y.nextId = x.nextId
    <3>1. r = [seq |-> s, base |-> TRUE, ver |-> c.ver, val |-> c.val]
      BY <1>3, <1>5, <1>8
    <3>. HIDE DEF c
    <3>. QED BY <2>1, <2>2, <3>1, <1>3, BaseEffect
  <2>4. \A d \in Docs : y.docs[d] = IF OnDoc(w, d) THEN DocAfter(x.docs[d], d, w.kind, s, r)
                                    ELSE x.docs[d]
    BY <2>2, <2>3, <1>4, <1>8 DEF OnDoc, DocKinds, Changes
  <2>. QED BY <2>3, <2>4, <1>8 DEF Effect, OnTask, TaskKinds, y, r, Rest, Changes
<1>11. CASE w.kind = "delta"
  <2>1. y = Extended(x, w.id, s, c)
    BY <1>11 DEF Apply, p, Extended
  <2>2. w.id \in Docs
    BY <1>2, <1>11 DEF DocKinds
  <2>. HIDE DEF y
  <2>3. Changes(x, y, w.id, DocAfter(x.docs[w.id], w.id, "delta", s, r)) /\ y.nextId = x.nextId
    <3>1. r = [seq |-> s, base |-> FALSE, ver |-> c.ver, val |-> c.val]
      BY <1>3, <1>5, <1>11
    <3>. HIDE DEF c
    <3>. QED BY <2>1, <2>2, <3>1, <1>3, DeltaEffect
  <2>4. \A d \in Docs : y.docs[d] = IF OnDoc(w, d) THEN DocAfter(x.docs[d], d, w.kind, s, r)
                                    ELSE x.docs[d]
    BY <2>2, <2>3, <1>4, <1>11 DEF OnDoc, DocKinds, Changes
  <2>. QED BY <2>3, <2>4, <1>11 DEF Effect, OnTask, TaskKinds, y, r, Rest, Changes
<1>9. CASE w.kind = "retire"
  <2>1. y = RetireDoc(x, w.id, s)
    BY <1>9 DEF Apply, p
  <2>2. w.id \in Docs
    BY <1>2, <1>9 DEF DocKinds
  <2>. HIDE DEF y
  <2>3. Changes(x, y, w.id, DocAfter(x.docs[w.id], w.id, "retire", s, r)) /\ y.nextId = x.nextId
    BY <2>1, <2>2, RetireDocEffect
  <2>4. \A d \in Docs : y.docs[d] = IF OnDoc(w, d) THEN DocAfter(x.docs[d], d, w.kind, s, r)
                                    ELSE x.docs[d]
    BY <2>2, <2>3, <1>4, <1>9 DEF OnDoc, DocKinds, Changes
  <2>. QED BY <2>3, <2>4, <1>9 DEF Effect, OnTask, TaskKinds, y, r, Rest, Changes
<1>10. CASE w.kind \in TaskKinds
  <2>1. y = PutTask(x, w.id, w.kind, p)
    BY <1>10 DEF Apply, p, TaskKinds
  <2>2. w.id \in Tasks
    BY <1>2, <1>10
  <2>. HIDE DEF y
  <2>3. /\ y \in States /\ y.docs = x.docs /\ y.entries = x.entries /\ y.nextSeq = x.nextSeq
        /\ y.tasks = [x.tasks EXCEPT ![w.id] = [status |-> w.kind, stamp |-> p]]
        /\ y.nextId = Larger(x.nextId, w.id + 1)
    BY <2>1, <2>2, <1>1, <1>10, PutTaskEffect
  <2>4. w.kind \notin DocKinds /\ w.kind # "entry" /\ w.kind \in {"create"} \cup TaskKinds
    BY <1>10 DEF DocKinds, TaskKinds
  <2>5. \A t \in Tasks : y.tasks[t] = IF OnTask(w, t) THEN [status |-> w.kind, stamp |-> p]
                                      ELSE x.tasks[t]
    BY <2>2, <2>3, <1>4, <1>10 DEF OnTask
  <2>. QED BY <2>3, <2>4, <2>5 DEF Effect, OnDoc, y, p
<1>. QED BY <1>2, <1>6, <1>7, <1>8, <1>9, <1>10, <1>11 DEF DocKinds

(* Replay goes revision by revision. *)
LEMMA ReplayAppend ==
  ASSUME NEW revs \in Seq(Revs), NEW r \in Revs
  PROVE  Replay(Append(revs, r), Current).val =
           IF r.base THEN r.val ELSE Replay(revs, Current).val \o r.val
<1>. DEFINE q == Append(revs, r)
            N == Len(revs)
<1>1. N \in Nat /\ Len(q) = N + 1 /\ q[N + 1] = r /\ \A n \in 1..N : q[n] = revs[n]
  OBVIOUS
<1>. HIDE DEF q
<1>2. PICK f : Replays(f, revs, Current, N) /\ Replay(revs, Current) = f[N]
  BY <1>1, ReplayUnfolds
<1>3. PICK g : Replays(g, q, Current, N + 1) /\ Replay(q, Current) = g[N + 1]
  <2>1. Len(q) \in Nat
    BY <1>1
  <2>2. \E g : Replays(g, q, Current, Len(q)) /\ Replay(q, Current) = g[Len(q)]
    BY <2>1, ReplayUnfolds
  <2>. QED BY <2>2, <1>1
<1>. HIDE DEF N
<1>4. f[0] = g[0] /\ \A n \in 1..N : f[n] = Replayed(f[n - 1], revs[n], Current)
  BY <1>1, <1>2, <1>3 DEF Replays
<1>5. \A n \in 1..(N + 1) : g[n] = Replayed(g[n - 1], q[n], Current)
  BY <1>1, <1>3 DEF Replays
<1>. DEFINE Good == {n \in Nat : n <= N => f[n] = g[n]}
<1>6. 0 \in Good
  BY <1>4
<1>7. ASSUME NEW n \in Nat, n \in Good PROVE n + 1 \in Good
  <2>1. CASE n + 1 <= N
    <3>1. n <= N /\ n + 1 \in 1..N /\ n + 1 \in 1..(N + 1) /\ (n + 1) - 1 = n
      BY <2>1, <1>1
    <3>2. f[n] = g[n] /\ q[n + 1] = revs[n + 1]
      BY <3>1, <1>1, <1>7
    <3>3. f[n + 1] = Replayed(f[n], revs[n + 1], Current)
      BY <3>1, <1>4
    <3>4. g[n + 1] = Replayed(g[n], q[n + 1], Current)
      BY <3>1, <1>5
    <3>. QED BY <3>2, <3>3, <3>4
  <2>2. CASE ~(n + 1 <= N)
    BY <2>2
  <2>. QED BY <2>1, <2>2
<1>8. N \in Good
  <2>. HIDE DEF Good
  <2>. QED BY <1>1, <1>6, <1>7, SetInduction
<1>9. g[N + 1] = Replayed(f[N], r, Current)
  <2>1. N + 1 \in 1..(N + 1) /\ (N + 1) - 1 = N
    BY <1>1
  <2>2. f[N] = g[N]
    BY <1>8, <1>1
  <2>. QED BY <2>1, <2>2, <1>1, <1>5
<1>10. Replay(q, Current) = Replayed(Replay(revs, Current), r, Current)
  BY <1>2, <1>3, <1>9
<1>. QED BY <1>10 DEF Replayed, q

LEMMA ReplayOne ==
  ASSUME NEW r \in Revs, r.base
  PROVE  Replay(<<r>>, Current).val = r.val
<1>1. <<>> \in Seq(Revs) /\ Append(<<>>, r) = <<r>>
  OBVIOUS
<1>. QED BY <1>1, ReplayAppend

LEMMA RevShape ==
  ASSUME NEW w, Shaped(w), NEW s \in Nat, NEW i \in Nat
  PROVE  /\ RevOf(w, s, i) \in Revs /\ RevOf(w, s, i).val = << <<s, i>> >>
         /\ RevOf(w, s, i).base = (w.kind # "delta") /\ RevOf(w, s, i).seq = s
         /\ RevOf(w, s, i).ver = w.ver
BY StampShape DEF Shaped, RevOf, Revs

LEMMA LikeDocStep ==
  ASSUME NEW a \in DocRecs, NEW b \in DocRecs, NEW d \in Docs, NEW kind \in DocKinds,
         NEW s \in Nat, s # 0, NEW r1 \in Revs, NEW r2 \in Revs,
         r1.base = (kind # "delta"), r2.base = (kind # "delta"), r1.val = r2.val,
         a.created = b.created, a.retired = b.retired,
         kind \notin BaseKinds => LikeDoc(a, b, d), kind # "create" => Lives(a)
  PROVE  LikeDoc(DocAfter(a, d, kind, s, r1), DocAfter(b, d, kind, s, r2), d)
<1>. DEFINE a2 == DocAfter(a, d, kind, s, r1)
            b2 == DocAfter(b, d, kind, s, r2)
<1>0. a.revs \in Seq(Revs) /\ b.revs \in Seq(Revs) /\ Len(a.revs) \in Nat /\ Len(b.revs) \in Nat
  BY DEF DocRecs
<1>00. kind \in {"delta", "retire"} => LikeDoc(a, b, d)
  BY DEF BaseKinds
<1>1. kind # "delta" => Replay(<<r1>>, Current).val = r1.val /\ Replay(<<r2>>, Current).val = r2.val
  BY ReplayOne
<1>2. Len(<<r1>>) = Len(<<r2>>)
  OBVIOUS
<1>3. CASE kind = "create"
  <2>1. a2 = [created |-> s, retired |-> 0, revs |-> <<r1>>]
    BY <1>3 DEF DocAfter
  <2>2. b2 = [created |-> s, retired |-> 0, revs |-> <<r2>>]
    BY <1>3 DEF DocAfter
  <2>. HIDE DEF a2, b2
  <2>3. Lives(a2) /\ a2.revs = <<r1>> /\ b2.revs = <<r2>>
        /\ a2.created = b2.created /\ a2.retired = b2.retired
    BY <2>1, <2>2 DEF Lives
  <2>4. LikeDoc(a2, b2, d)
    BY <2>3, <1>1, <1>2, <1>3 DEF LikeDoc
  <2>. QED BY <2>4 DEF a2, b2
<1>4. CASE kind = "base"
  <2>. DEFINE qa == IF d \in Rewindable THEN Append(a.revs, r1) ELSE <<r1>>
              qb == IF d \in Rewindable THEN Append(b.revs, r2) ELSE <<r2>>
  <2>1. a2 = [created |-> a.created, retired |-> a.retired, revs |-> qa]
    BY <1>4 DEF DocAfter
  <2>2. b2 = [created |-> b.created, retired |-> b.retired, revs |-> qb]
    BY <1>4 DEF DocAfter
  <2>. HIDE DEF a2, b2
  <2>3. Replay(qa, Current).val = r1.val /\ Replay(qb, Current).val = r2.val
    BY <1>0, <1>1, <1>4, ReplayAppend
  <2>4. d \notin Rewindable => Len(qa) = Len(qb)
    BY <1>2
  <2>. HIDE DEF qa, qb
  <2>6. Lives(a2) /\ a2.revs = qa /\ b2.revs = qb
        /\ a2.created = b2.created /\ a2.retired = b2.retired
    BY <2>1, <2>2, <1>4 DEF Lives, LikeDoc
  <2>7. LikeDoc(a2, b2, d)
    BY <2>3, <2>4, <2>6 DEF LikeDoc
  <2>. QED BY <2>7 DEF a2, b2
<1>5. CASE kind = "delta"
  <2>. DEFINE qa == Append(a.revs, r1)
              qb == Append(b.revs, r2)
  <2>1. a2 = [created |-> a.created, retired |-> a.retired, revs |-> qa]
    BY <1>5 DEF DocAfter
  <2>2. b2 = [created |-> b.created, retired |-> b.retired, revs |-> qb]
    BY <1>5 DEF DocAfter
  <2>. HIDE DEF a2, b2
  <2>3. Replay(qa, Current).val = Replay(qb, Current).val
    <3>1. Replay(qa, Current).val = Replay(a.revs, Current).val \o r1.val
      BY <1>0, <1>5, ReplayAppend
    <3>2. Replay(qb, Current).val = Replay(b.revs, Current).val \o r2.val
      BY <1>0, <1>5, ReplayAppend
    <3>3. Replay(a.revs, Current).val = Replay(b.revs, Current).val
      BY <1>00, <1>5 DEF LikeDoc
    <3>. QED BY <3>1, <3>2, <3>3
  <2>4. d \notin Rewindable => Len(qa) = Len(qb)
    <3>1. Len(qa) = Len(a.revs) + 1 /\ Len(qb) = Len(b.revs) + 1
      BY <1>0
    <3>2. d \notin Rewindable => Len(a.revs) = Len(b.revs)
      BY <1>00, <1>5 DEF LikeDoc
    <3>. QED BY <3>1, <3>2
  <2>. HIDE DEF qa, qb
  <2>6. Lives(a2) /\ a2.revs = qa /\ b2.revs = qb
        /\ a2.created = b2.created /\ a2.retired = b2.retired
    BY <2>1, <2>2, <1>5 DEF Lives, LikeDoc
  <2>7. LikeDoc(a2, b2, d)
    BY <2>3, <2>4, <2>6 DEF LikeDoc
  <2>. QED BY <2>7 DEF a2, b2
<1>6. CASE kind = "retire"
  <2>. DEFINE qa == IF d \in Rewindable THEN a.revs ELSE <<>>
              qb == IF d \in Rewindable THEN b.revs ELSE <<>>
  <2>1. a2 = [created |-> a.created, retired |-> s, revs |-> qa]
    BY <1>6 DEF DocAfter
  <2>2. b2 = [created |-> b.created, retired |-> s, revs |-> qb]
    BY <1>6 DEF DocAfter
  <2>. HIDE DEF a2, b2
  <2>3. ~Lives(a2) /\ a2.revs = qa /\ b2.revs = qb
        /\ a2.created = b2.created /\ a2.retired = b2.retired
    BY <2>1, <2>2 DEF Lives, LikeDoc
  <2>4. LikeDoc(a2, b2, d)
    BY <2>3 DEF LikeDoc
  <2>. QED BY <2>4 DEF a2, b2
<1>. QED BY <1>3, <1>4, <1>5, <1>6 DEF DocKinds

-----------------------------------------------------------------------------
(* 4. Batches *)
Allowed(x, w) ==
  /\ w.kind = "create" => x.docs[w.id].created = 0
  /\ w.kind \in {"base", "delta", "retire"} => Lives(x.docs[w.id])

LEMMA LikeStep ==
  ASSUME NEW x \in States, NEW y \in States, Like(x, y), NEW w, Shaped(w),
         NEW s \in Nat, s # 0, NEW i \in Nat, Allowed(x, w)
  PROVE  Like(Apply(x, w, s, i), Apply(y, w, s, i))
<1>1. PICK x2 : x2 = Apply(x, w, s, i)
  OBVIOUS
<1>2. PICK y2 : y2 = Apply(y, w, s, i)
  OBVIOUS
<1>3. Effect(x, x2, w, s, i) /\ Effect(y, y2, w, s, i)
  BY <1>1, <1>2, ApplyEffect
<1>4. x2 \in States /\ y2 \in States
  BY <1>3 DEF Effect
<1>5. x2.entries = y2.entries /\ x2.nextSeq = y2.nextSeq
  BY <1>3 DEF Effect, Like
<1>6. x2.tasks = y2.tasks
  <2>1. x2.tasks \in [Tasks -> TaskRecs] /\ y2.tasks \in [Tasks -> TaskRecs]
    BY <1>4, StateShape
  <2>2. \A t \in Tasks : x2.tasks[t] = y2.tasks[t]
    BY <1>3 DEF Effect, Like
  <2>. QED BY <2>1, <2>2
<1>7. ASSUME NEW d \in Docs PROVE LikeDoc(x2.docs[d], y2.docs[d], d)
  <2>1. LikeDoc(x.docs[d], y.docs[d], d)
    BY DEF Like
  <2>2. CASE ~OnDoc(w, d)
    BY <2>1, <2>2, <1>3 DEF Effect
  <2>3. CASE OnDoc(w, d)
    <3>1. PICK r : r = RevOf(w, s, i)
      OBVIOUS
    <3>2. r \in Revs /\ r.base = (w.kind # "delta")
      BY <3>1, RevShape
    <3>3. w.kind \in DocKinds /\ w.id = d
      BY <2>3 DEF OnDoc
    <3>4. w.kind # "create" => Lives(x.docs[d])
      BY <3>3 DEF Allowed, DocKinds
    <3>5. x.docs[d] \in DocRecs /\ y.docs[d] \in DocRecs
      BY StateShape
    <3>6. x.docs[d].created = y.docs[d].created /\ x.docs[d].retired = y.docs[d].retired
      BY <2>1 DEF LikeDoc
    <3>7. LikeDoc(DocAfter(x.docs[d], d, w.kind, s, r), DocAfter(y.docs[d], d, w.kind, s, r), d)
      BY <2>1, <3>2, <3>3, <3>4, <3>5, <3>6, LikeDocStep
    <3>. QED BY <3>1, <3>7, <2>3, <1>3 DEF Effect
  <2>. QED BY <2>2, <2>3
<1>. QED BY <1>1, <1>2, <1>5, <1>6, <1>7 DEF Like

(* The states between the writes. *)
Steps(f, x, b, s) ==
  /\ f[0] = x
  /\ \A i \in 0..Len(b) : f[i] \in States /\ f[i].nextSeq = x.nextSeq
  /\ \A i \in 1..Len(b) : f[i] = Apply(f[i - 1], b[i], s, i) /\ Effect(f[i - 1], f[i], b[i], s, i)

LEMMA AppliedSteps ==
  ASSUME Copies = {}, NEW x \in States, NEW b \in Batches, NEW s \in Nat
  PROVE  Steps(Applied(x, b, s), x, b, s)
<1>. DEFINE N == Len(b)
<1>0. N \in Nat /\ DOMAIN b = 1..N /\ \A i \in DOMAIN b : Shaped(b[i])
  BY BatchShape
<1>1. PICK f : Applies(f, x, b, s, N) /\ Applied(x, b, s) = f
  BY <1>0, AppliedUnfolds
<1>2. f[0] = x /\ \A i \in 1..N : f[i] = Apply(f[i - 1], b[i], s, i)
  BY <1>0, <1>1 DEF Applies
<1>. DEFINE Good == {i \in Nat : i <= N => f[i] \in States /\ f[i].nextSeq = x.nextSeq}
<1>3. 0 \in Good
  BY <1>2
<1>4. ASSUME NEW i \in 1..N, f[i - 1] \in States PROVE Effect(f[i - 1], f[i], b[i], s, i)
  BY <1>0, <1>2, <1>4, ApplyEffect
<1>5. ASSUME NEW i \in Nat, i \in Good PROVE i + 1 \in Good
  <2>1. CASE i + 1 <= N
    <3>1. i + 1 \in 1..N /\ (i + 1) - 1 = i /\ i <= N
      BY <1>0, <2>1
    <3>2. Effect(f[i], f[i + 1], b[i + 1], s, i + 1)
      <4>1. f[(i + 1) - 1] \in States
        BY <3>1, <1>5
      <4>2. Effect(f[(i + 1) - 1], f[i + 1], b[i + 1], s, i + 1)
        BY <4>1, <3>1, <1>4
      <4>. QED BY <4>2, <3>1
    <3>. QED BY <3>1, <3>2, <1>5 DEF Effect
  <2>2. CASE ~(i + 1 <= N)
    BY <2>2
  <2>. QED BY <2>1, <2>2
<1>6. Nat \subseteq Good
  <2>. HIDE DEF Good
  <2>. QED BY <1>3, <1>5, SetInduction
<1>7. \A i \in 0..N : f[i] \in States /\ f[i].nextSeq = x.nextSeq
  BY <1>6, <1>0
<1>8. ASSUME NEW i \in 1..N PROVE Effect(f[i - 1], f[i], b[i], s, i)
  <2>1. i - 1 \in 0..N
    BY <1>0
  <2>. QED BY <2>1, <1>7, <1>4
<1>. QED BY <1>1, <1>2, <1>7, <1>8 DEF Steps

LEMMA BatchEnd ==
  ASSUME Copies = {}, NEW x \in States, NEW b \in Batches, NEW s \in Nat, x.nextSeq = s,
         NEW f, Steps(f, x, b, s), f = Applied(x, b, s)
  PROVE  LET z == ApplyBatch(x, b, s)  y == f[Len(b)] IN
         /\ y \in States /\ z \in States /\ z.docs = y.docs /\ z.tasks = y.tasks
         /\ z.entries = y.entries /\ z.nextId = y.nextId /\ z.nextSeq = s + 1
<1>1. Len(b) \in Nat
  BY BatchShape
<1>2. PICK y : y = f[Len(b)]
  OBVIOUS
<1>3. y \in States /\ y.nextSeq = s
  BY <1>1, <1>2 DEF Steps
<1>4. ApplyBatch(x, b, s) = [y EXCEPT !.nextSeq = Larger(@, s + 1)]
  BY <1>2 DEF ApplyBatch
<1>5. Larger(y.nextSeq, s + 1) = s + 1
  BY <1>3 DEF Larger
<1>6. ApplyBatch(x, b, s) = [y EXCEPT !.nextSeq = s + 1]
  BY <1>4, <1>5
<1>. QED BY <1>2, <1>3, <1>6 DEF States

LEMMA LegalAllows ==
  ASSUME Copies = {}, NEW x, NEW b \in Batches, NEW i \in DOMAIN b, Legal(x, b, i)
  PROVE  Allowed(x, b[i])
<1>1. Shaped(b[i])
  BY BatchShape
<1>. QED BY <1>1 DEF Legal, Admitted, Allowed, Exists, Retired, Lives, Shaped, DocKinds, TaskKinds

LEMMA LikeApplied ==
  ASSUME Copies = {}, NEW x \in States, NEW y \in States, Like(x, y), NEW b \in Batches,
         NEW s, s = x.nextSeq, s # 0, Valid(x, b), NEW f, f = Applied(x, b, s), NEW g, g = Applied(y, b, s)
  PROVE  \A i \in 0..Len(b) : Like(f[i], g[i])
<1>. DEFINE N == Len(b)
<1>0. N \in Nat /\ DOMAIN b = 1..N /\ \A i \in DOMAIN b : Shaped(b[i])
  BY BatchShape
<1>1. s \in Nat
  BY StateShape
<1>2. Steps(f, x, b, s) /\ Steps(g, y, b, s)
  BY <1>1, AppliedSteps
<1>. DEFINE Good == {i \in Nat : i <= N => Like(f[i], g[i])}
<1>3. 0 \in Good
  BY <1>2 DEF Steps
<1>4. ASSUME NEW i \in Nat, i \in Good, i + 1 <= N PROVE Like(f[i + 1], g[i + 1])
  <2>1. i + 1 \in 1..N /\ (i + 1) - 1 = i /\ i \in 0..N /\ i <= N
    BY <1>0, <1>4
  <2>2. f[i] \in States /\ g[i] \in States /\ Like(f[i], g[i])
    BY <2>1, <1>2, <1>4 DEF Steps
  <2>3. f[i + 1] = Apply(f[i], b[i + 1], s, i + 1) /\ g[i + 1] = Apply(g[i], b[i + 1], s, i + 1)
    BY <2>1, <1>2 DEF Steps
  <2>4. Legal(f[i], b, i + 1)
    BY <2>1, <1>0 DEF Valid
  <2>5. Allowed(f[i], b[i + 1]) /\ Shaped(b[i + 1])
    BY <2>1, <2>4, <1>0, LegalAllows
  <2>. QED BY <1>1, <2>2, <2>3, <2>5, LikeStep
<1>5. Nat \subseteq Good
  <2>1. ASSUME NEW i \in Nat, i \in Good PROVE i + 1 \in Good
    BY <1>4, <2>1
  <2>. HIDE DEF Good
  <2>. QED BY <1>3, <2>1, SetInduction
<1>. QED BY <1>0, <1>5

LEMMA LikeBatch ==
  ASSUME Copies = {}, NEW x \in States, NEW y \in States, Like(x, y), NEW b \in Batches,
         x.nextSeq # 0, Valid(x, b)
  PROVE  Like(ApplyBatch(x, b, x.nextSeq), ApplyBatch(y, b, x.nextSeq))
<1>1. PICK s \in Nat : s = x.nextSeq
  BY StateShape
<1>2. s # 0 /\ y.nextSeq = s
  BY <1>1 DEF Like
<1>3. PICK f : f = Applied(x, b, s)
  OBVIOUS
<1>4. PICK g : g = Applied(y, b, s)
  OBVIOUS
<1>5. Steps(f, x, b, s) /\ Steps(g, y, b, s)
  BY <1>3, <1>4, AppliedSteps
<1>6. PICK n \in Nat : n = Len(b)
  BY BatchShape
<1>7. Like(f[n], g[n])
  <2>1. \A i \in 0..Len(b) : Like(f[i], g[i])
    BY <1>1, <1>2, <1>3, <1>4, LikeApplied
  <2>. QED BY <1>6, <2>1
<1>8. PICK u : u = ApplyBatch(x, b, s)
  OBVIOUS
<1>9. PICK v : v = ApplyBatch(y, b, s)
  OBVIOUS
<1>10. u.docs = f[n].docs /\ u.tasks = f[n].tasks /\ u.entries = f[n].entries /\ u.nextSeq = s + 1
  BY <1>1, <1>3, <1>5, <1>6, <1>8, BatchEnd
<1>11. v.docs = g[n].docs /\ v.tasks = g[n].tasks /\ v.entries = g[n].entries /\ v.nextSeq = s + 1
  BY <1>2, <1>4, <1>5, <1>6, <1>9, BatchEnd
<1>12. Like(u, v)
  BY <1>7, <1>10, <1>11 DEF Like
<1>. QED BY <1>1, <1>8, <1>9, <1>12

(* What validation and a Session guarantee of a batch, in terms of the      *)
(* state before it.                                                         *)
Legit(x, b) ==
  \A d \in Docs : \A i \in DOMAIN b : OnDoc(b[i], d) =>
    /\ x.docs[d].retired = 0
    /\ b[i].kind = "create" => x.docs[d].created = 0
    /\ b[i].kind \in {"base", "delta"} => x.docs[d].created # 0
    /\ b[i].kind = "retire" =>
         x.docs[d].created # 0 \/ \E j \in 1..(i - 1) : OnDoc(b[j], d) /\ b[j].kind = "create"
    /\ \A j \in 1..(i - 1) : OnDoc(b[j], d) => b[j].kind = "create" /\ b[i].kind = "retire"
TasksOpen(x, b) ==
  \A t \in Tasks : \A i \in DOMAIN b : OnTask(b[i], t) => x.tasks[t].status # "terminal"
Retirable(x) == \A d \in Docs : x.docs[d].created = 0 => x.docs[d].retired = 0

LEMMA Untouched ==
  ASSUME Copies = {}, NEW x \in States, NEW b \in Batches, NEW s \in Nat, NEW f, Steps(f, x, b, s),
         NEW d \in Docs, NEW n \in 0..Len(b), \A j \in 1..n : ~OnDoc(b[j], d)
  PROVE  f[n].docs[d] = x.docs[d]
<1>0. Len(b) \in Nat
  BY BatchShape
<1>. DEFINE Good == {i \in Nat : i <= n => f[i].docs[d] = x.docs[d]}
<1>1. 0 \in Good
  BY DEF Steps
<1>2. ASSUME NEW i \in Nat, i \in Good PROVE i + 1 \in Good
  <2>1. CASE i + 1 <= n
    <3>1. i + 1 \in 1..Len(b) /\ i + 1 \in 1..n /\ (i + 1) - 1 = i /\ i <= n
      BY <1>0, <2>1
    <3>2. Effect(f[i], f[i + 1], b[i + 1], s, i + 1)
      BY <3>1 DEF Steps
    <3>. QED BY <3>1, <3>2, <1>2 DEF Effect
  <2>2. CASE ~(i + 1 <= n)
    BY <2>2
  <2>. QED BY <2>1, <2>2
<1>3. n \in Good
  <2>1. n \in Nat
    BY <1>0
  <2>. HIDE DEF Good
  <2>. QED BY <1>1, <1>2, <2>1, SetInduction
<1>. QED BY <1>3, <1>0

LEMMA ValidIsLegit ==
  ASSUME Copies = {}, NEW x \in States, NEW b \in Batches, Valid(x, b), Sent(x, b), Retirable(x)
  PROVE  Legit(x, b)
<1>. DEFINE s == x.nextSeq
<1>0. Len(b) \in Nat /\ DOMAIN b = 1..Len(b) /\ \A i \in DOMAIN b : Shaped(b[i])
  BY BatchShape
<1>1. s \in Nat
  BY StateShape
<1>2. PICK f : f = Applied(x, b, s)
  OBVIOUS
<1>3. Steps(f, x, b, s)
  BY <1>1, <1>2, AppliedSteps
<1>. SUFFICES ASSUME NEW d \in Docs, NEW i \in DOMAIN b, OnDoc(b[i], d)
              PROVE  /\ x.docs[d].retired = 0
                     /\ b[i].kind = "create" => x.docs[d].created = 0
                     /\ b[i].kind \in {"base", "delta"} => x.docs[d].created # 0
                     /\ b[i].kind = "retire" =>
                          \/ x.docs[d].created # 0
                          \/ \E j \in 1..(i - 1) : OnDoc(b[j], d) /\ b[j].kind = "create"
                     /\ \A j \in 1..(i - 1) : OnDoc(b[j], d) =>
                          b[j].kind = "create" /\ b[i].kind = "retire"
  BY DEF Legit
<1>4. b[i].id = d /\ b[i].kind \in DocKinds
  BY DEF OnDoc
<1>5. \A j \in 1..(i - 1) : OnDoc(b[j], d) => b[j].kind = "create" /\ b[i].kind = "retire"
  BY <1>4 DEF Sent, OnDoc
<1>6. ASSUME NEW k \in DOMAIN b, OnDoc(b[k], d), \A j \in 1..(k - 1) : ~OnDoc(b[j], d)
      PROVE  /\ x.docs[d].retired = 0
             /\ b[k].kind = "create" => x.docs[d].created = 0
             /\ b[k].kind # "create" => x.docs[d].created # 0
  <2>1. k - 1 \in 0..Len(b)
    BY <1>0
  <2>2. f[k - 1].docs[d] = x.docs[d]
    <3>1. PICK m \in 0..Len(b) : m = k - 1
      BY <2>1
    <3>2. \A j \in 1..m : ~OnDoc(b[j], d)
      BY <1>6, <3>1
    <3>3. PICK t \in Nat : t = s
      BY <1>1
    <3>4. Steps(f, x, b, t)
      BY <1>3, <3>3
    <3>. HIDE DEF s
    <3>5. f[m].docs[d] = x.docs[d]
      BY <3>2, <3>4, Untouched
    <3>. QED BY <3>1, <3>5
  <2>3. Legal(f[k - 1], b, k)
    BY <1>2 DEF Valid
  <2>4. Allowed(f[k - 1], b[k])
    BY <2>3, LegalAllows
  <2>5. b[k].id = d /\ b[k].kind \in DocKinds
    BY <1>6 DEF OnDoc
  <2>6. b[k].kind = "create" => x.docs[d].created = 0
    BY <2>2, <2>4, <2>5 DEF Allowed
  <2>7. b[k].kind # "create" => Lives(x.docs[d])
    BY <2>2, <2>4, <2>5 DEF Allowed, DocKinds
  <2>. QED BY <2>6, <2>7 DEF Lives, Retirable
<1>7. CASE \A j \in 1..(i - 1) : ~OnDoc(b[j], d)
  BY <1>5, <1>6, <1>7
<1>8. CASE \E j \in 1..(i - 1) : OnDoc(b[j], d)
  <2>1. PICK j \in 1..(i - 1) : OnDoc(b[j], d)
    BY <1>8
  <2>2. b[j].kind = "create" /\ b[i].kind = "retire" /\ j \in DOMAIN b
    BY <1>0, <1>5, <2>1
  <2>3. \A k \in 1..(j - 1) : ~OnDoc(b[k], d)
    BY <2>1, <2>2 DEF Sent, OnDoc
  <2>4. x.docs[d].retired = 0
    BY <1>6, <2>1, <2>2, <2>3
  <2>. QED BY <2>1, <2>2, <2>4, <1>5
<1>. QED BY <1>7, <1>8

LEMMA LegitLike ==
  ASSUME NEW x, NEW y, Like(x, y), NEW b, Legit(x, b)
  PROVE  Legit(y, b)
<1>1. \A d \in Docs : x.docs[d].created = y.docs[d].created /\ x.docs[d].retired = y.docs[d].retired
  BY DEF Like, LikeDoc
<1>. QED BY <1>1 DEF Legit

(* What a legitimate batch leaves behind. *)
TracedDoc(x, z, b, n, d) ==
  /\ z.docs[d].created # 0 <=>
       x.docs[d].created # 0 \/ \E i \in 1..n : OnDoc(b[i], d) /\ b[i].kind = "create"
  /\ z.docs[d].retired # 0 <=>
       x.docs[d].retired # 0 \/ \E i \in 1..n : OnDoc(b[i], d) /\ b[i].kind = "retire"
TracedTask(x, z, b, n, t) ==
  \/ (\A i \in 1..n : ~OnTask(b[i], t)) /\ z.tasks[t] = x.tasks[t]
  \/ \E i \in 1..n : /\ OnTask(b[i], t) /\ z.tasks[t].status = b[i].kind
                     /\ \A k \in (i + 1)..n : ~OnTask(b[k], t)

LEMMA BatchTrace ==
  ASSUME Copies = {}, NEW x \in States, NEW b \in Batches, NEW s \in Nat, s # 0,
         NEW f, Steps(f, x, b, s), Legit(x, b), NEW n \in 0..Len(b)
  PROVE  /\ \A d \in Docs : TracedDoc(x, f[n], b, n, d)
         /\ \A t \in Tasks : TracedTask(x, f[n], b, n, t)
<1>. DEFINE N == Len(b)
            P(i) == /\ \A d \in Docs : TracedDoc(x, f[i], b, i, d)
                    /\ \A t \in Tasks : TracedTask(x, f[i], b, i, t)
            Good == {i \in Nat : i <= N => P(i)}
<1>0. N \in Nat /\ DOMAIN b = 1..N /\ \A i \in DOMAIN b : Shaped(b[i])
  BY BatchShape
<1>1. 0 \in Good
  <2>1. f[0] = x
    BY DEF Steps
  <2>. QED BY <2>1 DEF TracedDoc, TracedTask
<1>2. ASSUME NEW i \in Nat, i \in Good, i + 1 <= N PROVE P(i + 1)
  <2>1. i + 1 \in 1..N /\ (i + 1) - 1 = i /\ i <= N /\ 1..(i + 1) = (1..i) \cup {i + 1}
    BY <1>0, <1>2
  <2>2. PICK w : w = b[i + 1]
    OBVIOUS
  <2>3. Effect(f[i], f[i + 1], w, s, i + 1)
    BY <2>1, <2>2 DEF Steps
  <2>4. P(i)
    BY <1>2, <2>1
  <2>5. ASSUME NEW d \in Docs PROVE TracedDoc(x, f[i + 1], b, i + 1, d)
    <3>1. TracedDoc(x, f[i], b, i, d)
      BY <2>4
    <3>2. CASE ~OnDoc(w, d)
      BY <2>1, <2>2, <2>3, <3>1, <3>2 DEF TracedDoc, Effect
    <3>3. CASE OnDoc(w, d)
      <4>1. PICK a : a = f[i].docs[d]
        OBVIOUS
      <4>2. PICK r : r = RevOf(w, s, i + 1)
        OBVIOUS
      <4>3. f[i + 1].docs[d] = DocAfter(a, d, w.kind, s, r)
        BY <2>3, <3>3, <4>1, <4>2 DEF Effect
      <4>4. PICK z : z = f[i + 1].docs[d]
        OBVIOUS
      <4>5. /\ w.kind = "create" => z.created = s /\ z.retired = 0
            /\ w.kind \in {"base", "delta"} => z.created = a.created /\ z.retired = a.retired
            /\ w.kind = "retire" => z.created = a.created /\ z.retired = s
        BY <4>3, <4>4 DEF DocAfter
      <4>6. w.kind \in DocKinds
        BY <3>3 DEF OnDoc
      <4>7. \A j \in 1..i : OnDoc(b[j], d) => b[j].kind = "create" /\ w.kind = "retire"
        BY <2>1, <2>2, <3>3, <1>0 DEF Legit
      <4>8. x.docs[d].retired = 0
        BY <2>1, <2>2, <3>3, <1>0 DEF Legit
      <4>9. w.kind # "create" => a.created # 0
        <5>1. /\ w.kind \in {"base", "delta"} => x.docs[d].created # 0
              /\ w.kind = "retire" => x.docs[d].created # 0
                   \/ \E j \in 1..i : OnDoc(b[j], d) /\ b[j].kind = "create"
          BY <2>1, <2>2, <3>3, <1>0 DEF Legit
        <5>. QED BY <5>1, <3>1, <4>1, <4>6 DEF TracedDoc, DocKinds
      <4>10. w.kind # "retire" => a.retired = 0
        BY <4>7, <4>8, <3>1, <4>1 DEF TracedDoc
      <4>11. z.created # 0 <=>
               x.docs[d].created # 0 \/ \E j \in 1..(i + 1) : OnDoc(b[j], d) /\ b[j].kind = "create"
        <5>1. CASE w.kind = "create"
          BY <5>1, <4>5, <2>2, <2>1, <3>3
        <5>2. CASE w.kind # "create"
          BY <5>2, <4>5, <4>6, <4>9, <3>1, <4>1, <2>1, <2>2 DEF TracedDoc, DocKinds
        <5>. QED BY <5>1, <5>2
      <4>12. z.retired # 0 <=>
               x.docs[d].retired # 0 \/ \E j \in 1..(i + 1) : OnDoc(b[j], d) /\ b[j].kind = "retire"
        <5>1. CASE w.kind = "retire"
          BY <5>1, <4>5, <2>2, <2>1, <3>3
        <5>2. CASE w.kind # "retire"
          <6>1. z.retired = 0
            BY <5>2, <4>5, <4>6, <4>10 DEF DocKinds
          <6>2. \A j \in 1..(i + 1) : ~(OnDoc(b[j], d) /\ b[j].kind = "retire")
            BY <5>2, <4>7, <2>1, <2>2
          <6>. QED BY <6>1, <6>2, <4>8
        <5>. QED BY <5>1, <5>2
      <4>. QED BY <4>4, <4>11, <4>12 DEF TracedDoc
    <3>. QED BY <3>2, <3>3
  <2>6. ASSUME NEW t \in Tasks PROVE TracedTask(x, f[i + 1], b, i + 1, t)
    <3>1. TracedTask(x, f[i], b, i, t)
      BY <2>4
    <3>2. CASE ~OnTask(w, t)
      <4>1. f[i + 1].tasks[t] = f[i].tasks[t]
        BY <2>3, <3>2 DEF Effect
      <4>2. CASE (\A j \in 1..i : ~OnTask(b[j], t)) /\ f[i].tasks[t] = x.tasks[t]
        BY <4>1, <4>2, <2>1, <2>2, <3>2 DEF TracedTask
      <4>3. CASE \E j \in 1..i : /\ OnTask(b[j], t) /\ f[i].tasks[t].status = b[j].kind
                                 /\ \A k \in (j + 1)..i : ~OnTask(b[k], t)
        <5>1. PICK j \in 1..i : /\ OnTask(b[j], t) /\ f[i].tasks[t].status = b[j].kind
                                /\ \A k \in (j + 1)..i : ~OnTask(b[k], t)
          BY <4>3
        <5>2. \A k \in (j + 1)..(i + 1) : ~OnTask(b[k], t)
          <6>1. ASSUME NEW k \in (j + 1)..(i + 1) PROVE k = i + 1 \/ k \in (j + 1)..i
            OBVIOUS
          <6>. QED BY <5>1, <6>1, <2>2, <3>2
        <5>3. j \in 1..(i + 1)
          OBVIOUS
        <5>. QED BY <4>1, <5>1, <5>2, <5>3 DEF TracedTask
      <4>. QED BY <4>2, <4>3, <3>1 DEF TracedTask
    <3>3. CASE OnTask(w, t)
      <4>1. f[i + 1].tasks[t].status = w.kind
        BY <2>3, <3>3 DEF Effect
      <4>2. \A k \in ((i + 1) + 1)..(i + 1) : ~OnTask(b[k], t)
        OBVIOUS
      <4>3. i + 1 \in 1..(i + 1)
        OBVIOUS
      <4>. QED BY <4>1, <4>2, <4>3, <2>2, <3>3 DEF TracedTask
    <3>. QED BY <3>2, <3>3
  <2>. QED BY <2>5, <2>6
<1>3. Nat \subseteq Good
  <2>1. ASSUME NEW i \in Nat, i \in Good PROVE i + 1 \in Good
    BY <1>2, <2>1
  <2>. HIDE DEF Good
  <2>. QED BY <1>1, <2>1, SetInduction
<1>. QED BY <1>3, <1>0

-----------------------------------------------------------------------------
(* 5. Lines *)
LEMMA AppendShape ==
  ASSUME NEW S, NEW q \in Seq(S), NEW r \in S
  PROVE  /\ Append(q, r) \in Seq(S) /\ Len(q) \in Nat
         /\ DOMAIN Append(q, r) = 1..(Len(q) + 1) /\ DOMAIN q = 1..Len(q)
         /\ Append(q, r)[Len(q) + 1] = r
         /\ \A j \in DOMAIN q : Append(q, r)[j] = q[j]
OBVIOUS

LEMMA AppendSorted ==
  ASSUME NEW q \in Seq(Records), Sorted(q), NEW r \in Records,
         \A j \in DOMAIN q : Before(Key(q[j]), Key(r))
  PROVE  Sorted(Append(q, r))
<1>1. PICK z : z = Append(q, r)
  OBVIOUS
<1>2. /\ DOMAIN z = 1..(Len(q) + 1) /\ DOMAIN q = 1..Len(q) /\ z[Len(q) + 1] = r
      /\ Len(q) \in Nat /\ \A j \in DOMAIN q : z[j] = q[j]
  BY <1>1, AppendShape
<1>3. ASSUME NEW j \in DOMAIN z, NEW k \in DOMAIN z, j < k PROVE Before(Key(z[j]), Key(z[k]))
  <2>1. j \in DOMAIN q
    BY <1>2, <1>3
  <2>2. CASE k \in DOMAIN q
    BY <1>2, <1>3, <2>1, <2>2 DEF Sorted
  <2>3. CASE k = Len(q) + 1
    BY <1>2, <2>1, <2>3
  <2>. QED BY <1>2, <2>2, <2>3
<1>. QED BY <1>1, <1>3 DEF Sorted

LEMMA ConcatShape ==
  ASSUME NEW S, NEW q \in Seq(S), NEW k \in Seq(S)
  PROVE  /\ q \o k \in Seq(S) /\ Len(q) \in Nat /\ Len(k) \in Nat
         /\ DOMAIN (q \o k) = 1..(Len(q) + Len(k)) /\ DOMAIN q = 1..Len(q) /\ DOMAIN k = 1..Len(k)
         /\ \A j \in DOMAIN q : (q \o k)[j] = q[j]
         /\ \A j \in DOMAIN k : (q \o k)[Len(q) + j] = k[j]
OBVIOUS

LEMMA ConcatSorted ==
  ASSUME NEW q \in Seq(Records), Sorted(q), NEW k \in Seq(Records), Sorted(k),
         \A i \in DOMAIN q, j \in DOMAIN k : Before(Key(q[i]), Key(k[j]))
  PROVE  Sorted(q \o k)
<1>1. PICK z : z = q \o k
  OBVIOUS
<1>2. /\ DOMAIN z = 1..(Len(q) + Len(k)) /\ DOMAIN q = 1..Len(q) /\ DOMAIN k = 1..Len(k)
      /\ Len(q) \in Nat /\ Len(k) \in Nat
      /\ \A j \in DOMAIN q : z[j] = q[j]
      /\ \A j \in DOMAIN k : z[Len(q) + j] = k[j]
  BY <1>1, ConcatShape
<1>3. ASSUME NEW i \in DOMAIN z, NEW j \in DOMAIN z, i < j PROVE Before(Key(z[i]), Key(z[j]))
  <2>1. CASE j \in DOMAIN q
    <3>1. i \in DOMAIN q
      BY <1>2, <1>3, <2>1
    <3>. QED BY <1>2, <1>3, <2>1, <3>1 DEF Sorted
  <2>2. CASE j \notin DOMAIN q
    <3>1. j - Len(q) \in DOMAIN k /\ Len(q) + (j - Len(q)) = j
      BY <1>2, <2>2
    <3>2. z[j] = k[j - Len(q)]
      BY <1>2, <3>1
    <3>3. CASE i \in DOMAIN q
      BY <1>2, <3>1, <3>2, <3>3
    <3>4. CASE i \notin DOMAIN q
      <4>1. i - Len(q) \in DOMAIN k /\ Len(q) + (i - Len(q)) = i /\ i - Len(q) < j - Len(q)
        BY <1>2, <1>3, <3>4
      <4>2. z[i] = k[i - Len(q)]
        BY <1>2, <4>1
      <4>. QED BY <3>1, <3>2, <4>1, <4>2 DEF Sorted
    <3>. QED BY <3>3, <3>4
  <2>. QED BY <2>1, <2>2
<1>. QED BY <1>1, <1>3 DEF Sorted

LEMMA LineShape ==
  ASSUME NEW w, Shaped(w), NEW s \in Nat, NEW i \in Nat
  PROVE  /\ Line(w, s, i) = [seq |-> s, ord |-> i, base |-> w.kind # "delta", ver |-> 1,
                             val |-> << <<s, i>> >>]
         /\ Line(w, s, i) \in Records
         /\ Line(w, s, i).seq = s /\ Line(w, s, i).ord = i
<1>1. w.kind # "copy"
  BY DEF Shaped, DocKinds, TaskKinds
<1>2. << <<s, i>> >> \in Stamps
  BY StampShape
<1>3. Line(w, s, i) = [seq |-> s, ord |-> i, base |-> w.kind # "delta", ver |-> 1,
                       val |-> << <<s, i>> >>]
  BY <1>1 DEF Line
<1>. QED BY <1>2, <1>3 DEF Records

(* Lines: exactly the lines of the batch for the file, in write order. *)
Encoded(q, b, n, s, file) ==
  /\ q \in Seq(Records) /\ Sorted(q)
  /\ \A j \in DOMAIN q :
       /\ q[j].seq = s /\ q[j].ord \in 1..n /\ GoesTo(b[q[j].ord], file)
       /\ q[j] = Line(b[q[j].ord], s, q[j].ord)
  /\ \A i \in 1..n : GoesTo(b[i], file) => Has(q, <<s, i>>)

LEMMA LinesShape ==
  ASSUME Copies = {}, NEW b \in Batches, NEW s \in Nat, NEW file
  PROVE  Encoded(Lines(b, s, file), b, Len(b), s, file)
<1>. DEFINE N == Len(b)
<1>0. N \in Nat /\ DOMAIN b = 1..N /\ \A i \in DOMAIN b : Shaped(b[i])
  BY BatchShape
<1>1. PICK f : Encodes(f, b, s, file, N) /\ Lines(b, s, file) = f[N]
  BY <1>0, LinesUnfold
<1>2. /\ f[0] = <<>>
      /\ \A i \in 1..N : f[i] = IF GoesTo(b[i], file) THEN Append(f[i - 1], Line(b[i], s, i))
                                                      ELSE f[i - 1]
  <2>. DEFINE Step(x, n) == IF GoesTo(b[n], file) THEN Append(x, Line(b[n], s, n)) ELSE x
  <2>1. f = [n \in 0..N |-> IF n = 0 THEN <<>> ELSE Step(f[n - 1], n)]
    BY <1>1, Zenon DEF Encodes
  <2>2. f[0] = <<>> /\ \A i \in 1..N : f[i] = Step(f[i - 1], i)
    <3>. HIDE DEF Step
    <3>. QED BY <1>0, <2>1
  <2>. QED BY <2>2, Zenon
<1>. DEFINE Good == {i \in Nat : i <= N => Encoded(f[i], b, i, s, file)}
<1>3. 0 \in Good
  <2>1. f[0] \in Seq(Records) /\ DOMAIN f[0] = {}
    BY <1>2
  <2>. QED BY <2>1 DEF Encoded, Sorted, Has
<1>4. ASSUME NEW i \in Nat, i \in Good, i + 1 <= N PROVE Encoded(f[i + 1], b, i + 1, s, file)
  <2>1. i + 1 \in 1..N /\ (i + 1) - 1 = i /\ i <= N /\ 1..(i + 1) = (1..i) \cup {i + 1}
    BY <1>0, <1>4
  <2>2. PICK q : q = f[i]
    OBVIOUS
  <2>3. Encoded(q, b, i, s, file)
    BY <1>4, <2>1, <2>2
  <2>4. CASE ~GoesTo(b[i + 1], file)
    <3>1. f[i + 1] = q
      BY <1>2, <2>1, <2>2, <2>4
    <3>2. Encoded(q, b, i + 1, s, file)
      BY <2>1, <2>3, <2>4 DEF Encoded
    <3>. QED BY <3>1, <3>2
  <2>5. CASE GoesTo(b[i + 1], file)
    <3>1. PICK r : r = Line(b[i + 1], s, i + 1)
      OBVIOUS
    <3>2. r \in Records /\ r.seq = s /\ r.ord = i + 1
      <4>1. Shaped(b[i + 1]) /\ i + 1 \in Nat
        BY <1>0, <2>1
      <4>. QED BY <3>1, <4>1, LineShape
    <3>3. PICK z : z = Append(q, r)
      OBVIOUS
    <3>4. f[i + 1] = z
      BY <1>2, <2>1, <2>2, <2>5, <3>1, <3>3
    <3>5. q \in Seq(Records) /\ Sorted(q)
      BY <2>3 DEF Encoded
    <3>6. \A j \in DOMAIN q : q[j].seq = s /\ q[j].ord \in 1..i
      BY <2>3 DEF Encoded
    <3>7. Sorted(z)
      <4>1. \A j \in DOMAIN q : Before(Key(q[j]), Key(r))
        BY <3>2, <3>6 DEF Before, Key
      <4>. QED BY <3>2, <3>3, <3>5, <4>1, AppendSorted
    <3>8. /\ z \in Seq(Records) /\ DOMAIN z = 1..(Len(q) + 1) /\ DOMAIN q = 1..Len(q)
          /\ Len(q) \in Nat /\ z[Len(q) + 1] = r /\ \A j \in DOMAIN q : z[j] = q[j]
      BY <3>2, <3>3, <3>5, AppendShape
    <3>9. ASSUME NEW j \in DOMAIN z
          PROVE  /\ z[j].seq = s /\ z[j].ord \in 1..(i + 1) /\ GoesTo(b[z[j].ord], file)
                 /\ z[j] = Line(b[z[j].ord], s, z[j].ord)
      <4>1. CASE j \in DOMAIN q
        BY <2>1, <2>3, <3>8, <4>1 DEF Encoded
      <4>2. CASE j = Len(q) + 1
        BY <2>1, <2>5, <3>1, <3>2, <3>8, <4>2
      <4>. QED BY <3>8, <4>1, <4>2
    <3>10. ASSUME NEW k \in 1..(i + 1), GoesTo(b[k], file) PROVE Has(z, <<s, k>>)
      <4>1. CASE k \in 1..i
        <5>1. PICK j \in DOMAIN q : Key(q[j]) = <<s, k>>
          BY <2>3, <3>10, <4>1 DEF Encoded, Has
        <5>2. j \in DOMAIN z /\ Key(z[j]) = <<s, k>>
          BY <3>8, <5>1
        <5>. QED BY <5>2 DEF Has
      <4>2. CASE k = i + 1
        <5>1. Len(q) + 1 \in DOMAIN z /\ Key(z[Len(q) + 1]) = <<s, k>>
          BY <3>2, <3>8, <4>2 DEF Key
        <5>. QED BY <5>1 DEF Has
      <4>. QED BY <2>1, <4>1, <4>2
    <3>11. Encoded(z, b, i + 1, s, file)
      BY <3>7, <3>8, <3>9, <3>10 DEF Encoded
    <3>. QED BY <3>4, <3>11
  <2>. QED BY <2>4, <2>5
<1>5. Nat \subseteq Good
  <2>1. ASSUME NEW i \in Nat, i \in Good PROVE i + 1 \in Good
    BY <1>4, <2>1
  <2>. HIDE DEF Good
  <2>. QED BY <1>3, <2>1, SetInduction
<1>. QED BY <1>5, <1>0, <1>1

(* FilesOf: the files of the batch, each once. *)
Collected(q, b, n) ==
  /\ q \in Seq(Files) /\ \A i, j \in DOMAIN q : q[i] = q[j] => i = j
  /\ \A i \in 1..n : HasSidecar(b[i]) => \E j \in DOMAIN q : q[j] = b[i].id

LEMMA FilesShape ==
  ASSUME Copies = {}, NEW b \in Batches
  PROVE  Collected(FilesOf(b), b, Len(b))
<1>. DEFINE N == Len(b)
<1>0. N \in Nat /\ DOMAIN b = 1..N /\ \A i \in DOMAIN b : Shaped(b[i])
  BY BatchShape
<1>1. PICK f : Collects(f, b, N) /\ FilesOf(b) = f[N]
  BY <1>0, FilesUnfold
<1>2. /\ f[0] = <<>>
      /\ \A i \in 1..N : f[i] = IF HasSidecar(b[i]) /\ b[i].id \notin Range(f[i - 1])
                                THEN Append(f[i - 1], b[i].id) ELSE f[i - 1]
  <2>. DEFINE Step(x, n) == IF HasSidecar(b[n]) /\ b[n].id \notin Range(x) THEN Append(x, b[n].id) ELSE x
  <2>1. f = [n \in 0..N |-> IF n = 0 THEN <<>> ELSE Step(f[n - 1], n)]
    BY <1>1, Zenon DEF Collects
  <2>2. f[0] = <<>> /\ \A i \in 1..N : f[i] = Step(f[i - 1], i)
    <3>. HIDE DEF Step
    <3>. QED BY <1>0, <2>1
  <2>. QED BY <2>2, Zenon
<1>. DEFINE Good == {i \in Nat : i <= N => Collected(f[i], b, i)}
<1>3. 0 \in Good
  <2>1. f[0] \in Seq(Files) /\ DOMAIN f[0] = {}
    BY <1>2
  <2>. QED BY <2>1 DEF Collected
<1>4. ASSUME NEW i \in Nat, i \in Good, i + 1 <= N PROVE Collected(f[i + 1], b, i + 1)
  <2>1. i + 1 \in 1..N /\ (i + 1) - 1 = i /\ i <= N /\ 1..(i + 1) = (1..i) \cup {i + 1}
    BY <1>0, <1>4
  <2>2. PICK q : q = f[i]
    OBVIOUS
  <2>3. Collected(q, b, i)
    BY <1>4, <2>1, <2>2
  <2>4. PICK w : w = b[i + 1]
    OBVIOUS
  <2>5. CASE ~(HasSidecar(w) /\ w.id \notin Range(q))
    <3>1. f[i + 1] = q
      BY <1>2, <2>1, <2>2, <2>4, <2>5
    <3>2. HasSidecar(w) => \E j \in DOMAIN q : q[j] = w.id
      BY <2>5 DEF Range
    <3>3. Collected(q, b, i + 1)
      BY <2>1, <2>3, <2>4, <3>2 DEF Collected
    <3>. QED BY <3>1, <3>3
  <2>6. CASE HasSidecar(w) /\ w.id \notin Range(q)
    <3>1. PICK z : z = Append(q, w.id)
      OBVIOUS
    <3>2. f[i + 1] = z
      BY <1>2, <2>1, <2>2, <2>4, <2>6, <3>1
    <3>3. w.id \in Files
      BY <1>0, <2>1, <2>4, <2>6 DEF HasSidecar, Shaped, DocKinds, TaskKinds, Files
    <3>4. q \in Seq(Files)
      BY <2>3 DEF Collected
    <3>5. /\ z \in Seq(Files) /\ DOMAIN z = 1..(Len(q) + 1) /\ DOMAIN q = 1..Len(q)
          /\ Len(q) \in Nat /\ z[Len(q) + 1] = w.id /\ \A j \in DOMAIN q : z[j] = q[j]
      BY <3>1, <3>3, <3>4, AppendShape
    <3>6. \A j \in DOMAIN q : q[j] # w.id
      BY <2>6 DEF Range
    <3>7. \A j, k \in DOMAIN z : z[j] = z[k] => j = k
      BY <2>3, <3>5, <3>6 DEF Collected
    <3>8. \A k \in 1..(i + 1) : HasSidecar(b[k]) => \E j \in DOMAIN z : z[j] = b[k].id
      <4>1. ASSUME NEW k \in 1..i, HasSidecar(b[k]) PROVE \E j \in DOMAIN z : z[j] = b[k].id
        <5>1. PICK j \in DOMAIN q : q[j] = b[k].id
          BY <2>3, <4>1, Zenon DEF Collected
        <5>2. j \in DOMAIN z /\ z[j] = q[j]
          BY <3>5
        <5>. QED BY <5>1, <5>2, Zenon
      <4>2. \E j \in DOMAIN z : z[j] = b[i + 1].id
        <5>1. Len(q) + 1 \in DOMAIN z /\ z[Len(q) + 1] = w.id
          BY <3>5
        <5>. QED BY <2>4, <5>1, Zenon
      <4>. QED BY <2>1, <4>1, <4>2, Zenon
    <3>. QED BY <3>2, <3>5, <3>7, <3>8 DEF Collected
  <2>. QED BY <2>5, <2>6
<1>5. Nat \subseteq Good
  <2>1. ASSUME NEW i \in Nat, i \in Good PROVE i + 1 \in Good
    BY <1>4, <2>1
  <2>. HIDE DEF Good
  <2>. QED BY <1>3, <2>1, SetInduction
<1>. QED BY <1>5, <1>0, <1>1

(* From: exactly the lines that are not before the position. *)
Retains(k, q, n, p) ==
  /\ k \in Seq(Records) /\ Sorted(k)
  /\ \A j \in DOMAIN k : ~Before(Key(k[j]), p) /\ \E i \in 1..n : q[i] = k[j]
  /\ \A i \in 1..n : Before(Key(q[i]), p) \/ \E j \in DOMAIN k : k[j] = q[i]

LEMMA FromShape ==
  ASSUME NEW q \in Seq(Records), Sorted(q), NEW p
  PROVE  Retains(From(q, p), q, Len(q), p)
<1>. DEFINE N == Len(q)
<1>0. N \in Nat /\ DOMAIN q = 1..N /\ \A i \in 1..N : q[i] \in Records
  OBVIOUS
<1>1. PICK f : Drops(f, q, p, N) /\ From(q, p) = f[N]
  BY <1>0, FromUnfolds
<1>2. /\ f[0] = <<>>
      /\ \A i \in 1..N : f[i] = IF Before(<<q[i].seq, q[i].ord>>, p) THEN f[i - 1]
                                ELSE Append(f[i - 1], q[i])
  <2>. DEFINE Step(x, n) == IF Before(<<q[n].seq, q[n].ord>>, p) THEN x ELSE Append(x, q[n])
  <2>1. f = [n \in 0..N |-> IF n = 0 THEN <<>> ELSE Step(f[n - 1], n)]
    BY <1>1, Zenon DEF Drops
  <2>2. f[0] = <<>> /\ \A i \in 1..N : f[i] = Step(f[i - 1], i)
    <3>. HIDE DEF Step
    <3>. QED BY <1>0, <2>1
  <2>. QED BY <2>2, Zenon
<1>. DEFINE Good == {i \in Nat : i <= N => Retains(f[i], q, i, p)}
<1>3. 0 \in Good
  <2>1. f[0] \in Seq(Records) /\ DOMAIN f[0] = {}
    BY <1>2
  <2>. QED BY <2>1 DEF Retains, Sorted
<1>4. ASSUME NEW i \in Nat, i \in Good, i + 1 <= N PROVE Retains(f[i + 1], q, i + 1, p)
  <2>1. i + 1 \in 1..N /\ (i + 1) - 1 = i /\ i <= N /\ 1..(i + 1) = (1..i) \cup {i + 1}
    BY <1>0, <1>4
  <2>2. PICK k : k = f[i]
    OBVIOUS
  <2>3. Retains(k, q, i, p)
    BY <1>4, <2>1, <2>2
  <2>4. PICK r : r = q[i + 1]
    OBVIOUS
  <2>5. Key(r) = <<r.seq, r.ord>>
    BY DEF Key
  <2>6. CASE Before(Key(r), p)
    <3>1. f[i + 1] = k
      BY <1>2, <2>1, <2>2, <2>4, <2>5, <2>6
    <3>2. Retains(k, q, i + 1, p)
      BY <2>1, <2>3, <2>4, <2>6 DEF Retains
    <3>. QED BY <3>1, <3>2
  <2>7. CASE ~Before(Key(r), p)
    <3>1. PICK z : z = Append(k, r)
      OBVIOUS
    <3>2. f[i + 1] = z
      BY <1>2, <2>1, <2>2, <2>4, <2>5, <2>7, <3>1
    <3>3. k \in Seq(Records) /\ Sorted(k) /\ r \in Records
      BY <1>0, <2>1, <2>3, <2>4 DEF Retains
    <3>4. \A j \in DOMAIN k : Before(Key(k[j]), Key(r))
      <4>1. ASSUME NEW j \in DOMAIN k PROVE Before(Key(k[j]), Key(r))
        <5>1. PICK n \in 1..i : q[n] = k[j]
          BY <2>3 DEF Retains
        <5>2. n \in DOMAIN q /\ i + 1 \in DOMAIN q /\ n < i + 1
          BY <1>0, <2>1
        <5>. QED BY <2>4, <5>1, <5>2 DEF Sorted
      <4>. QED BY <4>1
    <3>5. Sorted(z)
      BY <3>1, <3>3, <3>4, AppendSorted
    <3>6. /\ z \in Seq(Records) /\ DOMAIN z = 1..(Len(k) + 1) /\ DOMAIN k = 1..Len(k)
          /\ Len(k) \in Nat /\ z[Len(k) + 1] = r /\ \A j \in DOMAIN k : z[j] = k[j]
      BY <3>1, <3>3, AppendShape
    <3>7. ASSUME NEW j \in DOMAIN z
          PROVE  ~Before(Key(z[j]), p) /\ \E n \in 1..(i + 1) : q[n] = z[j]
      <4>1. CASE j \in DOMAIN k
        BY <2>1, <2>3, <3>6, <4>1 DEF Retains
      <4>2. CASE j = Len(k) + 1
        BY <2>1, <2>4, <2>7, <3>6, <4>2
      <4>. QED BY <3>6, <4>1, <4>2
    <3>8. \A n \in 1..(i + 1) : Before(Key(q[n]), p) \/ \E j \in DOMAIN z : z[j] = q[n]
      <4>1. ASSUME NEW n \in 1..i PROVE Before(Key(q[n]), p) \/ \E j \in DOMAIN z : z[j] = q[n]
        BY <2>3, <3>6 DEF Retains
      <4>2. \E j \in DOMAIN z : z[j] = q[i + 1]
        BY <2>4, <3>6
      <4>. QED BY <2>1, <4>1, <4>2
    <3>. QED BY <3>2, <3>5, <3>6, <3>7, <3>8 DEF Retains
  <2>. QED BY <2>6, <2>7
<1>5. Nat \subseteq Good
  <2>1. ASSUME NEW i \in Nat, i \in Good PROVE i + 1 \in Good
    BY <1>4, <2>1
  <2>. HIDE DEF Good
  <2>. QED BY <1>3, <2>1, SetInduction
<1>. QED BY <1>5, <1>0, <1>1

-----------------------------------------------------------------------------
(* 6. Positions, and a marker more *)
LEMMA OpsShape ==
  ASSUME Copies = {}, NEW mn \in Seq(Markers), NEW id, NEW K, NEW p \in Ops(mn, id, K)
  PROVE  /\ p = <<p[1], p[2]>> /\ p[1] \in Nat /\ p[2] \in Nat
         /\ p[1] \in 1..Len(mn) /\ p[2] \in DOMAIN mn[p[1]].ops
         /\ Op(mn, p).id = id /\ Op(mn, p).kind \in K
         /\ mn[p[1]].ops \in Batches /\ Shaped(Op(mn, p))
<1>1. /\ p \in (DOMAIN mn) \X (1..WriteBound) /\ p[2] \in DOMAIN mn[p[1]].ops
      /\ Op(mn, p).id = id /\ Op(mn, p).kind \in K
  BY DEF Ops
<1>2. DOMAIN mn = 1..Len(mn) /\ Len(mn) \in Nat
  OBVIOUS
<1>3. p = <<p[1], p[2]>> /\ p[1] \in 1..Len(mn) /\ p[2] \in 1..WriteBound
  BY <1>1, <1>2
<1>4. mn[p[1]] \in Markers
  BY <1>2, <1>3
<1>5. mn[p[1]].ops \in Batches
  BY <1>4 DEF Markers
<1>6. Shaped(Op(mn, p))
  BY <1>1, <1>5, BatchShape DEF Op
<1>. QED BY <1>1, <1>2, <1>3, <1>5, <1>6, StoreAssumption

LEMMA BeforeOrder ==
  ASSUME NEW a \in Nat, NEW b \in Nat, NEW c \in Nat, NEW d \in Nat
  PROVE  /\ Before(<<a, b>>, <<c, d>>) \/ Before(<<c, d>>, <<a, b>>) \/ <<a, b>> = <<c, d>>
         /\ ~(Before(<<a, b>>, <<c, d>>) /\ Before(<<c, d>>, <<a, b>>))
         /\ ~Before(<<a, b>>, <<a, b>>)
BY DEF Before

Grows(mn, mn2, b) == mn2 = Append(mn, [seq |-> Len(mn) + 1, ops |-> b])

LEMMA GrowsShape ==
  ASSUME Copies = {}, NEW mn \in Seq(Markers), NEW b \in Batches, NEW mn2, Grows(mn, mn2, b)
  PROVE  /\ mn2 \in Seq(Markers) /\ Len(mn) \in Nat /\ Len(mn2) = Len(mn) + 1
         /\ DOMAIN mn = 1..Len(mn) /\ DOMAIN mn2 = 1..(Len(mn) + 1)
         /\ mn2[Len(mn) + 1].ops = b /\ mn2[Len(mn) + 1].seq = Len(mn) + 1
         /\ \A n \in DOMAIN mn : mn2[n] = mn[n]
<1>1. PICK m : m = [seq |-> Len(mn) + 1, ops |-> b]
  OBVIOUS
<1>2. m \in Markers /\ m.ops = b /\ m.seq = Len(mn) + 1
  BY <1>1 DEF Markers
<1>3. mn2 = Append(mn, m)
  BY <1>1 DEF Grows
<1>. QED BY <1>2, <1>3, AppendShape

(* The operations of the longer file: those of the shorter one and the batch. *)
LEMMA GrowsOps ==
  ASSUME Copies = {}, NEW mn \in Seq(Markers), NEW b \in Batches, NEW mn2, Grows(mn, mn2, b),
         NEW id, NEW K
  PROVE  /\ \A p \in Ops(mn, id, K) :
              p \in Ops(mn2, id, K) /\ Op(mn2, p) = Op(mn, p) /\ p[1] <= Len(mn)
         /\ \A i \in DOMAIN b : b[i].id = id /\ b[i].kind \in K =>
              <<Len(mn) + 1, i>> \in Ops(mn2, id, K)
         /\ \A i \in DOMAIN b : Op(mn2, <<Len(mn) + 1, i>>) = b[i]
         /\ \A p \in Ops(mn2, id, K) :
              \/ p \in Ops(mn, id, K)
              \/ \E i \in DOMAIN b : p = <<Len(mn) + 1, i>> /\ b[i].id = id /\ b[i].kind \in K
<1>. DEFINE N == Len(mn)
<1>0. /\ N \in Nat /\ DOMAIN mn = 1..N /\ DOMAIN mn2 = 1..(N + 1) /\ mn2[N + 1].ops = b
      /\ \A n \in DOMAIN mn : mn2[n] = mn[n]
  BY GrowsShape
<1>1. DOMAIN b \subseteq 1..WriteBound
  BY BatchShape, StoreAssumption
<1>. HIDE DEF N
<1>2. ASSUME NEW p \in Ops(mn, id, K)
      PROVE  p \in Ops(mn2, id, K) /\ Op(mn2, p) = Op(mn, p) /\ p[1] <= N
  <2>1. p[1] \in DOMAIN mn /\ p \in (DOMAIN mn) \X (1..WriteBound)
    BY DEF Ops
  <2>2. Op(mn2, p) = Op(mn, p) /\ mn2[p[1]].ops = mn[p[1]].ops
    BY <1>0, <2>1 DEF Op
  <2>3. p \in (DOMAIN mn2) \X (1..WriteBound)
    BY <1>0, <2>1
  <2>. QED BY <1>0, <2>1, <2>2, <2>3 DEF Ops
<1>3. ASSUME NEW i \in DOMAIN b PROVE Op(mn2, <<N + 1, i>>) = b[i]
  BY <1>0 DEF Op
<1>4. ASSUME NEW i \in DOMAIN b, b[i].id = id, b[i].kind \in K PROVE <<N + 1, i>> \in Ops(mn2, id, K)
  <2>1. <<N + 1, i>> \in (DOMAIN mn2) \X (1..WriteBound)
    BY <1>0, <1>1
  <2>. QED BY <1>0, <1>3, <1>4, <2>1 DEF Ops
<1>5. ASSUME NEW p \in Ops(mn2, id, K)
      PROVE  \/ p \in Ops(mn, id, K)
             \/ \E i \in DOMAIN b : p = <<N + 1, i>> /\ b[i].id = id /\ b[i].kind \in K
  <2>1. /\ p \in (DOMAIN mn2) \X (1..WriteBound) /\ p[2] \in DOMAIN mn2[p[1]].ops
        /\ Op(mn2, p).id = id /\ Op(mn2, p).kind \in K
    BY DEF Ops
  <2>2. p = <<p[1], p[2]>> /\ p[1] \in 1..(N + 1) /\ p[2] \in 1..WriteBound
    BY <1>0, <2>1
  <2>3. CASE p[1] = N + 1
    <3>1. p[2] \in DOMAIN b /\ p = <<N + 1, p[2]>>
      BY <1>0, <2>1, <2>2, <2>3
    <3>2. Op(mn2, p) = b[p[2]]
      BY <1>3, <3>1
    <3>. QED BY <2>1, <3>1, <3>2
  <2>4. CASE p[1] # N + 1
    <3>1. p[1] \in DOMAIN mn
      BY <1>0, <2>2, <2>4
    <3>2. mn2[p[1]] = mn[p[1]]
      BY <1>0, <3>1
    <3>3. p \in (DOMAIN mn) \X (1..WriteBound)
      BY <2>2, <3>1
    <3>. QED BY <2>1, <3>2, <3>3 DEF Ops, Op
  <2>. QED BY <2>3, <2>4
<1>. QED BY <1>2, <1>3, <1>4, <1>5 DEF N

LEMMA DocGrows ==
  ASSUME Copies = {}, NEW mn \in Seq(Markers), NEW b \in Batches, NEW mn2, Grows(mn, mn2, b),
         NEW rf, NEW z, NEW d \in Docs, Legit(rf, b), DocFits(mn, rf, d),
         TracedDoc(rf, z, b, Len(b), d)
  PROVE  DocFits(mn2, z, d)
<1>. DEFINE N == Len(mn)
            New(i) == i \in DOMAIN b /\ OnDoc(b[i], d)
<1>0. N \in Nat /\ DOMAIN b = 1..Len(b) /\ Len(b) \in Nat
  BY BatchShape
<1>1. ASSUME NEW K, K \subseteq DocKinds, NEW p \in Ops(mn2, d, K)
      PROVE  \/ p \in Ops(mn, d, K)
             \/ \E i \in DOMAIN b : p = <<N + 1, i>> /\ New(i) /\ b[i].kind \in K
  <2>1. \/ p \in Ops(mn, d, K)
        \/ \E i \in DOMAIN b : p = <<N + 1, i>> /\ b[i].id = d /\ b[i].kind \in K
    BY GrowsOps
  <2>. QED BY <1>1, <2>1 DEF OnDoc
<1>2. ASSUME NEW K, NEW p \in Ops(mn, d, K)
      PROVE  /\ Op(mn2, p) = Op(mn, p) /\ p[1] \in Nat /\ p[2] \in Nat /\ p[1] <= N
             /\ p \in Ops(mn2, d, K)
             /\ K \subseteq DocKinds => p \in Ops(mn, d, DocKinds)
  <2>1. Op(mn2, p) = Op(mn, p) /\ p[1] <= N /\ p \in Ops(mn2, d, K)
    BY GrowsOps
  <2>2. p[1] \in Nat /\ p[2] \in Nat
    BY OpsShape
  <2>. QED BY <2>1, <2>2 DEF Ops
<1>3. ASSUME NEW i, New(i)
      PROVE  /\ Op(mn2, <<N + 1, i>>) = b[i] /\ i \in 1..Len(b) /\ i \in Nat
             /\ \A K : b[i].kind \in K => <<N + 1, i>> \in Ops(mn2, d, K)
  <2>1. i \in DOMAIN b /\ b[i].id = d
    BY <1>3 DEF OnDoc
  <2>2. ASSUME NEW K, b[i].kind \in K PROVE <<N + 1, i>> \in Ops(mn2, d, K)
    BY <2>1, <2>2, GrowsOps
  <2>3. Op(mn2, <<N + 1, i>>) = b[i]
    BY <2>1, GrowsOps
  <2>. QED BY <1>0, <2>1, <2>2, <2>3
<1>4. ASSUME NEW i, New(i)
      PROVE  /\ rf.docs[d].retired = 0
             /\ b[i].kind = "create" => rf.docs[d].created = 0
             /\ b[i].kind \in {"base", "delta"} => rf.docs[d].created # 0
             /\ b[i].kind = "retire" =>
                  rf.docs[d].created # 0 \/ \E j \in 1..(i - 1) : OnDoc(b[j], d) /\ b[j].kind = "create"
             /\ \A j \in 1..(i - 1) : OnDoc(b[j], d) => b[j].kind = "create" /\ b[i].kind = "retire"
  BY <1>4 DEF Legit
<1>5. ASSUME NEW i, NEW j, New(i), New(j), i < j PROVE b[i].kind = "create" /\ b[j].kind = "retire"
  <2>1. i \in 1..(j - 1)
    BY <1>3, <1>5
  <2>. QED BY <2>1, <1>4, <1>5
<1>. HIDE DEF New, N
<1>6. ASSUME NEW p \in Ops(mn2, d, DocKinds), NEW q \in Ops(mn2, d, DocKinds), p[1] = q[1], p[2] < q[2]
      PROVE  Op(mn2, p).kind = "create" /\ Op(mn2, q).kind = "retire"
  <2>1. CASE p \in Ops(mn, d, DocKinds)
    <3>1. q \in Ops(mn, d, DocKinds)
      BY <1>0, <1>1, <1>2, <1>6, <2>1
    <3>. QED BY <1>2, <1>6, <2>1, <3>1 DEF DocFits
  <2>2. ASSUME NEW i \in DOMAIN b, p = <<N + 1, i>>, New(i)
        PROVE  Op(mn2, p).kind = "create" /\ Op(mn2, q).kind = "retire"
    <3>1. q \notin Ops(mn, d, DocKinds)
      BY <1>0, <1>2, <1>6, <2>2
    <3>2. PICK j \in DOMAIN b : q = <<N + 1, j>> /\ New(j)
      BY <1>1, <3>1
    <3>. QED BY <1>3, <1>5, <1>6, <2>2, <3>2
  <2>. QED BY <1>1, <2>1, <2>2
<1>7. ASSUME NEW p \in Ops(mn2, d, {"create"}), NEW q \in Ops(mn2, d, DocKinds)
      PROVE  q = p \/ Before(p, q)
  <2>0. {"create"} \subseteq DocKinds
    BY DEF DocKinds
  <2>1. CASE p \in Ops(mn, d, {"create"})
    <3>1. CASE q \in Ops(mn, d, DocKinds)
      BY <2>1, <3>1 DEF DocFits
    <3>2. ASSUME NEW j \in DOMAIN b, q = <<N + 1, j>> PROVE Before(p, q)
      BY <1>0, <1>2, <2>1, <3>2 DEF Before
    <3>. QED BY <1>1, <3>1, <3>2
  <2>2. ASSUME NEW i \in DOMAIN b, p = <<N + 1, i>>, New(i), b[i].kind = "create"
        PROVE  q = p \/ Before(p, q)
    <3>1. q \notin Ops(mn, d, DocKinds)
      BY <1>4, <2>2 DEF DocFits, Exists
    <3>2. PICK j \in DOMAIN b : q = <<N + 1, j>> /\ New(j)
      BY <1>1, <3>1
    <3>3. ~(j < i)
      BY <1>5, <2>2, <3>2
    <3>4. i \in Nat /\ j \in Nat
      BY <1>0
    <3>. QED BY <1>0, <2>2, <3>2, <3>3, <3>4 DEF Before
  <2>. QED BY <1>1, <2>0, <2>1, <2>2
<1>8. ASSUME NEW p \in Ops(mn2, d, {"retire"}), NEW q \in Ops(mn2, d, DocKinds)
      PROVE  q = p \/ Before(q, p)
  <2>0. {"retire"} \subseteq DocKinds
    BY DEF DocKinds
  <2>1. CASE p \in Ops(mn, d, {"retire"})
    <3>1. ASSUME NEW j, New(j) PROVE FALSE
      <4>1. rf.docs[d].retired = 0
        BY <1>4, <3>1
      <4>2. rf.docs[d].retired # 0
        BY <2>1 DEF DocFits, Retired
      <4>. QED BY <4>1, <4>2
    <3>2. q \in Ops(mn, d, DocKinds)
      BY <1>1, <3>1
    <3>. QED BY <2>1, <3>2 DEF DocFits
  <2>2. ASSUME NEW i \in DOMAIN b, p = <<N + 1, i>>, New(i), b[i].kind = "retire"
        PROVE  q = p \/ Before(q, p)
    <3>1. CASE q \in Ops(mn, d, DocKinds)
      BY <1>0, <1>2, <2>2, <3>1 DEF Before
    <3>2. ASSUME NEW j \in DOMAIN b, q = <<N + 1, j>>, New(j) PROVE q = p \/ Before(q, p)
      <4>1. ~(i < j)
        BY <1>5, <2>2, <3>2
      <4>2. i \in Nat /\ j \in Nat
        BY <1>0
      <4>. QED BY <1>0, <2>2, <3>2, <4>1, <4>2 DEF Before
    <3>. QED BY <1>1, <3>1, <3>2
  <2>. QED BY <1>1, <2>0, <2>1, <2>2
<1>9. ASSUME Ops(mn2, d, DocKinds) # {} PROVE Exists(z, d)
  <2>1. rf.docs[d].created # 0 \/ (\E i \in 1..Len(b) : OnDoc(b[i], d) /\ b[i].kind = "create")
    <3>1. CASE Ops(mn, d, DocKinds) # {}
      BY <3>1 DEF DocFits, Exists
    <3>2. ASSUME NEW i, New(i)
          PROVE  rf.docs[d].created # 0 \/ (\E j \in 1..Len(b) : OnDoc(b[j], d) /\ b[j].kind = "create")
      <4>1. b[i].kind \in DocKinds /\ OnDoc(b[i], d) /\ i \in 1..Len(b)
        BY <1>3, <3>2 DEF New, OnDoc
      <4>2. CASE b[i].kind = "create"
        BY <4>1, <4>2
      <4>3. CASE b[i].kind \in {"base", "delta"}
        BY <1>4, <3>2, <4>3
      <4>4. CASE b[i].kind = "retire"
        BY <1>0, <1>4, <3>2, <4>1, <4>4
      <4>. QED BY <4>1, <4>2, <4>3, <4>4 DEF DocKinds
    <3>. QED BY <1>1, <1>9, <3>1, <3>2
  <2>. QED BY <2>1 DEF TracedDoc, Exists
<1>10. ASSUME Exists(z, d) PROVE Ops(mn2, d, {"create"}) # {}
  <2>1. CASE rf.docs[d].created # 0
    BY <1>2, <2>1 DEF DocFits, Exists
  <2>2. ASSUME NEW i \in 1..Len(b), OnDoc(b[i], d), b[i].kind = "create" PROVE Ops(mn2, d, {"create"}) # {}
    BY <1>0, <1>3, <2>2 DEF New
  <2>. QED BY <1>10, <2>1, <2>2 DEF TracedDoc, Exists
<1>11. Retired(z, d) <=> Ops(mn2, d, {"retire"}) # {}
  <2>0. {"retire"} \subseteq DocKinds
    BY DEF DocKinds
  <2>1. ASSUME Retired(z, d) PROVE Ops(mn2, d, {"retire"}) # {}
    <3>1. CASE rf.docs[d].retired # 0
      BY <1>2, <3>1 DEF DocFits, Retired
    <3>2. ASSUME NEW i \in 1..Len(b), OnDoc(b[i], d), b[i].kind = "retire" PROVE Ops(mn2, d, {"retire"}) # {}
      BY <1>0, <1>3, <3>2 DEF New
    <3>. QED BY <2>1, <3>1, <3>2 DEF TracedDoc, Retired
  <2>2. ASSUME NEW p \in Ops(mn2, d, {"retire"}) PROVE Retired(z, d)
    <3>1. CASE p \in Ops(mn, d, {"retire"})
      BY <3>1 DEF DocFits, Retired, TracedDoc
    <3>2. ASSUME NEW i \in DOMAIN b, New(i), b[i].kind = "retire" PROVE Retired(z, d)
      BY <1>0, <3>2 DEF New, TracedDoc, Retired
    <3>. QED BY <1>1, <2>0, <3>1, <3>2
  <2>. QED BY <2>1, <2>2
<1>. QED BY <1>6, <1>7, <1>8, <1>9, <1>10, <1>11 DEF DocFits


LEMMA TaskGrows ==
  ASSUME Copies = {}, NEW mn \in Seq(Markers), NEW b \in Batches, NEW mn2, Grows(mn, mn2, b),
         NEW rf, NEW z, NEW t \in Tasks, TaskFits(mn, rf, t), TracedTask(rf, z, b, Len(b), t)
  PROVE  TaskFits(mn2, z, t)
<1>. DEFINE N == Len(mn)
            New(i) == i \in DOMAIN b /\ OnTask(b[i], t)
<1>0. N \in Nat /\ DOMAIN b = 1..Len(b) /\ Len(b) \in Nat
  BY BatchShape
<1>1. ASSUME NEW p \in Ops(mn2, t, TaskKinds)
      PROVE  p \in Ops(mn, t, TaskKinds) \/ \E i \in DOMAIN b : p = <<N + 1, i>> /\ New(i)
  <2>1. \/ p \in Ops(mn, t, TaskKinds)
        \/ \E i \in DOMAIN b : p = <<N + 1, i>> /\ b[i].id = t /\ b[i].kind \in TaskKinds
    BY GrowsOps
  <2>. QED BY <2>1 DEF OnTask
<1>2. ASSUME NEW p \in Ops(mn, t, TaskKinds)
      PROVE  /\ Op(mn2, p) = Op(mn, p) /\ p[1] \in Nat /\ p[2] \in Nat /\ p[1] <= N
             /\ p \in Ops(mn2, t, TaskKinds)
  <2>1. Op(mn2, p) = Op(mn, p) /\ p[1] <= N /\ p \in Ops(mn2, t, TaskKinds)
    BY GrowsOps
  <2>2. p[1] \in Nat /\ p[2] \in Nat
    BY OpsShape
  <2>. QED BY <2>1, <2>2
<1>3. ASSUME NEW i, New(i)
      PROVE  /\ Op(mn2, <<N + 1, i>>) = b[i] /\ i \in 1..Len(b)
             /\ <<N + 1, i>> \in Ops(mn2, t, TaskKinds)
  <2>1. i \in DOMAIN b /\ b[i].id = t /\ b[i].kind \in TaskKinds
    BY <1>3 DEF OnTask
  <2>2. <<N + 1, i>> \in Ops(mn2, t, TaskKinds)
    BY <2>1, GrowsOps
  <2>3. Op(mn2, <<N + 1, i>>) = b[i]
    BY <2>1, GrowsOps
  <2>. QED BY <1>0, <2>1, <2>2, <2>3
<1>. HIDE DEF N, New
<1>4. CASE (\A i \in 1..Len(b) : ~OnTask(b[i], t)) /\ z.tasks[t] = rf.tasks[t]
  <2>1. \A i : ~New(i)
    BY <1>0, <1>4 DEF New
  <2>2. \A p : p \in Ops(mn2, t, TaskKinds) <=> p \in Ops(mn, t, TaskKinds)
    BY <1>1, <1>2, <2>1
  <2>3. CASE Ops(mn, t, TaskKinds) = {} /\ rf.tasks[t].status = "none"
    BY <1>4, <2>2, <2>3 DEF TaskFits
  <2>4. CASE \E p \in Ops(mn, t, TaskKinds) : Ends(mn, t, p) /\ rf.tasks[t].status = Op(mn, p).kind
    <3>1. PICK p \in Ops(mn, t, TaskKinds) : Ends(mn, t, p) /\ rf.tasks[t].status = Op(mn, p).kind
      BY <2>4
    <3>2. Ends(mn2, t, p)
      BY <2>2, <3>1 DEF Ends
    <3>. QED BY <1>2, <1>4, <2>2, <3>1, <3>2 DEF TaskFits
  <2>. QED BY <2>3, <2>4 DEF TaskFits
<1>5. CASE \E i \in 1..Len(b) : /\ OnTask(b[i], t) /\ z.tasks[t].status = b[i].kind
                                /\ \A k \in (i + 1)..Len(b) : ~OnTask(b[k], t)
  <2>1. PICK i \in 1..Len(b) : /\ OnTask(b[i], t) /\ z.tasks[t].status = b[i].kind
                               /\ \A k \in (i + 1)..Len(b) : ~OnTask(b[k], t)
    BY <1>5
  <2>2. New(i)
    BY <1>0, <2>1 DEF New
  <2>3. ASSUME NEW q \in Ops(mn2, t, TaskKinds) PROVE q = <<N + 1, i>> \/ Before(q, <<N + 1, i>>)
    <3>1. CASE q \in Ops(mn, t, TaskKinds)
      BY <1>0, <1>2, <3>1 DEF Before
    <3>2. ASSUME NEW k \in DOMAIN b, q = <<N + 1, k>>, New(k) PROVE q = <<N + 1, i>> \/ Before(q, <<N + 1, i>>)
      <4>1. ~(i < k)
        BY <1>0, <2>1, <3>2 DEF New
      <4>. QED BY <1>0, <2>1, <3>2, <4>1 DEF Before
    <3>. QED BY <1>1, <3>1, <3>2
  <2>4. Ends(mn2, t, <<N + 1, i>>)
    BY <1>3, <2>2, <2>3 DEF Ends
  <2>. QED BY <1>3, <2>1, <2>2, <2>4 DEF TaskFits
<1>. QED BY <1>4, <1>5 DEF TracedTask

LEMMA MainGrows ==
  ASSUME Copies = {}, NEW mn, NEW rf, MainFits(mn, rf), NEW b \in Batches, Legit(rf, b),
         NEW mn2, Grows(mn, mn2, b), NEW z, z = ApplyBatch(rf, b, Len(mn) + 1)
  PROVE  /\ MainFits(mn2, z)
         /\ \A d \in Docs : TracedDoc(rf, z, b, Len(b), d)
         /\ \A t \in Tasks : TracedTask(rf, z, b, Len(b), t)
<1>. DEFINE N == Len(mn)
<1>0. mn \in Seq(Markers) /\ rf \in States /\ rf.nextSeq = N + 1
  BY DEF MainFits, MarkersFit
<1>1. /\ mn2 \in Seq(Markers) /\ N \in Nat /\ Len(mn2) = N + 1
      /\ DOMAIN mn = 1..N /\ DOMAIN mn2 = 1..(N + 1)
      /\ mn2[N + 1].ops = b /\ mn2[N + 1].seq = N + 1
      /\ \A n \in DOMAIN mn : mn2[n] = mn[n]
  BY <1>0, GrowsShape
<1>. HIDE DEF N
<1>2. PICK f : f = Applied(rf, b, N + 1)
  OBVIOUS
<1>3. Steps(f, rf, b, N + 1)
  BY <1>0, <1>1, <1>2, AppliedSteps
<1>4. /\ z \in States /\ z.docs = f[Len(b)].docs /\ z.tasks = f[Len(b)].tasks
      /\ z.nextSeq = (N + 1) + 1
  BY <1>0, <1>1, <1>2, <1>3, BatchEnd DEF N
<1>5. Len(b) \in Nat /\ Len(b) \in 0..Len(b)
  BY BatchShape
<1>6. /\ \A d \in Docs : TracedDoc(rf, f[Len(b)], b, Len(b), d)
      /\ \A t \in Tasks : TracedTask(rf, f[Len(b)], b, Len(b), t)
  <2>1. N + 1 # 0 /\ N + 1 \in Nat
    BY <1>1
  <2>. QED BY <2>1, <1>0, <1>3, <1>5, BatchTrace
<1>7. /\ \A d \in Docs : TracedDoc(rf, z, b, Len(b), d)
      /\ \A t \in Tasks : TracedTask(rf, z, b, Len(b), t)
  BY <1>4, <1>6 DEF TracedDoc, TracedTask
<1>8. ASSUME NEW d \in Docs PROVE DocFits(mn2, z, d)
  <2>1. DocFits(mn, rf, d) /\ TracedDoc(rf, z, b, Len(b), d)
    BY <1>7 DEF MainFits, MarkersFit
  <2>. QED BY <1>0, <2>1, DocGrows
<1>9. ASSUME NEW t \in Tasks PROVE TaskFits(mn2, z, t)
  <2>1. TaskFits(mn, rf, t) /\ TracedTask(rf, z, b, Len(b), t)
    BY <1>7 DEF MainFits, MarkersFit
  <2>. QED BY <1>0, <2>1, TaskGrows
<1>10. \A n \in DOMAIN mn2 : mn2[n].seq = n
  <2>1. \A n \in DOMAIN mn : mn[n].seq = n
    BY DEF MainFits, MarkersFit
  <2>2. ASSUME NEW n \in 1..(N + 1) PROVE n \in 1..N \/ n = N + 1
    BY <1>1
  <2>. QED BY <1>1, <2>1, <2>2
<1>11. \E h : Promises(h, mn2) /\ z = h[Len(mn2)]
  <2>1. PICK h : Promises(h, mn) /\ rf = h[N]
    BY DEF MainFits, MarkersFit, N
  <2>. DEFINE Step(x, n) == ApplyBatch(x, mn[n].ops, mn[n].seq)
              Step2(x, n) == ApplyBatch(x, mn2[n].ops, mn2[n].seq)
              h2 == [n \in 0..(N + 1) |-> IF n = N + 1 THEN z ELSE h[n]]
  <2>2. h = [n \in 0..N |-> IF n = 0 THEN Empty ELSE Step(h[n - 1], n)]
    BY <2>1, Zenon DEF Promises, N
  <2>3. ASSUME NEW n \in DOMAIN mn, NEW x PROVE Step2(x, n) = Step(x, n)
    BY <1>1
  <2>4. z = Step2(rf, N + 1)
    BY <1>1 DEF N
  <2>. HIDE DEF Step, Step2
  <2>5. h2[0] = Empty /\ h2[N + 1] = z
    BY <1>1, <2>2
  <2>6. ASSUME NEW n \in 1..(N + 1) PROVE h2[n] = Step2(h2[n - 1], n)
    <3>1. CASE n = N + 1
      BY <1>1, <2>1, <2>4, <3>1
    <3>2. CASE n # N + 1
      <4>1. n \in 1..N /\ n - 1 \in 0..N /\ n \in 0..N /\ n # 0 /\ n - 1 # N + 1
        BY <1>1, <3>2
      <4>2. h[n] = Step(h[n - 1], n)
        BY <2>2, <4>1
      <4>3. h2[n] = h[n] /\ h2[n - 1] = h[n - 1]
        BY <1>1, <4>1
      <4>. QED BY <1>1, <2>3, <4>1, <4>2, <4>3
    <3>. QED BY <3>1, <3>2
  <2>7. h2 = [n \in 0..(N + 1) |-> IF n = 0 THEN Empty ELSE Step2(h2[n - 1], n)]
    <3>1. DOMAIN h2 = 0..(N + 1) /\ h2 = [n \in 0..(N + 1) |-> h2[n]]
      OBVIOUS
    <3>. HIDE DEF h2
    <3>2. ASSUME NEW n \in 0..(N + 1) PROVE h2[n] = IF n = 0 THEN Empty ELSE Step2(h2[n - 1], n)
      <4>1. n = 0 \/ n \in 1..(N + 1)
        BY <1>1
      <4>2. CASE n = 0
        BY <2>5, <4>2
      <4>3. CASE n # 0
        BY <2>6, <4>1, <4>3
      <4>. QED BY <4>2, <4>3
    <3>. QED BY <3>1, <3>2, Zenon
  <2>8. Promises(h2, mn2)
    <3>. HIDE DEF h2
    <3>. QED BY <1>1, <2>7, Zenon DEF Promises, Step2
  <2>. HIDE DEF h2
  <2>. QED BY <1>1, <2>5, <2>8
<1>12. MainFits(mn2, z)
  BY <1>1, <1>4, <1>8, <1>9, <1>10, <1>11 DEF MainFits, MarkersFit
<1>. QED BY <1>7, <1>12

(* A marker is added: the files already hold the lines of its batch. *)
Commits(mn, rf, b, mn2, z) ==
  /\ MainFits(mn, rf) /\ b \in Batches /\ Legit(rf, b) /\ TasksOpen(rf, b) /\ Grows(mn, mn2, b)
  /\ \A d \in Docs : TracedDoc(rf, z, b, Len(b), d)
  /\ \A t \in Tasks : TracedTask(rf, z, b, Len(b), t)

LEMMA CommitShape ==
  ASSUME Copies = {}, NEW mn, NEW rf, NEW b, NEW mn2, NEW z, Commits(mn, rf, b, mn2, z)
  PROVE  /\ mn \in Seq(Markers) /\ mn2 \in Seq(Markers) /\ Len(mn) \in Nat /\ Len(mn2) = Len(mn) + 1
         /\ b \in Batches /\ Grows(mn, mn2, b) /\ Len(b) \in Nat /\ DOMAIN b = 1..Len(b)
         /\ \A i \in DOMAIN b : Shaped(b[i])
<1>1. mn \in Seq(Markers) /\ b \in Batches /\ Grows(mn, mn2, b)
  BY DEF Commits, MainFits, MarkersFit
<1>2. Len(b) \in Nat /\ DOMAIN b = 1..Len(b) /\ \A i \in DOMAIN b : Shaped(b[i])
  BY <1>1, BatchShape
<1>. QED BY <1>1, <1>2, GrowsShape

LEMMA GoesToShape ==
  ASSUME NEW w, Shaped(w), NEW f
  PROVE  /\ GoesTo(w, f) <=> w.kind \in SideKinds /\ w.id = f
         /\ f \in Docs => (OnDoc(w, f) <=> w.id = f)
         /\ f \in Tasks => (OnTask(w, f) <=> w.id = f)
BY IdShape DEF GoesTo, HasSidecar, Shaped, SideKinds, DocKinds, TaskKinds, OnDoc, OnTask

LEMMA NewestGrows ==
  ASSUME Copies = {}, NEW mn, NEW rf, NEW b, NEW mn2, NEW z, Commits(mn, rf, b, mn2, z),
         NEW d \in Docs
  PROVE  /\ \A i \in DOMAIN b : OnDoc(b[i], d) /\ b[i].kind \in BaseKinds =>
              Newest(mn2, d, <<Len(mn) + 1, i>>)
         /\ (\A i \in DOMAIN b : OnDoc(b[i], d) => b[i].kind \notin BaseKinds) =>
              \A c : Newest(mn, d, c) => Newest(mn2, d, c)
         /\ (\A i \in DOMAIN b : OnDoc(b[i], d) => b[i].kind # "retire") =>
              \A i, k \in DOMAIN b : OnDoc(b[i], d) /\ OnDoc(b[k], d) => i = k
<1>. DEFINE N == Len(mn)
<1>0. /\ mn \in Seq(Markers) /\ N \in Nat /\ b \in Batches /\ Grows(mn, mn2, b)
      /\ DOMAIN b = 1..Len(b) /\ Len(b) \in Nat
  BY CommitShape
<1>. HIDE DEF N
<1>1. ASSUME NEW p \in Ops(mn2, d, BaseKinds)
      PROVE  \/ p \in Ops(mn, d, BaseKinds)
             \/ \E i \in DOMAIN b : p = <<N + 1, i>> /\ OnDoc(b[i], d) /\ b[i].kind \in BaseKinds
  <2>1. \/ p \in Ops(mn, d, BaseKinds)
        \/ \E i \in DOMAIN b : p = <<N + 1, i>> /\ b[i].id = d /\ b[i].kind \in BaseKinds
    BY <1>0, GrowsOps DEF N
  <2>. QED BY <2>1 DEF OnDoc, BaseKinds, DocKinds
<1>2. ASSUME NEW p \in Ops(mn, d, BaseKinds) 
      PROVE  p \in Ops(mn2, d, BaseKinds) /\ p[1] \in Nat /\ p[2] \in Nat /\ p[1] <= N
  <2>1. p[1] \in Nat /\ p[2] \in Nat
    BY <1>0, OpsShape
  <2>2. p \in Ops(mn2, d, BaseKinds) /\ p[1] <= N
    BY <1>0, GrowsOps DEF N
  <2>. QED BY <2>1, <2>2
<1>3. \A i, j \in DOMAIN b : OnDoc(b[i], d) /\ OnDoc(b[j], d) /\ i < j =>
        b[i].kind = "create" /\ b[j].kind = "retire"
  <2>1. ASSUME NEW i \in DOMAIN b, NEW j \in DOMAIN b, OnDoc(b[i], d), OnDoc(b[j], d), i < j
        PROVE  b[i].kind = "create" /\ b[j].kind = "retire"
    <3>1. i \in 1..(j - 1)
      BY <1>0, <2>1
    <3>. QED BY <2>1, <3>1 DEF Commits, Legit
  <2>. QED BY <2>1
<1>4. ASSUME NEW i \in DOMAIN b, OnDoc(b[i], d), b[i].kind \in BaseKinds
      PROVE  Newest(mn2, d, <<N + 1, i>>)
  <2>1. <<N + 1, i>> \in Ops(mn2, d, BaseKinds)
    BY <1>0, <1>4, GrowsOps DEF OnDoc, N
  <2>2. ASSUME NEW q \in Ops(mn2, d, BaseKinds) PROVE ~Before(<<N + 1, i>>, q)
    <3>1. CASE q \in Ops(mn, d, BaseKinds)
      BY <1>0, <1>2, <3>1 DEF Before
    <3>2. ASSUME NEW k \in DOMAIN b, q = <<N + 1, k>>, OnDoc(b[k], d), b[k].kind \in BaseKinds
          PROVE  ~Before(<<N + 1, i>>, q)
      <4>1. ~(i < k)
        BY <1>3, <1>4, <3>2 DEF BaseKinds
      <4>. QED BY <1>0, <3>2, <4>1 DEF Before
    <3>. QED BY <1>1, <3>1, <3>2
  <2>. QED BY <2>1, <2>2 DEF Newest
<1>5. ASSUME \A i \in DOMAIN b : OnDoc(b[i], d) => b[i].kind \notin BaseKinds, NEW c, Newest(mn, d, c)
      PROVE  Newest(mn2, d, c)
  BY <1>1, <1>2, <1>5 DEF Newest
<1>6. ASSUME \A i \in DOMAIN b : OnDoc(b[i], d) => b[i].kind # "retire",
             NEW i \in DOMAIN b, NEW k \in DOMAIN b, OnDoc(b[i], d), OnDoc(b[k], d)
      PROVE  i = k
  BY <1>0, <1>3, <1>6
<1>. QED BY <1>4, <1>5, <1>6 DEF N

LEMMA AliveGrows ==
  ASSUME Copies = {}, NEW mn, NEW rf, NEW b, NEW mn2, NEW z, Commits(mn, rf, b, mn2, z),
         NEW d \in Docs
  PROVE  /\ AliveAt(z, d, Current) =>
              /\ \A i \in DOMAIN b : OnDoc(b[i], d) => b[i].kind # "retire"
              /\ AliveAt(rf, d, Current) \/ \E i \in DOMAIN b : OnDoc(b[i], d) /\ b[i].kind = "create"
         /\ (\A i \in DOMAIN b : OnDoc(b[i], d) => b[i].kind # "retire") =>
              /\ AliveAt(rf, d, Current) => AliveAt(z, d, Current)
              /\ (\E i \in DOMAIN b : OnDoc(b[i], d)) => AliveAt(z, d, Current)
         /\ (\E i \in DOMAIN b : OnDoc(b[i], d) /\ b[i].kind = "retire") => Retired(z, d)
<1>0. DOMAIN b = 1..Len(b)
  BY CommitShape
<1>1. TracedDoc(rf, z, b, Len(b), d)
  BY DEF Commits
<1>2. ASSUME NEW i \in DOMAIN b, OnDoc(b[i], d), b[i].kind # "retire"
      PROVE  rf.docs[d].retired = 0 /\ (b[i].kind # "create" => rf.docs[d].created # 0)
  <2>1. b[i].kind \in DocKinds
    BY <1>2 DEF OnDoc
  <2>. QED BY <1>2, <2>1 DEF Commits, Legit, DocKinds
<1>. QED BY <1>0, <1>1, <1>2 DEF TracedDoc, AliveAt, Exists, Retired, Current

LEMMA AppendedShape ==
  ASSUME Copies = {}, NEW mn, NEW rf, NEW b, NEW mn2, NEW z, Commits(mn, rf, b, mn2, z),
         NEW f \in Files, NEW q, FileFits(mn, rf, f, q), Appended(b, Len(mn) + 1, f, q)
  PROVE  /\ DOMAIN q = 1..Len(q)
         /\ \A j \in DOMAIN q :
              /\ q[j].seq \in Nat /\ q[j].ord \in Nat /\ q[j].seq <= Len(mn) + 1
              /\ q[j].seq <= Len(mn) => Key(q[j]) \in Ops(mn, f, SideKinds) /\ q[j] = LineOf(mn, Key(q[j]))
              /\ ~(q[j].seq <= Len(mn)) =>
                   /\ q[j].seq = Len(mn) + 1 /\ q[j].ord \in DOMAIN b
                   /\ b[q[j].ord].id = f /\ b[q[j].ord].kind \in SideKinds
                   /\ q[j] = Line(b[q[j].ord], Len(mn) + 1, q[j].ord)
         /\ \A i \in DOMAIN b : b[i].id = f /\ b[i].kind \in SideKinds => Has(q, <<Len(mn) + 1, i>>)
<1>0. Len(mn) \in Nat /\ \A i \in DOMAIN b : Shaped(b[i])
  BY CommitShape
<1>1. q \in Seq(Records) /\ DOMAIN q = 1..Len(q)
  BY DEF FileFits
<1>2. \A j \in DOMAIN q : q[j].seq \in Nat /\ q[j].ord \in Nat
  <2>1. \A j \in DOMAIN q : q[j] \in Records
    BY <1>1
  <2>. QED BY <2>1 DEF Records
<1>3. \A j \in DOMAIN q : RecordFits(mn, f, q[j])
  BY DEF FileFits
<1>4. \A i \in DOMAIN b : b[i].id = f /\ b[i].kind \in SideKinds <=> GoesTo(b[i], f)
  BY <1>0, GoesToShape
<1>5. \A j \in DOMAIN q : ~(q[j].seq <= Len(mn)) => q[j].seq = Len(mn) + 1
  BY <1>3 DEF RecordFits
<1>6. \A j \in DOMAIN q : q[j].seq <= Len(mn) => Key(q[j]) \in Ops(mn, f, SideKinds) /\ q[j] = LineOf(mn, Key(q[j]))
  BY <1>3 DEF RecordFits
<1>7. \A j \in DOMAIN q : q[j].seq = Len(mn) + 1 =>
        /\ q[j].ord \in DOMAIN b /\ GoesTo(b[q[j].ord], f)
        /\ q[j] = Line(b[q[j].ord], Len(mn) + 1, q[j].ord)
  BY DEF Appended
<1>8. \A i \in DOMAIN b : b[i].id = f /\ b[i].kind \in SideKinds => Has(q, <<Len(mn) + 1, i>>)
  BY <1>4 DEF Appended
<1>9. \A j \in DOMAIN q : q[j].seq <= Len(mn) + 1
  BY <1>0, <1>2, <1>5
<1>. QED BY <1>1, <1>2, <1>4, <1>5, <1>6, <1>7, <1>8, <1>9

LEMMA SideGrows ==
  ASSUME Copies = {}, NEW mn, NEW rf, NEW b, NEW mn2, NEW z, Commits(mn, rf, b, mn2, z),
         NEW f \in Files, NEW q, FileFits(mn, rf, f, q), Appended(b, Len(mn) + 1, f, q)
  PROVE  FileFits(mn2, z, f, q) /\ NoTail(mn2, q)
<1>. DEFINE N == Len(mn)
            s == N + 1
<1>0. /\ mn \in Seq(Markers) /\ N \in Nat /\ b \in Batches /\ Grows(mn, mn2, b)
      /\ DOMAIN b = 1..Len(b) /\ Len(b) \in Nat /\ Len(mn2) = N + 1 /\ s \in Nat
      /\ \A i \in DOMAIN b : Shaped(b[i])
  BY CommitShape
<1>1. /\ \A j \in DOMAIN q :
            /\ q[j].seq \in Nat /\ q[j].ord \in Nat /\ q[j].seq <= s
            /\ q[j].seq <= N => Key(q[j]) \in Ops(mn, f, SideKinds) /\ q[j] = LineOf(mn, Key(q[j]))
            /\ ~(q[j].seq <= N) =>
                 /\ q[j].seq = s /\ q[j].ord \in DOMAIN b
                 /\ b[q[j].ord].id = f /\ b[q[j].ord].kind \in SideKinds
                 /\ q[j] = Line(b[q[j].ord], s, q[j].ord)
      /\ \A i \in DOMAIN b : b[i].id = f /\ b[i].kind \in SideKinds => Has(q, <<s, i>>)
  BY AppendedShape
<1>2. q \in Seq(Records) /\ Sorted(q)
  BY DEF FileFits
<1>3. /\ \A K : \A p \in Ops(mn, f, K) : p \in Ops(mn2, f, K) /\ Op(mn2, p) = Op(mn, p) /\ p[1] <= N
      /\ \A K : \A i \in DOMAIN b : b[i].id = f /\ b[i].kind \in K => <<s, i>> \in Ops(mn2, f, K)
      /\ \A i \in DOMAIN b : Op(mn2, <<s, i>>) = b[i]
      /\ \A K : \A p \in Ops(mn2, f, K) :
           \/ p \in Ops(mn, f, K)
           \/ \E i \in DOMAIN b : p = <<s, i>> /\ b[i].id = f /\ b[i].kind \in K
  BY <1>0, GrowsOps
<1>. HIDE DEF N, s
<1>4. ASSUME NEW j \in DOMAIN q PROVE RecordFits(mn2, f, q[j]) /\ q[j].seq <= Len(mn2)
  <2>1. q[j].seq <= Len(mn2)
    BY <1>0, <1>1 DEF s
  <2>2. CASE q[j].seq <= N
    <3>1. Key(q[j]) \in Ops(mn, f, SideKinds) /\ q[j] = LineOf(mn, Key(q[j]))
      BY <1>1, <2>2
    <3>2. PICK p : p = Key(q[j])
      OBVIOUS
    <3>3. p \in Ops(mn2, f, SideKinds) /\ LineOf(mn2, p) = LineOf(mn, p)
      BY <1>3, <3>1, <3>2 DEF LineOf
    <3>. QED BY <2>1, <3>1, <3>2, <3>3 DEF RecordFits
  <2>3. CASE ~(q[j].seq <= N)
    <3>1. PICK i : i = q[j].ord
      OBVIOUS
    <3>2. i \in DOMAIN b /\ b[i].id = f /\ b[i].kind \in SideKinds /\ q[j] = Line(b[i], s, i) /\ q[j].seq = s
      BY <1>1, <2>3, <3>1
    <3>3. Key(q[j]) = <<s, i>>
      BY <3>1, <3>2 DEF Key
    <3>4. <<s, i>> \in Ops(mn2, f, SideKinds) /\ Op(mn2, <<s, i>>) = b[i]
      BY <1>3, <3>2
    <3>5. Shaped(b[i]) /\ i \in Nat
      BY <1>0, <3>2
    <3>6. q[j] = LineOf(mn2, <<s, i>>)
      <4>1. PICK w : w = b[i]
        OBVIOUS
      <4>2. Line(w, s, i) = [seq |-> s, ord |-> i, base |-> w.kind # "delta", ver |-> 1,
                             val |-> << <<s, i>> >>]
        <5>1. w.kind # "copy"
          BY <3>5, <4>1 DEF Shaped, DocKinds, TaskKinds
        <5>. QED BY <5>1 DEF Line
      <4>3. LineOf(mn2, <<s, i>>) = [seq |-> s, ord |-> i, base |-> w.kind # "delta", ver |-> 1,
                                     val |-> << <<s, i>> >>]
        BY <3>4, <4>1 DEF LineOf
      <4>. QED BY <3>2, <4>1, <4>2, <4>3
    <3>. QED BY <2>1, <3>3, <3>4, <3>6 DEF RecordFits
  <2>. QED BY <2>2, <2>3, <2>1
<1>5. ASSUME f \in Docs, AliveAt(z, f, Current) PROVE Covers(mn2, f, q)
  <2>0. BaseKinds \subseteq SideKinds
    BY DEF BaseKinds, SideKinds
  <2>1. /\ \A i \in DOMAIN b : OnDoc(b[i], f) => b[i].kind # "retire"
        /\ AliveAt(rf, f, Current) \/ \E i \in DOMAIN b : OnDoc(b[i], f) /\ b[i].kind = "create"
    BY <1>5, AliveGrows
  <2>2. \A i, k \in DOMAIN b : OnDoc(b[i], f) /\ OnDoc(b[k], f) => i = k
    BY <1>5, <2>1, NewestGrows
  <2>3. \A i \in DOMAIN b : OnDoc(b[i], f) <=> b[i].id = f
    BY <1>0, <1>5, GoesToShape
  <2>4. ASSUME NEW i \in DOMAIN b, OnDoc(b[i], f), b[i].kind \in BaseKinds PROVE Covers(mn2, f, q)
    <3>1. Newest(mn2, f, <<s, i>>)
      BY <1>5, <2>4, NewestGrows DEF s, N
    <3>2. ASSUME NEW p \in Ops(mn2, f, SideKinds) PROVE Before(p, <<s, i>>) \/ Has(q, p)
      <4>1. CASE p \in Ops(mn, f, SideKinds)
        <5>1. p[1] <= N /\ p[1] \in Nat
          BY <1>0, <1>3, <4>1, OpsShape
        <5>. QED BY <5>1, <1>0 DEF Before, s
      <4>2. CASE p \notin Ops(mn, f, SideKinds)
        BY <1>1, <1>3, <4>2
      <4>. QED BY <4>1, <4>2
    <3>. QED BY <3>1, <3>2 DEF Covers, Newest
  <2>5. CASE \A i \in DOMAIN b : OnDoc(b[i], f) => b[i].kind \notin BaseKinds
    <3>1. AliveAt(rf, f, Current)
      BY <2>1, <2>5 DEF BaseKinds
    <3>2. Covers(mn, f, q)
      BY <1>5, <3>1 DEF FileFits
    <3>3. PICK c \in Ops(mn, f, BaseKinds) :
            Newest(mn, f, c) /\ \A p \in Ops(mn, f, SideKinds) : Before(p, c) \/ Has(q, p)
      BY <3>2 DEF Covers
    <3>4. Newest(mn2, f, c)
      BY <1>5, <2>5, <3>3, NewestGrows
    <3>5. ASSUME NEW p \in Ops(mn2, f, SideKinds) PROVE Before(p, c) \/ Has(q, p)
      BY <1>1, <1>3, <3>3
    <3>. QED BY <3>4, <3>5 DEF Covers, Newest
  <2>. QED BY <2>4, <2>5
<1>6. ASSUME f \in Tasks, z.tasks[f].status = "live", NEW p \in Ops(mn2, f, {"live"}) PROVE Has(q, p)
  <2>0. {"live"} \subseteq TaskKinds /\ {"live"} \subseteq SideKinds
    BY DEF TaskKinds, SideKinds
  <2>1. CASE p \in Ops(mn, f, {"live"})
    <3>1. p \in Ops(mn, f, TaskKinds)
      BY <2>0, <2>1 DEF Ops
    <3>2. TaskFits(mn, rf, f)
      BY <1>6 DEF Commits, MainFits, MarkersFit
    <3>3. rf.tasks[f].status \in TaskKinds
      BY <3>1, <3>2 DEF TaskFits, Ops
    <3>4. rf.tasks[f].status # "terminal"
      <4>1. TracedTask(rf, z, b, Len(b), f) /\ TasksOpen(rf, b)
        BY <1>6 DEF Commits
      <4>2. CASE \E i \in 1..Len(b) : OnTask(b[i], f)
        BY <1>0, <1>6, <4>1, <4>2 DEF TasksOpen
      <4>3. CASE ~ \E i \in 1..Len(b) : OnTask(b[i], f)
        BY <1>6, <4>1, <4>3 DEF TracedTask
      <4>. QED BY <4>2, <4>3
    <3>5. rf.tasks[f].status = "live"
      BY <3>3, <3>4 DEF TaskKinds
    <3>. QED BY <1>6, <2>1, <3>5 DEF FileFits
  <2>2. CASE p \notin Ops(mn, f, {"live"})
    <3>1. PICK i \in DOMAIN b : p = <<s, i>> /\ b[i].id = f /\ b[i].kind \in {"live"}
      BY <1>3, <1>6, <2>2
    <3>. QED BY <1>1, <2>0, <3>1
  <2>. QED BY <2>1, <2>2
<1>7. NoTail(mn2, q)
  BY <1>4 DEF NoTail
<1>8. FileFits(mn2, z, f, q)
  BY <1>2, <1>4, <1>5, <1>6 DEF FileFits
<1>. QED BY <1>7, <1>8

(* The reclamations of the batch drop nothing that recovery needs. *)
LEMMA MaxShape ==
  ASSUME NEW S, NEW i \in S, i \in Nat, \A k \in S : k \in Nat /\ ~(i < k)
  PROVE  Max(S) = i
<1>1. \A k \in S : i >= k
  OBVIOUS
<1>2. Max(S) \in S /\ \A k \in S : Max(S) >= k
  <2>1. \E x \in S : \A y \in S : x >= y
    BY <1>1
  <2>. QED BY <2>1, Zenon DEF Max
<1>3. PICK m : m = Max(S)
  OBVIOUS
<1>4. m \in S /\ m >= i
  BY <1>2, <1>3
<1>5. m = i
  BY <1>4
<1>. QED BY <1>3, <1>5

LEMMA PlanGrows ==
  ASSUME Copies = {}, NEW mn, NEW rf, NEW b, NEW mn2, NEW z, Commits(mn, rf, b, mn2, z),
         NEW sd, \A f \in Files : FileFits(mn, rf, f, sd[f]) /\ Appended(b, Len(mn) + 1, f, sd[f]),
         NEW r \in Reclamations(b, Len(mn) + 1)
  PROVE  EntryFits(mn2, z, sd, r)
<1>. DEFINE N == Len(mn)
            s == N + 1
<1>0. /\ mn \in Seq(Markers) /\ N \in Nat /\ b \in Batches /\ Grows(mn, mn2, b)
      /\ DOMAIN b = 1..Len(b) /\ Len(b) \in Nat /\ Len(mn2) = N + 1 /\ s \in Nat
      /\ \A i \in DOMAIN b : Shaped(b[i])
  BY CommitShape
<1>1. <<>> \in Seq(Records) /\ Sorted(<<>>)
  BY DEF Sorted
<1>2. ASSUME NEW d \in Docs \ Rewindable, RetiredBy(b, d), r = [file |-> d, keep |-> <<>>]
      PROVE  EntryFits(mn2, z, sd, r)
  <2>1. PICK i \in DOMAIN b : b[i].id = d /\ b[i].kind = "retire"
    BY <1>2 DEF RetiredBy, Of
  <2>2. OnDoc(b[i], d)
    BY <2>1 DEF OnDoc, DocKinds
  <2>3. Retired(z, d)
    BY <1>2, <2>1, <2>2, AliveGrows
  <2>. QED BY <1>1, <1>2, <2>3 DEF EntryFits, Dead, Files
<1>3. ASSUME NEW t \in Tasks, FinalTerminal(b, t), r = [file |-> t, keep |-> <<>>]
      PROVE  EntryFits(mn2, z, sd, r)
  <2>. DEFINE is == Of(b, t, {"live", "terminal"})
  <2>1. is # {} /\ b[Max(is)].kind = "terminal"
    BY <1>3 DEF FinalTerminal
  <2>2. \A i : i \in is <=> i \in DOMAIN b /\ OnTask(b[i], t)
    BY DEF Of, OnTask, TaskKinds
  <2>. HIDE DEF is
  <2>3. PICK i \in 1..Len(b) : /\ OnTask(b[i], t) /\ z.tasks[t].status = b[i].kind
                               /\ \A k \in (i + 1)..Len(b) : ~OnTask(b[k], t)
    <3>1. TracedTask(rf, z, b, Len(b), t)
      BY <1>3 DEF Commits
    <3>. QED BY <1>0, <2>1, <2>2, <3>1 DEF TracedTask
  <2>4. Max(is) = i
    <3>1. i \in is /\ i \in Nat /\ \A k \in is : k \in Nat /\ ~(i < k)
      BY <1>0, <2>2, <2>3
    <3>. QED BY <3>1, MaxShape
  <2>5. z.tasks[t].status # "live"
    BY <2>1, <2>3, <2>4
  <2>. QED BY <1>1, <1>3, <2>5 DEF EntryFits, Dead, Files
<1>4. ASSUME NEW d \in Docs \ Rewindable, Of(b, d, {"base"}) # {}, ~RetiredBy(b, d),
             r = [file |-> d, keep |-> From(Lines(b, s, d), <<s, Max(Of(b, d, {"base"}))>>)]
      PROVE  EntryFits(mn2, z, sd, r)
  <2>1. PICK i \in DOMAIN b : b[i].id = d /\ b[i].kind = "base"
    BY <1>4 DEF Of
  <2>2. OnDoc(b[i], d)
    BY <2>1 DEF OnDoc, DocKinds
  <2>3. \A k \in DOMAIN b : OnDoc(b[k], d) => b[k].kind # "retire"
    BY <1>4 DEF RetiredBy, Of, OnDoc
  <2>4. \A k \in DOMAIN b : OnDoc(b[k], d) => k = i
    BY <2>2, <2>3, NewestGrows
  <2>5. Max(Of(b, d, {"base"})) = i
    <3>1. i \in Of(b, d, {"base"}) /\ i \in Nat
      BY <1>0, <2>1 DEF Of
    <3>2. \A k \in Of(b, d, {"base"}) : k = i
      BY <2>4 DEF Of, OnDoc, DocKinds
    <3>. QED BY <3>1, <3>2, MaxShape
  <2>6. Newest(mn2, d, <<s, i>>)
    BY <2>1, <2>2, NewestGrows DEF BaseKinds
  <2>7. AliveAt(z, d, Current)
    BY <2>2, <2>3, AliveGrows
  <2>8. PICK ls : ls = Lines(b, s, d)
    OBVIOUS
  <2>9. Encoded(ls, b, Len(b), s, d)
    BY <1>0, <2>8, LinesShape
  <2>10. PICK keep : keep = From(ls, <<s, i>>)
    OBVIOUS
  <2>11. Retains(keep, ls, Len(ls), <<s, i>>)
    BY <2>9, <2>10, FromShape DEF Encoded
  <2>12. r.file = d /\ r.keep = keep
    BY <1>4, <2>5, <2>8, <2>10
  <2>13. DOMAIN ls = 1..Len(ls)
    BY <2>9 DEF Encoded
  <2>14. PICK q : q = sd[d]
    OBVIOUS
  <2>15. FileFits(mn, rf, d, q) /\ Appended(b, Len(mn) + 1, d, q) /\ d \in Files
    BY <2>14 DEF Files
  <2>16. /\ \A j \in DOMAIN q :
            /\ q[j].seq \in Nat /\ q[j].ord \in Nat /\ q[j].seq <= s
            /\ ~(q[j].seq <= N) =>
                 /\ q[j].seq = s /\ q[j].ord \in DOMAIN b
                 /\ b[q[j].ord].id = d /\ b[q[j].ord].kind \in SideKinds
                 /\ q[j] = Line(b[q[j].ord], s, q[j].ord)
         /\ \A k \in DOMAIN b : b[k].id = d /\ b[k].kind \in SideKinds => Has(q, <<s, k>>)
    BY <2>15, AppendedShape
  <2>. HIDE DEF N, s
  <2>17. ASSUME NEW j \in DOMAIN q, q[j].seq = s PROVE q[j] = Line(b[i], s, i) /\ q[j].ord = i
    <3>1. ~(q[j].seq <= N)
      BY <1>0, <2>17 DEF s
    <3>2. q[j].ord \in DOMAIN b /\ b[q[j].ord].id = d /\ q[j] = Line(b[q[j].ord], s, q[j].ord)
      BY <2>16, <3>1
    <3>3. Shaped(b[q[j].ord])
      BY <1>0, <3>2
    <3>4. OnDoc(b[q[j].ord], d)
      BY <3>2, <3>3, GoesToShape
    <3>. QED BY <2>4, <3>2, <3>4
  <2>18. ASSUME NEW j \in DOMAIN keep
         PROVE  ~Before(Key(keep[j]), <<s, i>>) /\ \E k \in DOMAIN q : q[k] = keep[j]
    <3>1. ~Before(Key(keep[j]), <<s, i>>)
      BY <2>11 DEF Retains
    <3>2. PICK k \in 1..Len(ls) : ls[k] = keep[j]
      BY <2>11 DEF Retains
    <3>3. ls[k].ord \in 1..Len(b) /\ GoesTo(b[ls[k].ord], d) /\ ls[k] = Line(b[ls[k].ord], s, ls[k].ord)
      BY <2>9, <2>13 DEF Encoded
    <3>4. ls[k].ord \in DOMAIN b /\ Shaped(b[ls[k].ord])
      BY <1>0, <3>3
    <3>5. b[ls[k].ord].id = d /\ b[ls[k].ord].kind \in SideKinds /\ OnDoc(b[ls[k].ord], d)
      BY <3>3, <3>4, GoesToShape
    <3>6. ls[k].ord = i
      BY <2>4, <3>4, <3>5
    <3>7. Has(q, <<s, i>>)
      BY <2>16, <3>4, <3>5, <3>6
    <3>8. PICK m \in DOMAIN q : Key(q[m]) = <<s, i>>
      BY <3>7 DEF Has
    <3>9. q[m].seq = s
      BY <3>8 DEF Key
    <3>. QED BY <2>17, <3>1, <3>2, <3>3, <3>6, <3>9
  <2>19. ASSUME NEW k \in DOMAIN q
         PROVE  Before(Key(q[k]), <<s, i>>) \/ \E j \in DOMAIN keep : keep[j] = q[k]
    <3>1. CASE q[k].seq <= N
      BY <1>0, <2>16, <3>1 DEF Before, Key, s
    <3>2. CASE ~(q[k].seq <= N)
      <4>1. q[k].seq = s
        BY <2>16, <3>2
      <4>2. q[k] = Line(b[i], s, i)
        BY <2>17, <4>1
      <4>3. GoesTo(b[i], d) /\ i \in 1..Len(b)
        BY <1>0, <2>1 DEF GoesTo, HasSidecar
      <4>4. PICK j \in DOMAIN ls : Key(ls[j]) = <<s, i>>
        BY <2>9, <4>3 DEF Encoded, Has
      <4>5. ls[j].ord = i /\ ls[j] = Line(b[ls[j].ord], s, ls[j].ord)
        BY <2>9, <4>4 DEF Encoded, Key
      <4>6. ls[j] = q[k]
        BY <4>2, <4>5
      <4>7. ~Before(Key(ls[j]), <<s, i>>)
        BY <1>0, <4>4 DEF Before
      <4>8. \E m \in DOMAIN keep : keep[m] = ls[j]
        BY <2>11, <2>13, <4>7 DEF Retains
      <4>. QED BY <4>6, <4>8
    <3>. QED BY <3>1, <3>2
  <2>20. Cuts(mn2, d, q, keep)
    BY <2>6, <2>18, <2>19 DEF Cuts, Newest
  <2>21. keep \in Seq(Records) /\ Sorted(keep)
    BY <2>11 DEF Retains
  <2>. QED BY <2>7, <2>12, <2>14, <2>15, <2>20, <2>21 DEF EntryFits
<1>. QED BY <1>2, <1>3, <1>4 DEF Reclamations

LEMMA TightGrows ==
  ASSUME Copies = {}, NEW mn, NEW rf, NEW b, NEW mn2, NEW z, Commits(mn, rf, b, mn2, z),
         NEW f \in Files, NEW q, FileFits(mn, rf, f, q), Appended(b, Len(mn) + 1, f, q),
         Tight(mn, rf, f, q), \A r \in Reclamations(b, Len(mn) + 1) : r.file # f
  PROVE  Tight(mn2, z, f, q)
<1>. DEFINE N == Len(mn)
            s == N + 1
<1>0. /\ mn \in Seq(Markers) /\ N \in Nat /\ b \in Batches /\ Grows(mn, mn2, b)
      /\ DOMAIN b = 1..Len(b) /\ Len(b) \in Nat /\ Len(mn2) = N + 1 /\ s \in Nat
      /\ \A i \in DOMAIN b : Shaped(b[i])
  BY CommitShape
<1>1. \A j \in DOMAIN q :
        /\ q[j].seq \in Nat /\ q[j].ord \in Nat /\ q[j].seq <= s
        /\ q[j].seq <= N => Key(q[j]) \in Ops(mn, f, SideKinds)
        /\ ~(q[j].seq <= N) =>
             q[j].seq = s /\ q[j].ord \in DOMAIN b /\ b[q[j].ord].id = f
  BY AppendedShape
<1>2. ASSUME \A i \in DOMAIN b : b[i].id # f, \A j \in DOMAIN q : q[j].seq > Len(mn)
      PROVE  Tight(mn2, z, f, q)
  <2>1. \A j \in DOMAIN q : FALSE
    BY <1>0, <1>1, <1>2
  <2>. QED BY <2>1 DEF Tight
<1>3. CASE f \in Tasks
  <2>0. f \notin Docs /\ f \notin Rewindable
    BY <1>3, IdsAssumption
  <2>. DEFINE is == Of(b, f, {"live", "terminal"})
  <2>1. ~FinalTerminal(b, f)
    <3>1. FinalTerminal(b, f) => [file |-> f, keep |-> <<>>] \in Reclamations(b, Len(mn) + 1)
      BY <1>3 DEF Reclamations
    <3>. QED BY <3>1
  <2>2. \A i : i \in is <=> i \in DOMAIN b /\ OnTask(b[i], f)
    BY DEF Of, OnTask, TaskKinds
  <2>3. is = {} \/ b[Max(is)].kind # "terminal"
    BY <2>1 DEF FinalTerminal
  <2>. HIDE DEF is
  <2>4. TracedTask(rf, z, b, Len(b), f)
    BY <1>3 DEF Commits
  <2>5. CASE (\A i \in 1..Len(b) : ~OnTask(b[i], f)) /\ z.tasks[f] = rf.tasks[f]
    <3>1. CASE rf.tasks[f].status = "live"
      BY <1>3, <2>5, <3>1 DEF Tight
    <3>2. CASE rf.tasks[f].status # "live"
      <4>1. \A j \in DOMAIN q : q[j].seq > Len(mn)
        BY <2>0, <3>2 DEF Tight
      <4>2. \A i \in DOMAIN b : b[i].id # f
        BY <1>0, <1>3, <2>5, GoesToShape
      <4>. QED BY <1>2, <4>1, <4>2
    <3>. QED BY <3>1, <3>2
  <2>6. CASE \E i \in 1..Len(b) : /\ OnTask(b[i], f) /\ z.tasks[f].status = b[i].kind
                                  /\ \A k \in (i + 1)..Len(b) : ~OnTask(b[k], f)
    <3>1. PICK i \in 1..Len(b) : /\ OnTask(b[i], f) /\ z.tasks[f].status = b[i].kind
                                 /\ \A k \in (i + 1)..Len(b) : ~OnTask(b[k], f)
      BY <2>6
    <3>2. Max(is) = i /\ is # {}
      <4>1. i \in is /\ i \in Nat /\ \A k \in is : k \in Nat /\ ~(i < k)
        BY <1>0, <2>2, <3>1
      <4>. QED BY <4>1, MaxShape
    <3>3. z.tasks[f].status = "live"
      BY <2>3, <3>1, <3>2 DEF OnTask, TaskKinds
    <3>. QED BY <1>3, <3>3 DEF Tight
  <2>. QED BY <2>4, <2>5, <2>6 DEF TracedTask
<1>4. CASE f \in Rewindable
  BY <1>4 DEF Tight
<1>5. CASE f \in Docs \ Rewindable
  <2>0. f \in Docs /\ f \notin Tasks
    BY <1>5, IdShape
  <2>1. ~RetiredBy(b, f)
    <3>1. RetiredBy(b, f) => [file |-> f, keep |-> <<>>] \in Reclamations(b, Len(mn) + 1)
      BY <1>5 DEF Reclamations
    <3>. QED BY <3>1
  <2>2. Of(b, f, {"base"}) = {}
    <3>1. PICK kp : kp = From(Lines(b, Len(mn) + 1, f), <<Len(mn) + 1, Max(Of(b, f, {"base"}))>>)
      OBVIOUS
    <3>2. Of(b, f, {"base"}) # {} => [file |-> f, keep |-> kp] \in Reclamations(b, Len(mn) + 1)
      BY <1>5, <2>1, <3>1 DEF Reclamations
    <3>. QED BY <3>2
  <2>3. \A i \in DOMAIN b : OnDoc(b[i], f) <=> b[i].id = f
    BY <1>0, <2>0, GoesToShape
  <2>4. \A i \in DOMAIN b : OnDoc(b[i], f) => b[i].kind \in {"create", "delta"}
    BY <2>1, <2>2 DEF RetiredBy, Of, OnDoc, DocKinds
  <2>5. \A i \in DOMAIN b : OnDoc(b[i], f) => b[i].kind # "retire"
    BY <2>4
  <2>6. ASSUME NEW i \in DOMAIN b, OnDoc(b[i], f), b[i].kind = "create" PROVE Tight(mn2, z, f, q)
    <3>1. AliveAt(z, f, Current)
      BY <2>0, <2>5, <2>6, AliveGrows
    <3>2. Newest(mn2, f, <<s, i>>)
      BY <2>0, <2>6, NewestGrows DEF BaseKinds
    <3>3. \A k \in DOMAIN b : OnDoc(b[k], f) => k = i
      BY <2>0, <2>5, <2>6, NewestGrows
    <3>4. rf.docs[f].created = 0
      BY <2>0, <2>6 DEF Commits, Legit
    <3>5. Ops(mn, f, DocKinds) = {}
      BY <2>0, <3>4 DEF Commits, MainFits, MarkersFit, DocFits, Exists
    <3>6. \A p \in Ops(mn, f, SideKinds) : p \in Ops(mn, f, DocKinds)
      <4>1. ASSUME NEW p \in Ops(mn, f, SideKinds) PROVE Op(mn, p).kind \in DocKinds
        <5>1. Shaped(Op(mn, p)) /\ Op(mn, p).id = f /\ Op(mn, p).kind \in SideKinds
          BY <1>0, OpsShape
        <5>. QED BY <5>1, <2>0 DEF Shaped, SideKinds, DocKinds, TaskKinds
      <4>. QED BY <4>1 DEF Ops
    <3>7. ASSUME NEW j \in DOMAIN q PROVE ~Before(Key(q[j]), <<s, i>>)
      <4>1. ~(q[j].seq <= N)
        BY <1>1, <3>5, <3>6
      <4>2. q[j].seq = s /\ q[j].ord \in DOMAIN b /\ b[q[j].ord].id = f
        BY <1>1, <4>1
      <4>3. q[j].ord = i
        BY <2>3, <3>3, <4>2
      <4>. QED BY <1>0, <1>1, <4>2, <4>3 DEF Before, Key
    <3>. QED BY <2>0, <3>1, <3>2, <3>7 DEF Tight, Newest
  <2>7. CASE \A i \in DOMAIN b : OnDoc(b[i], f) => b[i].kind # "create"
    <3>1. \A i \in DOMAIN b : OnDoc(b[i], f) => b[i].kind \notin BaseKinds
      BY <2>4, <2>7 DEF BaseKinds
    <3>2. ASSUME AliveAt(rf, f, Current), NEW c \in Ops(mn, f, BaseKinds), Newest(mn, f, c),
                 \A j \in DOMAIN q : ~Before(Key(q[j]), c)
          PROVE  Tight(mn2, z, f, q)
      <4>1. Newest(mn2, f, c)
        BY <2>0, <3>1, <3>2, NewestGrows
      <4>2. AliveAt(z, f, Current)
        BY <2>0, <2>5, <3>2, AliveGrows
      <4>. QED BY <2>0, <3>2, <4>1, <4>2 DEF Tight, Newest
    <3>3. ASSUME \A j \in DOMAIN q : q[j].seq > Len(mn) PROVE Tight(mn2, z, f, q)
      <4>1. CASE \A i \in DOMAIN b : b[i].id # f
        BY <1>2, <3>3, <4>1
      <4>2. ASSUME NEW i \in DOMAIN b, b[i].id = f PROVE FALSE
        <5>1. OnDoc(b[i], f) /\ b[i].kind = "delta"
          BY <2>3, <2>4, <2>7, <4>2
        <5>2. rf.docs[f].created # 0 /\ rf.docs[f].retired = 0
          BY <2>0, <5>1 DEF Commits, Legit
        <5>3. Covers(mn, f, q)
          BY <2>0, <5>2 DEF FileFits, AliveAt, Exists, Retired, Current
        <5>4. PICK c \in Ops(mn, f, BaseKinds) : \A p \in Ops(mn, f, SideKinds) : Before(p, c) \/ Has(q, p)
          BY <5>3 DEF Covers
        <5>5. c \in Ops(mn, f, SideKinds)
          BY <5>4 DEF Ops, BaseKinds, SideKinds
        <5>6. c[1] \in Nat /\ c[2] \in Nat /\ c[1] \in 1..N
          BY <1>0, <5>5, OpsShape
        <5>7. Has(q, c)
          BY <5>4, <5>5, <5>6 DEF Before
        <5>8. PICK j \in DOMAIN q : Key(q[j]) = c
          BY <5>7 DEF Has
        <5>9. q[j].seq = c[1]
          BY <5>8 DEF Key
        <5>. QED BY <1>0, <1>1, <3>3, <5>6, <5>8, <5>9
      <4>. QED BY <4>1, <4>2
    <3>. QED BY <1>5, <2>0, <3>2, <3>3 DEF Tight
  <2>. QED BY <2>6, <2>7
<1>. QED BY <1>3, <1>4, <1>5 DEF Files
-----------------------------------------------------------------------------
(* 7. What recovery finds in files that fit *)
Fits == MainFits(main, ref) /\ SideFits(main, ref, side)

LEMMA FitsShape ==
  ASSUME Fits
  PROVE  /\ main \in Seq(Markers) /\ Len(main) \in Nat /\ DOMAIN main = 1..Len(main)
         /\ ref \in States /\ ref.nextSeq = Len(main) + 1
         /\ \A n \in DOMAIN main : main[n].seq = n /\ main[n].ops \in Batches
         /\ \A d \in Docs : DocFits(main, ref, d)
         /\ \A t \in Tasks : TaskFits(main, ref, t)
         /\ \A f \in Files : FileFits(main, ref, f, side[f])
<1>1. main \in Seq(Markers) /\ Len(main) \in Nat /\ DOMAIN main = 1..Len(main)
  BY DEF Fits, MainFits, MarkersFit
<1>2. \A n \in DOMAIN main : main[n] \in Markers
  BY <1>1
<1>3. \A n \in DOMAIN main : main[n].ops \in Batches
  BY <1>2 DEF Markers
<1>. QED BY <1>1, <1>3 DEF Fits, MainFits, MarkersFit, SideFits

LEMMA OpsLink ==
  /\ \A p : OpAt(p) = Op(main, p)
  /\ \A id, K : OpsOf(id, K) = Ops(main, id, K)
BY DEF OpAt, Op, OpsOf, Ops

LEMMA LastSeqLink ==
  ASSUME Fits
  PROVE  LastSeq = Len(main)
<1>1. main \in Seq(Markers) /\ Len(main) \in Nat /\ DOMAIN main = 1..Len(main)
      /\ \A n \in DOMAIN main : main[n].seq = n
  BY FitsShape
<1>2. CASE main = <<>>
  BY <1>2 DEF LastSeq
<1>3. CASE main # <<>>
  <2>1. Len(main) \in DOMAIN main
    BY <1>1, <1>3
  <2>2. Last(main) = main[Len(main)]
    BY DEF Last
  <2>. QED BY <1>1, <1>3, <2>1, <2>2 DEF LastSeq
<1>. QED BY <1>2, <1>3

LEMMA FileShape ==
  ASSUME Copies = {}, Fits, NEW f \in Files
  PROVE  /\ side[f] \in Seq(Records) /\ Sorted(side[f]) /\ DOMAIN side[f] = 1..Len(side[f])
         /\ Len(side[f]) \in Nat
         /\ \A j \in DOMAIN side[f] :
              /\ side[f][j] \in Records /\ side[f][j].seq \in Nat /\ side[f][j].ord \in Nat
              /\ side[f][j].seq <= Len(main) =>
                   Key(side[f][j]) \in Ops(main, f, SideKinds) /\ side[f][j] = LineOf(main, Key(side[f][j]))
<1>1. FileFits(main, ref, f, side[f])
  BY FitsShape
<1>2. side[f] \in Seq(Records) /\ Sorted(side[f])
  BY <1>1 DEF FileFits
<1>3. DOMAIN side[f] = 1..Len(side[f]) /\ Len(side[f]) \in Nat /\ \A j \in DOMAIN side[f] : side[f][j] \in Records
  BY <1>2
<1>4. \A j \in DOMAIN side[f] : side[f][j].seq \in Nat /\ side[f][j].ord \in Nat
  BY <1>3 DEF Records
<1>5. \A j \in DOMAIN side[f] : RecordFits(main, f, side[f][j])
  BY <1>1 DEF FileFits
<1>6. \A j \in DOMAIN side[f] : side[f][j].seq <= Len(main) =>
        Key(side[f][j]) \in Ops(main, f, SideKinds) /\ side[f][j] = LineOf(main, Key(side[f][j]))
  BY <1>5 DEF RecordFits
<1>. QED BY <1>2, <1>3, <1>4, <1>6

LEMMA ConfirmedLink ==
  ASSUME Copies = {}, Fits, NEW f \in Files, NEW j \in DOMAIN side[f]
  PROVE  Confirmed(f, side[f][j]) <=> side[f][j].seq <= Len(main)
<1>1. PICK r : r = side[f][j]
  OBVIOUS
<1>2. r.seq \in Nat /\ r.ord \in Nat /\ (r.seq <= Len(main) => Key(r) \in Ops(main, f, SideKinds))
  BY <1>1, FileShape
<1>3. main \in Seq(Markers) /\ Len(main) \in Nat /\ DOMAIN main = 1..Len(main)
      /\ \A n \in DOMAIN main : main[n].seq = n
  BY FitsShape
<1>4. ASSUME r.seq <= Len(main) PROVE Confirmed(f, r)
  <2>1. PICK p : p = Key(r)
    OBVIOUS
  <2>2. p[1] = r.seq /\ p[2] = r.ord /\ p \in Ops(main, f, SideKinds)
    BY <1>2, <1>4, <2>1 DEF Key
  <2>3. p[1] \in 1..Len(main) /\ p[2] \in DOMAIN main[p[1]].ops /\ Op(main, p).id = f /\ Op(main, p).kind \in SideKinds
    BY <1>3, <2>2, OpsShape
  <2>4. PICK m : m = main[r.seq]
    OBVIOUS
  <2>5. m \in Range(main) /\ m.seq = r.seq
    BY <1>3, <2>2, <2>3, <2>4 DEF Range
  <2>6. r.ord \in DOMAIN m.ops /\ m.ops[r.ord].id = f /\ m.ops[r.ord].kind \in SideKinds
    BY <2>2, <2>3, <2>4 DEF Op
  <2>7. HasSidecar(m.ops[r.ord])
    BY <2>6 DEF HasSidecar, SideKinds
  <2>. QED BY <2>5, <2>6, <2>7 DEF Confirmed
<1>5. ASSUME Confirmed(f, r) PROVE r.seq <= Len(main)
  <2>1. PICK m \in Range(main) : m.seq = r.seq
    BY <1>5 DEF Confirmed
  <2>2. PICK n \in DOMAIN main : m = main[n]
    BY DEF Range
  <2>. QED BY <1>3, <2>1, <2>2
<1>. QED BY <1>1, <1>4, <1>5

(* What opening keeps of a file. *)
Kept(k, q, mn) ==
  /\ k \in Seq(Records) /\ Len(k) \in 0..Len(q)
  /\ \A j \in DOMAIN k : k[j] = q[j] /\ q[j].seq <= Len(mn)
  /\ \A j \in DOMAIN q : j > Len(k) => ~(q[j].seq <= Len(mn))

LEMMA TailLink ==
  ASSUME Copies = {}, Fits, NEW f \in Files
  PROVE  /\ TailStart(f) = 0 => \A j \in DOMAIN side[f] : side[f][j].seq <= Len(main)
         /\ TailStart(f) # 0 =>
              /\ TailStart(f) \in DOMAIN side[f]
              /\ \A j \in DOMAIN side[f] : j >= TailStart(f) <=> ~(side[f][j].seq <= Len(main))
<1>. DEFINE q == side[f]
            I == {i \in 1..Len(q) : ~Confirmed(f, q[i])}
<1>0. /\ Sorted(q) /\ DOMAIN q = 1..Len(q) /\ Len(q) \in Nat
      /\ \A j \in DOMAIN q : q[j].seq \in Nat /\ q[j].ord \in Nat
  BY FileShape
<1>1. Len(main) \in Nat
  BY FitsShape
<1>2. TailStart(f) = IF I # {} THEN Min(I) ELSE 0
  BY DEF TailStart, SelectInSeq
<1>3. \A j : j \in I <=> j \in DOMAIN q /\ ~(q[j].seq <= Len(main))
  BY <1>0, ConfirmedLink
<1>. HIDE DEF I, q
<1>4. ASSUME I # {}
      PROVE  /\ TailStart(f) \in DOMAIN q
             /\ \A j \in DOMAIN q : j >= TailStart(f) <=> ~(q[j].seq <= Len(main))
             /\ TailStart(f) # 0
  <2>1. I \in SUBSET Nat
    BY <1>0, <1>3
  <2>2. PICK n \in I : \A m \in I : ~(m < n)
    BY <1>4, <2>1, LeastElement
  <2>3. \E x \in I : \A y \in I : x <= y
    BY <2>1, <2>2
  <2>4. Min(I) \in I /\ \A y \in I : Min(I) <= y
    BY <2>3, Zenon DEF Min
  <2>5. PICK m : m = TailStart(f)
    OBVIOUS
  <2>6. m \in I /\ \A y \in I : m <= y
    BY <1>2, <1>4, <2>4, <2>5
  <2>7. ASSUME NEW j \in DOMAIN q, j >= m PROVE ~(q[j].seq <= Len(main))
    <3>1. CASE j = m
      BY <1>3, <2>6, <3>1
    <3>2. CASE j # m
      <4>1. Before(Key(q[m]), Key(q[j]))
        BY <1>0, <1>3, <2>6, <2>7, <3>2 DEF Sorted
      <4>2. q[m].seq <= q[j].seq
        BY <1>0, <1>3, <2>6, <4>1 DEF Before, Key
      <4>. QED BY <1>0, <1>1, <1>3, <2>6, <4>2
    <3>. QED BY <3>1, <3>2
  <2>8. ASSUME NEW j \in DOMAIN q, ~(q[j].seq <= Len(main)) PROVE j >= m
    BY <1>0, <1>3, <2>6, <2>8
  <2>. QED BY <1>0, <1>3, <2>5, <2>6, <2>7, <2>8
<1>5. ASSUME I = {} PROVE TailStart(f) = 0 /\ \A j \in DOMAIN q : q[j].seq <= Len(main)
  BY <1>2, <1>3, <1>5
<1>. QED BY <1>4, <1>5 DEF q

LEMMA KeptLink ==
  ASSUME Copies = {}, Fits, NEW f \in Files
  PROVE  Kept(KeptLines(f), side[f], main)
<1>0. /\ side[f] \in Seq(Records) /\ DOMAIN side[f] = 1..Len(side[f]) /\ Len(side[f]) \in Nat
  BY FileShape
<1>1. CASE TailStart(f) = 0
  <2>1. KeptLines(f) = side[f]
    BY <1>1 DEF KeptLines
  <2>. QED BY <1>0, <1>1, <2>1, TailLink DEF Kept
<1>2. CASE TailStart(f) # 0
  <2>1. PICK m : m = TailStart(f)
    OBVIOUS
  <2>2. m \in 1..Len(side[f]) /\ \A j \in DOMAIN side[f] : j >= m <=> ~(side[f][j].seq <= Len(main))
    BY <1>0, <1>2, <2>1, TailLink
  <2>3. PICK k : k = SubSeq(side[f], 1, m - 1)
    OBVIOUS
  <2>4. k \in Seq(Records) /\ Len(k) = m - 1 /\ DOMAIN k = 1..(m - 1) /\ \A j \in 1..(m - 1) : k[j] = side[f][j]
    BY <1>0, <2>2, <2>3
  <2>5. KeptLines(f) = k
    BY <1>2, <2>1, <2>3 DEF KeptLines
  <2>6. \A j \in DOMAIN k : j \in DOMAIN side[f] /\ ~(j >= m)
    BY <1>0, <2>2, <2>4
  <2>7. \A j \in DOMAIN side[f] : j > Len(k) => j >= m
    BY <1>0, <2>2, <2>4
  <2>8. Len(k) \in 0..Len(side[f])
    BY <1>0, <2>2, <2>4
  <2>9. Kept(k, side[f], main)
    BY <2>2, <2>4, <2>6, <2>7, <2>8 DEF Kept
  <2>. QED BY <2>5, <2>9
<1>. QED BY <1>1, <1>2

LEMMA KeptFits ==
  ASSUME Copies = {}, NEW mn \in Seq(Markers), NEW rf, NEW f, NEW q, NEW k,
         FileFits(mn, rf, f, q), Kept(k, q, mn)
  PROVE  FileFits(mn, rf, f, k) /\ NoTail(mn, k) /\ (Tight(mn, rf, f, q) => Tight(mn, rf, f, k))
<1>0. q \in Seq(Records) /\ k \in Seq(Records) /\ DOMAIN q = 1..Len(q) /\ DOMAIN k = 1..Len(k)
      /\ Len(q) \in Nat /\ Len(k) \in Nat /\ Len(k) <= Len(q)
  BY DEF FileFits, Kept
<1>1. \A j \in DOMAIN k : j \in DOMAIN q /\ k[j] = q[j] /\ k[j].seq <= Len(mn)
  BY <1>0 DEF Kept
<1>2. Sorted(k)
  BY <1>1 DEF FileFits, Sorted
<1>3. ASSUME NEW K, NEW p \in Ops(mn, f, K), Has(q, p) PROVE Has(k, p)
  <2>1. PICK j \in DOMAIN q : Key(q[j]) = p
    BY <1>3 DEF Has
  <2>2. p[1] \in 1..Len(mn) /\ p[1] = q[j].seq
    BY <2>1, OpsShape DEF Key
  <2>3. ~(j > Len(k))
    BY <2>2 DEF Kept
  <2>4. j \in DOMAIN k
    BY <1>0, <2>3
  <2>. QED BY <1>1, <2>1, <2>4 DEF Has
<1>4. \A j \in DOMAIN k : RecordFits(mn, f, k[j])
  BY <1>1 DEF FileFits
<1>5. ASSUME f \in Docs, AliveAt(rf, f, Current) PROVE Covers(mn, f, k)
  <2>1. Covers(mn, f, q)
    BY <1>5 DEF FileFits
  <2>. QED BY <1>3, <2>1 DEF Covers
<1>6. ASSUME f \in Tasks, rf.tasks[f].status = "live" PROVE \A p \in Ops(mn, f, {"live"}) : Has(k, p)
  BY <1>3, <1>6 DEF FileFits
<1>7. FileFits(mn, rf, f, k)
  BY <1>0, <1>2, <1>4, <1>5, <1>6 DEF FileFits
<1>8. NoTail(mn, k)
  BY <1>1 DEF NoTail
<1>9. Tight(mn, rf, f, q) => Tight(mn, rf, f, k)
  BY <1>1 DEF Tight
<1>. QED BY <1>7, <1>8, <1>9

LEMMA FoundLink ==
  ASSUME Copies = {}, Fits, NEW f \in Files, NEW K, NEW p \in Ops(main, f, K)
  PROVE  /\ FoundAt(p, f) # {} <=> Has(side[f], p)
         /\ \A r \in FoundAt(p, f) : r = LineOf(main, p)
<1>0. main \in Seq(Markers) /\ Len(main) \in Nat /\ DOMAIN main = 1..Len(main)
      /\ \A n \in DOMAIN main : main[n].seq = n
  BY FitsShape
<1>1. p = <<p[1], p[2]>> /\ p[1] \in Nat /\ p[2] \in Nat /\ p[1] \in 1..Len(main)
  BY <1>0, OpsShape
<1>2. main[p[1]].seq = p[1]
  BY <1>0, <1>1
<1>3. \A r : r \in FoundAt(p, f) <=> r \in Range(side[f]) /\ r.seq = p[1] /\ r.ord = p[2]
  BY <1>2 DEF FoundAt, Found
<1>4. \A r : r \in FoundAt(p, f) <=> \E j \in DOMAIN side[f] : r = side[f][j] /\ r.seq = p[1] /\ r.ord = p[2]
  BY <1>3 DEF Range
<1>5. \A r : r.seq = p[1] /\ r.ord = p[2] <=> Key(r) = p
  BY <1>1 DEF Key
<1>6. FoundAt(p, f) # {} <=> Has(side[f], p)
  BY <1>4, <1>5 DEF Has
<1>7. ASSUME NEW r \in FoundAt(p, f) PROVE r = LineOf(main, p)
  <2>1. PICK j \in DOMAIN side[f] : r = side[f][j] /\ r.seq = p[1] /\ r.ord = p[2]
    BY <1>4
  <2>2. side[f][j].seq <= Len(main)
    BY <1>1, <2>1
  <2>3. r = LineOf(main, Key(r))
    BY <2>1, <2>2, FileShape
  <2>. QED BY <1>5, <2>1, <2>3
<1>. QED BY <1>6, <1>7

LEMMA LineOfShape ==
  ASSUME Copies = {}, Fits, NEW f, NEW K, NEW p \in Ops(main, f, K)
  PROVE  /\ LineOf(main, p).base = (Op(main, p).kind # "delta")
         /\ LineOf(main, p).ver = 1 /\ LineOf(main, p).val = << <<p[1], p[2]>> >>
         /\ LineOf(main, p).seq = p[1] /\ LineOf(main, p).ord = p[2]
BY DEF LineOf

(* The last operation of a set of them. *)
LEMMA LatestShape ==
  ASSUME NEW S, NEW p \in S, \A q \in S : q = p \/ Before(q, p),
         \A q \in S : q = <<q[1], q[2]>> /\ q[1] \in Nat /\ q[2] \in Nat
  PROVE  Latest(S) = p
<1>1. \E x \in S : \A q \in S : q = x \/ Before(q, x)
  OBVIOUS
<1>2. Latest(S) \in S /\ \A q \in S : q = Latest(S) \/ Before(q, Latest(S))
  BY <1>1, Zenon DEF Latest
<1>3. PICK l : l = Latest(S)
  OBVIOUS
<1>4. l \in S /\ (p = l \/ Before(p, l)) /\ (l = p \/ Before(l, p))
  BY <1>2, <1>3
<1>5. l[1] \in Nat /\ l[2] \in Nat /\ p[1] \in Nat /\ p[2] \in Nat
  BY <1>4
<1>6. ~(Before(p, l) /\ Before(l, p))
  BY <1>5 DEF Before
<1>. QED BY <1>3, <1>4, <1>6

LEMMA TaskLink ==
  ASSUME Copies = {}, Fits, NEW t \in Tasks
  PROVE  FinalLive(t) <=> ref.tasks[t].status = "live"
<1>0. main \in Seq(Markers) /\ TaskFits(main, ref, t)
  BY FitsShape
<1>. DEFINE S == Ops(main, t, TaskKinds)
<1>1. FinalLive(t) <=> S # {} /\ Op(main, Latest(S)).kind = "live"
  BY OpsLink DEF FinalLive, TaskKinds
<1>2. \A q \in S : q = <<q[1], q[2]>> /\ q[1] \in Nat /\ q[2] \in Nat
  BY <1>0, OpsShape
<1>. HIDE DEF S
<1>3. CASE S = {}
  BY <1>0, <1>1, <1>3 DEF TaskFits, S
<1>4. CASE S # {}
  <2>1. PICK p \in S : Ends(main, t, p) /\ ref.tasks[t].status = Op(main, p).kind
    BY <1>0, <1>4 DEF TaskFits, S
  <2>2. \A q \in S : q = p \/ Before(q, p)
    BY <2>1 DEF Ends, S
  <2>3. Latest(S) = p
    BY <1>2, <2>2, LatestShape
  <2>. QED BY <1>1, <1>4, <2>1, <2>3
<1>. QED BY <1>3, <1>4

LEMMA RetiredLink ==
  ASSUME Copies = {}, Fits, NEW d \in Docs
  PROVE  RetiredInMain(d) <=> Retired(ref, d)
<1>1. DocFits(main, ref, d)
  BY FitsShape
<1>. QED BY <1>1, OpsLink DEF RetiredInMain, DocFits

(* Sidecar writes with the id of a document are writes of the document. *)
LEMMA SideDoc ==
  ASSUME Copies = {}, Fits, NEW d \in Docs, NEW K, NEW p \in Ops(main, d, K)
  PROVE  /\ Op(main, p).kind \in DocKinds /\ p \in Ops(main, d, DocKinds)
         /\ (Op(main, p).kind \in {"create", "copy", "base", "delta"} \cup SideKinds =>
               Op(main, p).kind \in {"create", "base", "delta"})
         /\ Exists(ref, d)
<1>0. main \in Seq(Markers) /\ DocFits(main, ref, d)
  BY FitsShape
<1>1. Shaped(Op(main, p)) /\ Op(main, p).id = d
  BY <1>0, OpsShape
<1>2. Op(main, p).kind \in DocKinds
  BY <1>1, IdShape DEF Shaped, DocKinds, TaskKinds
<1>3. p \in Ops(main, d, DocKinds)
  BY <1>2 DEF Ops
<1>. QED BY <1>0, <1>2, <1>3 DEF DocKinds, SideKinds, DocFits

(* A document that is alive: recovery finds the newest base and takes what  *)
(* is before it for reclaimed.                                              *)
Anchored(d, b) ==
  /\ b \in Ops(main, d, BaseKinds) /\ Newest(main, d, b)
  /\ \A p \in Ops(main, d, SideKinds) : Before(p, b) \/ Has(side[d], p)
  /\ Has(side[d], b) /\ Bases(d) # {} /\ Latest(Bases(d)) = b
  /\ \A p : Reclaimed(d, p) <=> Before(p, b)
  /\ ~RetiredInMain(d)

LEMMA BaseLink ==
  ASSUME Copies = {}, Fits, NEW d \in Docs, AliveAt(ref, d, Current)
  PROVE  \E b : Anchored(d, b)
<1>0. main \in Seq(Markers) /\ FileFits(main, ref, d, side[d]) /\ d \in Files
  BY FitsShape DEF Files
<1>1. Covers(main, d, side[d])
  BY <1>0 DEF FileFits
<1>2. PICK b \in Ops(main, d, BaseKinds) :
        Newest(main, d, b) /\ \A p \in Ops(main, d, SideKinds) : Before(p, b) \/ Has(side[d], p)
  BY <1>1 DEF Covers
<1>3. b = <<b[1], b[2]>> /\ b[1] \in Nat /\ b[2] \in Nat
  BY <1>0, OpsShape
<1>4. b \in Ops(main, d, SideKinds)
  BY DEF Ops, BaseKinds, SideKinds
<1>5. ~Before(b, b)
  BY <1>3 DEF Before
<1>6. Has(side[d], b)
  BY <1>2, <1>4, <1>5
<1>. DEFINE S == Bases(d)
            K == {"create", "copy", "base", "delta"}
<1>7. \A p : p \in S <=> p \in Ops(main, d, K) /\ \E r \in FoundAt(p, d) : r.base
  BY OpsLink DEF Bases
<1>8. \A p : p \in S => p \in Ops(main, d, BaseKinds)
  <2>1. ASSUME NEW p \in S PROVE p \in Ops(main, d, BaseKinds)
    <3>1. p \in Ops(main, d, K) /\ \E r \in FoundAt(p, d) : r.base
      BY <1>7
    <3>2. PICK r \in FoundAt(p, d) : r.base
      BY <3>1
    <3>3. r = LineOf(main, p)
      BY <1>0, <3>1, FoundLink
    <3>4. Op(main, p).kind # "delta"
      BY <3>1, <3>2, <3>3, LineOfShape
    <3>5. Op(main, p).kind \in {"create", "base", "delta"}
      <4>1. Op(main, p).kind \in K
        BY <3>1 DEF Ops
      <4>. QED BY <4>1, <3>1, SideDoc
    <3>. QED BY <3>1, <3>4, <3>5 DEF Ops, BaseKinds
  <2>. QED BY <2>1
<1>9. b \in S
  <2>1. b \in Ops(main, d, K)
    BY DEF Ops, BaseKinds
  <2>2. FoundAt(b, d) # {}
    BY <1>0, <1>6, FoundLink
  <2>3. PICK r \in FoundAt(b, d) : TRUE
    BY <2>2
  <2>4. r = LineOf(main, b)
    BY <1>0, <2>3, FoundLink
  <2>5. Op(main, b).kind # "delta"
    BY DEF Ops, BaseKinds
  <2>6. r.base
    BY <2>4, <2>5, LineOfShape
  <2>. QED BY <1>7, <2>1, <2>6
<1>. HIDE DEF S
<1>10. \A p \in S : p = <<p[1], p[2]>> /\ p[1] \in Nat /\ p[2] \in Nat
  <2>1. ASSUME NEW p \in S PROVE p = <<p[1], p[2]>> /\ p[1] \in Nat /\ p[2] \in Nat
    <3>1. p \in Ops(main, d, BaseKinds)
      BY <1>8
    <3>. QED BY <1>0, <3>1, OpsShape
  <2>. QED BY <2>1
<1>11. \A p \in S : p = b \/ Before(p, b)
  <2>1. ASSUME NEW p \in S PROVE p = b \/ Before(p, b)
    <3>1. ~Before(b, p)
      BY <1>2, <1>8 DEF Newest
    <3>2. Before(p, b) \/ Before(b, p) \/ p = b
      BY <1>3, <1>10, BeforeOrder
    <3>. QED BY <3>1, <3>2
  <2>. QED BY <2>1
<1>12. Latest(S) = b
  BY <1>9, <1>10, <1>11, LatestShape
<1>13. ~RetiredInMain(d)
  BY RetiredLink DEF AliveAt, Current
<1>14. \A p : Reclaimed(d, p) <=> Before(p, b)
  BY <1>9, <1>12, <1>13 DEF Reclaimed, S
<1>. QED BY <1>2, <1>6, <1>9, <1>12, <1>13, <1>14 DEF Anchored, S

LEMMA LineKept ==
  ASSUME Copies = {}, Fits, NEW d \in Docs, NEW p \in Ops(main, d, SideKinds \cup {"copy"}), ~Reclaimed(d, p)
  PROVE  AliveAt(ref, d, Current) /\ FoundAt(p, d) # {}
<1>1. Exists(ref, d) /\ p \in Ops(main, d, DocKinds)
  BY SideDoc
<1>2. ~RetiredInMain(d)
  BY DEF Reclaimed
<1>3. AliveAt(ref, d, Current)
  BY <1>1, <1>2, RetiredLink DEF AliveAt, Current
<1>4. PICK b : Anchored(d, b)
  BY <1>3, BaseLink
<1>5. p \in Ops(main, d, SideKinds)
  <2>1. Op(main, p).kind \in SideKinds \cup {"copy"} /\ Op(main, p).kind \in DocKinds
    BY <1>1 DEF Ops
  <2>2. Op(main, p).kind \in SideKinds
    BY <2>1 DEF DocKinds, SideKinds
  <2>. QED BY <2>2 DEF Ops
<1>6. Has(side[d], p)
  BY <1>4, <1>5 DEF Anchored
<1>. QED BY <1>3, <1>6, FoundLink DEF Files

LEMMA NoMissingLine ==
  ASSUME Copies = {}, Fits
  PROVE  ~MissingLine
<1>. DEFINE K == {"create", "copy", "base", "delta", "live"}
<1>. SUFFICES ASSUME NEW f \in Files, NEW p \in Ops(main, f, K), FoundAt(p, f) = {},
                     IF f \in Tasks THEN FinalLive(f) ELSE ~Reclaimed(f, p)
              PROVE  FALSE
  BY OpsLink DEF MissingLine
<1>0. main \in Seq(Markers) /\ FileFits(main, ref, f, side[f])
  BY FitsShape
<1>1. CASE f \in Tasks
  <2>1. Shaped(Op(main, p)) /\ Op(main, p).id = f /\ Op(main, p).kind \in K
    BY <1>0, OpsShape
  <2>2. Op(main, p).kind = "live"
    BY <1>1, <2>1, IdShape DEF Shaped, DocKinds, TaskKinds
  <2>3. p \in Ops(main, f, {"live"})
    BY <2>2 DEF Ops
  <2>4. ref.tasks[f].status = "live"
    BY <1>1, TaskLink
  <2>5. Has(side[f], p)
    BY <1>0, <1>1, <2>3, <2>4 DEF FileFits
  <2>. QED BY <2>5, FoundLink
<1>2. CASE f \notin Tasks
  <2>1. f \in Docs /\ ~Reclaimed(f, p)
    BY <1>2 DEF Files
  <2>2. p \in Ops(main, f, SideKinds \cup {"copy"})
    BY DEF Ops, SideKinds
  <2>. QED BY <2>1, <2>2, LineKept
<1>. QED BY <1>1, <1>2

LEMMA NoDisorder ==
  ASSUME Copies = {}, Fits
  PROVE  ~Disordered /\ ~BadTail
<1>0. Len(main) \in Nat /\ DOMAIN main = 1..Len(main) /\ \A n \in DOMAIN main : main[n].seq = n
  BY FitsShape
<1>1. ASSUME NEW m \in 2..Len(main), main[m].seq <= main[m - 1].seq PROVE FALSE
  <2>1. m \in DOMAIN main /\ m - 1 \in DOMAIN main
    BY <1>0
  <2>. QED BY <1>0, <1>1, <2>1
<1>2. ASSUME NEW f \in Files, NEW n \in 2..Len(side[f]),
             ~Before(<<side[f][n-1].seq, side[f][n-1].ord>>, <<side[f][n].seq, side[f][n].ord>>)
      PROVE  FALSE
  <2>1. Sorted(side[f]) /\ DOMAIN side[f] = 1..Len(side[f]) /\ Len(side[f]) \in Nat
    BY FileShape
  <2>2. n \in DOMAIN side[f] /\ n - 1 \in DOMAIN side[f] /\ n - 1 < n
    BY <2>1
  <2>. QED BY <1>2, <2>1, <2>2 DEF Sorted, Key
<1>3. ASSUME NEW f \in Files, TailStart(f) # 0, NEW n \in TailStart(f)..Len(side[f]),
             Confirmed(f, side[f][n]) \/ side[f][n].seq <= LastSeq
      PROVE  FALSE
  <2>1. DOMAIN side[f] = 1..Len(side[f]) /\ Len(side[f]) \in Nat
    BY FileShape
  <2>2. PICK m : m = TailStart(f)
    OBVIOUS
  <2>3. m \in DOMAIN side[f] /\ \A j \in DOMAIN side[f] : j >= m <=> ~(side[f][j].seq <= Len(main))
    BY <1>3, <2>2, TailLink
  <2>4. n \in DOMAIN side[f] /\ n >= m
    BY <1>3, <2>1, <2>2, <2>3
  <2>5. ~(side[f][n].seq <= Len(main))
    BY <2>3, <2>4
  <2>6. ~Confirmed(f, side[f][n])
    BY <2>4, <2>5, ConfirmedLink
  <2>. QED BY <1>3, <2>5, <2>6, LastSeqLink
<1>. QED BY <1>1, <1>2, <1>3 DEF Disordered, BadTail
-----------------------------------------------------------------------------
(* 8. Recovery follows what was published *)
LEMMA BeforeNext ==
  ASSUME NEW p, p = <<p[1], p[2]>>, p[1] \in Nat, p[2] \in Nat, NEW n \in Nat, NEW i \in Nat
  PROVE  Before(p, <<n, i + 1>>) <=> Before(p, <<n, i>>) \/ p = <<n, i>>
<1>1. p = <<n, i>> <=> p[1] = n /\ p[2] = i
  OBVIOUS
<1>. QED BY <1>1 DEF Before

(* The lines of a sorted file, counted up to a position. *)
LEMMA CountNext ==
  ASSUME NEW q \in Seq(Records), Sorted(q), NEW n \in Nat, NEW i \in Nat, NEW k \in Nat,
         k <= Len(q), \A j \in DOMAIN q : Before(Key(q[j]), <<n, i>>) <=> j <= k,
         Has(q, <<n, i>>)
  PROVE  /\ k + 1 <= Len(q)
         /\ \A j \in DOMAIN q : Before(Key(q[j]), <<n, i + 1>>) <=> j <= k + 1
<1>0. DOMAIN q = 1..Len(q) /\ Len(q) \in Nat /\ \A j \in DOMAIN q : q[j] \in Records
  OBVIOUS
<1>1. \A j \in DOMAIN q : q[j].seq \in Nat /\ q[j].ord \in Nat
  BY <1>0 DEF Records
<1>2. \A j \in DOMAIN q : Before(Key(q[j]), <<n, i + 1>>) <=> Before(Key(q[j]), <<n, i>>) \/ Key(q[j]) = <<n, i>>
  <2>1. ASSUME NEW j \in DOMAIN q
        PROVE  Before(Key(q[j]), <<n, i + 1>>) <=> Before(Key(q[j]), <<n, i>>) \/ Key(q[j]) = <<n, i>>
    <3>1. PICK p : p = Key(q[j])
      OBVIOUS
    <3>2. p = <<p[1], p[2]>> /\ p[1] \in Nat /\ p[2] \in Nat
      BY <1>1, <3>1 DEF Key
    <3>. QED BY <3>1, <3>2, BeforeNext
  <2>. QED BY <2>1
<1>3. PICK m \in DOMAIN q : Key(q[m]) = <<n, i>>
  BY DEF Has
<1>4. ~Before(<<n, i>>, <<n, i>>)
  BY DEF Before
<1>5. ~(m <= k)
  BY <1>3, <1>4
<1>6. m = k + 1
  <2>1. ASSUME k + 1 < m PROVE FALSE
    <3>1. k + 1 \in DOMAIN q
      BY <1>0, <2>1
    <3>2. Before(Key(q[k + 1]), Key(q[m]))
      BY <2>1, <3>1 DEF Sorted
    <3>. QED BY <1>3, <3>1, <3>2
  <2>. QED BY <1>0, <1>5, <2>1
<1>7. ASSUME NEW j \in DOMAIN q, Key(q[j]) = <<n, i>> PROVE j = m
  <2>1. ~(j < m) /\ ~(m < j)
    BY <1>3, <1>4, <1>7 DEF Sorted
  <2>. QED BY <1>0, <2>1
<1>8. ASSUME NEW j \in DOMAIN q PROVE Before(Key(q[j]), <<n, i + 1>>) <=> j <= k + 1
  <2>1. Key(q[j]) = <<n, i>> <=> j = k + 1
    BY <1>3, <1>6, <1>7
  <2>2. Before(Key(q[j]), <<n, i>>) <=> j <= k
    OBVIOUS
  <2>3. j \in Nat
    BY <1>0
  <2>4. j <= k + 1 <=> j <= k \/ j = k + 1
    BY <2>3
  <2>5. Before(Key(q[j]), <<n, i + 1>>) <=> Before(Key(q[j]), <<n, i>>) \/ Key(q[j]) = <<n, i>>
    BY <1>2
  <2>. QED BY <2>1, <2>2, <2>4, <2>5, Zenon
<1>9. k + 1 <= Len(q)
  BY <1>0, <1>6
<1>. QED BY <1>8, <1>9

(* What replaying one operation does. *)
Lined(w, s, i) ==
  [seq |-> s, base |-> w.kind # "delta", ver |-> 1, val |-> << <<s, i>> >>]
Rewritten(old, new, w, n, i, d) ==
  \E r : /\ new = DocAfter(old, d, w.kind, n, r)
         /\ r \in Revs /\ r.ver = 1
         /\ Has(side[d], <<n, i>>) => r = Lined(w, n, i)
Recalls(x, x2, w, n, i) ==
  /\ x2 \in States
  /\ \A d \in Docs : ~OnDoc(w, d) => x2.docs[d] = x.docs[d]
  /\ \A d \in Docs : OnDoc(w, d) /\ w.kind \in {"base", "delta"} /\ Reclaimed(d, <<n, i>>) =>
       x2.docs[d] = x.docs[d]
  /\ \A d \in Docs : OnDoc(w, d) /\ ~(w.kind \in {"base", "delta"} /\ Reclaimed(d, <<n, i>>)) =>
       Rewritten(x.docs[d], x2.docs[d], w, n, i, d)
  /\ \A t \in Tasks :
       x2.tasks[t] = IF OnTask(w, t) /\ (w.kind = "terminal" \/ FinalLive(t))
                     THEN [status |-> w.kind, stamp |-> <<n, i>>] ELSE x.tasks[t]
  /\ x2.entries = IF w.kind = "entry" THEN x.entries \cup {<<n, i>>} ELSE x.entries
  /\ x2.nextId = IF \/ w.kind \in {"create", "terminal"}
                    \/ w.kind = "live" /\ FinalLive(w.id)
                 THEN Larger(x.nextId, w.id + 1) ELSE x.nextId

(* A position of main.jsonl. *)
Position(n, i) == n \in 1..Len(main) /\ i \in 1..Len(main[n].ops)

LEMMA PositionShape ==
  ASSUME Copies = {}, Fits, NEW n, NEW i, Position(n, i)
  PROVE  /\ n \in Nat /\ i \in Nat /\ n # 0 /\ main[n].seq = n
         /\ main[n].ops \in Batches /\ i \in DOMAIN main[n].ops
         /\ Shaped(main[n].ops[i]) /\ Op(main, <<n, i>>) = main[n].ops[i]
         /\ \A K : main[n].ops[i].kind \in K => <<n, i>> \in Ops(main, main[n].ops[i].id, K)
<1>0. /\ Len(main) \in Nat /\ DOMAIN main = 1..Len(main)
      /\ \A m \in DOMAIN main : main[m].seq = m /\ main[m].ops \in Batches
  BY FitsShape
<1>1. n \in Nat /\ n # 0 /\ n \in DOMAIN main /\ main[n].seq = n /\ main[n].ops \in Batches
  BY <1>0 DEF Position
<1>2. PICK b : b = main[n].ops
  OBVIOUS
<1>3. Len(b) \in 1..WriteBound /\ DOMAIN b = 1..Len(b) /\ Len(b) \in Nat /\ \A j \in DOMAIN b : Shaped(b[j])
  BY <1>1, <1>2, BatchShape
<1>4. i \in DOMAIN b /\ i \in Nat /\ Shaped(b[i])
  BY <1>2, <1>3 DEF Position
<1>5. Op(main, <<n, i>>) = b[i]
  BY <1>2 DEF Op
<1>6. i \in 1..WriteBound
  BY <1>3, <1>4, StoreAssumption
<1>7. \A K : b[i].kind \in K => <<n, i>> \in Ops(main, b[i].id, K)
  BY <1>1, <1>2, <1>4, <1>5, <1>6 DEF Ops
<1>. QED BY <1>1, <1>2, <1>4, <1>5, <1>7

LEMMA RestoreEffect ==
  ASSUME Copies = {}, Fits, NEW x \in States, NEW n, NEW i, Position(n, i)
  PROVE  Recalls(x, Restore(x, <<n, i>>), main[n].ops[i], n, i)
<1>1. PICK w : w = main[n].ops[i]
  OBVIOUS
<1>2. PICK c : c = <<n, i>>
  OBVIOUS
<1>3. /\ n \in Nat /\ i \in Nat /\ n # 0 /\ main[n].seq = n /\ Shaped(w) /\ Op(main, c) = w
      /\ \A K : w.kind \in K => c \in Ops(main, w.id, K)
  BY <1>1, <1>2, PositionShape
<1>4. PICK y : y = Restore(x, c)
  OBVIOUS
<1>5. c[1] = n /\ c[2] = i /\ OpAt(c) = w
  BY <1>2, <1>3, OpsLink
<1>6. /\ w.kind \in {"entry", "terminal", "retire", "create", "base", "delta", "live"}
      /\ (w.kind \in DocKinds => w.id \in Docs) /\ (w.kind \in TaskKinds => w.id \in Tasks)
  BY <1>3 DEF Shaped, DocKinds, TaskKinds
<1>7. x.docs \in [Docs -> DocRecs]
  BY StateShape
<1>8. << <<n, i>> >> \in Stamps
  BY <1>3, StampShape
<1>80. Lined(w, n, i) \in Revs /\ Lined(w, n, i).ver = 1
  BY <1>3, <1>8 DEF Lined, Revs
<1>9. CASE w.kind \in {"entry", "terminal", "retire"} \/ (w.kind = "live" /\ FinalLive(w.id))
  <2>1. y = Apply(x, w, n, i)
    BY <1>3, <1>4, <1>5, <1>9 DEF Restore
  <2>2. Effect(x, y, w, n, i)
    BY <1>3, <2>1, ApplyEffect
  <2>3. w.kind \notin {"base", "delta", "create"}
    BY <1>9
  <2>4. \A d \in Docs : OnDoc(w, d) => 
          /\ y.docs[d] = DocAfter(x.docs[d], d, w.kind, n, Lined(w, n, i))
          /\ w.kind = "retire"
    <3>1. ASSUME NEW d \in Docs, OnDoc(w, d)
          PROVE  y.docs[d] = DocAfter(x.docs[d], d, w.kind, n, Lined(w, n, i)) /\ w.kind = "retire"
      <4>1. w.kind = "retire"
        BY <1>9, <3>1 DEF OnDoc, DocKinds
      <4>2. y.docs[d] = DocAfter(x.docs[d], d, w.kind, n, RevOf(w, n, i))
        BY <2>2, <3>1 DEF Effect
      <4>. QED BY <4>1, <4>2 DEF DocAfter
    <3>. QED BY <3>1
  <2>5. ASSUME NEW t \in Tasks
        PROVE  y.tasks[t] = IF OnTask(w, t) /\ (w.kind = "terminal" \/ FinalLive(t))
                            THEN [status |-> w.kind, stamp |-> <<n, i>>] ELSE x.tasks[t]
    BY <1>9, <2>2 DEF Effect, OnTask, TaskKinds
  <2>6. y.nextId = IF w.kind \in {"create", "terminal"} \/ (w.kind = "live" /\ FinalLive(w.id))
                   THEN Larger(x.nextId, w.id + 1) ELSE x.nextId
    BY <1>9, <2>2 DEF Effect, TaskKinds
  <2>7. ASSUME NEW d \in Docs, OnDoc(w, d)
        PROVE  Rewritten(x.docs[d], y.docs[d], w, n, i, d)
    BY <1>80, <2>4, <2>7 DEF Rewritten
  <2>8. /\ y \in States /\ \A d \in Docs : ~OnDoc(w, d) => y.docs[d] = x.docs[d]
        /\ y.entries = IF w.kind = "entry" THEN x.entries \cup {<<n, i>>} ELSE x.entries
    BY <2>2 DEF Effect
  <2>9. Recalls(x, y, w, n, i)
    BY <2>3, <2>5, <2>6, <2>7, <2>8 DEF Recalls
  <2>. QED BY <1>1, <1>2, <1>4, <2>9
<1>10. CASE w.kind = "live" /\ ~FinalLive(w.id)
  <2>1. y = x
    BY <1>4, <1>5, <1>10 DEF Restore
  <2>. QED BY <1>1, <1>2, <1>4, <1>10, <2>1 DEF Recalls, OnDoc, OnTask, DocKinds
<1>11. CASE w.kind = "create"
  <2>0. w.id \in Docs
    BY <1>6, <1>11 DEF DocKinds
  <2>. DEFINE d == w.id
              e == IF FoundAt(c, d) = {} THEN [ver |-> 1, val |-> <<>>] ELSE CHOOSE r \in FoundAt(c, d) : TRUE
  <2>1. y = PutDoc(x, d, n, e)
    BY <1>3, <1>4, <1>5, <1>11 DEF Restore
  <2>2. c \in Ops(main, d, {"create"})
    BY <1>3, <1>11
  <2>3. e.ver = 1 /\ e.val \in Stamps /\ (Has(side[d], c) => e.val = << <<n, i>> >>)
    <3>1. CASE FoundAt(c, d) = {}
      <4>1. ~Has(side[d], c)
        BY <2>0, <2>2, <3>1, FoundLink DEF Files
      <4>2. <<>> \in Stamps
        BY DEF Stamps
      <4>. QED BY <3>1, <4>1, <4>2
    <3>2. CASE FoundAt(c, d) # {}
      <4>1. e \in FoundAt(c, d)
        BY <3>2
      <4>. HIDE DEF e
      <4>2. e = LineOf(main, c)
        BY <2>0, <2>2, <4>1, FoundLink DEF Files
      <4>. QED BY <1>5, <1>8, <2>2, <4>2, LineOfShape
    <3>. QED BY <3>1, <3>2
  <2>. HIDE DEF e
  <2>4. PICK r : r = [seq |-> n, base |-> TRUE, ver |-> e.ver, val |-> e.val]
    OBVIOUS
  <2>40. r \in Revs /\ r.ver = 1
    BY <1>3, <2>3, <2>4 DEF Revs
  <2>5. /\ Changes(x, y, d, DocAfter(x.docs[d], d, "create", n, r))
        /\ y.nextId = Larger(x.nextId, d + 1)
    BY <1>3, <2>0, <2>1, <2>3, <2>4, PutDocEffect
  <2>6. Has(side[d], c) => r = Lined(w, n, i)
    BY <1>11, <2>3, <2>4 DEF Lined
  <2>7. y.docs[d] = DocAfter(x.docs[d], d, w.kind, n, r) /\ \A dd \in Docs : dd # d => y.docs[dd] = x.docs[dd]
    BY <1>7, <1>11, <2>0, <2>5 DEF Changes
  <2>8. ASSUME NEW dd \in Docs, OnDoc(w, dd)
        PROVE  Rewritten(x.docs[dd], y.docs[dd], w, n, i, dd)
    BY <1>2, <2>40, <2>6, <2>7, <2>8 DEF OnDoc, Rewritten
  <2>9. \A dd \in Docs : ~OnDoc(w, dd) => y.docs[dd] = x.docs[dd]
    BY <1>11, <2>7 DEF OnDoc, DocKinds
  <2>10. y \in States /\ y.tasks = x.tasks /\ y.entries = x.entries
    BY <2>5 DEF Changes, Rest
  <2>11. ASSUME NEW t \in Tasks
         PROVE  y.tasks[t] = IF OnTask(w, t) /\ (w.kind = "terminal" \/ FinalLive(t))
                             THEN [status |-> w.kind, stamp |-> <<n, i>>] ELSE x.tasks[t]
    BY <1>11, <2>10 DEF OnTask, TaskKinds
  <2>12. \A dd \in Docs : OnDoc(w, dd) =>
           Rewritten(x.docs[dd], y.docs[dd], w, n, i, dd)
    BY <2>8
  <2>13. w.kind \in {"create", "terminal"} /\ w.kind \notin {"base", "delta"} /\ w.kind # "entry"
    BY <1>11
  <2>14. \A dd \in Docs : OnDoc(w, dd) /\ w.kind \in {"base", "delta"} /\ Reclaimed(dd, <<n, i>>) =>
           y.docs[dd] = x.docs[dd]
    BY <2>13
  <2>15. \A dd \in Docs : OnDoc(w, dd) /\ ~(w.kind \in {"base", "delta"} /\ Reclaimed(dd, <<n, i>>)) =>
           Rewritten(x.docs[dd], y.docs[dd], w, n, i, dd)
    BY <2>12
  <2>16. y.entries = IF w.kind = "entry" THEN x.entries \cup {<<n, i>>} ELSE x.entries
    BY <2>10, <2>13
  <2>17. y.nextId = IF w.kind \in {"create", "terminal"} \/ (w.kind = "live" /\ FinalLive(w.id))
                   THEN Larger(x.nextId, w.id + 1) ELSE x.nextId
    BY <2>5, <2>13
  <2>18. Recalls(x, y, w, n, i)
    BY <2>9, <2>10, <2>11, <2>14, <2>15, <2>16, <2>17 DEF Recalls
  <2>. QED BY <1>1, <1>2, <1>4, <2>18
<1>12. CASE w.kind \in {"base", "delta"} /\ Reclaimed(w.id, c)
  <2>1. y = x
    BY <1>4, <1>5, <1>12 DEF Restore
  <2>2. \A d \in Docs : OnDoc(w, d) => Reclaimed(d, c)
    BY <1>12 DEF OnDoc
  <2>. QED BY <1>1, <1>2, <1>4, <1>12, <2>1, <2>2 DEF Recalls, OnTask, TaskKinds
<1>13. CASE w.kind \in {"base", "delta"} /\ ~Reclaimed(w.id, c)
  <2>0. w.id \in Docs
    BY <1>6, <1>13 DEF DocKinds
  <2>. DEFINE d == w.id
              e == CHOOSE r \in FoundAt(c, d) : TRUE
  <2>1. y = ChangeDoc(x, d, n, e.base, e)
    BY <1>3, <1>4, <1>5, <1>13 DEF Restore
  <2>2. c \in Ops(main, d, SideKinds \cup {"copy"})
    BY <1>3, <1>13 DEF SideKinds
  <2>3. FoundAt(c, d) # {}
    BY <1>13, <2>0, <2>2, LineKept
  <2>4. e \in FoundAt(c, d)
    BY <2>3
  <2>. HIDE DEF e
  <2>5. e = LineOf(main, c)
    BY <2>0, <2>2, <2>4, FoundLink DEF Files
  <2>6. e.base = (w.kind # "delta") /\ e.ver = 1 /\ e.val = << <<n, i>> >>
    BY <1>3, <1>5, <2>2, <2>5, LineOfShape
  <2>7. PICK r : r = Lined(w, n, i)
    OBVIOUS
  <2>8. Changes(x, y, d, DocAfter(x.docs[d], d, w.kind, n, r)) /\ y.nextId = x.nextId
    <3>1. CASE w.kind = "base"
      <4>1. e.base = TRUE
        BY <2>6, <3>1
      <4>2. y = Based(x, d, n, e)
        BY <2>1, <4>1, Zenon DEF Based
      <4>3. r = [seq |-> n, base |-> TRUE, ver |-> e.ver, val |-> e.val]
        BY <2>6, <2>7, <3>1 DEF Lined
      <4>. QED BY <1>3, <1>8, <2>0, <2>6, <3>1, <4>2, <4>3, BaseEffect
    <3>2. CASE w.kind = "delta"
      <4>1. e.base = FALSE
        BY <2>6, <3>2
      <4>2. y = Extended(x, d, n, e)
        BY <2>1, <4>1, Zenon DEF Extended
      <4>3. r = [seq |-> n, base |-> FALSE, ver |-> e.ver, val |-> e.val]
        BY <2>6, <2>7, <3>2 DEF Lined
      <4>. QED BY <1>3, <1>8, <2>0, <2>6, <3>2, <4>2, <4>3, DeltaEffect
    <3>. QED BY <1>13, <3>1, <3>2
  <2>9. y.docs[d] = DocAfter(x.docs[d], d, w.kind, n, r) /\ \A dd \in Docs : dd # d => y.docs[dd] = x.docs[dd]
    BY <1>7, <2>0, <2>8 DEF Changes
  <2>10. ASSUME NEW dd \in Docs, OnDoc(w, dd)
        PROVE  Rewritten(x.docs[dd], y.docs[dd], w, n, i, dd)
    BY <1>80, <2>7, <2>9, <2>10 DEF OnDoc, Rewritten
  <2>11. \A dd \in Docs : ~OnDoc(w, dd) => y.docs[dd] = x.docs[dd]
    BY <1>13, <2>9 DEF OnDoc, DocKinds
  <2>12. y \in States /\ y.tasks = x.tasks /\ y.entries = x.entries
    BY <2>8 DEF Changes, Rest
  <2>13. \A dd \in Docs : OnDoc(w, dd) => ~Reclaimed(dd, <<n, i>>)
    BY <1>2, <1>13 DEF OnDoc
  <2>14. ASSUME NEW t \in Tasks
         PROVE  y.tasks[t] = IF OnTask(w, t) /\ (w.kind = "terminal" \/ FinalLive(t))
                             THEN [status |-> w.kind, stamp |-> <<n, i>>] ELSE x.tasks[t]
    BY <1>13, <2>12 DEF OnTask, TaskKinds
  <2>15. \A dd \in Docs : OnDoc(w, dd) =>
           Rewritten(x.docs[dd], y.docs[dd], w, n, i, dd)
    BY <2>10
  <2>16. w.kind \notin {"create", "terminal"} /\ w.kind # "live" /\ w.kind # "entry"
    BY <1>13
  <2>17. y.nextId = x.nextId
    BY <2>8
  <2>18. \A dd \in Docs : OnDoc(w, dd) /\ w.kind \in {"base", "delta"} /\ Reclaimed(dd, <<n, i>>) =>
           y.docs[dd] = x.docs[dd]
    BY <2>13
  <2>19. \A dd \in Docs : OnDoc(w, dd) /\ ~(w.kind \in {"base", "delta"} /\ Reclaimed(dd, <<n, i>>)) =>
           Rewritten(x.docs[dd], y.docs[dd], w, n, i, dd)
    BY <2>15
  <2>20. y.entries = IF w.kind = "entry" THEN x.entries \cup {<<n, i>>} ELSE x.entries
    BY <2>12, <2>16
  <2>21. y.nextId = IF w.kind \in {"create", "terminal"} \/ (w.kind = "live" /\ FinalLive(w.id))
                   THEN Larger(x.nextId, w.id + 1) ELSE x.nextId
    BY <2>16, <2>17
  <2>22. Recalls(x, y, w, n, i)
    BY <2>11, <2>12, <2>14, <2>18, <2>19, <2>20, <2>21 DEF Recalls
  <2>. QED BY <1>1, <1>2, <1>4, <2>22
<1>. QED BY <1>6, <1>9, <1>10, <1>11, <1>12, <1>13

(* What was replayed up to position c, and what was published up to there. *)
SimDoc(x, y, c, d) ==
  /\ x.docs[d].created = y.docs[d].created /\ x.docs[d].retired = y.docs[d].retired
  /\ \A p \in Ops(main, d, {"create"}) : Before(p, c) => y.docs[d].created # 0
  /\ y.docs[d].created # 0 => \E p \in Ops(main, d, {"create"}) : Before(p, c)
  /\ y.docs[d].retired # 0 => \E p \in Ops(main, d, {"retire"}) : Before(p, c)
  /\ Ops(main, d, DocKinds) = {} => x.docs[d] = NoDoc /\ y.docs[d] = NoDoc
  /\ \A p \in Ops(main, d, {"retire"}) : Before(p, c) =>
       /\ y.docs[d].retired # 0
       /\ d \notin Rewindable => x.docs[d].revs = <<>> /\ y.docs[d].revs = <<>>
  /\ \A b : AliveAt(ref, d, Current) /\ Newest(main, d, b) /\ Before(b, c) =>
       LikeDoc(x.docs[d], y.docs[d], d)
Counted(y, c, d) ==
  \A b : /\ AliveAt(ref, d, Current) /\ d \notin Rewindable
         /\ Newest(main, d, b) /\ Before(b, c)
         /\ \A j \in DOMAIN side[d] : ~Before(Key(side[d][j]), b)
    => /\ Len(y.docs[d].revs) <= Len(side[d])
       /\ \A j \in DOMAIN side[d] : Before(Key(side[d][j]), c) <=> j <= Len(y.docs[d].revs)
(* A document comes back in version 1, whatever it was stored under. *)
Renumbered(x, d) ==
  Lives(x.docs[d]) => x.docs[d].revs # <<>> /\ Last(x.docs[d].revs).ver = 1
SimTask(x, y, c, t) ==
  FinalLive(t) \/ (\A p \in Ops(main, t, TaskKinds) : Before(p, c)) => x.tasks[t] = y.tasks[t]
Pending(t, c) == \E p \in Ops(main, t, TaskKinds) : ~Before(p, c)
SimId(x, y, c) ==
  /\ x.nextId <= y.nextId
  /\ x.nextId = y.nextId \/ \E t \in Tasks : Pending(t, c) /\ y.nextId = t + 1
Sim(x, y, c) ==
  /\ x \in States /\ y \in States /\ x.entries = y.entries /\ SimId(x, y, c)
  /\ \A d \in Docs : SimDoc(x, y, c, d) /\ Counted(y, c, d) /\ Renumbered(x, d)
  /\ \A t \in Tasks : SimTask(x, y, c, t)

(* The last write of a task decides whether its writes are replayed. *)
LEMMA LastWrite ==
  ASSUME Copies = {}, Fits, NEW n, NEW i, Position(n, i), NEW t \in Tasks, OnTask(main[n].ops[i], t),
         ~FinalLive(t)
  PROVE  /\ (\A p \in Ops(main, t, TaskKinds) : Before(p, <<n, i + 1>>)) => main[n].ops[i].kind = "terminal"
         /\ main[n].ops[i].kind = "live" => Pending(t, <<n, i + 1>>)
<1>. DEFINE c == <<n, i>>
            w == main[n].ops[i]
<1>0. main \in Seq(Markers) /\ TaskFits(main, ref, t)
  BY FitsShape
<1>1. n \in Nat /\ i \in Nat /\ Op(main, c) = w /\ c \in Ops(main, t, TaskKinds)
  BY PositionShape DEF OnTask
<1>. HIDE DEF c, w
<1>2. ref.tasks[t].status # "live"
  BY TaskLink
<1>3. PICK p \in Ops(main, t, TaskKinds) : Ends(main, t, p) /\ ref.tasks[t].status = Op(main, p).kind
  BY <1>0, <1>1 DEF TaskFits
<1>4. p = <<p[1], p[2]>> /\ p[1] \in Nat /\ p[2] \in Nat /\ Op(main, p).kind \in TaskKinds
  BY <1>0, OpsShape
<1>5. Op(main, p).kind = "terminal"
  BY <1>2, <1>3, <1>4 DEF TaskKinds
<1>6. c = p \/ Before(c, p)
  BY <1>1, <1>3 DEF Ends
<1>7. Before(p, <<n, i + 1>>) <=> Before(p, c) \/ p = c
  BY <1>1, <1>4, BeforeNext DEF c
<1>8. ~(Before(c, p) /\ Before(p, c))
  BY <1>1, <1>4 DEF Before, c
<1>9. Before(p, <<n, i + 1>>) => c = p
  BY <1>6, <1>7, <1>8
<1>10. w.kind = "live" => c # p
  BY <1>1, <1>5
<1>. QED BY <1>1, <1>3, <1>5, <1>9, <1>10 DEF Pending, w

LEMMA SimTaskStep ==
  ASSUME Copies = {}, Fits, NEW n, NEW i, Position(n, i), NEW x, NEW y, NEW x2, NEW y2,
         NEW t \in Tasks, SimTask(x, y, <<n, i>>, t),
         Recalls(x, x2, main[n].ops[i], n, i), Effect(y, y2, main[n].ops[i], n, i)
  PROVE  SimTask(x2, y2, <<n, i + 1>>, t)
<1>. DEFINE c == <<n, i>>
            c2 == <<n, i + 1>>
            w == main[n].ops[i]
<1>0. main \in Seq(Markers)
  BY FitsShape
<1>1. n \in Nat /\ i \in Nat /\ Op(main, c) = w /\ (OnTask(w, t) => c \in Ops(main, t, TaskKinds))
  BY PositionShape DEF OnTask
<1>2. \A p \in Ops(main, t, TaskKinds) : Before(p, c2) <=> Before(p, c) \/ p = c
  <2>1. ASSUME NEW p \in Ops(main, t, TaskKinds) PROVE Before(p, c2) <=> Before(p, c) \/ p = c
    <3>1. p = <<p[1], p[2]>> /\ p[1] \in Nat /\ p[2] \in Nat
      BY <1>0, OpsShape
    <3>. QED BY <1>1, <3>1, BeforeNext
  <2>. QED BY <2>1
<1>3. SUFFICES ASSUME FinalLive(t) \/ (\A p \in Ops(main, t, TaskKinds) : Before(p, c2))
               PROVE  x2.tasks[t] = y2.tasks[t]
  BY DEF SimTask
<1>4. CASE OnTask(w, t)
  <2>1. w.kind = "terminal" \/ FinalLive(t)
    BY <1>3, <1>4, LastWrite
  <2>2. x2.tasks[t] = [status |-> w.kind, stamp |-> <<n, i>>]
    BY <1>4, <2>1 DEF Recalls
  <2>3. y2.tasks[t] = [status |-> w.kind, stamp |-> <<n, i>>]
    BY <1>4 DEF Effect
  <2>. QED BY <2>2, <2>3
<1>5. CASE ~OnTask(w, t)
  <2>1. \A p \in Ops(main, t, TaskKinds) : p # c
    BY <1>1, <1>5 DEF Ops, OnTask
  <2>2. FinalLive(t) \/ (\A p \in Ops(main, t, TaskKinds) : Before(p, c))
    BY <1>2, <1>3, <2>1
  <2>3. x.tasks[t] = y.tasks[t]
    BY <2>2 DEF SimTask
  <2>4. x2.tasks[t] = x.tasks[t]
    BY <1>5 DEF Recalls
  <2>5. y2.tasks[t] = y.tasks[t]
    BY <1>5 DEF Effect
  <2>. QED BY <2>3, <2>4, <2>5
<1>. QED BY <1>4, <1>5

LEMMA SimIdStep ==
  ASSUME Copies = {}, Fits, NEW n, NEW i, Position(n, i), NEW x \in States, NEW y \in States,
         NEW x2, NEW y2, SimId(x, y, <<n, i>>),
         Recalls(x, x2, main[n].ops[i], n, i), Effect(y, y2, main[n].ops[i], n, i)
  PROVE  SimId(x2, y2, <<n, i + 1>>)
<1>. DEFINE c == <<n, i>>
            c2 == <<n, i + 1>>
            w == main[n].ops[i]
<1>0. main \in Seq(Markers) /\ x.nextId \in Nat /\ y.nextId \in Nat
  BY FitsShape, StateShape
<1>1. n \in Nat /\ i \in Nat /\ Op(main, c) = w /\ Shaped(w)
  BY PositionShape
<1>2. w.id \in Nat /\ (w.kind \in TaskKinds => w.id \in Tasks)
  BY <1>1 DEF Shaped
<1>3. x2.nextId = IF \/ w.kind \in {"create", "terminal"}
                     \/ w.kind = "live" /\ FinalLive(w.id)
                  THEN Larger(x.nextId, w.id + 1) ELSE x.nextId
  BY DEF Recalls
<1>4. y2.nextId = IF w.kind \in {"create", "live", "terminal"} THEN Larger(y.nextId, w.id + 1)
                                                               ELSE y.nextId
  BY DEF Effect, TaskKinds
<1>5. ASSUME NEW t \in Tasks, Pending(t, c), ~OnTask(w, t) PROVE Pending(t, c2)
  <2>1. PICK p \in Ops(main, t, TaskKinds) : ~Before(p, c)
    BY <1>5 DEF Pending
  <2>2. p = <<p[1], p[2]>> /\ p[1] \in Nat /\ p[2] \in Nat
    BY <1>0, OpsShape
  <2>3. p # c
    BY <1>1, <1>5 DEF Ops, OnTask
  <2>4. ~Before(p, c2)
    BY <1>1, <2>1, <2>2, <2>3, BeforeNext
  <2>. QED BY <2>4 DEF Pending
<1>6. x.nextId <= y.nextId /\ (x.nextId = y.nextId \/ \E t \in Tasks : Pending(t, c) /\ y.nextId = t + 1)
  BY DEF SimId
<1>7. Tasks \subseteq Nat
  BY IdShape
<1>. HIDE DEF c, c2, w
<1>8. CASE w.kind \notin {"create", "live", "terminal"}
  <2>1. x2.nextId = x.nextId /\ y2.nextId = y.nextId /\ \A t : ~OnTask(w, t)
    BY <1>3, <1>4, <1>8 DEF OnTask, TaskKinds
  <2>2. x2.nextId <= y2.nextId /\ (x2.nextId = y2.nextId \/ \E t \in Tasks : Pending(t, c2) /\ y2.nextId = t + 1)
    BY <1>5, <1>6, <2>1
  <2>. QED BY <2>2 DEF SimId, c2
<1>9. CASE w.kind \in {"create", "terminal"} \/ (w.kind = "live" /\ FinalLive(w.id))
  <2>1. x2.nextId = Larger(x.nextId, w.id + 1) /\ y2.nextId = Larger(y.nextId, w.id + 1)
    BY <1>3, <1>4, <1>9
  <2>2. x2.nextId <= y2.nextId
    BY <1>0, <1>2, <1>6, <2>1 DEF Larger
  <2>3. CASE x.nextId = y.nextId
    BY <2>1, <2>2, <2>3 DEF SimId, c2
  <2>4. ASSUME NEW t \in Tasks, Pending(t, c), y.nextId = t + 1 PROVE SimId(x2, y2, c2)
    <3>1. CASE OnTask(w, t) \/ t + 1 <= w.id + 1
      <4>1. y.nextId <= w.id + 1
        BY <1>0, <1>2, <1>7, <2>4, <3>1 DEF OnTask
      <4>2. x2.nextId = y2.nextId
        BY <1>0, <1>2, <1>6, <2>1, <4>1 DEF Larger
      <4>. QED BY <2>2, <4>2 DEF SimId
    <3>2. CASE ~OnTask(w, t) /\ ~(t + 1 <= w.id + 1)
      <4>1. y2.nextId = t + 1
        BY <1>0, <1>2, <1>7, <2>1, <2>4, <3>2 DEF Larger
      <4>2. Pending(t, c2)
        BY <1>5, <2>4, <3>2
      <4>. QED BY <2>2, <4>1, <4>2 DEF SimId
    <3>. QED BY <3>1, <3>2
  <2>. QED BY <1>6, <2>3, <2>4 DEF c2
<1>10. CASE w.kind = "live" /\ ~FinalLive(w.id)
  <2>1. x2.nextId = x.nextId /\ y2.nextId = Larger(y.nextId, w.id + 1)
    BY <1>3, <1>4, <1>10
  <2>2. w.id \in Tasks /\ OnTask(w, w.id)
    BY <1>2, <1>10 DEF TaskKinds, OnTask
  <2>3. Pending(w.id, c2)
    BY <1>10, <2>2, LastWrite DEF w, c2
  <2>4. x2.nextId <= y2.nextId
    BY <1>0, <1>2, <1>6, <2>1 DEF Larger
  <2>5. CASE y2.nextId = w.id + 1
    BY <2>2, <2>3, <2>4, <2>5 DEF SimId, c2
  <2>6. CASE y2.nextId # w.id + 1
    <3>1. y2.nextId = y.nextId
      BY <1>0, <1>2, <2>1, <2>6 DEF Larger
    <3>2. ASSUME NEW t \in Tasks, Pending(t, c), y.nextId = t + 1 PROVE Pending(t, c2)
      <4>1. ~OnTask(w, t)
        BY <2>6, <3>1, <3>2 DEF OnTask
      <4>. QED BY <1>5, <3>2, <4>1
    <3>. QED BY <1>6, <2>1, <2>4, <3>1, <3>2 DEF SimId, c2
  <2>. QED BY <2>5, <2>6
<1>. QED BY <1>8, <1>9, <1>10

(* The newest base of a document is one. *)
LEMMA NewestUnique ==
  ASSUME Copies = {}, NEW mn \in Seq(Markers), NEW d, NEW a, NEW b, Newest(mn, d, a), Newest(mn, d, b)
  PROVE  a = b
<1>1. a \in Ops(mn, d, BaseKinds) /\ b \in Ops(mn, d, BaseKinds) /\ ~Before(a, b) /\ ~Before(b, a)
  BY DEF Newest
<1>2. a = <<a[1], a[2]>> /\ a[1] \in Nat /\ a[2] \in Nat /\ b = <<b[1], b[2]>> /\ b[1] \in Nat /\ b[2] \in Nat
  BY <1>1, OpsShape
<1>. QED BY <1>1, <1>2, BeforeOrder

(* A write of a document, with the document before and after it. *)
LEMMA OnDocShape ==
  ASSUME Copies = {}, Fits, NEW n, NEW i, Position(n, i), NEW d \in Docs, OnDoc(main[n].ops[i], d)
  PROVE  /\ <<n, i>> \in Ops(main, d, DocKinds) /\ main[n].ops[i].kind \in DocKinds
         /\ \A p \in Ops(main, d, {"retire"}) : p = <<n, i>> \/ Before(<<n, i>>, p)
         /\ \A p \in Ops(main, d, {"create"}) : p = <<n, i>> \/ Before(p, <<n, i>>)
         /\ Ops(main, d, {"create"}) # {}
         /\ AliveAt(ref, d, Current) => Ops(main, d, {"retire"}) = {}
<1>0. DocFits(main, ref, d)
  BY FitsShape
<1>1. <<n, i>> \in Ops(main, d, DocKinds) /\ main[n].ops[i].kind \in DocKinds
  BY PositionShape DEF OnDoc
<1>2. Ops(main, d, {"create"}) # {}
  BY <1>0, <1>1 DEF DocFits
<1>3. AliveAt(ref, d, Current) => Ops(main, d, {"retire"}) = {}
  BY <1>0 DEF DocFits, AliveAt, Current
<1>. QED BY <1>0, <1>1, <1>2, <1>3 DEF DocFits

LEMMA SimDocSame ==
  ASSUME Copies = {}, Fits, NEW n, NEW i, Position(n, i), NEW x, NEW y, NEW x2, NEW y2,
         NEW d \in Docs, ~OnDoc(main[n].ops[i], d),
         SimDoc(x, y, <<n, i>>, d), Counted(y, <<n, i>>, d),
         x2.docs[d] = x.docs[d], y2.docs[d] = y.docs[d]
  PROVE  SimDoc(x2, y2, <<n, i + 1>>, d) /\ Counted(y2, <<n, i + 1>>, d)
<1>. DEFINE c == <<n, i>>
            c2 == <<n, i + 1>>
            w == main[n].ops[i]
<1>0. main \in Seq(Markers) /\ d \in Files
  BY FitsShape DEF Files
<1>1. n \in Nat /\ i \in Nat /\ Op(main, c) = w /\ Shaped(w)
  BY PositionShape
<1>2. w.id # d
  BY <1>1, GoesToShape
<1>3. ASSUME NEW K, NEW p \in Ops(main, d, K) PROVE Before(p, c2) <=> Before(p, c)
  <2>1. p = <<p[1], p[2]>> /\ p[1] \in Nat /\ p[2] \in Nat /\ Op(main, p).id = d
    BY <1>0, OpsShape
  <2>2. p # c
    BY <1>1, <1>2, <2>1
  <2>. QED BY <1>1, <2>1, <2>2, BeforeNext
<1>4. ASSUME NEW j \in DOMAIN side[d] PROVE Before(Key(side[d][j]), c2) <=> Before(Key(side[d][j]), c)
  <2>1. PICK r : r = side[d][j]
    OBVIOUS
  <2>2. r.seq \in Nat /\ r.ord \in Nat /\ (r.seq <= Len(main) => Key(r) \in Ops(main, d, SideKinds))
    BY <1>0, <2>1, FileShape
  <2>3. CASE r.seq <= Len(main)
    BY <1>3, <2>1, <2>2, <2>3
  <2>4. CASE ~(r.seq <= Len(main))
    <3>1. PICK p : p = Key(r)
      OBVIOUS
    <3>2. p = <<p[1], p[2]>> /\ p[1] = r.seq /\ p[2] = r.ord
      BY <3>1 DEF Key
    <3>3. n <= Len(main) /\ Len(main) \in Nat
      BY FitsShape DEF Position
    <3>4. ~Before(p, c2) /\ ~Before(p, c)
      BY <1>1, <2>2, <2>4, <3>2, <3>3 DEF Before
    <3>. QED BY <2>1, <3>1, <3>4
  <2>. QED BY <2>3, <2>4
<1>5. \A b : Newest(main, d, b) => (Before(b, c2) <=> Before(b, c))
  BY <1>3 DEF Newest
<1>. HIDE DEF c, c2, w
<1>6. SimDoc(x2, y2, c2, d)
  BY <1>3, <1>5 DEF SimDoc, c
<1>7. Counted(y2, c2, d)
  BY <1>4, <1>5 DEF Counted, c
<1>. QED BY <1>6, <1>7 DEF c2

(* The same where the write is one of the document. *)
Written(x, y, x2, y2, n, i, d) ==
  LET w == main[n].ops[i] IN
  /\ x \in States /\ y \in States
  /\ y2.docs[d] = DocAfter(y.docs[d], d, w.kind, n, RevOf(w, n, i))
  /\ IF w.kind \in {"base", "delta"} /\ Reclaimed(d, <<n, i>>) THEN x2.docs[d] = x.docs[d]
     ELSE Rewritten(x.docs[d], x2.docs[d], w, n, i, d)

LEMMA SimDocDates ==
  ASSUME Copies = {}, Fits, NEW n, NEW i, Position(n, i), NEW x, NEW y, NEW x2, NEW y2,
         NEW d \in Docs, OnDoc(main[n].ops[i], d), SimDoc(x, y, <<n, i>>, d),
         Written(x, y, x2, y2, n, i, d)
  PROVE  /\ x2.docs[d].created = y2.docs[d].created /\ x2.docs[d].retired = y2.docs[d].retired
         /\ \A p \in Ops(main, d, {"create"}) : Before(p, <<n, i + 1>>) => y2.docs[d].created # 0
         /\ y2.docs[d].created # 0 => \E p \in Ops(main, d, {"create"}) : Before(p, <<n, i + 1>>)
         /\ y2.docs[d].retired # 0 => \E p \in Ops(main, d, {"retire"}) : Before(p, <<n, i + 1>>)
         /\ \A p \in Ops(main, d, {"retire"}) : Before(p, <<n, i + 1>>) =>
              /\ y2.docs[d].retired # 0
              /\ d \notin Rewindable => x2.docs[d].revs = <<>> /\ y2.docs[d].revs = <<>>
<1>. DEFINE c == <<n, i>>
            c2 == <<n, i + 1>>
            w == main[n].ops[i]
            k == w.kind
<1>0. main \in Seq(Markers)
  BY FitsShape
<1>1. n \in Nat /\ i \in Nat /\ n # 0 /\ Op(main, c) = w
      /\ (k = "retire" => c \in Ops(main, d, {"retire"}))
      /\ (k = "create" => c \in Ops(main, d, {"create"})) /\ w.id = d
  BY PositionShape DEF OnDoc
<1>2. k \in DocKinds
  BY DEF OnDoc
<1>3. ASSUME NEW K, NEW p \in Ops(main, d, K) PROVE Before(p, c2) <=> Before(p, c) \/ p = c
  <2>1. p = <<p[1], p[2]>> /\ p[1] \in Nat /\ p[2] \in Nat
    BY <1>0, OpsShape
  <2>. QED BY <1>1, <2>1, BeforeNext
<1>4. PICK a : a = x.docs[d]
  OBVIOUS
<1>5. PICK b : b = y.docs[d]
  OBVIOUS
<1>6. PICK a2 : a2 = x2.docs[d]
  OBVIOUS
<1>7. PICK b2 : b2 = y2.docs[d]
  OBVIOUS
<1>8. /\ a.created = b.created /\ a.retired = b.retired
      /\ \A p \in Ops(main, d, {"create"}) : Before(p, c) => b.created # 0
      /\ b.created # 0 => \E p \in Ops(main, d, {"create"}) : Before(p, c)
      /\ b.retired # 0 => \E p \in Ops(main, d, {"retire"}) : Before(p, c)
  BY <1>4, <1>5 DEF SimDoc
<1>9. b2 = DocAfter(b, d, k, n, RevOf(w, n, i))
  BY <1>5, <1>7 DEF Written, Rewritten
<1>10. (a2 = a /\ k \in {"base", "delta"}) \/ \E r : a2 = DocAfter(a, d, k, n, r)
  BY <1>4, <1>6 DEF Written, Rewritten
<1>. HIDE DEF c, c2, w, k
<1>11. /\ k = "create" => b2.created = n /\ b2.retired = 0
       /\ k # "create" => b2.created = b.created
       /\ k \in {"base", "delta"} => b2.retired = b.retired
       /\ k = "retire" => b2.retired = n
       /\ k = "retire" /\ d \notin Rewindable => b2.revs = <<>>
  BY <1>2, <1>9 DEF DocAfter, DocKinds
<1>12. /\ k = "create" => a2.created = n /\ a2.retired = 0
       /\ k # "create" => a2.created = a.created
       /\ k \in {"base", "delta"} => a2.retired = a.retired
       /\ k = "retire" => a2.retired = n
       /\ k = "retire" /\ d \notin Rewindable => a2.revs = <<>>
  <2>1. CASE a2 = a /\ k \in {"base", "delta"}
    BY <2>1
  <2>2. ASSUME NEW r, a2 = DocAfter(a, d, k, n, r)
        PROVE  /\ k = "create" => a2.created = n /\ a2.retired = 0
               /\ k # "create" => a2.created = a.created
               /\ k \in {"base", "delta"} => a2.retired = a.retired
               /\ k = "retire" => a2.retired = n
               /\ k = "retire" /\ d \notin Rewindable => a2.revs = <<>>
    BY <1>2, <2>2 DEF DocAfter, DocKinds
  <2>. QED BY <1>10, <2>1, <2>2
<1>13. a2.created = b2.created /\ a2.retired = b2.retired
  BY <1>2, <1>8, <1>11, <1>12 DEF DocKinds
<1>14. ASSUME NEW p \in Ops(main, d, {"create"}), Before(p, c2) PROVE b2.created # 0
  <2>1. CASE k = "create"
    BY <1>1, <1>11, <2>1
  <2>2. CASE k # "create"
    <3>1. p # c
      BY <1>1, <2>2 DEF Ops, k
    <3>. QED BY <1>3, <1>8, <1>11, <1>14, <2>2, <3>1
  <2>. QED BY <2>1, <2>2
<1>140. Before(c, c2)
  BY <1>1 DEF Before, c, c2
<1>141. b2.created # 0 => \E p \in Ops(main, d, {"create"}) : Before(p, c2)
  <2>1. CASE k = "create"
    BY <1>1, <1>140, <2>1
  <2>2. CASE k # "create"
    BY <1>3, <1>8, <1>11, <2>2
  <2>. QED BY <2>1, <2>2
<1>15. b2.retired # 0 => \E p \in Ops(main, d, {"retire"}) : Before(p, c2)
  <2>1. CASE k = "retire"
    BY <1>1, <1>140, <2>1
  <2>2. CASE k = "create"
    BY <1>11, <2>2
  <2>3. CASE k \in {"base", "delta"}
    BY <1>3, <1>8, <1>11, <2>3
  <2>. QED BY <1>2, <2>1, <2>2, <2>3 DEF DocKinds
<1>16. ASSUME NEW p \in Ops(main, d, {"retire"}), Before(p, c2)
       PROVE  b2.retired # 0 /\ (d \notin Rewindable => a2.revs = <<>> /\ b2.revs = <<>>)
  <2>1. CASE k = "retire"
    BY <1>1, <1>11, <1>12, <2>1
  <2>2. CASE k # "retire"
    <3>1. p # c
      BY <1>1, <2>2 DEF Ops, k
    <3>2. Before(p, c)
      BY <1>3, <1>16, <3>1
    <3>3. Before(c, p)
      BY <3>1, OnDocShape DEF c
    <3>4. p[1] \in Nat /\ p[2] \in Nat
      BY <1>0, OpsShape
    <3>. QED BY <1>1, <3>2, <3>3, <3>4 DEF Before, c
  <2>. QED BY <2>1, <2>2
<1>. QED BY <1>6, <1>7, <1>13, <1>14, <1>141, <1>15, <1>16 DEF c2

LEMMA SimDocValue ==
  ASSUME Copies = {}, Fits, NEW n, NEW i, Position(n, i), NEW x, NEW y, NEW x2, NEW y2,
         NEW d \in Docs, OnDoc(main[n].ops[i], d), SimDoc(x, y, <<n, i>>, d), Counted(y, <<n, i>>, d),
         Written(x, y, x2, y2, n, i, d), NEW b, AliveAt(ref, d, Current), Newest(main, d, b),
         Before(b, <<n, i + 1>>)
  PROVE  /\ LikeDoc(x2.docs[d], y2.docs[d], d)
         /\ d \notin Rewindable /\ (\A j \in DOMAIN side[d] : ~Before(Key(side[d][j]), b)) =>
              /\ Len(y2.docs[d].revs) <= Len(side[d])
              /\ \A j \in DOMAIN side[d] : Before(Key(side[d][j]), <<n, i + 1>>) <=> j <= Len(y2.docs[d].revs)
<1>. DEFINE c == <<n, i>>
            c2 == <<n, i + 1>>
            w == main[n].ops[i]
            k == w.kind
            q == side[d]
            r2 == RevOf(w, n, i)
            r1 == Lined(w, n, i)
<1>0. main \in Seq(Markers) /\ d \in Files
  BY FitsShape DEF Files
<1>1. n \in Nat /\ i \in Nat /\ n # 0 /\ Op(main, c) = w /\ w.id = d /\ Shaped(w)
      /\ \A K : k \in K => c \in Ops(main, d, K)
  BY PositionShape DEF OnDoc
<1>2. k \in DocKinds /\ k # "retire"
  <2>1. k = "retire" => c \in Ops(main, d, {"retire"})
    BY <1>1
  <2>. QED BY <2>1, OnDocShape DEF OnDoc
<1>3. b \in Ops(main, d, BaseKinds) /\ b = <<b[1], b[2]>> /\ b[1] \in Nat /\ b[2] \in Nat
  BY <1>0, OpsShape DEF Newest
<1>4. Before(b, c) \/ b = c
  BY <1>1, <1>3, BeforeNext
<1>5. PICK bb : Anchored(d, bb)
  BY BaseLink
<1>6. bb = b
  BY <1>0, <1>5, NewestUnique DEF Anchored
<1>7. Anchored(d, b)
  BY <1>5, <1>6
<1>8. c \in Ops(main, d, SideKinds)
  BY <1>1, <1>2 DEF DocKinds, SideKinds
<1>9. ~Before(c, b)
  BY <1>1, <1>3, <1>4 DEF Before
<1>10. ~Reclaimed(d, c) /\ Has(q, c)
  BY <1>7, <1>8, <1>9 DEF Anchored
<1>11. PICK a : a = x.docs[d]
  OBVIOUS
<1>12. PICK e : e = y.docs[d]
  OBVIOUS
<1>13. y2.docs[d] = DocAfter(e, d, k, n, r2)
  BY <1>12 DEF Written, Rewritten
<1>14. x2.docs[d] = DocAfter(a, d, k, n, r1)
  BY <1>10, <1>11 DEF Written, Rewritten
<1>15. a \in DocRecs /\ e \in DocRecs
  BY <1>11, <1>12, StateShape DEF Written, Rewritten
<1>16. /\ a.created = e.created /\ a.retired = e.retired
       /\ \A p \in Ops(main, d, {"create"}) : Before(p, c) => e.created # 0
       /\ e.retired = 0
  BY <1>11, <1>12, OnDocShape DEF SimDoc
<1>17. r1 \in Revs /\ r2 \in Revs /\ r1.base = (k # "delta") /\ r2.base = (k # "delta") /\ r1.val = r2.val
  <2>1. r2 \in Revs /\ r2.base = (k # "delta") /\ r2.val = << <<n, i>> >>
    BY <1>1, RevShape
  <2>2. << <<n, i>> >> \in Stamps
    BY <1>1, StampShape
  <2>3. r1 \in Revs /\ r1.base = (k # "delta") /\ r1.val = << <<n, i>> >>
    BY <1>1, <2>2 DEF Lined, Revs
  <2>. QED BY <2>1, <2>3
<1>19. k # "create" => Lives(a)
  <2>1. ASSUME k # "create" PROVE e.created # 0
    <3>1. PICK p \in Ops(main, d, {"create"}) : TRUE
      BY OnDocShape
    <3>2. p # c
      BY <1>1, <2>1 DEF Ops
    <3>3. Before(p, c)
      BY <3>1, <3>2, OnDocShape
    <3>. QED BY <1>16, <3>1, <3>3
  <2>. QED BY <1>16, <2>1 DEF Lives
<1>. HIDE DEF c, c2, w, k, q, r1, r2
<1>20. b # c => k = "delta" /\ Before(b, c)
  <2>1. ASSUME b # c, k # "delta" PROVE FALSE
    <3>1. k \in BaseKinds
      BY <1>2, <2>1 DEF DocKinds, BaseKinds
    <3>2. c \in Ops(main, d, BaseKinds)
      BY <1>1, <3>1
    <3>. QED BY <1>4, <2>1, <3>2 DEF Newest
  <2>. QED BY <1>4, <2>1
<1>21. k \notin BaseKinds => LikeDoc(a, e, d)
  <2>1. ASSUME k \notin BaseKinds PROVE Before(b, c)
    <3>1. b = c => k \in BaseKinds
      BY <1>1, <1>3 DEF Ops, k
    <3>. QED BY <1>4, <2>1, <3>1
  <2>. QED BY <2>1, <1>11, <1>12 DEF SimDoc, c
<1>22. LikeDoc(DocAfter(a, d, k, n, r1), DocAfter(e, d, k, n, r2), d)
  BY <1>1, <1>2, <1>15, <1>16, <1>17, <1>19, <1>21, LikeDocStep
<1>23. LikeDoc(x2.docs[d], y2.docs[d], d)
  BY <1>13, <1>14, <1>22
<1>24. ASSUME d \notin Rewindable, \A j \in DOMAIN q : ~Before(Key(q[j]), b)
       PROVE  /\ Len(y2.docs[d].revs) <= Len(q)
              /\ \A j \in DOMAIN q : Before(Key(q[j]), c2) <=> j <= Len(y2.docs[d].revs)
  <2>1. q \in Seq(Records) /\ Sorted(q) /\ DOMAIN q = 1..Len(q) /\ Len(q) \in Nat
    BY <1>0, FileShape DEF q
  <2>2. CASE b = c
    <3>1. k \in BaseKinds
      BY <1>1, <1>3, <2>2 DEF Ops, k
    <3>2. y2.docs[d].revs = <<r2>>
      BY <1>2, <1>13, <1>24, <3>1 DEF DocAfter, DocKinds, BaseKinds
    <3>3. Len(y2.docs[d].revs) = 1
      BY <3>2
    <3>4. PICK m \in Nat : m = 0
      OBVIOUS
    <3>5. m <= Len(q) /\ \A j \in DOMAIN q : Before(Key(q[j]), c) <=> j <= m
      BY <1>24, <2>1, <2>2, <3>4
    <3>6. m + 1 <= Len(q) /\ \A j \in DOMAIN q : Before(Key(q[j]), c2) <=> j <= m + 1
      BY <1>1, <1>10, <2>1, <3>5, CountNext DEF c, c2
    <3>7. m + 1 = 1
      BY <3>4
    <3>. QED BY <3>3, <3>6, <3>7
  <2>3. CASE b # c
    <3>1. k = "delta" /\ Before(b, c)
      BY <1>20, <2>3
    <3>2. y2.docs[d].revs = Append(e.revs, r2)
      BY <1>2, <1>13, <3>1 DEF DocAfter, DocKinds
    <3>3. e.revs \in Seq(Revs) /\ Len(e.revs) \in Nat
      BY <1>15 DEF DocRecs
    <3>4. Len(y2.docs[d].revs) = Len(e.revs) + 1
      BY <1>17, <3>2, <3>3
    <3>5. Len(e.revs) <= Len(q) /\ \A j \in DOMAIN q : Before(Key(q[j]), c) <=> j <= Len(e.revs)
      BY <1>12, <1>24, <3>1 DEF Counted, c, q
    <3>6. /\ Len(e.revs) + 1 <= Len(q)
          /\ \A j \in DOMAIN q : Before(Key(q[j]), c2) <=> j <= Len(e.revs) + 1
      BY <1>1, <1>10, <2>1, <3>3, <3>5, CountNext DEF c, c2
    <3>. QED BY <3>4, <3>6
  <2>. QED BY <2>2, <2>3
<1>. QED BY <1>23, <1>24 DEF q, c2

LEMMA RenumberedStep ==
  ASSUME Copies = {}, Fits, NEW n, NEW i, Position(n, i), NEW x, NEW y, NEW x2, NEW y2,
         NEW d \in Docs, OnDoc(main[n].ops[i], d), Renumbered(x, d), Written(x, y, x2, y2, n, i, d)
  PROVE  Renumbered(x2, d)
<1>1. PICK k : k = main[n].ops[i].kind
  OBVIOUS
<1>2. k \in DocKinds
  BY <1>1 DEF OnDoc
<1>3. PICK a \in DocRecs : a = x.docs[d]
  BY StateShape DEF Written, Rewritten
<1>4. PICK a2 : a2 = x2.docs[d]
  OBVIOUS
<1>5. Lives(a) => a.revs # <<>> /\ Last(a.revs).ver = 1
  BY <1>3 DEF Renumbered
<1>6. CASE a2 = a
  BY <1>4, <1>5, <1>6 DEF Renumbered
<1>7. ASSUME NEW r \in Revs, r.ver = 1, a2 = DocAfter(a, d, k, n, r)
      PROVE  Lives(a2) => a2.revs # <<>> /\ Last(a2.revs).ver = 1
  <2>1. a.revs \in Seq(Revs)
    BY <1>3 DEF DocRecs
  <2>2. <<r>> # <<>> /\ Last(<<r>>).ver = 1
    BY <1>7 DEF Last
  <2>3. Append(a.revs, r) # <<>> /\ Last(Append(a.revs, r)).ver = 1
    BY <1>7, <2>1 DEF Last
  <2>4. CASE k = "retire"
    <3>1. n # 0
      BY PositionShape
    <3>. QED BY <1>7, <2>4, <3>1 DEF DocAfter, Lives
  <2>5. CASE k # "retire"
    <3>1. a2.revs = <<r>> \/ a2.revs = Append(a.revs, r)
      BY <1>2, <1>7, <2>5 DEF DocAfter, DocKinds
    <3>. QED BY <2>2, <2>3, <3>1
  <2>. QED BY <2>4, <2>5
<1>8. a2 = a \/ \E r \in Revs : r.ver = 1 /\ a2 = DocAfter(a, d, k, n, r)
  BY <1>1, <1>3, <1>4 DEF Written, Rewritten
<1>9. Lives(a2) => a2.revs # <<>> /\ Last(a2.revs).ver = 1
  BY <1>5, <1>7, <1>8
<1>. QED BY <1>4, <1>9 DEF Renumbered

LEMMA SimDocStep ==
  ASSUME Copies = {}, Fits, NEW n, NEW i, Position(n, i), NEW x \in States, NEW y \in States,
         NEW x2, NEW y2, NEW d \in Docs, SimDoc(x, y, <<n, i>>, d), Counted(y, <<n, i>>, d),
         Renumbered(x, d),
         Recalls(x, x2, main[n].ops[i], n, i), Effect(y, y2, main[n].ops[i], n, i)
  PROVE  SimDoc(x2, y2, <<n, i + 1>>, d) /\ Counted(y2, <<n, i + 1>>, d) /\ Renumbered(x2, d)
<1>1. CASE ~OnDoc(main[n].ops[i], d)
  <2>1. x2.docs[d] = x.docs[d]
    BY <1>1 DEF Recalls
  <2>2. y2.docs[d] = y.docs[d]
    BY <1>1 DEF Effect
  <2>3. Renumbered(x2, d)
    BY <2>1 DEF Renumbered
  <2>. QED BY <1>1, <2>1, <2>2, <2>3, SimDocSame
<1>2. CASE OnDoc(main[n].ops[i], d)
  <2>1. Written(x, y, x2, y2, n, i, d)
    <3>1. y2.docs[d] = DocAfter(y.docs[d], d, main[n].ops[i].kind, n, RevOf(main[n].ops[i], n, i))
      BY <1>2 DEF Effect
    <3>. QED BY <1>2, <3>1 DEF Recalls, Written
  <2>2. /\ x2.docs[d].created = y2.docs[d].created /\ x2.docs[d].retired = y2.docs[d].retired
        /\ \A p \in Ops(main, d, {"create"}) : Before(p, <<n, i + 1>>) => y2.docs[d].created # 0
        /\ y2.docs[d].created # 0 => \E p \in Ops(main, d, {"create"}) : Before(p, <<n, i + 1>>)
        /\ y2.docs[d].retired # 0 => \E p \in Ops(main, d, {"retire"}) : Before(p, <<n, i + 1>>)
        /\ \A p \in Ops(main, d, {"retire"}) : Before(p, <<n, i + 1>>) =>
             /\ y2.docs[d].retired # 0
             /\ d \notin Rewindable => x2.docs[d].revs = <<>> /\ y2.docs[d].revs = <<>>
    BY <1>2, <2>1, SimDocDates
  <2>3. Ops(main, d, DocKinds) # {}
    BY <1>2, OnDocShape
  <2>4. ASSUME NEW b, AliveAt(ref, d, Current), Newest(main, d, b), Before(b, <<n, i + 1>>)
        PROVE  LikeDoc(x2.docs[d], y2.docs[d], d)
    BY <1>2, <2>1, <2>4, SimDocValue
  <2>5. Counted(y2, <<n, i + 1>>, d)
    <3>1. ASSUME NEW b, AliveAt(ref, d, Current), d \notin Rewindable, Newest(main, d, b),
                 Before(b, <<n, i + 1>>), \A j \in DOMAIN side[d] : ~Before(Key(side[d][j]), b)
          PROVE  /\ Len(y2.docs[d].revs) <= Len(side[d])
                 /\ \A j \in DOMAIN side[d] : Before(Key(side[d][j]), <<n, i + 1>>) <=> j <= Len(y2.docs[d].revs)
      BY <1>2, <2>1, <3>1, SimDocValue
    <3>. QED BY <3>1 DEF Counted
  <2>6. Renumbered(x2, d)
    BY <1>2, <2>1, RenumberedStep
  <2>. QED BY <2>2, <2>3, <2>4, <2>5, <2>6 DEF SimDoc
<1>. QED BY <1>1, <1>2

LEMMA SimStep ==
  ASSUME Copies = {}, Fits, NEW n, NEW i, Position(n, i), NEW x, NEW y, Sim(x, y, <<n, i>>)
  PROVE  Sim(Restore(x, <<n, i>>), Apply(y, main[n].ops[i], n, i), <<n, i + 1>>)
<1>0. x \in States /\ y \in States /\ x.entries = y.entries /\ SimId(x, y, <<n, i>>)
  BY DEF Sim
<1>1. PICK x2 : x2 = Restore(x, <<n, i>>)
  OBVIOUS
<1>2. PICK y2 : y2 = Apply(y, main[n].ops[i], n, i)
  OBVIOUS
<1>3. Recalls(x, x2, main[n].ops[i], n, i)
  BY <1>0, <1>1, RestoreEffect
<1>4. n \in Nat /\ i \in Nat /\ Shaped(main[n].ops[i])
  BY PositionShape
<1>5. Effect(y, y2, main[n].ops[i], n, i)
  BY <1>0, <1>2, <1>4, ApplyEffect
<1>6. x2 \in States /\ y2 \in States /\ x2.entries = y2.entries
  BY <1>0, <1>3, <1>5 DEF Recalls, Effect
<1>7. SimId(x2, y2, <<n, i + 1>>)
  BY <1>0, <1>3, <1>5, SimIdStep
<1>8. ASSUME NEW d \in Docs
      PROVE  SimDoc(x2, y2, <<n, i + 1>>, d) /\ Counted(y2, <<n, i + 1>>, d) /\ Renumbered(x2, d)
  <2>1. SimDoc(x, y, <<n, i>>, d) /\ Counted(y, <<n, i>>, d) /\ Renumbered(x, d)
    BY DEF Sim
  <2>. QED BY <1>0, <1>3, <1>5, <2>1, SimDocStep
<1>9. ASSUME NEW t \in Tasks PROVE SimTask(x2, y2, <<n, i + 1>>, t)
  <2>1. SimTask(x, y, <<n, i>>, t)
    BY DEF Sim
  <2>. QED BY <1>3, <1>5, <2>1, SimTaskStep
<1>. QED BY <1>1, <1>2, <1>6, <1>7, <1>8, <1>9 DEF Sim

(* The states after the markers. *)
LEMMA RecoversUnique ==
  ASSUME NEW j \in Nat, NEW k \in Nat, NEW f, NEW g, Recovers(f, j), Recovers(g, k),
         NEW m \in Nat, m <= j, m <= k
  PROVE  f[m] = g[m]
<1>. DEFINE Step(x, n) == RestoreMarker(x, n)
            Good == {n \in Nat : n <= j /\ n <= k => f[n] = g[n]}
<1>1. f = [n \in 0..j |-> IF n = 0 THEN Empty ELSE Step(f[n - 1], n)]
  BY Zenon DEF Recovers
<1>2. g = [n \in 0..k |-> IF n = 0 THEN Empty ELSE Step(g[n - 1], n)]
  BY Zenon DEF Recovers
<1>. HIDE DEF Step
<1>3. 0 \in Good
  BY <1>1, <1>2
<1>4. ASSUME NEW n \in Nat, n \in Good PROVE n + 1 \in Good
  <2>1. CASE n + 1 <= j /\ n + 1 <= k
    <3>1. n + 1 \in 0..j /\ n + 1 \in 0..k /\ n + 1 # 0 /\ (n + 1) - 1 = n /\ n <= j /\ n <= k
      BY <2>1
    <3>2. f[n + 1] = Step(f[n], n + 1)
      BY <1>1, <3>1
    <3>3. g[n + 1] = Step(g[n], n + 1)
      BY <1>2, <3>1
    <3>4. f[n] = g[n]
      BY <1>4, <3>1
    <3>. QED BY <3>2, <3>3, <3>4
  <2>2. CASE ~(n + 1 <= j /\ n + 1 <= k)
    BY <2>2
  <2>. QED BY <2>1, <2>2
<1>5. m \in Good
  <2>. HIDE DEF Good
  <2>. QED BY <1>3, <1>4, SetInduction
<1>. QED BY <1>5

LEMMA RecoveredStep ==
  /\ RecoveredTo(0) = Empty
  /\ \A n \in Nat : RecoveredTo(n + 1) = RestoreMarker(RecoveredTo(n), n + 1)
<1>1. RecoveredTo(0) = Empty
  <2>1. PICK z \in Nat : z = 0
    OBVIOUS
  <2>2. PICK f : Recovers(f, z) /\ RecoveredTo(z) = f[z]
    BY RecoveredUnfolds
  <2>3. f[0] = Empty
    BY <2>1, <2>2 DEF Recovers
  <2>. QED BY <2>1, <2>2, <2>3
<1>2. ASSUME NEW n \in Nat PROVE RecoveredTo(n + 1) = RestoreMarker(RecoveredTo(n), n + 1)
  <2>1. PICK f : Recovers(f, n) /\ RecoveredTo(n) = f[n]
    BY RecoveredUnfolds
  <2>2. PICK m \in Nat : m = n + 1
    OBVIOUS
  <2>3. PICK g : Recovers(g, m) /\ RecoveredTo(m) = g[m]
    BY RecoveredUnfolds
  <2>4. n <= m /\ n <= n
    BY <2>2
  <2>5. g[n] = f[n]
    BY <2>1, <2>3, <2>4, RecoversUnique
  <2>6. m \in 0..m /\ m # 0 /\ m - 1 = n
    BY <2>2
  <2>7. g[m] = RestoreMarker(g[n], m)
    <3>. DEFINE Step(x, k) == RestoreMarker(x, k)
    <3>1. g = [k \in 0..m |-> IF k = 0 THEN Empty ELSE Step(g[k - 1], k)]
      BY <2>3, Zenon DEF Recovers
    <3>. HIDE DEF Step
    <3>2. g[m] = Step(g[n], m)
      BY <2>6, <3>1
    <3>. QED BY <3>2 DEF Step
  <2>. QED BY <2>1, <2>2, <2>3, <2>5, <2>7
<1>. QED BY <1>1, <1>2

(* Positions between which there is no operation and no line. *)
Placed(p) ==
  /\ p = <<p[1], p[2]>> /\ p[1] \in Nat /\ p[2] \in Nat
  /\ p[1] <= Len(main) => p[1] # 0 /\ p[2] # 0 /\ p[2] <= Len(main[p[1]].ops)
Agree(c, e) ==
  /\ \A id, K : \A p \in Ops(main, id, K) : Before(p, c) <=> Before(p, e)
  /\ \A d \in Docs : \A j \in DOMAIN side[d] :
       Before(Key(side[d][j]), c) <=> Before(Key(side[d][j]), e)

LEMMA PlacedOps ==
  ASSUME Copies = {}, Fits, NEW id, NEW K, NEW p \in Ops(main, id, K)
  PROVE  Placed(p)
<1>0. main \in Seq(Markers)
  BY FitsShape
<1>1. /\ p = <<p[1], p[2]>> /\ p[1] \in Nat /\ p[2] \in Nat
      /\ p[1] \in 1..Len(main) /\ p[2] \in DOMAIN main[p[1]].ops /\ main[p[1]].ops \in Batches
  BY <1>0, OpsShape
<1>2. DOMAIN main[p[1]].ops = 1..Len(main[p[1]].ops) /\ Len(main[p[1]].ops) \in Nat
  BY <1>1, BatchShape
<1>. QED BY <1>1, <1>2 DEF Placed

LEMMA PlacedLines ==
  ASSUME Copies = {}, Fits, NEW d \in Docs, NEW j \in DOMAIN side[d]
  PROVE  Placed(Key(side[d][j]))
<1>1. d \in Files
  BY DEF Files
<1>2. PICK r : r = side[d][j]
  OBVIOUS
<1>3. r.seq \in Nat /\ r.ord \in Nat /\ (r.seq <= Len(main) => Key(r) \in Ops(main, d, SideKinds))
  BY <1>1, <1>2, FileShape
<1>4. CASE r.seq <= Len(main)
  BY <1>2, <1>3, <1>4, PlacedOps
<1>5. CASE ~(r.seq <= Len(main))
  <2>1. PICK p : p = Key(r)
    OBVIOUS
  <2>2. p = <<p[1], p[2]>> /\ p[1] = r.seq /\ p[2] = r.ord
    BY <2>1 DEF Key
  <2>3. Placed(p)
    BY <1>3, <1>5, <2>2 DEF Placed
  <2>. QED BY <1>2, <2>1, <2>3
<1>. QED BY <1>4, <1>5

LEMMA AgreeBounds ==
  ASSUME Copies = {}, Fits, NEW n \in 1..Len(main)
  PROVE  /\ Agree(<<n, 0>>, <<n, 1>>)
         /\ Agree(<<n, Len(main[n].ops) + 1>>, <<n + 1, 0>>)
<1>0. Len(main) \in Nat /\ n \in Nat
  BY FitsShape
<1>1. main[n].ops \in Batches
  BY FitsShape
<1>2. Len(main[n].ops) \in Nat
  BY <1>1, BatchShape
<1>3. ASSUME NEW p, Placed(p)
      PROVE  /\ Before(p, <<n, 0>>) <=> Before(p, <<n, 1>>)
             /\ Before(p, <<n, Len(main[n].ops) + 1>>) <=> Before(p, <<n + 1, 0>>)
  <2>1. p[1] = n => p[2] # 0 /\ p[2] <= Len(main[n].ops)
    BY <1>0, <1>3 DEF Placed
  <2>2. p[1] \in Nat /\ p[2] \in Nat
    BY <1>3 DEF Placed
  <2>. QED BY <1>0, <1>2, <2>1, <2>2 DEF Before
<1>4. \A id, K : \A p \in Ops(main, id, K) : Placed(p)
  BY PlacedOps
<1>5. \A d \in Docs : \A j \in DOMAIN side[d] : Placed(Key(side[d][j]))
  BY PlacedLines
<1>6. Agree(<<n, 0>>, <<n, 1>>)
  BY <1>3, <1>4, <1>5 DEF Agree
<1>7. Agree(<<n, Len(main[n].ops) + 1>>, <<n + 1, 0>>)
  BY <1>3, <1>4, <1>5 DEF Agree
<1>. QED BY <1>6, <1>7

(* Sim looks at a position and at nextSeq no closer than this. *)
LEMMA SimShift ==
  ASSUME NEW x, NEW y, NEW c, NEW e, Sim(x, y, c), Agree(c, e),
         NEW x2 \in States, NEW y2 \in States,
         x2.docs = x.docs, x2.tasks = x.tasks, x2.entries = x.entries, x2.nextId = x.nextId,
         y2.docs = y.docs, y2.tasks = y.tasks, y2.entries = y.entries, y2.nextId = y.nextId
  PROVE  Sim(x2, y2, e)
<1>1. ASSUME NEW d \in Docs PROVE SimDoc(x2, y2, e, d)
  <2>1. SimDoc(x, y, c, d)
    BY DEF Sim
  <2>2. \A b : Newest(main, d, b) => (Before(b, e) <=> Before(b, c))
    BY DEF Agree, Newest
  <2>3. \A p \in Ops(main, d, {"create"}) : Before(p, e) <=> Before(p, c)
    BY DEF Agree
  <2>4. \A p \in Ops(main, d, {"retire"}) : Before(p, e) <=> Before(p, c)
    BY DEF Agree
  <2>. QED BY <2>1, <2>2, <2>3, <2>4 DEF SimDoc
<1>2. ASSUME NEW d \in Docs PROVE Counted(y2, e, d)
  <2>1. Counted(y, c, d)
    BY DEF Sim
  <2>2. \A b : Newest(main, d, b) => (Before(b, e) <=> Before(b, c))
    BY DEF Agree, Newest
  <2>3. \A j \in DOMAIN side[d] : Before(Key(side[d][j]), c) <=> Before(Key(side[d][j]), e)
    BY DEF Agree
  <2>. QED BY <2>1, <2>2, <2>3 DEF Counted
<1>20. ASSUME NEW d \in Docs PROVE Renumbered(x2, d)
  BY DEF Sim, Renumbered
<1>3. ASSUME NEW t \in Tasks
      PROVE  SimTask(x2, y2, e, t) /\ (Pending(t, c) <=> Pending(t, e))
  <2>1. SimTask(x, y, c, t)
    BY DEF Sim
  <2>2. \A p \in Ops(main, t, TaskKinds) : Before(p, e) <=> Before(p, c)
    BY DEF Agree
  <2>3. SimTask(x2, y2, e, t)
    BY <2>1, <2>2 DEF SimTask
  <2>4. Pending(t, c) <=> Pending(t, e)
    BY <2>2 DEF Pending
  <2>. QED BY <2>3, <2>4
<1>4. SimId(x2, y2, e)
  BY <1>3 DEF Sim, SimId
<1>5. x2.entries = y2.entries
  BY DEF Sim
<1>. QED BY <1>1, <1>2, <1>20, <1>3, <1>4, <1>5 DEF Sim

LEMMA EmptySim ==
  ASSUME Copies = {}, Fits
  PROVE  Empty \in States /\ Empty.nextSeq = 1 /\ Sim(Empty, Empty, <<1, 0>>)
<1>1. NoDoc \in DocRecs /\ NoDoc.created = 0 /\ NoDoc.retired = 0
  <2>1. <<>> \in Seq(Revs)
    OBVIOUS
  <2>. QED BY <2>1 DEF NoDoc, DocRecs
<1>2. NoTask \in TaskRecs
  BY DEF NoTask, TaskRecs
<1>3. Empty \in States /\ Empty.nextSeq = 1 /\ \A d \in Docs : Empty.docs[d] = NoDoc
  BY <1>1, <1>2 DEF Empty, States
<1>4. PICK x : x = Empty
  OBVIOUS
<1>5. ASSUME NEW p, Placed(p) PROVE ~Before(p, <<1, 0>>)
  BY <1>5, FitsShape DEF Placed, Before
<1>6. \A id, K : \A p \in Ops(main, id, K) : ~Before(p, <<1, 0>>)
  BY <1>5, PlacedOps
<1>7. \A d, b : Newest(main, d, b) => ~Before(b, <<1, 0>>)
  BY <1>6 DEF Newest
<1>8. \A d \in Docs : SimDoc(x, x, <<1, 0>>, d)
  BY <1>1, <1>3, <1>4, <1>6, <1>7 DEF SimDoc
<1>9. \A d \in Docs : Counted(x, <<1, 0>>, d)
  BY <1>7 DEF Counted
<1>90. \A d \in Docs : Renumbered(x, d)
  BY <1>1, <1>3, <1>4 DEF Renumbered, Lives
<1>10. \A t \in Tasks : SimTask(x, x, <<1, 0>>, t)
  BY DEF SimTask
<1>11. SimId(x, x, <<1, 0>>)
  BY <1>3, <1>4, StateShape DEF SimId
<1>. QED BY <1>3, <1>4, <1>8, <1>9, <1>90, <1>10, <1>11 DEF Sim

(* One marker more. *)
LEMMA SimMarker ==
  ASSUME Copies = {}, Fits, NEW n \in 1..Len(main), NEW x, NEW y, Sim(x, y, <<n, 0>>),
         y.nextSeq = n, NEW x2, NEW y2, x2 = RestoreMarker(x, n), y2 = ApplyBatch(y, main[n].ops, n)
  PROVE  /\ Sim(x2, y2, <<n + 1, 0>>) /\ x2.nextSeq = n + 1 /\ y2.nextSeq = n + 1
         /\ \A i \in 1..Len(main[n].ops) : \E z : Sim(Restored(x, n)[i - 1], z, <<n, i>>)
<1>. DEFINE N == Len(main[n].ops)
<1>0. Len(main) \in Nat /\ n \in Nat /\ main[n].ops \in Batches /\ main[n].seq = n
  BY FitsShape
<1>1. PICK b \in Batches : b = main[n].ops
  BY <1>0
<1>2. N \in Nat /\ Len(b) = N
  BY <1>0, <1>1, BatchShape
<1>3. x \in States /\ y \in States
  BY DEF Sim
<1>4. PICK f : Restores(f, x, n, N) /\ Restored(x, n) = f
  BY <1>2, RestoredUnfolds
<1>5. PICK g : g = Applied(y, b, n)
  OBVIOUS
<1>6. Steps(g, y, b, n)
  BY <1>0, <1>1, <1>3, <1>5, AppliedSteps
<1>7. f[0] = x /\ \A i \in 1..N : f[i] = Restore(f[i - 1], <<n, i>>)
  <2>. DEFINE Step(z, i) == Restore(z, <<n, i>>)
  <2>1. f = [i \in 0..N |-> IF i = 0 THEN x ELSE Step(f[i - 1], i)]
    BY <1>4, Zenon DEF Restores
  <2>2. N \in Nat
    BY <1>2
  <2>. HIDE DEF Step, N
  <2>3. f[0] = x
    BY <2>1, <2>2
  <2>4. ASSUME NEW i \in 1..N PROVE f[i] = Step(f[i - 1], i)
    <3>1. i \in 0..N /\ i # 0
      BY <2>2
    <3>. QED BY <2>1, <3>1, Zenon
  <2>. QED BY <2>3, <2>4 DEF Step
<1>8. g[0] = y /\ \A i \in 1..N : g[i] = Apply(g[i - 1], b[i], n, i)
  BY <1>2, <1>6 DEF Steps
<1>. HIDE DEF N
<1>. DEFINE Good == {i \in Nat : i <= N => Sim(f[i], g[i], <<n, i + 1>>)}
<1>9. 0 \in Good
  <2>1. Agree(<<n, 0>>, <<n, 1>>)
    BY AgreeBounds
  <2>2. Sim(x, y, <<n, 1>>)
    BY <1>3, <2>1, SimShift
  <2>3. 0 + 1 = 1
    OBVIOUS
  <2>. QED BY <1>7, <1>8, <2>2, <2>3
<1>10. ASSUME NEW i \in Nat, i \in Good PROVE i + 1 \in Good
  <2>1. CASE i + 1 <= N
    <3>1. i + 1 \in 1..N /\ (i + 1) - 1 = i /\ i <= N
      BY <1>2, <2>1
    <3>2. PICK k : k = i + 1
      OBVIOUS
    <3>3. Position(n, k)
      BY <3>1, <3>2 DEF Position, N
    <3>4. PICK u : u = f[i]
      OBVIOUS
    <3>5. PICK v : v = g[i]
      OBVIOUS
    <3>6. Sim(u, v, <<n, k>>)
      BY <1>10, <3>1, <3>2, <3>4, <3>5
    <3>7. Sim(Restore(u, <<n, k>>), Apply(v, main[n].ops[k], n, k), <<n, k + 1>>)
      BY <3>3, <3>6, SimStep
    <3>8. f[k] = Restore(u, <<n, k>>)
      BY <1>7, <3>1, <3>2, <3>4
    <3>9. g[k] = Apply(v, main[n].ops[k], n, k)
      BY <1>1, <1>8, <3>1, <3>2, <3>5
    <3>10. Sim(f[i + 1], g[i + 1], <<n, (i + 1) + 1>>)
      BY <3>2, <3>7, <3>8, <3>9
    <3>. QED BY <3>10
  <2>2. CASE ~(i + 1 <= N)
    BY <2>2
  <2>. QED BY <2>1, <2>2
<1>11. Nat \subseteq Good
  <2>. HIDE DEF Good
  <2>. QED BY <1>9, <1>10, SetInduction
<1>12. N \in Good
  <2>. HIDE DEF Good
  <2>. QED BY <1>2, <1>11
<1>13. Sim(f[N], g[N], <<n, N + 1>>)
  BY <1>2, <1>12
<1>14. PICK u : u = f[N]
  OBVIOUS
<1>15. PICK v : v = g[N]
  OBVIOUS
<1>16. Sim(u, v, <<n, N + 1>>)
  BY <1>13, <1>14, <1>15
<1>17. x2 = [u EXCEPT !.nextSeq = n + 1]
  BY <1>0, <1>4, <1>14 DEF RestoreMarker, N
<1>18. u \in States
  BY <1>16 DEF Sim
<1>19. /\ x2 \in States /\ x2.docs = u.docs /\ x2.tasks = u.tasks /\ x2.entries = u.entries
       /\ x2.nextId = u.nextId /\ x2.nextSeq = n + 1
  BY <1>0, <1>17, <1>18 DEF States
<1>20. y2 = ApplyBatch(y, b, n)
  BY <1>1
<1>21. /\ y2 \in States /\ y2.docs = v.docs /\ y2.tasks = v.tasks /\ y2.entries = v.entries
       /\ y2.nextId = v.nextId /\ y2.nextSeq = n + 1
  <2>1. v = g[Len(b)]
    BY <1>2, <1>15
  <2>. QED BY <1>0, <1>3, <1>5, <1>6, <1>20, <2>1, BatchEnd
<1>22. Agree(<<n, N + 1>>, <<n + 1, 0>>)
  BY AgreeBounds DEF N
<1>23. Sim(x2, y2, <<n + 1, 0>>)
  BY <1>16, <1>19, <1>21, <1>22, SimShift
<1>24. ASSUME NEW i \in 1..N PROVE \E z : Sim(Restored(x, n)[i - 1], z, <<n, i>>)
  <2>1. PICK j \in Nat : j = i - 1 /\ j <= N /\ j + 1 = i
    BY <1>2
  <2>2. j \in Good
    <3>. HIDE DEF Good
    <3>. QED BY <1>11
  <2>3. Sim(f[j], g[j], <<n, j + 1>>)
    BY <2>1, <2>2
  <2>. QED BY <1>4, <2>1, <2>3
<1>. QED BY <1>19, <1>21, <1>23, <1>24 DEF N

(* After every marker, what is replayed is what was published. *)
Follows(y, n) ==
  Sim(RecoveredTo(n), y, <<n + 1, 0>>) /\ RecoveredTo(n).nextSeq = n + 1 /\ y.nextSeq = n + 1

LEMMA RecoveryFollows ==
  ASSUME Copies = {}, Fits
  PROVE  /\ \A n \in 0..Len(main) : \E y : Follows(y, n)
         /\ \A n \in 1..Len(main) : \A i \in 1..Len(main[n].ops) :
              \E z : Sim(Restored(RecoveredTo(n - 1), n)[i - 1], z, <<n, i>>)
         /\ Follows(ref, Len(main))
<1>0. Len(main) \in Nat
  BY FitsShape
<1>1. PICK h : Promises(h, main) /\ ref = h[Len(main)]
  BY DEF Fits, MainFits, MarkersFit
<1>2. h[0] = Empty /\ \A n \in 1..Len(main) : h[n] = ApplyBatch(h[n - 1], main[n].ops, n)
  <2>. DEFINE Step(z, n) == ApplyBatch(z, main[n].ops, main[n].seq)
  <2>1. h = [n \in 0..Len(main) |-> IF n = 0 THEN Empty ELSE Step(h[n - 1], n)]
    BY <1>1, Zenon DEF Promises
  <2>. HIDE DEF Step
  <2>2. h[0] = Empty /\ \A n \in 1..Len(main) : h[n] = Step(h[n - 1], n)
    BY <1>0, <2>1
  <2>3. \A n \in 1..Len(main) : main[n].seq = n
    BY FitsShape
  <2>. QED BY <2>2, <2>3 DEF Step
<1>. DEFINE Good == {n \in Nat : n <= Len(main) => Follows(h[n], n)}
<1>3. 0 \in Good
  <2>1. Sim(Empty, Empty, <<1, 0>>) /\ Empty.nextSeq = 1
    BY EmptySim
  <2>2. PICK m : m = 0 /\ m + 1 = 1
    OBVIOUS
  <2>3. RecoveredTo(m) = Empty /\ h[m] = Empty
    BY <1>2, <2>2, RecoveredStep
  <2>4. Follows(h[m], m)
    BY <2>1, <2>2, <2>3 DEF Follows
  <2>. QED BY <2>2, <2>4
<1>4. ASSUME NEW n \in Nat, n \in Good PROVE n + 1 \in Good
  <2>1. CASE n + 1 <= Len(main)
    <3>1. PICK m \in 1..Len(main) : m = n + 1
      BY <1>0, <2>1
    <3>2. m - 1 = n /\ n <= Len(main)
      BY <1>0, <2>1, <3>1
    <3>3. PICK y : y = h[n]
      OBVIOUS
    <3>4. PICK x : x = RecoveredTo(n)
      OBVIOUS
    <3>5. Sim(x, y, <<m, 0>>) /\ y.nextSeq = m
      BY <1>4, <3>1, <3>2, <3>3, <3>4 DEF Follows
    <3>6. PICK x2 : x2 = RecoveredTo(m)
      OBVIOUS
    <3>7. PICK y2 : y2 = h[m]
      OBVIOUS
    <3>8. x2 = RestoreMarker(x, m)
      BY <3>1, <3>4, <3>6, RecoveredStep
    <3>9. y2 = ApplyBatch(y, main[m].ops, m)
      BY <1>2, <3>2, <3>3, <3>7
    <3>10. Sim(x2, y2, <<m + 1, 0>>) /\ x2.nextSeq = m + 1 /\ y2.nextSeq = m + 1
      BY <3>5, <3>8, <3>9, SimMarker
    <3>11. Follows(h[n + 1], n + 1)
      BY <3>1, <3>6, <3>7, <3>10 DEF Follows
    <3>. QED BY <3>11
  <2>2. CASE ~(n + 1 <= Len(main))
    BY <2>2
  <2>. QED BY <2>1, <2>2
<1>5. Nat \subseteq Good
  <2>. HIDE DEF Good
  <2>. QED BY <1>3, <1>4, SetInduction
<1>6. \A n \in 0..Len(main) : Follows(h[n], n)
  BY <1>0, <1>5
<1>7. ASSUME NEW n \in 1..Len(main), NEW i \in 1..Len(main[n].ops)
      PROVE  \E z : Sim(Restored(RecoveredTo(n - 1), n)[i - 1], z, <<n, i>>)
  <2>1. PICK k \in 0..Len(main) : k = n - 1 /\ k + 1 = n
    BY <1>0
  <2>2. PICK x : x = RecoveredTo(k)
    OBVIOUS
  <2>3. PICK y : y = h[k]
    OBVIOUS
  <2>4. Sim(x, y, <<n, 0>>) /\ y.nextSeq = n
    BY <1>6, <2>1, <2>2, <2>3 DEF Follows
  <2>5. \A j \in 1..Len(main[n].ops) : \E z : Sim(Restored(x, n)[j - 1], z, <<n, j>>)
    <3>1. PICK x2 : x2 = RestoreMarker(x, n)
      OBVIOUS
    <3>2. PICK y2 : y2 = ApplyBatch(y, main[n].ops, n)
      OBVIOUS
    <3>. QED BY <2>4, <3>1, <3>2, SimMarker
  <2>. QED BY <2>1, <2>2, <2>5
<1>. QED BY <1>0, <1>1, <1>6, <1>7

(* All operations and all lines of markers are behind the last position. *)
LEMMA AtTheEnd ==
  ASSUME Copies = {}, Fits, NEW c, c = <<Len(main) + 1, 0>>
  PROVE  /\ \A id, K : \A p \in Ops(main, id, K) : Before(p, c)
         /\ \A d, b : Newest(main, d, b) => Before(b, c)
         /\ \A t : ~Pending(t, c)
<1>1. \A id, K : \A p \in Ops(main, id, K) : Before(p, c)
  <2>1. ASSUME NEW id, NEW K, NEW p \in Ops(main, id, K) PROVE Before(p, c)
    <3>1. main \in Seq(Markers) /\ Len(main) \in Nat
      BY FitsShape
    <3>2. p[1] \in 1..Len(main) /\ p[2] \in Nat
      BY <3>1, OpsShape
    <3>. QED BY <3>1, <3>2 DEF Before
  <2>. QED BY <2>1
<1>2. \A d, b : Newest(main, d, b) => Before(b, c)
  BY <1>1 DEF Newest
<1>3. \A t : ~Pending(t, c)
  BY <1>1 DEF Pending
<1>. QED BY <1>1, <1>2, <1>3

(* What recovery restores is what was published. *)
LEMMA RecoveredLike ==
  ASSUME Copies = {}, Fits
  PROVE  Recovered \in States /\ Like(Recovered, ref) /\ Recovered.nextId = ref.nextId
<1>1. PICK c : c = <<Len(main) + 1, 0>>
  OBVIOUS
<1>2. PICK x : x = Recovered
  OBVIOUS
<1>3. Sim(x, ref, c) /\ x.nextSeq = Len(main) + 1 /\ ref.nextSeq = Len(main) + 1
  BY <1>1, <1>2, RecoveryFollows DEF Follows, Recovered
<1>4. /\ \A id, K : \A p \in Ops(main, id, K) : Before(p, c)
      /\ \A d, b : Newest(main, d, b) => Before(b, c)
      /\ \A t : ~Pending(t, c)
  BY <1>1, AtTheEnd
<1>5. x \in States /\ ref \in States /\ x.entries = ref.entries
  BY <1>3 DEF Sim
<1>6. x.tasks = ref.tasks
  <2>1. x.tasks \in [Tasks -> TaskRecs] /\ ref.tasks \in [Tasks -> TaskRecs]
    BY <1>5, StateShape
  <2>2. \A t \in Tasks : SimTask(x, ref, c, t)
    BY <1>3 DEF Sim
  <2>3. \A t \in Tasks : x.tasks[t] = ref.tasks[t]
    BY <1>4, <2>2 DEF SimTask
  <2>. QED BY <2>1, <2>3
<1>7. ASSUME NEW d \in Docs PROVE LikeDoc(x.docs[d], ref.docs[d], d)
  <2>1. SimDoc(x, ref, c, d) /\ DocFits(main, ref, d)
    BY <1>3, FitsShape DEF Sim
  <2>2. PICK a : a = x.docs[d]
    OBVIOUS
  <2>3. PICK e : e = ref.docs[d]
    OBVIOUS
  <2>4. a.created = e.created /\ a.retired = e.retired
    BY <2>1, <2>2, <2>3 DEF SimDoc
  <2>5. CASE AliveAt(ref, d, Current)
    <3>1. PICK b : Anchored(d, b)
      BY <2>5, BaseLink
    <3>2. Newest(main, d, b) /\ Before(b, c)
      BY <1>4, <3>1 DEF Anchored
    <3>. QED BY <2>1, <2>5, <3>2 DEF SimDoc
  <2>6. CASE e.created = 0
    <3>1. Ops(main, d, DocKinds) = {}
      BY <2>1, <2>3, <2>6 DEF DocFits, Exists
    <3>2. a = NoDoc /\ e = NoDoc
      BY <2>1, <2>2, <2>3, <3>1 DEF SimDoc
    <3>3. a.revs = <<>> /\ e.revs = <<>>
      BY <3>2 DEF NoDoc
    <3>4. LikeDoc(a, e, d)
      BY <2>4, <2>6, <3>3 DEF LikeDoc, Lives
    <3>. QED BY <2>2, <2>3, <3>4
  <2>7. CASE e.retired # 0
    <3>1. PICK p \in Ops(main, d, {"retire"}) : TRUE
      BY <2>1, <2>3, <2>7 DEF DocFits, Retired
    <3>2. d \notin Rewindable => a.revs = <<>> /\ e.revs = <<>>
      BY <1>4, <2>1, <2>2, <2>3, <3>1 DEF SimDoc
    <3>4. LikeDoc(a, e, d)
      BY <2>4, <2>7, <3>2 DEF LikeDoc, Lives
    <3>. QED BY <2>2, <2>3, <3>4
  <2>. QED BY <2>3, <2>5, <2>6, <2>7 DEF AliveAt, Current, Exists, Retired
<1>8. Like(x, ref)
  BY <1>3, <1>5, <1>6, <1>7 DEF Like
<1>9. x.nextId = ref.nextId
  BY <1>3, <1>4 DEF Sim, SimId
<1>. QED BY <1>2, <1>5, <1>8, <1>9

(* Of a file that is tight there is one line for each revision. *)
LEMMA LinesOfRevisions ==
  ASSUME Copies = {}, Fits, NEW d \in Docs, d \notin Rewindable, NoTail(main, side[d]),
         Tight(main, ref, d, side[d])
  PROVE  IF AliveAt(ref, d, Current) THEN Len(side[d]) = Len(ref.docs[d].revs) ELSE side[d] = <<>>
<1>0. d \in Files /\ d \notin Tasks /\ Len(main) \in Nat /\ ref \in States
  BY FitsShape, IdShape DEF Files
<1>1. PICK q : q = side[d]
  OBVIOUS
<1>2. q \in Seq(Records) /\ DOMAIN q = 1..Len(q) /\ Len(q) \in Nat
  BY <1>0, <1>1, FileShape
<1>3. \A j \in DOMAIN q : q[j].seq \in Nat /\ q[j].ord \in Nat /\ q[j].seq <= Len(main)
  BY <1>0, <1>1, FileShape DEF NoTail
<1>4. CASE \A j \in DOMAIN q : q[j].seq > Len(main)
  <2>1. ASSUME NEW j \in DOMAIN q PROVE FALSE
    BY <1>0, <1>3, <1>4
  <2>2. Len(q) = 0
    <3>1. Len(q) # 0 => 1 \in DOMAIN q
      BY <1>2
    <3>. QED BY <2>1, <3>1
  <2>3. q = <<>>
    BY <1>2, <2>2
  <2>4. ~AliveAt(ref, d, Current)
    <3>1. ASSUME AliveAt(ref, d, Current) PROVE FALSE
      <4>1. PICK b : Anchored(d, b)
        BY <3>1, BaseLink
      <4>2. Has(q, b)
        BY <1>1, <4>1 DEF Anchored
      <4>. QED BY <2>1, <4>2 DEF Has
    <3>. QED BY <3>1
  <2>. QED BY <1>1, <2>3, <2>4
<1>5. ASSUME AliveAt(ref, d, Current), NEW b, Newest(main, d, b), \A j \in DOMAIN q : ~Before(Key(q[j]), b)
      PROVE  Len(q) = Len(ref.docs[d].revs)
  <2>1. PICK c : c = <<Len(main) + 1, 0>>
    OBVIOUS
  <2>2. Counted(ref, c, d)
    BY <2>1, RecoveryFollows DEF Follows, Sim
  <2>3. Before(b, c)
    BY <1>5, <2>1, AtTheEnd
  <2>4. PICK m \in Nat : m = Len(ref.docs[d].revs)
    <3>1. ref.docs[d].revs \in Seq(Revs)
      BY <1>0, StateShape
    <3>. QED BY <3>1
  <2>5. m <= Len(q) /\ \A j \in DOMAIN q : Before(Key(q[j]), c) <=> j <= m
    BY <1>1, <1>5, <2>2, <2>3, <2>4 DEF Counted
  <2>6. ASSUME NEW j \in DOMAIN q PROVE j <= m
    <3>1. PICK p : p = Key(q[j])
      OBVIOUS
    <3>2. p[1] = q[j].seq
      BY <3>1 DEF Key
    <3>3. Before(p, c)
      BY <1>0, <1>3, <2>1, <3>2 DEF Before
    <3>. QED BY <2>5, <3>1, <3>3
  <2>7. Len(q) <= m
    <3>1. CASE Len(q) = 0
      BY <3>1
    <3>2. CASE Len(q) # 0
      BY <1>2, <2>6, <3>2
    <3>. QED BY <3>1, <3>2
  <2>. QED BY <1>2, <2>4, <2>5, <2>7
<1>. QED BY <1>0, <1>1, <1>4, <1>5 DEF Tight

(* Recovery finds every document a delta applies to. *)
LEMMA NoUnreadableDelta ==
  ASSUME Copies = {}, Fits
  PROVE  ~UnreadableDelta
<1>0. main \in Seq(Markers) /\ Len(main) \in Nat
  BY FitsShape
<1>1. SUFFICES ASSUME NEW d \in Docs, NEW p \in Ops(main, d, {"delta"}), ~Reclaimed(d, p)
               PROVE  AliveAt(RecoveredTo(p[1] - 1), d, Current)
  BY OpsLink DEF UnreadableDelta
<1>2. p = <<p[1], p[2]>> /\ p[1] \in Nat /\ p[2] \in Nat /\ p[1] \in 1..Len(main) /\ Op(main, p).kind = "delta"
  BY <1>0, OpsShape
<1>3. p \in Ops(main, d, SideKinds \cup {"copy"}) /\ p \in Ops(main, d, DocKinds)
  BY DEF Ops, SideKinds, DocKinds
<1>4. AliveAt(ref, d, Current)
  BY <1>1, <1>3, LineKept
<1>5. PICK b : Anchored(d, b)
  BY <1>4, BaseLink
<1>6. b \in Ops(main, d, BaseKinds) /\ ~Before(p, b)
  BY <1>1, <1>5 DEF Anchored
<1>7. b = <<b[1], b[2]>> /\ b[1] \in Nat /\ b[2] \in Nat /\ Op(main, b).kind \in BaseKinds
  BY <1>0, <1>6, OpsShape
<1>8. b \in Ops(main, d, DocKinds)
  BY <1>6 DEF Ops, BaseKinds, DocKinds
<1>9. p # b
  BY <1>2, <1>7 DEF BaseKinds
<1>10. Before(b, p)
  BY <1>2, <1>6, <1>7, <1>9, BeforeOrder
<1>11. DocFits(main, ref, d)
  BY FitsShape
<1>12. b[1] < p[1]
  <2>1. ~(b[1] = p[1] /\ b[2] < p[2])
    BY <1>2, <1>3, <1>8, <1>11 DEF DocFits
  <2>. QED BY <1>10, <2>1 DEF Before
<1>13. PICK e \in Ops(main, d, {"create"}) : e = b \/ Before(e, b)
  <2>1. PICK e \in Ops(main, d, {"create"}) : TRUE
    BY <1>4, <1>11 DEF DocFits, AliveAt, Current
  <2>. QED BY <1>8, <1>11, <2>1 DEF DocFits
<1>14. e[1] \in Nat /\ e[2] \in Nat
  BY <1>0, OpsShape
<1>15. PICK n \in 0..Len(main) : n = p[1] - 1 /\ n + 1 = p[1]
  BY <1>0, <1>2
<1>16. Before(e, <<n + 1, 0>>)
  BY <1>2, <1>7, <1>12, <1>13, <1>14, <1>15 DEF Before
<1>17. PICK y : Follows(y, n)
  BY RecoveryFollows
<1>18. SimDoc(RecoveredTo(n), y, <<n + 1, 0>>, d)
  BY <1>17 DEF Follows, Sim
<1>19. Ops(main, d, {"retire"}) = {}
  BY <1>4, <1>11 DEF DocFits, AliveAt, Current
<1>20. RecoveredTo(n).docs[d].created # 0 /\ RecoveredTo(n).docs[d].retired = 0
  BY <1>13, <1>16, <1>18, <1>19 DEF SimDoc
<1>. QED BY <1>15, <1>20 DEF AliveAt, Current, Exists, Retired

(* Every operation recovery replays is one the state takes. *)
LEMMA NoUnrestorable ==
  ASSUME Copies = {}, Fits
  PROVE  ~Unrestorable
<1>0. main \in Seq(Markers) /\ Len(main) \in Nat /\ DOMAIN main = 1..Len(main)
  BY FitsShape
<1>1. SUFFICES ASSUME NEW n \in DOMAIN main, NEW i \in DOMAIN main[n].ops
               PROVE  Restorable(Restored(RecoveredTo(n - 1), n)[i - 1], <<n, i>>)
  BY DEF Unrestorable
<1>2. main[n].ops \in Batches
  BY <1>0, FitsShape
<1>3. DOMAIN main[n].ops = 1..Len(main[n].ops)
  BY <1>2, BatchShape
<1>4. Position(n, i)
  BY <1>0, <1>3 DEF Position
<1>5. PICK x : x = Restored(RecoveredTo(n - 1), n)[i - 1]
  OBVIOUS
<1>6. PICK y : Sim(x, y, <<n, i>>)
  BY <1>0, <1>3, <1>5, RecoveryFollows
<1>7. PICK c : c = <<n, i>>
  OBVIOUS
<1>8. PICK w : w = main[n].ops[i]
  OBVIOUS
<1>9. /\ n \in Nat /\ i \in Nat /\ Shaped(w) /\ Op(main, c) = w
      /\ \A K : w.kind \in K => c \in Ops(main, w.id, K)
  BY <1>4, <1>7, <1>8, PositionShape
<1>10. c[1] = n /\ c[2] = i /\ OpAt(c) = w
  BY <1>7, <1>9, OpsLink
<1>11. w.kind \in {"entry"} \cup DocKinds \cup TaskKinds /\ (w.kind \in DocKinds => w.id \in Docs)
  BY <1>9 DEF Shaped
<1>12. ASSUME NEW p, p \in Ops(main, w.id, DocKinds), Before(p, c), Before(c, p) \/ p = c PROVE FALSE
  <2>1. p[1] \in Nat /\ p[2] \in Nat
    BY <1>0, <1>12, OpsShape
  <2>. QED BY <1>9, <1>10, <1>12, <2>1 DEF Before
<1>13. ASSUME w.kind \in DocKinds
       PROVE  /\ w.kind = "create" => x.docs[w.id].created = 0
              /\ w.kind # "create" => x.docs[w.id].created # 0
              /\ x.docs[w.id].retired = 0
              /\ Renumbered(x, w.id)
  <2>1. PICK d \in Docs : d = w.id
    BY <1>11, <1>13
  <2>2. OnDoc(main[n].ops[i], d)
    BY <1>8, <1>13, <2>1 DEF OnDoc
  <2>3. SimDoc(x, y, c, d) /\ Renumbered(x, d)
    BY <1>6, <1>7 DEF Sim
  <2>4. /\ \A p \in Ops(main, d, {"retire"}) : p = c \/ Before(c, p)
        /\ \A p \in Ops(main, d, {"create"}) : p = c \/ Before(p, c)
        /\ Ops(main, d, {"create"}) # {}
    BY <1>4, <1>7, <2>2, OnDocShape
  <2>5. Ops(main, d, {"create"}) \subseteq Ops(main, d, DocKinds) /\ Ops(main, d, {"retire"}) \subseteq Ops(main, d, DocKinds)
    BY DEF Ops, DocKinds
  <2>6. x.docs[d].created = y.docs[d].created /\ x.docs[d].retired = y.docs[d].retired
    BY <2>3 DEF SimDoc
  <2>7. ASSUME w.kind = "create" PROVE y.docs[d].created = 0
    <3>1. c \in Ops(main, d, {"create"}) /\ DocFits(main, ref, d)
      BY <1>9, <2>1, <2>7, FitsShape
    <3>2. \A p \in Ops(main, d, DocKinds) : p = c \/ Before(c, p)
      BY <3>1 DEF DocFits
    <3>3. ASSUME NEW p \in Ops(main, d, {"create"}), Before(p, c) PROVE FALSE
      BY <1>12, <2>1, <2>5, <3>2, <3>3
    <3>. QED BY <2>3, <3>3 DEF SimDoc
  <2>8. ASSUME w.kind # "create" PROVE y.docs[d].created # 0
    <3>1. PICK p \in Ops(main, d, {"create"}) : p = c \/ Before(p, c)
      BY <2>4
    <3>2. p # c
      BY <1>9, <2>8 DEF Ops
    <3>. QED BY <2>3, <3>1, <3>2 DEF SimDoc
  <2>9. y.docs[d].retired = 0
    <3>1. ASSUME NEW p \in Ops(main, d, {"retire"}), Before(p, c) PROVE FALSE
      BY <1>12, <2>1, <2>4, <2>5, <3>1
    <3>. QED BY <2>3, <3>1 DEF SimDoc
  <2>. QED BY <2>1, <2>3, <2>6, <2>7, <2>8, <2>9
<1>14. Admitted(x, main[n].ops, i)
  BY <1>8, <1>11, <1>13 DEF Admitted, Exists, Retired, DocKinds, TaskKinds
<1>15. ASSUME w.kind = "delta", NEW r \in FoundAt(c, w.id) PROVE Continues(x, w.id, r.ver)
  <2>1. w.id \in Docs /\ w.kind \in DocKinds /\ w.kind \in SideKinds \cup {"copy"}
    BY <1>11, <1>15 DEF DocKinds, SideKinds
  <2>2. c \in Ops(main, w.id, SideKinds \cup {"copy"})
    BY <1>9, <2>1
  <2>3. r = LineOf(main, c)
    BY <1>15, <2>1, <2>2, FoundLink DEF Files
  <2>4. r.ver = 1
    BY <2>3 DEF LineOf
  <2>5. Lives(x.docs[w.id])
    BY <1>13, <1>15, <2>1 DEF Lives
  <2>6. x.docs[w.id].revs # <<>> /\ Last(x.docs[w.id].revs).ver = 1
    BY <1>13, <2>1, <2>5 DEF Renumbered
  <2>. QED BY <2>4, <2>6 DEF Continues
<1>16. Restorable(x, c)
  BY <1>10, <1>14, <1>15 DEF Restorable
<1>. QED BY <1>5, <1>7, <1>16

LEMMA FitsReopens ==
  ASSUME Copies = {}, Fits
  PROVE  ~Rejected
BY NoMissingLine, NoDisorder, NoUnreadableDelta, NoUnrestorable DEF Rejected

(* Reads cannot tell such states apart. *)
LEMMA LikeView ==
  ASSUME NEW x, NEW y, Like(x, y)
  PROVE  View(x) = View(y)
<1>1. ASSUME NEW d \in Docs
      PROVE  /\ AliveAt(x, d, Current) <=> AliveAt(y, d, Current)
             /\ AliveAt(x, d, Current) => Value(x, d, Current) = Value(y, d, Current)
  <2>1. LikeDoc(x.docs[d], y.docs[d], d)
    BY DEF Like
  <2>2. AliveAt(x, d, Current) <=> Lives(x.docs[d])
    BY DEF AliveAt, Current, Exists, Retired, Lives
  <2>3. AliveAt(y, d, Current) <=> Lives(y.docs[d])
    BY DEF AliveAt, Current, Exists, Retired, Lives
  <2>. QED BY <2>1, <2>2, <2>3 DEF LikeDoc, Lives, Value, Materialized
<1>2. [d \in Docs |-> IF AliveAt(x, d, Current) THEN <<"alive", Value(x, d, Current)>>
                                                ELSE <<"no document", <<>> >>]
        = [d \in Docs |-> IF AliveAt(y, d, Current) THEN <<"alive", Value(y, d, Current)>>
                                                    ELSE <<"no document", <<>> >>]
  BY <1>1
<1>3. x.tasks = y.tasks /\ x.entries = y.entries /\ x.nextSeq = y.nextSeq
  BY DEF Like
<1>. QED BY <1>2, <1>3, Zenon DEF View

-----------------------------------------------------------------------------
(* 9. Every step keeps the invariant *)
LEMMA InitFits ==
  ASSUME Init
  PROVE  Inv
<1>0. main = <<>> /\ ref = Empty /\ side = [f \in Files |-> <<>>]
  BY DEF Init
<1>1. \A id, K : Ops(<<>>, id, K) = {}
  BY DEF Ops
<1>2. NoDoc \in DocRecs /\ NoDoc.created = 0 /\ NoDoc.retired = 0
  <2>1. <<>> \in Seq(Revs)
    OBVIOUS
  <2>. QED BY <2>1 DEF NoDoc, DocRecs
<1>3. NoTask \in TaskRecs /\ NoTask.status = "none"
  BY DEF NoTask, TaskRecs
<1>4. /\ Empty \in States /\ Empty.nextSeq = 1 /\ \A d \in Docs : Empty.docs[d] = NoDoc
      /\ \A t \in Tasks : Empty.tasks[t] = NoTask
  BY <1>2, <1>3 DEF Empty, States
<1>5. PICK x : x = Empty
  OBVIOUS
<1>6. \A d \in Docs : DocFits(<<>>, x, d)
  BY <1>1, <1>2, <1>4, <1>5 DEF DocFits, Exists, Retired
<1>7. \A t \in Tasks : TaskFits(<<>>, x, t)
  BY <1>1, <1>3, <1>4, <1>5 DEF TaskFits
<1>8. \E h : Promises(h, <<>>) /\ x = h[Len(<<>>)]
  <2>. DEFINE h == [n \in 0..0 |-> x]
  <2>1. h[0] = x /\ Len(<<>>) = 0
    OBVIOUS
  <2>2. Promises(h, <<>>)
    BY <1>5 DEF Promises
  <2>. HIDE DEF h
  <2>. QED BY <2>1, <2>2
<1>9. MainFits(<<>>, x)
  <2>1. <<>> \in Seq(Markers) /\ DOMAIN <<>> = {} /\ Len(<<>>) + 1 = 1
    OBVIOUS
  <2>. QED BY <1>4, <1>5, <1>6, <1>7, <1>8, <2>1 DEF MainFits, MarkersFit
<1>10. ASSUME NEW f \in Files PROVE FileFits(<<>>, x, f, <<>>)
  <2>1. f \in Docs => ~AliveAt(x, f, Current)
    BY <1>2, <1>4, <1>5 DEF AliveAt, Current, Exists
  <2>2. f \in Tasks => x.tasks[f].status # "live"
    BY <1>3, <1>4, <1>5
  <2>3. <<>> \in Seq(Records) /\ DOMAIN <<>> = {}
    OBVIOUS
  <2>. QED BY <2>1, <2>2, <2>3 DEF FileFits, Sorted
<1>11. SideFits(main, ref, side)
  <2>1. \A f \in Files : side[f] = <<>>
    BY <1>0
  <2>. QED BY <1>0, <1>5, <1>10, <2>1 DEF SideFits
<1>12. InstanceFits
  BY DEF Init, InstanceFits
<1>. QED BY <1>0, <1>5, <1>9, <1>11, <1>12 DEF Inv

(* An instance that is not open promises nothing. *)
LEMMA DownFits ==
  ASSUME status' \in {"down", "poisoned"}, pc' = "idle", plan' = {}
  PROVE  InstanceFits'
BY DEF InstanceFits

LEMMA StopKeeps ==
  ASSUME Inv, Stop
  PROVE  Inv'
<1>1. InstanceFits'
  BY DownFits DEF Stop
<1>2. main' = main /\ ref' = ref /\ side' = side
  BY DEF Stop, disk, hist
<1>. QED BY <1>1, <1>2 DEF Inv

LEMMA FlushSidecarFailsKeeps ==
  ASSUME Inv, FlushSidecarFails
  PROVE  Inv'
<1>1. InstanceFits'
  BY DownFits DEF FlushSidecarFails, GivesUp
<1>2. main' = main /\ ref' = ref /\ side' = side
  BY DEF FlushSidecarFails, disk, hist
<1>. QED BY <1>1, <1>2 DEF Inv

LEMMA StutterKeeps ==
  ASSUME Inv, UNCHANGED vars
  PROVE  Inv'
<1>1. /\ main' = main /\ ref' = ref /\ side' = side /\ mainTorn' = mainTorn /\ sideTorn' = sideTorn
      /\ status' = status /\ st' = st /\ pc' = pc /\ cur' = cur /\ todo' = todo /\ plan' = plan
      /\ deferred' = deferred
  BY DEF vars, disk, work, hist
<1>2. CommitFits => CommitFits'
  BY <1>1 DEF CommitFits, Appended, Line, SourceValue
<1>3. InstanceFits => InstanceFits'
  BY <1>1, <1>2 DEF InstanceFits
<1>. QED BY <1>1, <1>3 DEF Inv

LEMMA MintIdKeeps ==
  ASSUME Inv, MintId
  PROVE  Inv'
<1>1. /\ main' = main /\ ref' = ref /\ side' = side /\ mainTorn' = mainTorn /\ sideTorn' = sideTorn
      /\ status' = status /\ pc' = pc /\ plan' = plan /\ deferred' = deferred
      /\ status = "up" /\ pc = "idle"
  BY DEF MintId, disk, work
<1>2. st \in States /\ Like(st, ref)
  BY <1>1 DEF Inv, InstanceFits
<1>3. PICK n \in Nat : n = st.nextId + 1
  BY <1>2, StateShape
<1>4. st' = [st EXCEPT !.nextId = n]
  BY <1>3 DEF MintId
<1>5. st' \in States /\ st'.docs = st.docs /\ Rest(st', st)
  <2>1. st.docs \in [Docs -> DocRecs]
    BY <1>2, StateShape
  <2>2. /\ [st EXCEPT !.nextId = n] \in States /\ [st EXCEPT !.nextId = n].docs = st.docs
        /\ Rest([st EXCEPT !.nextId = n], st)
    BY <1>2, <2>1, WithDocs
  <2>. QED BY <1>4, <2>2
<1>6. Like(st', ref)
  BY <1>2, <1>5 DEF Like, Rest
<1>. QED BY <1>1, <1>5, <1>6 DEF Inv, InstanceFits

LEMMA ReclaimFailsKeeps ==
  ASSUME Inv, NEW r \in plan, ReclaimFails(r)
  PROVE  Inv'
<1>1. /\ main' = main /\ ref' = ref /\ side' = side /\ mainTorn' = mainTorn /\ sideTorn' = sideTorn
      /\ status' = status /\ st' = st /\ plan' = plan \ {r} /\ deferred' = deferred \cup {r.file}
      /\ pc = "reclaim" /\ pc' = Idle(plan')
  BY DEF ReclaimFails, disk
<1>2. pc' \in {"idle", "reclaim"} /\ (pc' = "idle" => plan' = {})
  BY <1>1 DEF Idle
<1>3. status = "up"
  BY <1>1 DEF Inv, InstanceFits
<1>4. ASSUME NEW f \in Files \ deferred' PROVE (\E e \in plan' : e.file = f) \/ Tight(main, ref, f, side[f])
  <2>1. f # r.file /\ f \in Files \ deferred
    BY <1>1, <1>4
  <2>2. (\E e \in plan : e.file = f) \/ Tight(main, ref, f, side[f])
    BY <1>3, <2>1 DEF Inv, InstanceFits
  <2>. QED BY <1>1, <2>1, <2>2
<1>5. \A e \in plan' : EntryFits(main, ref, side, e)
  BY <1>1 DEF Inv, InstanceFits
<1>6. InstanceFits'
  <2>1. Like(st, ref) /\ st \in States /\ mainTorn = FALSE /\ sideTorn = {} /\ \A f \in Files : NoTail(main, side[f])
    BY <1>1, <1>3 DEF Inv, InstanceFits
  <2>. QED BY <1>1, <1>2, <1>3, <1>4, <1>5, <2>1 DEF InstanceFits
<1>. QED BY <1>1, <1>6 DEF Inv

LEMMA ReclamationDeferredKeeps ==
  ASSUME Inv, ReclamationDeferred
  PROVE  Inv'
<1>1. /\ main' = main /\ ref' = ref /\ side' = side /\ mainTorn' = mainTorn /\ sideTorn' = sideTorn
      /\ status' = status /\ st' = st /\ plan' = {} /\ deferred' = deferred \cup {r.file : r \in plan}
      /\ pc = "reclaim" /\ pc' = "idle"
  BY DEF ReclamationDeferred, disk
<1>2. status = "up"
  BY <1>1 DEF Inv, InstanceFits
<1>3. ASSUME NEW f \in Files \ deferred' PROVE Tight(main, ref, f, side[f])
  <2>1. f \in Files \ deferred /\ \A e \in plan : e.file # f
    BY <1>1, <1>3
  <2>. QED BY <1>2, <2>1 DEF Inv, InstanceFits
<1>4. InstanceFits'
  <2>1. Like(st, ref) /\ st \in States /\ mainTorn = FALSE /\ sideTorn = {} /\ \A f \in Files : NoTail(main, side[f])
    BY <1>1, <1>2 DEF Inv, InstanceFits
  <2>. QED BY <1>1, <1>2, <1>3, <2>1 DEF InstanceFits
<1>. QED BY <1>1, <1>4 DEF Inv

(* Files repaired in part, or all of them. *)
LEMMA RepairFits ==
  ASSUME Copies = {}, Fits, NEW sd, NEW fs,
         sd = [f \in Files |-> IF f \in fs THEN KeptLines(f) ELSE side[f]]
  PROVE  /\ SideFits(main, ref, sd)
         /\ \A f \in Files : f \in fs => sd[f] = KeptLines(f) /\ NoTail(main, sd[f])
<1>1. ASSUME NEW f \in Files PROVE FileFits(main, ref, f, side[f]) /\ main \in Seq(Markers)
  BY FitsShape
<1>2. ASSUME NEW f \in Files, f \in fs
      PROVE  FileFits(main, ref, f, sd[f]) /\ sd[f] = KeptLines(f) /\ NoTail(main, sd[f])
  <2>1. PICK k : k = KeptLines(f)
    OBVIOUS
  <2>2. sd[f] = k
    BY <1>2, <2>1
  <2>3. Kept(k, side[f], main)
    BY <2>1, KeptLink
  <2>4. FileFits(main, ref, f, k) /\ NoTail(main, k)
    BY <1>1, <2>3, KeptFits
  <2>. QED BY <2>1, <2>2, <2>4
<1>3. ASSUME NEW f \in Files, f \notin fs PROVE FileFits(main, ref, f, sd[f])
  <2>1. sd[f] = side[f]
    BY <1>3
  <2>. QED BY <1>1, <2>1
<1>4. sd = [f \in Files |-> sd[f]]
  OBVIOUS
<1>5. SideFits(main, ref, sd)
  BY <1>2, <1>3, <1>4 DEF SideFits
<1>. QED BY <1>2, <1>5

LEMMA OpenInterruptedKeeps ==
  ASSUME Disciplined, Inv, OpenInterrupted
  PROVE  Inv'
<1>0. Copies = {} /\ Fits /\ MainFits(main, ref)
  BY DEF Disciplined, Inv, Fits
<1>1. InstanceFits'
  BY DownFits DEF OpenInterrupted
<1>2. main' = main /\ ref' = ref
  BY DEF OpenInterrupted, hist
<1>3. PICK fs : side' = [f \in Files |-> IF f \in fs THEN KeptLines(f) ELSE side[f]]
  BY DEF OpenInterrupted
<1>4. SideFits(main, ref, side')
  <2>1. PICK sd : sd = side'
    OBVIOUS
  <2>2. SideFits(main, ref, sd)
    BY <1>0, <1>3, <2>1, RepairFits
  <2>. QED BY <2>1, <2>2
<1>. QED BY <1>0, <1>1, <1>2, <1>4 DEF Inv

(* The reclamations recovery takes up again, and what is left without one. *)
LEMMA RecoveryCuts ==
  ASSUME Copies = {}, Fits, NEW d \in Docs, NEW b, Anchored(d, b), NEW k, k = KeptLines(d)
  PROVE  /\ Retained(d) \in Seq(Records) /\ Sorted(Retained(d))
         /\ Cuts(main, d, k, Retained(d))
         /\ \A j \in DOMAIN Retained(d) : ~Before(Key(Retained(d)[j]), b)
<1>0. main \in Seq(Markers) /\ d \in Files
  BY FitsShape DEF Files
<1>1. b \in Ops(main, d, BaseKinds) /\ Newest(main, d, b) /\ Latest(Bases(d)) = b
  BY DEF Anchored
<1>2. b = <<b[1], b[2]>> /\ b[1] \in 1..Len(main)
  BY <1>0, <1>1, OpsShape
<1>3. main[b[1]].seq = b[1]
  BY <1>2, FitsShape
<1>4. PICK z : z = Retained(d)
  OBVIOUS
<1>5. z = From(k, b)
  BY <1>1, <1>2, <1>3, <1>4 DEF Retained
<1>6. FileFits(main, ref, d, k)
  <2>1. Kept(k, side[d], main)
    BY <1>0, KeptLink
  <2>2. FileFits(main, ref, d, side[d])
    BY <1>0, FitsShape
  <2>. QED BY <1>0, <2>1, <2>2, KeptFits
<1>7. k \in Seq(Records) /\ Sorted(k)
  BY <1>6 DEF FileFits
<1>8. Retains(z, k, Len(k), b)
  BY <1>5, <1>7, FromShape
<1>9. DOMAIN k = 1..Len(k)
  BY <1>7
<1>10. Cuts(main, d, k, z)
  <2>1. \A j \in DOMAIN z : ~Before(Key(z[j]), b) /\ \E i \in DOMAIN k : k[i] = z[j]
    BY <1>8, <1>9, Zenon DEF Retains
  <2>2. \A i \in DOMAIN k : Before(Key(k[i]), b) \/ \E j \in DOMAIN z : z[j] = k[i]
    BY <1>8, <1>9, Zenon DEF Retains
  <2>. QED BY <1>1, <2>1, <2>2, Zenon DEF Cuts
<1>. QED BY <1>4, <1>8, <1>10 DEF Retains

LEMMA RecoveryPlanFits ==
  ASSUME Copies = {}, Fits, NEW sd, \A f \in Files : sd[f] = KeptLines(f), NEW r \in RecoveryPlan
  PROVE  EntryFits(main, ref, sd, r)
<1>0. \A f \in Files : f \in Docs \/ f \in Tasks
  BY DEF Files
<1>1. <<>> \in Seq(Records) /\ Sorted(<<>>)
  BY DEF Sorted
<1>2. CASE \E t \in Tasks : r = [file |-> t, keep |-> <<>>] /\ (KeptLines(t) = <<>> \/ ~FinalLive(t))
  <2>1. PICK t \in Tasks : r = [file |-> t, keep |-> <<>>] /\ (KeptLines(t) = <<>> \/ ~FinalLive(t))
    BY <1>2
  <2>2. r.file = t /\ r.keep = <<>> /\ t \in Files
    BY <2>1 DEF Files
  <2>3. Dead(ref, t, sd[t])
    BY <2>1, <2>2, TaskLink DEF Dead
  <2>. QED BY <1>1, <2>2, <2>3 DEF EntryFits
<1>3. CASE \E d \in Docs : r = [file |-> d, keep |-> <<>>] /\ (KeptLines(d) = <<>> \/ RetiredInMain(d))
  <2>1. PICK d \in Docs : r = [file |-> d, keep |-> <<>>] /\ (KeptLines(d) = <<>> \/ RetiredInMain(d))
    BY <1>3
  <2>2. r.file = d /\ r.keep = <<>> /\ d \in Files
    BY <2>1 DEF Files
  <2>3. Dead(ref, d, sd[d])
    BY <2>1, <2>2, RetiredLink DEF Dead
  <2>. QED BY <1>1, <2>2, <2>3 DEF EntryFits
<1>4. CASE \E d \in Docs : r = [file |-> d, keep |-> Retained(d)] /\ ~RetiredInMain(d) /\ Bases(d) # {}
  <2>1. PICK d \in Docs : r = [file |-> d, keep |-> Retained(d)] /\ ~RetiredInMain(d) /\ Bases(d) # {}
    BY <1>4
  <2>2. r.file = d /\ r.keep = Retained(d) /\ d \in Files
    BY <2>1 DEF Files
  <2>3. PICK p \in Ops(main, d, {"create", "copy", "base", "delta"}) : TRUE
    BY <2>1, OpsLink DEF Bases
  <2>4. Exists(ref, d) /\ ~Retired(ref, d)
    BY <2>1, <2>3, SideDoc, RetiredLink
  <2>5. AliveAt(ref, d, Current)
    BY <2>4 DEF AliveAt, Current
  <2>6. PICK b : Anchored(d, b)
    BY <2>5, BaseLink
  <2>7. PICK k : k = KeptLines(d)
    OBVIOUS
  <2>8. Retained(d) \in Seq(Records) /\ Sorted(Retained(d)) /\ Cuts(main, d, k, Retained(d))
    BY <2>6, <2>7, RecoveryCuts
  <2>9. sd[d] = k
    BY <2>2, <2>7
  <2>. QED BY <2>2, <2>5, <2>8, <2>9 DEF EntryFits
<1>. QED BY <1>2, <1>3, <1>4 DEF RecoveryPlan

LEMMA RecoveryTight ==
  ASSUME Copies = {}, Fits, NEW f \in Files, \A r \in RecoveryPlan : r.file # f
  PROVE  Tight(main, ref, f, KeptLines(f))
<1>1. PICK k : k = KeptLines(f)
  OBVIOUS
<1>2. Kept(k, side[f], main)
  BY <1>1, KeptLink
<1>3. FileFits(main, ref, f, k) /\ NoTail(main, k) /\ main \in Seq(Markers)
  <2>1. FileFits(main, ref, f, side[f]) /\ main \in Seq(Markers)
    BY FitsShape
  <2>. QED BY <1>2, <2>1, KeptFits
<1>4. k = <<>> => Tight(main, ref, f, k)
  BY DEF Tight
<1>5. side[f] = <<>> => k = <<>>
  BY <1>2 DEF Kept
<1>6. CASE f \in Tasks
  <2>1. PICK r : r = [file |-> f, keep |-> <<>>]
    OBVIOUS
  <2>2. side[f] # <<>> /\ (k = <<>> \/ ~FinalLive(f)) => r \in RecoveryPlan
    BY <1>1, <1>6, <2>1 DEF RecoveryPlan
  <2>3. ~(side[f] # <<>> /\ (k = <<>> \/ ~FinalLive(f)))
    BY <2>1, <2>2
  <2>4. k = <<>> \/ FinalLive(f)
    BY <1>5, <2>3
  <2>5. FinalLive(f) => Tight(main, ref, f, k)
    BY <1>6, TaskLink DEF Tight
  <2>. QED BY <1>1, <1>4, <2>4, <2>5
<1>7. CASE f \in Docs /\ k # <<>>
  <2>1. PICK r : r = [file |-> f, keep |-> <<>>]
    OBVIOUS
  <2>2. RetiredInMain(f) => r \in RecoveryPlan
    BY <1>1, <1>5, <1>7, <2>1 DEF RecoveryPlan
  <2>3. ~RetiredInMain(f)
    BY <2>1, <2>2
  <2>4. PICK j \in DOMAIN k : TRUE
    <3>1. k \in Seq(Records)
      BY <1>3 DEF FileFits
    <3>2. Len(k) \in Nat /\ Len(k) # 0 /\ DOMAIN k = 1..Len(k)
      BY <1>7, <3>1
    <3>3. 1 \in DOMAIN k
      BY <3>2
    <3>. QED BY <3>3
  <2>5. Key(k[j]) \in Ops(main, f, SideKinds)
    BY <1>3, <2>4 DEF FileFits, RecordFits, NoTail
  <2>6. AliveAt(ref, f, Current)
    BY <1>7, <2>3, <2>5, SideDoc, RetiredLink DEF AliveAt, Current
  <2>7. PICK b : Anchored(f, b)
    BY <1>7, <2>6, BaseLink
  <2>8. PICK e : e = [file |-> f, keep |-> Retained(f)]
    OBVIOUS
  <2>9. Bases(f) # {}
    BY <2>7 DEF Anchored
  <2>10. Retained(f) # k => e \in RecoveryPlan
    BY <1>1, <1>7, <2>3, <2>8, <2>9 DEF RecoveryPlan
  <2>11. Retained(f) = k
    BY <2>8, <2>10
  <2>12. \A i \in DOMAIN k : ~Before(Key(k[i]), b)
    BY <1>1, <1>7, <2>7, <2>11, RecoveryCuts
  <2>13. b \in Ops(main, f, BaseKinds) /\ Newest(main, f, b)
    BY <2>7 DEF Anchored
  <2>14. Tight(main, ref, f, k)
    BY <1>7, <2>6, <2>12, <2>13 DEF Tight
  <2>. QED BY <1>1, <2>14
<1>. QED BY <1>1, <1>4, <1>6, <1>7 DEF Files

LEMMA OpenKeeps ==
  ASSUME Disciplined, Inv, Open
  PROVE  Inv'
<1>0. Copies = {} /\ Fits /\ MainFits(main, ref)
  BY DEF Disciplined, Inv, Fits
<1>1. /\ main' = main /\ ref' = ref /\ mainTorn' = FALSE /\ sideTorn' = {} /\ status' = "up"
      /\ st' = Recovered /\ plan' = RecoveryPlan /\ pc' = Idle(plan') /\ deferred' = {}
  BY DEF Open
<1>2. PICK sd : sd = side'
  OBVIOUS
<1>3. sd = [f \in Files |-> KeptLines(f)]
  BY <1>2 DEF Open
<1>4. PICK fs : fs = Files
  OBVIOUS
<1>5. sd = [f \in Files |-> IF f \in fs THEN KeptLines(f) ELSE side[f]]
  BY <1>3, <1>4
<1>6. SideFits(main, ref, sd) /\ \A f \in Files : sd[f] = KeptLines(f) /\ NoTail(main, sd[f])
  BY <1>0, <1>4, <1>5, RepairFits
<1>7. Recovered \in States /\ Like(Recovered, ref)
  BY <1>0, RecoveredLike
<1>8. \A r \in RecoveryPlan : EntryFits(main, ref, sd, r)
  BY <1>0, <1>6, RecoveryPlanFits
<1>9. ASSUME NEW f \in Files PROVE (\E r \in RecoveryPlan : r.file = f) \/ Tight(main, ref, f, sd[f])
  BY <1>0, <1>6, RecoveryTight
<1>10. pc' \in {"idle", "reclaim"} /\ (pc' = "idle" => plan' = {})
  BY <1>1 DEF Idle
<1>11. InstanceFits'
  BY <1>1, <1>2, <1>6, <1>7, <1>8, <1>9, <1>10 DEF InstanceFits
<1>. QED BY <1>0, <1>1, <1>2, <1>6, <1>11 DEF Inv

(* A reclamation leaves a file that fits and is tight, and the other        *)
(* reclamations of the plan stay harmless.                                  *)
LEMMA CutShape ==
  ASSUME NEW mn, NEW rf, NEW sd, NEW r, EntryFits(mn, rf, sd, r)
  PROVE  \/ r.keep = sd[r.file]
         \/ /\ r.keep = <<>>
            /\ \/ r.file \in Tasks /\ rf.tasks[r.file].status # "live"
               \/ r.file \in Docs /\ Retired(rf, r.file)
         \/ r.file \in Docs /\ AliveAt(rf, r.file, Current) /\ Cuts(mn, r.file, sd[r.file], r.keep)
BY DEF EntryFits, Dead

LEMMA ReclaimedFits ==
  ASSUME NEW mn \in Seq(Markers), NEW rf, NEW sd, NEW r, NEW f, NEW q, NEW k, EntryFits(mn, rf, sd, r),
         f = r.file, q = sd[f], k = r.keep, FileFits(mn, rf, f, q)
  PROVE  FileFits(mn, rf, f, k) /\ (NoTail(mn, q) => NoTail(mn, k)) /\ Tight(mn, rf, f, k)
<1>0. k \in Seq(Records) /\ Sorted(k)
  BY DEF EntryFits
<1>1. \A i : ~(i \in Docs /\ i \in Tasks)
  BY IdShape
<1>2. CASE k = <<>> /\ Dead(rf, f, q)
  <2>1. Tight(mn, rf, f, k) /\ NoTail(mn, k)
    BY <1>2 DEF Tight, NoTail
  <2>2. CASE q = <<>>
    BY <1>2, <2>1, <2>2
  <2>3. CASE f \in Tasks /\ rf.tasks[f].status # "live"
    <3>1. FileFits(mn, rf, f, k)
      BY <1>0, <1>1, <1>2, <2>3 DEF FileFits
    <3>. QED BY <2>1, <3>1
  <2>4. CASE f \in Docs /\ Retired(rf, f)
    <3>1. ~AliveAt(rf, f, Current)
      BY <2>4 DEF AliveAt, Current
    <3>2. FileFits(mn, rf, f, k)
      BY <1>0, <1>1, <1>2, <2>4, <3>1 DEF FileFits
    <3>. QED BY <2>1, <3>2
  <2>. QED BY <1>2, <2>2, <2>3, <2>4 DEF Dead
<1>3. CASE f \in Docs /\ AliveAt(rf, f, Current) /\ Cuts(mn, f, q, k)
  <2>1. PICK b \in Ops(mn, f, BaseKinds) :
          /\ Newest(mn, f, b)
          /\ \A j \in DOMAIN k : ~Before(Key(k[j]), b) /\ \E i \in DOMAIN q : q[i] = k[j]
          /\ \A i \in DOMAIN q : Before(Key(q[i]), b) \/ \E j \in DOMAIN k : k[j] = q[i]
    BY <1>3 DEF Cuts
  <2>2. Covers(mn, f, q)
    BY <1>3 DEF FileFits
  <2>3. PICK a \in Ops(mn, f, BaseKinds) :
          Newest(mn, f, a) /\ \A p \in Ops(mn, f, SideKinds) : Before(p, a) \/ Has(q, p)
    BY <2>2 DEF Covers
  <2>4. \A p \in Ops(mn, f, SideKinds) : Before(p, a) \/ Before(p, b) \/ Has(k, p)
    <3>1. ASSUME NEW p \in Ops(mn, f, SideKinds), ~Before(p, a), ~Before(p, b) PROVE Has(k, p)
      <4>1. PICK i \in DOMAIN q : Key(q[i]) = p
        BY <2>3, <3>1 DEF Has
      <4>2. PICK j \in DOMAIN k : k[j] = q[i]
        BY <2>1, <3>1, <4>1
      <4>. QED BY <4>1, <4>2 DEF Has
    <3>. QED BY <3>1
  <2>5. \A p \in Ops(mn, f, SideKinds) : Before(p, b) \/ Has(k, p)
    <3>1. a \in Ops(mn, f, BaseKinds) /\ ~Before(b, a)
      BY <2>1, <2>3 DEF Newest
    <3>2. ASSUME NEW p \in Ops(mn, f, SideKinds), Before(p, a) PROVE Before(p, b)
      <4>1. \A e \in {a, b, p} : e[1] \in Nat /\ e[2] \in Nat
        BY <2>1, <2>3 DEF Ops
      <4>2. \A e \in {a, b, p} : e = <<e[1], e[2]>>
        BY <2>1, <2>3 DEF Ops
      <4>. QED BY <3>1, <3>2, <4>1 DEF Before
    <3>. QED BY <2>4, <3>2
  <2>6. Covers(mn, f, k)
    BY <2>1, <2>5 DEF Covers
  <2>7. \A j \in DOMAIN k : RecordFits(mn, f, k[j])
    BY <2>1 DEF FileFits
  <2>8. FileFits(mn, rf, f, k)
    BY <1>0, <1>1, <1>3, <2>6, <2>7 DEF FileFits
  <2>9. NoTail(mn, q) => NoTail(mn, k)
    BY <2>1 DEF NoTail
  <2>10. Tight(mn, rf, f, k)
    BY <1>3, <2>1 DEF Tight
  <2>. QED BY <2>8, <2>9, <2>10
<1>. QED BY <1>2, <1>3 DEF EntryFits

LEMMA EntryStays ==
  ASSUME Copies = {}, NEW mn \in Seq(Markers), NEW rf, NEW sd, NEW r, EntryFits(mn, rf, sd, r), NEW sd2,
         sd2[r.file] = r.keep, \A f \in Files : f # r.file => sd2[f] = sd[f],
         NEW e, EntryFits(mn, rf, sd, e)
  PROVE  EntryFits(mn, rf, sd2, e)
<1>0. e.file \in Files /\ e.keep \in Seq(Records) /\ Sorted(e.keep)
  BY DEF EntryFits
<1>1. CASE e.file # r.file
  <2>1. sd2[e.file] = sd[e.file]
    BY <1>0, <1>1
  <2>. QED BY <2>1 DEF EntryFits
<1>2. CASE e.file = r.file
  <2>1. PICK f : f = r.file
    OBVIOUS
  <2>2. PICK q : q = sd[f]
    OBVIOUS
  <2>3. PICK k : k = r.keep
    OBVIOUS
  <2>4. sd2[f] = k /\ e.file = f
    BY <1>2, <2>1, <2>3
  <2>5. CASE k = q
    BY <2>2, <2>4, <2>5 DEF EntryFits
  <2>6. CASE k = <<>> /\ ((f \in Tasks /\ rf.tasks[f].status # "live") \/ (f \in Docs /\ Retired(rf, f)))
    <3>1. ~(f \in Docs /\ AliveAt(rf, f, Current))
      BY <2>6, IdShape DEF AliveAt, Current
    <3>2. e.keep = <<>>
      BY <2>4, <3>1 DEF EntryFits
    <3>3. Dead(rf, f, k)
      BY <2>6 DEF Dead
    <3>. QED BY <1>0, <2>4, <3>2, <3>3 DEF EntryFits
  <2>7. CASE f \in Docs /\ AliveAt(rf, f, Current) /\ Cuts(mn, f, q, k)
    <3>1. PICK b \in Ops(mn, f, BaseKinds) :
            /\ Newest(mn, f, b)
            /\ \A j \in DOMAIN k : ~Before(Key(k[j]), b) /\ \E i \in DOMAIN q : q[i] = k[j]
            /\ \A i \in DOMAIN q : Before(Key(q[i]), b) \/ \E j \in DOMAIN k : k[j] = q[i]
      BY <2>7 DEF Cuts
    <3>2. k \in Seq(Records)
      BY <2>3 DEF EntryFits
    <3>3. CASE e.keep = <<>> /\ Dead(rf, f, q)
      <4>1. q = <<>>
        BY <2>7, <3>3, IdShape DEF Dead, AliveAt, Current
      <4>2. DOMAIN q = {}
        BY <4>1
      <4>3. k = <<>>
        <5>1. ASSUME NEW j \in DOMAIN k PROVE FALSE
          BY <3>1, <4>2
        <5>2. Len(k) \in Nat /\ DOMAIN k = 1..Len(k)
          BY <3>2
        <5>3. Len(k) # 0 => 1 \in DOMAIN k
          BY <5>2
        <5>4. Len(k) = 0
          BY <5>1, <5>3
        <5>. QED BY <3>2, <5>4
      <4>4. Dead(rf, f, k)
        BY <4>3 DEF Dead
      <4>. QED BY <1>0, <2>4, <3>3, <4>4 DEF EntryFits
    <3>4. CASE Cuts(mn, f, q, e.keep)
      <4>1. PICK m : m = e.keep
        OBVIOUS
      <4>2. PICK a \in Ops(mn, f, BaseKinds) :
              /\ Newest(mn, f, a)
              /\ \A j \in DOMAIN m : ~Before(Key(m[j]), a) /\ \E i \in DOMAIN q : q[i] = m[j]
              /\ \A i \in DOMAIN q : Before(Key(q[i]), a) \/ \E j \in DOMAIN m : m[j] = q[i]
        BY <3>4, <4>1 DEF Cuts
      <4>3. a = b
        BY <3>1, <4>2, NewestUnique
      <4>4. \A j \in DOMAIN m : ~Before(Key(m[j]), b) /\ \E i \in DOMAIN k : k[i] = m[j]
        BY <3>1, <4>2, <4>3
      <4>5. \A i \in DOMAIN k : Before(Key(k[i]), b) \/ \E j \in DOMAIN m : m[j] = k[i]
        BY <3>1, <4>2, <4>3
      <4>6. Cuts(mn, f, k, m)
        BY <3>1, <4>4, <4>5 DEF Cuts
      <4>. QED BY <1>0, <2>4, <2>7, <4>1, <4>6 DEF EntryFits
    <3>. QED BY <2>2, <2>4, <3>3, <3>4 DEF EntryFits
  <2>. QED BY <2>1, <2>2, <2>3, <2>5, <2>6, <2>7, CutShape
<1>. QED BY <1>1, <1>2

LEMMA ReclaimKeeps ==
  ASSUME Disciplined, Inv, NEW r \in plan, Reclaim(r)
  PROVE  Inv'
<1>0. Copies = {} /\ Fits /\ MainFits(main, ref)
  BY DEF Disciplined, Inv, Fits
<1>1. /\ main' = main /\ ref' = ref /\ mainTorn' = mainTorn /\ sideTorn' = sideTorn
      /\ status' = status /\ st' = st /\ plan' = plan \ {r} /\ deferred' = deferred
      /\ pc = "reclaim" /\ pc' = Idle(plan')
  BY DEF Reclaim, hist
<1>2. pc' \in {"idle", "reclaim"} /\ (pc' = "idle" => plan' = {})
  BY <1>1 DEF Idle
<1>3. status = "up" /\ EntryFits(main, ref, side, r) /\ \A f \in Files : NoTail(main, side[f])
  BY <1>1 DEF Inv, InstanceFits
<1>4. main \in Seq(Markers) /\ \A f \in Files : FileFits(main, ref, f, side[f])
  BY <1>0, FitsShape
<1>5. r.file \in Files
  BY <1>3 DEF EntryFits
<1>6. PICK sd : sd = side'
  OBVIOUS
<1>7. /\ sd = [f \in Files |-> sd[f]] /\ sd[r.file] = r.keep
      /\ \A f \in Files : f # r.file => sd[f] = side[f]
  <2>1. side = [f \in Files |-> side[f]]
    BY <1>0 DEF Fits, SideFits
  <2>2. sd = [side EXCEPT ![r.file] = r.keep]
    BY <1>6 DEF Reclaim
  <2>3. DOMAIN sd = Files /\ sd = [f \in DOMAIN sd |-> sd[f]]
    BY <2>1, <2>2
  <2>. QED BY <1>5, <2>1, <2>2, <2>3
<1>8. /\ FileFits(main, ref, r.file, r.keep) /\ NoTail(main, r.keep)
      /\ Tight(main, ref, r.file, r.keep)
  BY <1>3, <1>4, <1>5, ReclaimedFits
<1>9. \A f \in Files : FileFits(main, ref, f, sd[f]) /\ NoTail(main, sd[f])
  BY <1>3, <1>4, <1>7, <1>8
<1>10. SideFits(main, ref, sd)
  BY <1>7, <1>9 DEF SideFits
<1>11. \A e \in plan' : EntryFits(main, ref, sd, e)
  <2>1. ASSUME NEW e \in plan' PROVE EntryFits(main, ref, side, e)
    BY <1>1 DEF Inv, InstanceFits
  <2>. QED BY <1>0, <1>3, <1>4, <1>7, <2>1, EntryStays
<1>12. ASSUME NEW f \in Files \ deferred PROVE (\E e \in plan' : e.file = f) \/ Tight(main, ref, f, sd[f])
  <2>1. CASE f = r.file
    BY <1>7, <1>8, <2>1
  <2>2. CASE f # r.file
    <3>1. (\E e \in plan : e.file = f) \/ Tight(main, ref, f, side[f])
      BY <1>3 DEF Inv, InstanceFits
    <3>. QED BY <1>1, <1>7, <2>2, <3>1
  <2>. QED BY <2>1, <2>2
<1>13. InstanceFits'
  <2>1. Like(st, ref) /\ st \in States /\ mainTorn = FALSE /\ sideTorn = {}
    BY <1>3 DEF Inv, InstanceFits
  <2>. QED BY <1>1, <1>2, <1>3, <1>6, <1>9, <1>11, <1>12, <2>1 DEF InstanceFits
<1>. QED BY <1>0, <1>1, <1>6, <1>10, <1>13 DEF Inv

(* The lines of a batch without copies do not depend on the files. *)
LEMMA LineNext ==
  ASSUME Copies = {}, NEW b \in Batches, NEW i \in DOMAIN b, NEW s
  PROVE  Line(b[i], s, i)' = Line(b[i], s, i)
<1>1. Shaped(b[i])
  BY BatchShape
<1>2. b[i].kind # "copy"
  BY <1>1 DEF Shaped, DocKinds, TaskKinds
<1>. QED BY <1>2 DEF Line

LEMMA AppendedNext ==
  ASSUME Copies = {}, NEW b \in Batches, NEW s, NEW f, NEW q, Appended(b, s, f, q)
  PROVE  Appended(b, s, f, q)'
<1>1. \A j \in DOMAIN q : q[j].seq = s =>
        /\ q[j].ord \in DOMAIN b /\ GoesTo(b[q[j].ord], f)
        /\ q[j] = Line(b[q[j].ord], s, q[j].ord)'
  BY LineNext DEF Appended
<1>. QED BY <1>1 DEF Appended

LEMMA BeginCommitKeeps ==
  ASSUME Disciplined, Inv, NEW b \in Batches, BeginCommit(b)
  PROVE  Inv'
<1>0. Copies = {} /\ ~Revive /\ ~Rewrites /\ Fits
  BY DEF Disciplined, Inv, Fits
<1>1. /\ main' = main /\ ref' = ref /\ side' = side /\ mainTorn' = mainTorn /\ sideTorn' = sideTorn
      /\ status' = status /\ st' = st /\ plan' = plan /\ deferred' = deferred
      /\ status = "up" /\ pc = "idle" /\ pc' = "append" /\ Supplied(b) /\ Valid(st, b)
      /\ cur' = [seq |-> st.nextSeq, ops |-> b, lost |-> Unencodable(b)]
      /\ todo' = IF Unencodable(b) THEN <<>> ELSE FilesOf(b)
  BY DEF BeginCommit, disk
<1>2. Len(b) \in Nat /\ DOMAIN b = 1..Len(b) /\ \A i \in DOMAIN b : Shaped(b[i])
  BY <1>0, BatchShape
<1>3. ~Unencodable(b)
  BY <1>2 DEF Unencodable, Shaped, DocKinds, TaskKinds
<1>4. plan = {} /\ Like(st, ref) /\ st \in States /\ \A f \in Files : NoTail(main, side[f])
  BY <1>1 DEF Inv, InstanceFits
<1>5. PICK s \in Nat : s = Len(main) + 1
  BY <1>0, FitsShape
<1>6. st.nextSeq = s
  BY <1>0, <1>4, <1>5, FitsShape DEF Like
<1>7. cur'.seq = s /\ cur'.ops = b /\ cur'.lost = FALSE /\ todo' = FilesOf(b)
  BY <1>1, <1>3, <1>6
<1>8. Sent(st, b)
  BY <1>0, <1>1 DEF Supplied, Sent
<1>9. Collected(FilesOf(b), b, Len(b))
  BY <1>0, FilesShape
<1>10. PICK td : td = todo'
  OBVIOUS
<1>11. td \in Seq(Files) /\ (\A i, j \in DOMAIN td : td[i] = td[j] => i = j)
       /\ \A i \in DOMAIN b : HasSidecar(b[i]) => \E j \in DOMAIN td : td[j] = b[i].id
  BY <1>2, <1>7, <1>9, <1>10 DEF Collected
<1>12. \A i \in DOMAIN td : td[i] \in Files
  BY <1>11
<1>13. ASSUME NEW f \in Files, \A i \in DOMAIN td : td[i] # f PROVE Appended(b, s, f, side[f])'
  <2>1. \A i \in DOMAIN b : ~GoesTo(b[i], f)
    BY <1>11, <1>13 DEF GoesTo
  <2>2. \A j \in DOMAIN side[f] : side[f][j].seq # s
    <3>1. Len(main) \in Nat
      BY <1>0, FitsShape
    <3>. QED BY <1>4, <1>5, <3>1 DEF NoTail
  <2>3. \A j \in DOMAIN side'[f] : side'[f][j].seq # s
    BY <1>1, <2>2
  <2>. QED BY <2>1, <2>3 DEF Appended
<1>14. CommitFits'
  <2>1. cur'.seq = Len(main') + 1 /\ cur'.ops \in Batches /\ cur'.lost = FALSE
    BY <1>1, <1>5, <1>7
  <2>2. Sent(st', cur'.ops) /\ Valid(st', cur'.ops)
    BY <1>1, <1>7, <1>8
  <2>3. \A i \in DOMAIN todo' : NoTail(main', side'[todo'[i]])
    BY <1>1, <1>4, <1>10, <1>12
  <2>4. ASSUME NEW f \in Files PROVE (\E i \in DOMAIN todo' : todo'[i] = f) \/ Appended(cur.ops, cur.seq, f, side[f])'
    <3>1. ASSUME ~\E i \in DOMAIN todo' : todo'[i] = f PROVE Appended(cur.ops, cur.seq, f, side[f])'
      <4>1. Appended(b, s, f, side[f])'
        BY <1>10, <1>13, <3>1
      <4>. QED BY <1>7, <4>1 DEF Appended
    <3>. QED BY <3>1
  <2>. QED BY <1>10, <1>11, <2>1, <2>2, <2>3, <2>4 DEF CommitFits
<1>15. InstanceFits'
  <2>1. mainTorn = FALSE /\ sideTorn = {}
    BY <1>1 DEF Inv, InstanceFits
  <2>2. \A f \in Files \ deferred : (\E r \in plan : r.file = f) \/ Tight(main, ref, f, side[f])
    BY <1>1 DEF Inv, InstanceFits
  <2>. QED BY <1>1, <1>4, <1>14, <2>1, <2>2 DEF InstanceFits
<1>. QED BY <1>1, <1>15 DEF Inv

(* Lines of a sequence that no marker has yet are put behind the others. *)
LEMMA AppendFits ==
  ASSUME Copies = {}, NEW mn \in Seq(Markers), NEW rf, NEW f \in Files, NEW q, FileFits(mn, rf, f, q), NoTail(mn, q),
         NEW k \in Seq(Records), Sorted(k), \A j \in DOMAIN k : k[j].seq = Len(mn) + 1
  PROVE  FileFits(mn, rf, f, q \o k) /\ (Tight(mn, rf, f, q) => Tight(mn, rf, f, q \o k))
<1>0. Len(mn) \in Nat /\ q \in Seq(Records) /\ Sorted(q)
  BY DEF FileFits
<1>1. PICK z : z = q \o k
  OBVIOUS
<1>2. /\ z \in Seq(Records) /\ Len(q) \in Nat /\ Len(k) \in Nat
      /\ DOMAIN z = 1..(Len(q) + Len(k)) /\ DOMAIN q = 1..Len(q) /\ DOMAIN k = 1..Len(k)
      /\ \A j \in DOMAIN q : z[j] = q[j]
      /\ \A j \in DOMAIN k : z[Len(q) + j] = k[j]
  BY <1>0, <1>1, ConcatShape
<1>3. \A j \in DOMAIN q : j \in DOMAIN z
  BY <1>2
<1>4. \A j \in DOMAIN z : j \in DOMAIN q \/ \E i \in DOMAIN k : z[j] = k[i]
  <2>1. ASSUME NEW j \in DOMAIN z, j \notin DOMAIN q PROVE \E i \in DOMAIN k : z[j] = k[i]
    <3>1. PICK i \in DOMAIN k : j = Len(q) + i
      <4>1. j - Len(q) \in DOMAIN k /\ j = Len(q) + (j - Len(q))
        BY <1>2, <2>1
      <4>. QED BY <4>1
    <3>. QED BY <1>2, <3>1
  <2>. QED BY <2>1
<1>5. ASSUME NEW i \in DOMAIN q, NEW j \in DOMAIN k PROVE Before(Key(q[i]), Key(k[j]))
  <2>1. q[i].seq <= Len(mn) /\ k[j].seq = Len(mn) + 1
    BY DEF NoTail
  <2>2. q[i] \in Records
    BY <1>0
  <2>3. q[i].seq \in Nat
    BY <2>2 DEF Records
  <2>. QED BY <1>0, <2>1, <2>3 DEF Before, Key
<1>6. Sorted(z)
  BY <1>0, <1>1, <1>5, ConcatSorted
<1>7. ASSUME NEW j \in DOMAIN z PROVE RecordFits(mn, f, z[j])
  <2>1. CASE j \in DOMAIN q
    BY <1>2, <2>1 DEF FileFits
  <2>2. CASE j \notin DOMAIN q
    <3>1. z[j].seq = Len(mn) + 1
      BY <1>4, <2>2
    <3>2. ~(z[j].seq <= Len(mn))
      BY <1>0, <3>1
    <3>. QED BY <3>1, <3>2 DEF RecordFits
  <2>. QED BY <2>1, <2>2
<1>8. \A p : Has(q, p) => Has(z, p)
  BY <1>2, <1>3 DEF Has
<1>9. FileFits(mn, rf, f, z)
  <2>1. f \in Docs /\ AliveAt(rf, f, Current) => Covers(mn, f, z)
    BY <1>8 DEF FileFits, Covers
  <2>2. f \in Tasks /\ rf.tasks[f].status = "live" => \A p \in Ops(mn, f, {"live"}) : Has(z, p)
    BY <1>8 DEF FileFits
  <2>. QED BY <1>2, <1>6, <1>7, <2>1, <2>2 DEF FileFits
<1>10. ASSUME Tight(mn, rf, f, q) PROVE Tight(mn, rf, f, z)
  <2>1. CASE \A j \in DOMAIN q : q[j].seq > Len(mn)
    <3>1. \A j \in DOMAIN k : k[j].seq > Len(mn)
      BY <1>0
    <3>2. \A j \in DOMAIN z : z[j].seq > Len(mn)
      BY <1>2, <1>4, <2>1, <3>1
    <3>. QED BY <3>2 DEF Tight
  <2>2. ASSUME NEW b \in Ops(mn, f, BaseKinds), \A j \in DOMAIN q : ~Before(Key(q[j]), b)
        PROVE  \A j \in DOMAIN z : ~Before(Key(z[j]), b)
    <3>1. b[1] \in 1..Len(mn)
      BY OpsShape
    <3>2. ASSUME NEW j \in DOMAIN k PROVE ~Before(Key(k[j]), b)
      <4>1. k[j].seq = Len(mn) + 1
        OBVIOUS
      <4>. QED BY <1>0, <3>1, <4>1 DEF Before, Key
    <3>. QED BY <1>2, <1>4, <2>2, <3>2
  <2>. QED BY <1>10, <2>1, <2>2 DEF Tight
<1>. QED BY <1>1, <1>9, <1>10

LEMMA CommitUnderWay ==
  ASSUME Disciplined, Inv, pc = "append"
  PROVE  /\ Copies = {} /\ Fits /\ CommitFits /\ status = "up" /\ plan = {}
         /\ st \in States /\ Like(st, ref) /\ mainTorn = FALSE /\ sideTorn = {}
         /\ \A f \in Files \ deferred : Tight(main, ref, f, side[f])
         /\ main \in Seq(Markers) /\ Len(main) \in Nat /\ cur.ops \in Batches
<1>1. Copies = {} /\ Fits
  BY DEF Disciplined, Inv, Fits
<1>2. CommitFits /\ status = "up" /\ plan = {}
  BY DEF Inv, InstanceFits
<1>3. /\ st \in States /\ Like(st, ref) /\ mainTorn = FALSE /\ sideTorn = {}
      /\ \A f \in Files \ deferred : Tight(main, ref, f, side[f])
  BY <1>2 DEF Inv, InstanceFits
<1>. QED BY <1>1, <1>2, <1>3, FitsShape DEF CommitFits

(* Lines of the commit under way are added to the first file to do. *)
LEMMA SideAppends ==
  ASSUME Disciplined, Inv, pc = "append", todo # <<>>, NEW f, f = Head(todo),
         NEW k \in Seq(Records), Sorted(k), \A j \in DOMAIN k : k[j].seq = Len(main) + 1,
         NEW sd, sd = [side EXCEPT ![f] = @ \o k]
  PROVE  /\ f \in Files /\ f = todo[1] /\ NoTail(main, side[f])
         /\ sd[f] = side[f] \o k /\ \A g \in Files : g # f => sd[g] = side[g]
         /\ SideFits(main, ref, sd)
         /\ \A g \in Files \ deferred : Tight(main, ref, g, sd[g])
<1>0. /\ Copies = {} /\ Fits /\ CommitFits /\ main \in Seq(Markers)
      /\ \A g \in Files \ deferred : Tight(main, ref, g, side[g])
  BY CommitUnderWay
<1>1. todo \in Seq(Files) /\ \A i \in DOMAIN todo : NoTail(main, side[todo[i]])
  BY <1>0 DEF CommitFits
<1>2. 1 \in DOMAIN todo /\ f = todo[1] /\ f \in Files
  BY <1>1
<1>3. NoTail(main, side[f])
  BY <1>1, <1>2
<1>4. side = [g \in Files |-> side[g]]
  BY <1>0 DEF Fits, SideFits
<1>5. /\ sd = [g \in Files |-> sd[g]] /\ sd[f] = side[f] \o k
      /\ \A g \in Files : g # f => sd[g] = side[g]
  <2>1. DOMAIN sd = Files /\ sd = [g \in DOMAIN sd |-> sd[g]]
    BY <1>4
  <2>. QED BY <1>2, <1>4, <2>1
<1>6. \A g \in Files : FileFits(main, ref, g, side[g])
  BY <1>0, FitsShape
<1>7. PICK q : q = side[f]
  OBVIOUS
<1>8. FileFits(main, ref, f, q \o k) /\ (Tight(main, ref, f, q) => Tight(main, ref, f, q \o k))
  BY <1>0, <1>2, <1>3, <1>6, <1>7, AppendFits
<1>9. \A g \in Files : FileFits(main, ref, g, sd[g])
  BY <1>5, <1>6, <1>7, <1>8
<1>10. SideFits(main, ref, sd)
  BY <1>5, <1>9 DEF SideFits
<1>11. \A g \in Files \ deferred : Tight(main, ref, g, sd[g])
  BY <1>0, <1>5, <1>7, <1>8
<1>. QED BY <1>2, <1>3, <1>5, <1>10, <1>11

LEMMA NewLinesShape ==
  ASSUME Disciplined, Inv, pc = "append"
  PROVE  /\ Encoded(NewLines, cur.ops, Len(cur.ops), Len(main) + 1, Head(todo))
         /\ NewLines \in Seq(Records) /\ Sorted(NewLines)
         /\ \A j \in DOMAIN NewLines : NewLines[j].seq = Len(main) + 1
<1>1. Copies = {} /\ CommitFits /\ Len(main) \in Nat /\ cur.ops \in Batches
  BY CommitUnderWay
<1>2. PICK s \in Nat : s = Len(main) + 1
  BY <1>1
<1>3. cur.seq = s
  BY <1>1, <1>2 DEF CommitFits
<1>4. Encoded(NewLines, cur.ops, Len(cur.ops), s, Head(todo))
  BY <1>1, <1>3, LinesShape DEF NewLines
<1>5. /\ NewLines \in Seq(Records) /\ Sorted(NewLines)
      /\ \A j \in DOMAIN NewLines : NewLines[j].seq = s
  BY <1>4 DEF Encoded
<1>. QED BY <1>2, <1>4, <1>5

LEMMA AppendSidecarFailsKeeps ==
  ASSUME Disciplined, Inv, AppendSidecarFails
  PROVE  Inv'
<1>0. pc = "append" /\ todo # <<>> /\ main' = main /\ ref' = ref
  BY DEF AppendSidecarFails, hist
<1>1. InstanceFits'
  BY DownFits DEF AppendSidecarFails, GivesUp
<1>2. PICK l : l = NewLines
  OBVIOUS
<1>3. l \in Seq(Records) /\ Sorted(l) /\ \A j \in DOMAIN l : l[j].seq = Len(main) + 1
  BY <1>0, <1>2, NewLinesShape
<1>4. PICK n \in 0..Len(l) : side' = [side EXCEPT ![Head(todo)] = @ \o SubSeq(l, 1, n)]
  BY <1>2 DEF AppendSidecarFails
<1>5. PICK k : k = SubSeq(l, 1, n)
  OBVIOUS
<1>6. k \in Seq(Records) /\ DOMAIN k = 1..n /\ \A j \in 1..n : k[j] = l[j] /\ j \in DOMAIN l
  BY <1>3, <1>5
<1>7. Sorted(k) /\ \A j \in DOMAIN k : k[j].seq = Len(main) + 1
  BY <1>3, <1>6 DEF Sorted
<1>8. PICK sd : sd = side'
  OBVIOUS
<1>9. PICK f : f = Head(todo)
  OBVIOUS
<1>10. sd = [side EXCEPT ![f] = @ \o k]
  BY <1>4, <1>5, <1>8, <1>9
<1>11. SideFits(main, ref, sd)
  BY <1>0, <1>6, <1>7, <1>9, <1>10, SideAppends
<1>. QED BY <1>0, <1>1, <1>8, <1>11 DEF Inv

LEMMA AppendSidecarKeeps ==
  ASSUME Disciplined, Inv, AppendSidecar
  PROVE  Inv'
<1>0. /\ pc = "append" /\ todo # <<>> /\ main' = main /\ ref' = ref /\ mainTorn' = mainTorn
      /\ sideTorn' = sideTorn /\ status' = status /\ st' = st /\ pc' = pc /\ cur' = cur /\ plan' = plan
      /\ deferred' = deferred /\ todo' = Tail(todo)
  BY DEF AppendSidecar, hist
<1>1. /\ Copies = {} /\ Fits /\ CommitFits /\ status = "up" /\ plan = {}
      /\ st \in States /\ Like(st, ref) /\ mainTorn = FALSE /\ sideTorn = {}
      /\ main \in Seq(Markers) /\ Len(main) \in Nat /\ cur.ops \in Batches
  BY <1>0, CommitUnderWay
<1>2. PICK k : k = NewLines
  OBVIOUS
<1>3. PICK f : f = Head(todo)
  OBVIOUS
<1>4. PICK b \in Batches : b = cur.ops
  BY <1>1
<1>5. PICK s \in Nat : s = Len(main) + 1
  BY <1>1
<1>6. cur.seq = s /\ DOMAIN b = 1..Len(b)
  BY <1>1, <1>4, <1>5, BatchShape DEF CommitFits
<1>7. Encoded(k, b, Len(b), s, f) /\ k \in Seq(Records) /\ Sorted(k)
      /\ \A j \in DOMAIN k : k[j].seq = Len(main) + 1
  BY <1>0, <1>2, <1>3, <1>4, <1>5, NewLinesShape
<1>8. PICK sd : sd = side'
  OBVIOUS
<1>9. sd = [side EXCEPT ![f] = @ \o k]
  BY <1>2, <1>3, <1>8 DEF AppendSidecar
<1>10. /\ f \in Files /\ f = todo[1] /\ NoTail(main, side[f])
       /\ sd[f] = side[f] \o k /\ \A g \in Files : g # f => sd[g] = side[g]
       /\ SideFits(main, ref, sd)
       /\ \A g \in Files \ deferred : Tight(main, ref, g, sd[g])
  <2>1. f \in Files /\ f = todo[1] /\ NoTail(main, side[f])
    BY <1>0, <1>3, <1>7, <1>9, SideAppends
  <2>2. sd[f] = side[f] \o k
    BY <1>0, <1>3, <1>7, <1>9, SideAppends
  <2>3. \A g \in Files : g # f => sd[g] = side[g]
    BY <1>0, <1>3, <1>7, <1>9, SideAppends
  <2>4. SideFits(main, ref, sd)
    BY <1>0, <1>3, <1>7, <1>9, SideAppends
  <2>5. \A g \in Files \ deferred : Tight(main, ref, g, sd[g])
    BY <1>0, <1>3, <1>7, <1>9, SideAppends
  <2>. QED BY <2>1, <2>2, <2>3, <2>4, <2>5
<1>11. PICK td : td = todo'
  OBVIOUS
<1>12. /\ todo \in Seq(Files) /\ \A i, j \in DOMAIN todo : todo[i] = todo[j] => i = j
       /\ \A i \in DOMAIN todo : NoTail(main, side[todo[i]])
       /\ \A g \in Files : (\E i \in DOMAIN todo : todo[i] = g) \/ Appended(cur.ops, cur.seq, g, side[g])
  BY <1>1 DEF CommitFits
<1>13. /\ td \in Seq(Files) /\ Len(todo) \in Nat /\ DOMAIN todo = 1..Len(todo) /\ Len(todo) # 0
       /\ DOMAIN td = 1..(Len(todo) - 1)
       /\ \A i \in 1..(Len(todo) - 1) : td[i] = todo[i + 1]
  BY <1>0, <1>11, <1>12
<1>14. \A i \in DOMAIN td : i + 1 \in DOMAIN todo /\ td[i] = todo[i + 1] /\ i + 1 # 1
  BY <1>13
<1>15. \A i, j \in DOMAIN td : td[i] = td[j] => i = j
  <2>1. ASSUME NEW i \in DOMAIN td, NEW j \in DOMAIN td, td[i] = td[j] PROVE i = j
    <3>1. i + 1 = j + 1
      BY <1>12, <1>14, <2>1
    <3>. QED BY <1>13, <3>1
  <2>. QED BY <2>1
<1>16. \A i \in DOMAIN td : td[i] # f /\ td[i] \in Files
  <2>1. 1 \in DOMAIN todo
    BY <1>13
  <2>. QED BY <1>10, <1>12, <1>13, <1>14, <2>1
<1>17. \A i \in DOMAIN td : NoTail(main, sd[td[i]])
  BY <1>10, <1>12, <1>14, <1>16
<1>18. ASSUME NEW g \in Files, ~\E i \in DOMAIN td : td[i] = g PROVE Appended(b, s, g, sd[g])
  <2>1. CASE g = f
    <3>1. PICK q : q = side[f]
      OBVIOUS
    <3>2. q \in Seq(Records) /\ \A j \in DOMAIN q : q[j].seq <= Len(main) /\ q[j] \in Records
      <4>1. FileFits(main, ref, f, side[f])
        BY <1>1, <1>10, FitsShape
      <4>. QED BY <1>10, <3>1, <4>1 DEF FileFits, NoTail
    <3>3. PICK z : z = q \o k
      OBVIOUS
    <3>4. /\ z \in Seq(Records) /\ Len(q) \in Nat /\ Len(k) \in Nat
          /\ DOMAIN z = 1..(Len(q) + Len(k)) /\ DOMAIN q = 1..Len(q) /\ DOMAIN k = 1..Len(k)
          /\ \A j \in DOMAIN q : z[j] = q[j]
          /\ \A j \in DOMAIN k : z[Len(q) + j] = k[j]
      BY <1>7, <3>2, <3>3, ConcatShape
    <3>5. ASSUME NEW j \in DOMAIN z, z[j].seq = s
          PROVE  /\ z[j].ord \in DOMAIN b /\ GoesTo(b[z[j].ord], f)
                 /\ z[j] = Line(b[z[j].ord], s, z[j].ord)
      <4>1. CASE j \in DOMAIN q
        <5>1. q[j].seq <= Len(main)
          BY <3>2, <4>1
        <5>. QED BY <1>1, <1>5, <3>4, <3>5, <4>1, <5>1
      <4>2. CASE j \notin DOMAIN q
        <5>1. PICK i \in DOMAIN k : j = Len(q) + i
          <6>1. j - Len(q) \in DOMAIN k /\ j = Len(q) + (j - Len(q))
            BY <3>4, <4>2
          <6>. QED BY <6>1
        <5>2. z[j] = k[i]
          BY <3>4, <5>1
        <5>3. /\ k[i].ord \in 1..Len(b) /\ GoesTo(b[k[i].ord], f)
              /\ k[i] = Line(b[k[i].ord], s, k[i].ord)
          BY <1>7 DEF Encoded
        <5>. QED BY <1>6, <5>2, <5>3
      <4>. QED BY <4>1, <4>2
    <3>6. ASSUME NEW i \in DOMAIN b, GoesTo(b[i], f) PROVE Has(z, <<s, i>>)
      <4>1. Has(k, <<s, i>>)
        BY <1>6, <1>7, <3>6 DEF Encoded
      <4>2. PICK j \in DOMAIN k : Key(k[j]) = <<s, i>>
        BY <4>1 DEF Has
      <4>3. Len(q) + j \in DOMAIN z /\ z[Len(q) + j] = k[j]
        BY <3>4
      <4>. QED BY <4>2, <4>3 DEF Has
    <3>7. Appended(b, s, f, z)
      BY <3>5, <3>6 DEF Appended
    <3>. QED BY <1>10, <2>1, <3>1, <3>3, <3>7
  <2>2. CASE g # f
    <3>1. ~\E i \in DOMAIN todo : todo[i] = g
      <4>1. ASSUME NEW i \in DOMAIN todo, todo[i] = g PROVE FALSE
        <5>1. i # 1
          BY <1>10, <2>2, <4>1
        <5>2. i - 1 \in DOMAIN td /\ (i - 1) + 1 = i
          BY <1>13, <5>1
        <5>3. td[i - 1] = g
          BY <1>14, <4>1, <5>2
        <5>. QED BY <1>18, <5>2, <5>3
      <4>. QED BY <4>1
    <3>2. Appended(b, s, g, side[g])
      BY <1>4, <1>6, <1>12, <3>1
    <3>. QED BY <1>10, <2>2, <3>2
  <2>. QED BY <2>1, <2>2
<1>19. CommitFits'
  <2>1. cur'.seq = Len(main') + 1 /\ cur'.ops \in Batches /\ cur'.lost = FALSE /\ Sent(st', cur'.ops) /\ Valid(st', cur'.ops)
    BY <1>0, <1>1 DEF CommitFits
  <2>2. ASSUME NEW g \in Files
        PROVE (\E i \in DOMAIN todo' : todo'[i] = g) \/ Appended(cur.ops, cur.seq, g, side[g])'
    <3>1. ASSUME ~\E i \in DOMAIN td : td[i] = g PROVE Appended(cur.ops, cur.seq, g, side[g])'
      <4>1. PICK q : q = sd[g]
        OBVIOUS
      <4>2. Appended(b, s, g, q)'
        BY <1>1, <1>18, <3>1, <4>1, AppendedNext
      <4>3. cur'.ops = b /\ cur'.seq = s /\ side'[g] = q
        BY <1>0, <1>4, <1>6, <1>8, <4>1
      <4>. QED BY <4>2, <4>3 DEF Appended
    <3>. QED BY <1>11, <3>1
  <2>3. \A i \in DOMAIN todo' : NoTail(main', side'[todo'[i]])
    BY <1>0, <1>8, <1>11, <1>17
  <2>. QED BY <1>11, <1>13, <1>15, <2>1, <2>2, <2>3 DEF CommitFits
<1>20. InstanceFits'
  BY <1>0, <1>1, <1>8, <1>10, <1>19 DEF InstanceFits
<1>21. MainFits(main, ref)
  BY <1>1 DEF Fits
<1>. QED BY <1>0, <1>8, <1>10, <1>20, <1>21 DEF Inv

(* The marker publishes the batch. *)
LEMMA MarkerFits ==
  ASSUME Disciplined, Inv, pc = "append", todo = <<>>, NEW mn, NEW z, NEW b, b = cur.ops,
         mn = Append(main, Marker), z = Published
  PROVE  /\ b \in Batches /\ Commits(main, ref, b, mn, z) /\ MainFits(mn, z)
         /\ \A f \in Files : FileFits(main, ref, f, side[f]) /\ Appended(b, Len(main) + 1, f, side[f])
         /\ \A f \in Files : FileFits(mn, z, f, side[f]) /\ NoTail(mn, side[f])
<1>0. /\ Copies = {} /\ Fits /\ CommitFits /\ st \in States /\ Like(st, ref)
      /\ main \in Seq(Markers) /\ Len(main) \in Nat /\ b \in Batches
  BY CommitUnderWay
<1>1. PICK s \in Nat : s = Len(main) + 1
  BY <1>0
<1>2. /\ cur.seq = s /\ Sent(st, b) /\ Valid(st, b)
      /\ \A f \in Files : Appended(b, s, f, side[f])
  BY <1>0, <1>1 DEF CommitFits
<1>3. Grows(main, mn, b)
  BY <1>1, <1>2 DEF Grows, Marker
<1>4. z = ApplyBatch(ref, b, s)
  BY <1>2 DEF Published
<1>5. Retirable(st)
  <2>1. ASSUME NEW d \in Docs, st.docs[d].created = 0 PROVE st.docs[d].retired = 0
    <3>1. LikeDoc(st.docs[d], ref.docs[d], d)
      BY <1>0 DEF Like
    <3>2. ref.docs[d].created = 0 /\ ref.docs[d].retired = st.docs[d].retired
      BY <2>1, <3>1 DEF LikeDoc
    <3>3. DocFits(main, ref, d)
      BY <1>0, FitsShape
    <3>4. Ops(main, d, DocKinds) = {}
      BY <3>2, <3>3 DEF DocFits, Exists
    <3>5. Ops(main, d, {"retire"}) = {}
      BY <3>4 DEF Ops, DocKinds
    <3>. QED BY <3>2, <3>3, <3>5 DEF DocFits, Retired
  <2>. QED BY <2>1 DEF Retirable
<1>6. Legit(st, b)
  BY <1>0, <1>2, <1>5, ValidIsLegit
<1>7. Legit(ref, b)
  BY <1>0, <1>6, LegitLike
<1>8. TasksOpen(ref, b)
  <2>1. st.tasks = ref.tasks
    BY <1>0 DEF Like
  <2>. QED BY <1>2, <2>1 DEF TasksOpen, Sent, OnTask
<1>9. MainFits(main, ref)
  BY <1>0 DEF Fits
<1>10. /\ MainFits(mn, z)
       /\ \A d \in Docs : TracedDoc(ref, z, b, Len(b), d)
       /\ \A t \in Tasks : TracedTask(ref, z, b, Len(b), t)
  <2>1. z = ApplyBatch(ref, b, Len(main) + 1)
    BY <1>1, <1>4
  <2>2. MainFits(mn, z)
    BY <1>0, <1>3, <1>7, <1>9, <2>1, MainGrows
  <2>3. \A d \in Docs : TracedDoc(ref, z, b, Len(b), d)
    BY <1>0, <1>3, <1>7, <1>9, <2>1, MainGrows
  <2>4. \A t \in Tasks : TracedTask(ref, z, b, Len(b), t)
    BY <1>0, <1>3, <1>7, <1>9, <2>1, MainGrows
  <2>. QED BY <2>2, <2>3, <2>4
<1>11. Commits(main, ref, b, mn, z)
  BY <1>0, <1>3, <1>7, <1>8, <1>9, <1>10 DEF Commits
<1>12. \A f \in Files : FileFits(main, ref, f, side[f]) /\ Appended(b, Len(main) + 1, f, side[f])
  BY <1>0, <1>1, <1>2, FitsShape
<1>13. \A f \in Files : FileFits(mn, z, f, side[f]) /\ NoTail(mn, side[f])
  BY <1>0, <1>11, <1>12, SideGrows
<1>. QED BY <1>0, <1>10, <1>11, <1>12, <1>13

LEMMA AppendMarkerFailsKeeps ==
  ASSUME Disciplined, Inv, AppendMarkerFails
  PROVE  Inv'
<1>0. pc = "append" /\ todo = <<>> /\ side' = side
  BY DEF AppendMarkerFails
<1>1. InstanceFits'
  BY DownFits DEF AppendMarkerFails, GivesUp
<1>2. CASE main' = main /\ ref' = ref
  BY <1>0, <1>1, <1>2 DEF Inv
<1>3. CASE main' = Append(main, Marker) /\ ref' = Published
  <2>1. PICK b : b = cur.ops
    OBVIOUS
  <2>2. PICK mn : mn = main'
    OBVIOUS
  <2>3. PICK z : z = ref'
    OBVIOUS
  <2>4. MainFits(mn, z) /\ \A f \in Files : FileFits(mn, z, f, side[f])
    <3>1. MainFits(mn, z)
      BY <1>0, <1>3, <2>1, <2>2, <2>3, MarkerFits
    <3>2. \A f \in Files : FileFits(mn, z, f, side[f])
      BY <1>0, <1>3, <2>1, <2>2, <2>3, MarkerFits
    <3>. QED BY <3>1, <3>2
  <2>5. side = [f \in Files |-> side[f]]
    BY DEF Inv, SideFits
  <2>6. SideFits(mn, z, side)
    BY <2>4, <2>5 DEF SideFits
  <2>. QED BY <1>0, <1>1, <2>2, <2>3, <2>4, <2>6 DEF Inv
<1>. QED BY <1>2, <1>3 DEF AppendMarkerFails

LEMMA AppendMarkerKeeps ==
  ASSUME Disciplined, Inv, AppendMarker
  PROVE  Inv'
<1>0. pc = "append" /\ todo = <<>> /\ side' = side /\ mainTorn' = mainTorn /\ sideTorn' = sideTorn
      /\ status' = status /\ deferred' = deferred /\ pc' = Idle(plan')
  BY DEF AppendMarker
<1>1. /\ Copies = {} /\ Fits /\ CommitFits /\ status = "up" /\ plan = {}
      /\ st \in States /\ Like(st, ref) /\ mainTorn = FALSE /\ sideTorn = {}
      /\ \A f \in Files \ deferred : Tight(main, ref, f, side[f])
      /\ main \in Seq(Markers) /\ Len(main) \in Nat /\ cur.ops \in Batches
  BY <1>0, CommitUnderWay
<1>2. PICK b : b = cur.ops
  OBVIOUS
<1>3. PICK mn : mn = main'
  OBVIOUS
<1>4. PICK z : z = ref'
  OBVIOUS
<1>5. PICK s \in Nat : s = Len(main) + 1
  BY <1>1
<1>6. cur.lost = FALSE /\ cur.seq = s /\ b \in Batches /\ Valid(st, b)
  BY <1>1, <1>2, <1>5 DEF CommitFits
<1>7. /\ mn = Append(main, Marker) /\ z = Published /\ st' = ApplyBatch(st, b, s)
      /\ plan' = Reclamations(b, s)
  BY <1>2, <1>3, <1>4, <1>6 DEF AppendMarker
<1>8. Commits(main, ref, b, mn, z)
  BY <1>0, <1>2, <1>7, MarkerFits
<1>9. MainFits(mn, z)
  BY <1>0, <1>2, <1>7, MarkerFits
<1>10. \A f \in Files : FileFits(main, ref, f, side[f]) /\ Appended(b, Len(main) + 1, f, side[f])
  BY <1>0, <1>2, <1>7, MarkerFits
<1>11. \A f \in Files : FileFits(mn, z, f, side[f]) /\ NoTail(mn, side[f])
  BY <1>0, <1>2, <1>7, MarkerFits
<1>12. SideFits(mn, z, side)
  <2>1. side = [f \in Files |-> side[f]]
    BY DEF Inv, SideFits
  <2>. QED BY <1>11, <2>1 DEF SideFits
<1>13. st.nextSeq = s /\ ref.nextSeq = s /\ s # 0 /\ ref \in States
  <2>1. ref.nextSeq = s /\ ref \in States
    BY <1>1, <1>5, FitsShape
  <2>. QED BY <1>1, <1>5, <2>1 DEF Like
<1>14. st' \in States
  <2>1. PICK f : f = Applied(st, b, s)
    OBVIOUS
  <2>2. Steps(f, st, b, s)
    BY <1>1, <1>6, <2>1, AppliedSteps
  <2>3. ApplyBatch(st, b, s) \in States
    BY <1>1, <1>6, <1>13, <2>1, <2>2, BatchEnd
  <2>. QED BY <1>7, <2>3
<1>15. Like(st', z)
  <2>1. Like(ApplyBatch(st, b, st.nextSeq), ApplyBatch(ref, b, st.nextSeq))
    BY <1>1, <1>6, <1>13, LikeBatch
  <2>2. z = ApplyBatch(ref, b, s)
    BY <1>2, <1>6, <1>7 DEF Published
  <2>. QED BY <1>7, <1>13, <2>1, <2>2
<1>16. \A r \in plan' : EntryFits(mn, z, side, r)
  <2>1. \A r \in Reclamations(b, Len(main) + 1) : EntryFits(mn, z, side, r)
    BY <1>1, <1>8, <1>10, PlanGrows
  <2>. QED BY <1>5, <1>7, <2>1
<1>17. ASSUME NEW f \in Files \ deferred PROVE (\E r \in plan' : r.file = f) \/ Tight(mn, z, f, side[f])
  <2>1. ASSUME \A r \in Reclamations(b, Len(main) + 1) : r.file # f PROVE Tight(mn, z, f, side[f])
    BY <1>1, <1>8, <1>10, <2>1, TightGrows
  <2>. QED BY <1>5, <1>7, <2>1
<1>18. pc' \in {"idle", "reclaim"} /\ (pc' = "idle" => plan' = {})
  BY <1>0 DEF Idle
<1>19. InstanceFits'
  BY <1>0, <1>1, <1>3, <1>4, <1>11, <1>14, <1>15, <1>16, <1>17, <1>18 DEF InstanceFits
<1>. QED BY <1>0, <1>3, <1>4, <1>9, <1>12, <1>19 DEF Inv

LEMMA NextKeeps ==
  ASSUME Disciplined, Inv, [Next]_vars
  PROVE  Inv'
<1>1. CASE Open
  BY <1>1, OpenKeeps
<1>2. CASE OpenInterrupted
  BY <1>2, OpenInterruptedKeeps
<1>3. CASE MintId
  BY <1>3, MintIdKeeps
<1>4. CASE Stop
  BY <1>4, StopKeeps
<1>5. CASE \E batch \in Batches : BeginCommit(batch)
  BY <1>5, BeginCommitKeeps
<1>6. CASE AppendSidecar
  BY <1>6, AppendSidecarKeeps
<1>7. CASE AppendSidecarFails
  BY <1>7, AppendSidecarFailsKeeps
<1>8. CASE FlushSidecarFails
  BY <1>8, FlushSidecarFailsKeeps
<1>9. CASE AppendMarker
  BY <1>9, AppendMarkerKeeps
<1>10. CASE AppendMarkerFails
  BY <1>10, AppendMarkerFailsKeeps
<1>11. CASE \E r \in plan : Reclaim(r) \/ ReclaimFails(r)
  BY <1>11, ReclaimKeeps, ReclaimFailsKeeps
<1>12. CASE ReclamationDeferred
  BY <1>12, ReclamationDeferredKeeps
<1>13. CASE UNCHANGED vars
  BY <1>13, StutterKeeps
<1>. QED BY <1>1, <1>2, <1>3, <1>4, <1>5, <1>6, <1>7, <1>8, <1>9, <1>10, <1>11, <1>12, <1>13 DEF Next

(* The invariant of the store: wherever commits, reclamations and openings  *)
(* stop, main.jsonl says what was published and the sidecars hold what      *)
(* recovery needs of it.                                                    *)
THEOREM StoreCorrect ==
  ASSUME Disciplined
  PROVE  Spec => []Inv
<1>1. Init => Inv
  BY InitFits
<1>2. Inv /\ [Next]_vars => Inv'
  BY NextKeeps
<1>. QED BY <1>1, <1>2, PTL DEF Spec
-----------------------------------------------------------------------------
(* 10. What the invariant means *)

(* recover never refuses the files that commits, reclamations and earlier   *)
(* recoveries leave behind, wherever they were cut off.                     *)
THEOREM AlwaysOpens ==
  ASSUME Disciplined
  PROVE  Spec => []AlwaysReopens
<1>1. Inv => AlwaysReopens
  <2>. HAVE Inv
  <2>1. Copies = {} /\ Fits
    BY DEF Disciplined, Inv, Fits
  <2>. QED BY <2>1, FitsReopens DEF AlwaysReopens
<1>. QED BY <1>1, StoreCorrect, PTL

(* recover gives back every batch whose marker was completed, whole, and    *)
(* nothing of the others.                                                   *)
THEOREM PublishedSurvives ==
  ASSUME Disciplined
  PROVE  Spec => []CommittedSurvives
<1>1. Inv => CommittedSurvives
  <2>. HAVE Inv
  <2>1. Copies = {} /\ Fits
    BY DEF Disciplined, Inv, Fits
  <2>2. Like(Recovered, ref)
    BY <2>1, RecoveredLike
  <2>. QED BY <2>2, LikeView DEF CommittedSurvives
<1>. QED BY <1>1, StoreCorrect, PTL

(* The StorageState of an open instance and the one recover would build     *)
(* from its files give the same reads.                                      *)
THEOREM MemoryAgrees ==
  ASSUME Disciplined
  PROVE  Spec => []MemoryMatchesFiles
<1>1. Inv => MemoryMatchesFiles
  <2>. HAVE Inv
  <2>1. Copies = {} /\ Fits
    BY DEF Disciplined, Inv, Fits
  <2>2. View(Recovered) = View(ref)
    BY <2>1, RecoveredLike, LikeView
  <2>3. status = "up" => View(st) = View(ref)
    BY LikeView DEF Inv, InstanceFits
  <2>. QED BY <2>2, <2>3 DEF MemoryMatchesFiles
<1>. QED BY <1>1, StoreCorrect, PTL

(* reclaim_sidecars leaves no line behind that no recovery will read, other *)
(* than in the files it failed on.                                          *)
THEOREM SidecarsStayReclaimed ==
  ASSUME Disciplined
  PROVE  Spec => []SidecarsReclaimed
<1>1. Inv => SidecarsReclaimed
  <2>. SUFFICES ASSUME Inv, status = "up", pc = "idle"
                PROVE  /\ \A t \in Tasks \ deferred : st.tasks[t].status # "live" => side[t] = <<>>
                       /\ \A d \in Docs \ (deferred \cup Rewindable) :
                            Len(side[d]) = Len(st.docs[d].revs)
    BY DEF SidecarsReclaimed
  <2>1. Copies = {} /\ Fits
    BY DEF Disciplined, Inv, Fits
  <2>2. /\ Like(st, ref) /\ plan = {} /\ \A f \in Files : NoTail(main, side[f])
        /\ \A f \in Files \ deferred : Tight(main, ref, f, side[f])
    BY DEF Inv, InstanceFits
  <2>3. ASSUME NEW t \in Tasks \ deferred, st.tasks[t].status # "live" PROVE side[t] = <<>>
    <3>1. t \in Files /\ t \notin Docs /\ t \notin Rewindable
      BY IdShape, IdsAssumption DEF Files
    <3>2. ref.tasks[t].status # "live"
      BY <2>2, <2>3 DEF Like
    <3>3. \A j \in DOMAIN side[t] : side[t][j].seq > Len(main)
      BY <2>2, <3>1, <3>2 DEF Tight
    <3>4. PICK q : q = side[t]
      OBVIOUS
    <3>5. q \in Seq(Records) /\ DOMAIN q = 1..Len(q) /\ Len(q) \in Nat /\ Len(main) \in Nat
          /\ \A j \in DOMAIN q : q[j].seq \in Nat /\ q[j].seq <= Len(main) /\ q[j].seq > Len(main)
      BY <2>1, <2>2, <3>1, <3>3, <3>4, FileShape, FitsShape DEF NoTail
    <3>6. Len(q) # 0 => 1 \in DOMAIN q
      BY <3>5
    <3>7. Len(q) = 0
      BY <3>5, <3>6
    <3>. QED BY <3>4, <3>5, <3>7
  <2>4. ASSUME NEW d \in Docs \ (deferred \cup Rewindable) PROVE Len(side[d]) = Len(st.docs[d].revs)
    <3>1. d \in Files /\ d \in Docs /\ d \notin Rewindable /\ NoTail(main, side[d]) /\ Tight(main, ref, d, side[d])
      BY <2>2 DEF Files
    <3>2. IF AliveAt(ref, d, Current) THEN Len(side[d]) = Len(ref.docs[d].revs) ELSE side[d] = <<>>
      BY <2>1, <3>1, LinesOfRevisions
    <3>3. LikeDoc(st.docs[d], ref.docs[d], d)
      BY <2>2 DEF Like
    <3>4. AliveAt(ref, d, Current) <=> Lives(st.docs[d])
      BY <3>3 DEF LikeDoc, Lives, AliveAt, Current, Exists, Retired
    <3>5. CASE Lives(st.docs[d])
      BY <3>1, <3>2, <3>3, <3>4, <3>5 DEF LikeDoc
    <3>6. CASE ~Lives(st.docs[d])
      <4>1. st.docs[d].revs = <<>> /\ side[d] = <<>>
        BY <3>1, <3>2, <3>3, <3>4, <3>6 DEF LikeDoc
      <4>. QED BY <4>1
    <3>. QED BY <3>5, <3>6
  <2>. QED BY <2>3, <2>4
<1>. QED BY <1>1, StoreCorrect, PTL

(* An open store appends behind complete, confirmed lines only, under a     *)
(* sequence no marker has.                                                  *)
THEOREM OpenStoreStaysClean ==
  ASSUME Disciplined
  PROVE  Spec => []OpenStoreClean
<1>1. Inv => OpenStoreClean
  <2>. SUFFICES ASSUME Inv, status = "up"
                PROVE  /\ ~mainTorn /\ sideTorn = {}
                       /\ \A f \in Files : \A r \in Range(side[f]) :
                            Confirmed(f, r) \/ (pc = "append" /\ r.seq = cur.seq)
                       /\ st.nextSeq > LastSeq
    BY DEF OpenStoreClean
  <2>1. Copies = {} /\ Fits /\ Len(main) \in Nat
    BY FitsShape DEF Disciplined, Inv, Fits
  <2>2. mainTorn = FALSE /\ sideTorn = {} /\ Like(st, ref)
    BY DEF Inv, InstanceFits
  <2>3. st.nextSeq > LastSeq
    <3>1. st.nextSeq = Len(main) + 1
      BY <2>1, <2>2, FitsShape DEF Like
    <3>2. LastSeq = Len(main)
      BY <2>1, LastSeqLink
    <3>. QED BY <2>1, <3>1, <3>2
  <2>4. ASSUME NEW f \in Files, NEW r \in Range(side[f])
        PROVE  Confirmed(f, r) \/ (pc = "append" /\ r.seq = cur.seq)
    <3>1. PICK j \in DOMAIN side[f] : r = side[f][j]
      BY DEF Range
    <3>2. r.seq <= Len(main) => Confirmed(f, r)
      BY <2>1, <3>1, ConfirmedLink
    <3>3. ASSUME ~(r.seq <= Len(main)) PROVE pc = "append" /\ r.seq = cur.seq
      <4>1. pc = "append"
        BY <3>1, <3>3 DEF Inv, InstanceFits, NoTail
      <4>2. FileFits(main, ref, f, side[f]) /\ CommitFits
        BY <2>1, <4>1, FitsShape DEF Inv, InstanceFits
      <4>3. RecordFits(main, f, r)
        BY <3>1, <4>2 DEF FileFits
      <4>. QED BY <3>3, <4>1, <4>2, <4>3 DEF RecordFits, CommitFits
    <3>. QED BY <3>2, <3>3
  <2>. QED BY <2>2, <2>3, <2>4
<1>. QED BY <1>1, StoreCorrect, PTL

(* commit returns success only with its marker in main.jsonl. *)
THEOREM AcknowledgedIsMarked ==
  ASSUME Disciplined
  PROVE  Spec => []AckMeansMarker
<1>1. Inv => AckMeansMarker
  <2>. HAVE Inv
  <2>1. Copies = {} /\ Fits
    BY DEF Disciplined, Inv, Fits
  <2>2. status = "up" => st.nextSeq = ref.nextSeq
    BY DEF Inv, InstanceFits, Like
  <2>. QED BY <2>1, <2>2, FitsShape, LastSeqLink DEF AckMeansMarker
<1>. QED BY <1>1, StoreCorrect, PTL
-----------------------------------------------------------------------------
(* 11. The store implements AtomicStore *)
LEMMA ContractBatch ==
  ASSUME NEW x, NEW b, NEW s
  PROVE  Contract!ApplyBatch(x, b, s) = ApplyBatch(x, b, s)
BY Zenon DEF Contract!ApplyBatch, Contract!Applied, Contract!Apply, Contract!PutEntry, Contract!PutDoc,
     Contract!ChangeDoc, Contract!RetireDoc, Contract!PutTask, Contract!WithId, Contract!Larger,
     Contract!Materialized, Contract!Replay, Contract!Replayed, Contract!Current,
     ApplyBatch, Applied, Apply, PutEntry, PutDoc, ChangeDoc, RetireDoc, PutTask, WithId, Larger,
     Materialized, Replay, Replayed, Current

LEMMA ContractApplied ==
  ASSUME NEW x, NEW b, NEW s
  PROVE  Contract!Applied(x, b, s) = Applied(x, b, s)
BY Zenon DEF Contract!Applied, Contract!Apply, Contract!PutEntry, Contract!PutDoc,
     Contract!ChangeDoc, Contract!RetireDoc, Contract!PutTask, Contract!WithId, Contract!Larger,
     Contract!Materialized, Contract!Replay, Contract!Replayed, Contract!Current,
     Applied, Apply, PutEntry, PutDoc, ChangeDoc, RetireDoc, PutTask, WithId, Larger,
     Materialized, Replay, Replayed, Current

LEMMA ContractAdmitted ==
  ASSUME NEW x, NEW b, NEW i
  PROVE  Contract!Admitted(x, b, i) = Admitted(x, b, i)
BY Zenon DEF Contract!Admitted, Contract!Exists, Contract!Retired, Contract!AliveAt, Contract!Current,
     Admitted, Exists, Retired, AliveAt, Current

LEMMA ContractView ==
  ASSUME NEW x
  PROVE  Contract!View(x) = View(x)
BY Zenon DEF Contract!View, Contract!AliveAt, Contract!Exists, Contract!Retired, Contract!Value,
     Contract!Materialized, Contract!Replay, Contract!Replayed, Contract!Current,
     View, AliveAt, Exists, Retired, Value, Materialized, Replay, Replayed, Current

LEMMA ContractEmpty ==
  Contract!Empty = Empty
BY DEF Contract!Empty, Contract!NoDoc, Contract!NoTask, Empty, NoDoc, NoTask

(* The contract accepts what the instance takes: what it asks of a write    *)
(* does not depend on anything that recovery may have lost.                 *)
LEMMA LikeAccepts ==
  ASSUME Copies = {}, NEW x \in States, NEW y \in States, Like(x, y), NEW b \in Batches,
         x.nextSeq # 0, Valid(x, b)
  PROVE  Contract!Accepted(y, b)
<1>1. PICK s \in Nat : s = x.nextSeq
  BY StateShape
<1>2. s # 0 /\ y.nextSeq = s
  BY <1>1 DEF Like
<1>3. PICK f : f = Applied(x, b, s)
  OBVIOUS
<1>4. PICK g : g = Applied(y, b, s)
  OBVIOUS
<1>5. \A i \in 0..Len(b) : Like(f[i], g[i])
  BY <1>1, <1>2, <1>3, <1>4, LikeApplied
<1>6. Len(b) \in Nat /\ DOMAIN b = 1..Len(b) /\ \A i \in DOMAIN b : Shaped(b[i])
  BY BatchShape
<1>7. ASSUME NEW i \in DOMAIN b PROVE Admitted(g[i - 1], b, i)
  <2>1. PICK u : u = f[i - 1]
    OBVIOUS
  <2>2. PICK v : v = g[i - 1]
    OBVIOUS
  <2>3. i - 1 \in 0..Len(b)
    BY <1>6
  <2>4. Like(u, v)
    BY <1>5, <2>1, <2>2, <2>3
  <2>5. Admitted(u, b, i)
    BY <1>1, <1>3, <2>1 DEF Valid, Legal
  <2>6. Shaped(b[i])
    BY <1>6
  <2>7. \A d \in Docs : u.docs[d].created = v.docs[d].created /\ u.docs[d].retired = v.docs[d].retired
    BY <2>4 DEF Like, LikeDoc
  <2>8. PICK w : w = b[i]
    OBVIOUS
  <2>9. /\ w.kind \in {"entry"} \cup DocKinds \cup TaskKinds
        /\ w.kind \in DocKinds => w.id \in Docs
    BY <2>6, <2>8 DEF Shaped
  <2>10. Admitted(v, b, i)
    BY <2>5, <2>7, <2>8, <2>9 DEF Admitted, Exists, Retired, DocKinds, TaskKinds
  <2>. QED BY <2>2, <2>10
<1>8. Contract!Applied(y, b, y.nextSeq) = g
  BY <1>2, <1>4, ContractApplied
<1>9. \A i \in DOMAIN b : Contract!Admitted(g[i - 1], b, i)
  BY <1>7, ContractAdmitted
<1>. QED BY <1>8, <1>9, Zenon DEF Contract!Accepted

(* The published state changes with a completed marker only. *)
LEMMA StoreSteps ==
  ASSUME Disciplined, Inv, [Next]_vars
  PROVE  \/ ref' = ref
         \/ /\ status = "up" /\ status' \in {"up", "poisoned", "down"} /\ ref'.nextSeq = ref.nextSeq + 1
            /\ \E b \in Batches : Contract!Accepted(ref, b) /\ ref' = ApplyBatch(ref, b, ref.nextSeq)
<1>1. ASSUME pc = "append", ref' = Published, status' \in {"up", "poisoned", "down"}
      PROVE  /\ status = "up" /\ ref'.nextSeq = ref.nextSeq + 1
             /\ \E b \in Batches : Contract!Accepted(ref, b) /\ ref' = ApplyBatch(ref, b, ref.nextSeq)
  <2>1. /\ Copies = {} /\ Fits /\ CommitFits /\ status = "up" /\ st \in States /\ Like(st, ref)
        /\ Len(main) \in Nat /\ cur.ops \in Batches
    BY <1>1, CommitUnderWay
  <2>2. PICK b \in Batches : b = cur.ops
    BY <2>1
  <2>3. PICK s \in Nat : s = Len(main) + 1
    BY <2>1
  <2>4. cur.seq = s /\ Valid(st, b) /\ s # 0
    BY <2>1, <2>2, <2>3 DEF CommitFits
  <2>5. ref \in States /\ ref.nextSeq = s
    BY <2>1, <2>3, FitsShape
  <2>6. st.nextSeq = s
    BY <2>1, <2>5 DEF Like
  <2>7. Contract!Accepted(ref, b)
    BY <2>1, <2>4, <2>5, <2>6, LikeAccepts
  <2>8. ref' = ApplyBatch(ref, b, s)
    BY <1>1, <2>2, <2>4 DEF Published
  <2>9. ref'.nextSeq = s + 1
    <3>1. PICK f : f = Applied(ref, b, s)
      OBVIOUS
    <3>2. Steps(f, ref, b, s)
      BY <2>1, <2>5, <3>1, AppliedSteps
    <3>3. ApplyBatch(ref, b, s).nextSeq = s + 1
      BY <2>1, <2>5, <3>1, <3>2, BatchEnd
    <3>. QED BY <2>8, <3>3
  <2>. QED BY <2>1, <2>5, <2>7, <2>8, <2>9
<1>2. CASE AppendMarker
  <2>1. pc = "append" /\ ref' = Published /\ status' = status
    BY <1>2 DEF AppendMarker
  <2>2. status' \in {"up", "poisoned", "down"}
    BY <2>1 DEF Inv, InstanceFits
  <2>. QED BY <1>1, <2>1, <2>2
<1>3. CASE AppendMarkerFails
  <2>1. pc = "append" /\ status' \in {"poisoned", "down"} /\ (ref' = Published \/ ref' = ref)
    BY <1>3 DEF AppendMarkerFails, GivesUp
  <2>. QED BY <1>1, <2>1
<1>4. CASE ~AppendMarker /\ ~AppendMarkerFails
  BY <1>4 DEF Next, Open, OpenInterrupted, MintId, Stop, BeginCommit, AppendSidecar, AppendSidecarFails,
       FlushSidecarFails, Reclaim, ReclaimFails, ReclamationDeferred, vars, hist
<1>. QED BY <1>2, <1>3, <1>4

(* What a reopen would show changes as Storage promises: by whole batches,  *)
(* each accepted where it came, and by nothing else a store does; for       *)
(* documents of both kinds and in any versions.                             *)
THEOREM StoreImplementsContract ==
  ASSUME Disciplined
  PROVE  Spec => ImplementsAtomicStore
<1>. DEFINE shown == Shown
            Shows == shown = View(ref)
<1>1. Inv => Shows
  <2>. HAVE Inv
  <2>1. Copies = {} /\ Fits
    BY DEF Disciplined, Inv, Fits
  <2>2. PICK x : x = Recovered
    OBVIOUS
  <2>3. Like(x, ref)
    BY <2>1, <2>2, RecoveredLike
  <2>4. PICK v : v = View(x)
    OBVIOUS
  <2>5. {View(z) : z \in {Recovered}} = {v}
    BY <2>2, <2>4
  <2>6. Shown = v
    BY <2>5 DEF Shown
  <2>. QED BY <2>3, <2>4, <2>6, LikeView
<1>2. Init /\ Shows => Contract!Init
  <2>. HAVE Init /\ Shows
  <2>1. ref = Empty /\ status = "down"
    BY DEF Init
  <2>2. Contract!View(Contract!Empty) = View(Empty)
    BY ContractEmpty, ContractView
  <2>. HIDE DEF shown
  <2>3. shown = Contract!View(Contract!Empty)
    BY <2>1, <2>2
  <2>. QED BY <2>1, <2>3, ContractEmpty DEF Contract!Init, shown
<1>3. ASSUME Inv, [Next]_vars, Shows, Shows'
      PROVE  [Contract!Next]_(Contract!contract)
  <2>1. PICK x : x = ref
    OBVIOUS
  <2>2. PICK y : y = ref'
    OBVIOUS
  <2>3. shown = View(x) /\ shown' = View(y)
    BY <1>3, <2>1, <2>2
  <2>. HIDE DEF shown
  <2>4. CASE ref' = ref
    <3>1. ref' = ref /\ shown' = shown
      BY <2>1, <2>2, <2>3, <2>4
    <3>. QED BY <3>1 DEF Contract!Next, Contract!Serve, Contract!contract, shown
  <2>5. CASE /\ status = "up" /\ status' \in {"up", "poisoned", "down"} /\ ref'.nextSeq = ref.nextSeq + 1
             /\ \E b \in Batches : Contract!Accepted(ref, b) /\ ref' = ApplyBatch(ref, b, ref.nextSeq)
    <3>1. PICK b \in Batches : Contract!Accepted(x, b) /\ y = ApplyBatch(x, b, x.nextSeq)
      BY <2>1, <2>2, <2>5
    <3>2. y = Contract!ApplyBatch(x, b, x.nextSeq)
      BY <3>1, ContractBatch
    <3>3. y \in Contract!After(x)
      BY <3>1, <3>2 DEF Contract!After
    <3>4. shown' = Contract!View(y)
      BY <2>3, ContractView
    <3>5. Contract!Commit
      BY <2>1, <2>2, <2>5, <3>3, <3>4 DEF Contract!Commit, shown
    <3>. QED BY <3>5 DEF Contract!Next
  <2>. QED BY <1>3, <2>4, <2>5, StoreSteps
<1>. QED BY <1>1, <1>2, <1>3, StoreCorrect, PTL DEF Spec, ImplementsAtomicStore, Contract!Spec
=============================================================================
