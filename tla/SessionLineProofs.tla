-------------------------- MODULE SessionLineProofs --------------------------
(***************************************************************************)
(* Theorems about SessionLine, for every set of documents, watches and      *)
(* versions, for a storage that settles at once or later, and for any       *)
(* number of jobs and close() calls.                                        *)
(***************************************************************************)
EXTENDS SessionLine, SequenceTheorems, TLAPS

USE DEF vars, line, ends

LEMMA AnswerAt ==
  ASSUME NEW s \in Seq(Answered), NEW k \in 1..Len(s)
  PROVE  s[k] \in Answered /\ s[k].id \in Nat
<1>1. s[k] \in Answered
  BY ElementOfSeq
<1>. QED BY <1>1 DEF Answered

(* What a failure rejects, in admission order. *)
LEMMA RejectionsFx ==
  ASSUME NEW pend \in Seq(Entry)
  PROVE  /\ Rejections(pend) \in Seq(Answered) /\ Len(Rejections(pend)) = Len(pend)
         /\ \A k \in 1..Len(pend) : Rejections(pend)[k].id = pend[k].id /\ Rejections(pend)[k].result = "failed"
<1>1. \A k \in 1..Len(pend) : Answer(pend[k], "failed") \in Answered
  <2>1. ASSUME NEW k \in 1..Len(pend) PROVE pend[k] \in Entry
    BY ElementOfSeq
  <2>. QED BY <2>1 DEF Answer, Answered, Entry
<1>2. Len(pend) \in Nat
  OBVIOUS
<1>3. Rejections(pend) \in [1..Len(pend) -> Answered]
  BY <1>1 DEF Rejections
<1>4. Rejections(pend) \in Seq(Answered) /\ Len(Rejections(pend)) = Len(pend)
  BY <1>2, <1>3
<1>. QED BY <1>4 DEF Rejections, Answer

(* Rejections behind what was answered before keep the order. *)
LEMMA RejectedOrder ==
  ASSUME NEW pend \in Seq(Entry), NEW given \in Seq(Answered), NEW adm \in Nat, Ordered(given),
         Len(pend) <= adm,
         \A k \in 1..Len(pend) : pend[k].id = (adm - Len(pend)) + k,
         \A k \in 1..Len(given) : given[k].id <= adm - Len(pend),
         NEW all, all = given \o Rejections(pend)
  PROVE  /\ all \in Seq(Answered) /\ Len(all) = Len(given) + Len(pend) /\ Ordered(all)
         /\ \A k \in 1..Len(all) : all[k].id <= adm
         /\ \A k \in 1..Len(all) : \/ k \in 1..Len(given) /\ all[k] = given[k]
                                   \/ all[k].id > adm - Len(pend)
<1>1. /\ Rejections(pend) \in Seq(Answered) /\ Len(Rejections(pend)) = Len(pend)
      /\ \A k \in 1..Len(pend) : Rejections(pend)[k].id = pend[k].id /\ Rejections(pend)[k].result = "failed"
  BY RejectionsFx
<1>2. /\ all \in Seq(Answered) /\ Len(all) = Len(given) + Len(pend)
      /\ \A k \in 1..Len(given) + Len(pend) :
           all[k] = IF k <= Len(given) THEN given[k] ELSE Rejections(pend)[k - Len(given)]
  <2>1. PICK R : R = Rejections(pend)
    OBVIOUS
  <2>2. /\ given \o R \in Seq(Answered) /\ Len(given \o R) = Len(given) + Len(R)
        /\ \A k \in 1..Len(given) + Len(R) :
             (given \o R)[k] = IF k <= Len(given) THEN given[k] ELSE R[k - Len(given)]
    BY <1>1, <2>1, ConcatProperties
  <2>. QED BY <1>1, <2>1, <2>2
<1>3. Len(given) \in Nat /\ Len(pend) \in Nat
  OBVIOUS
<1>4. ASSUME NEW k \in 1..Len(all), k > Len(given)
      PROVE  all[k].id = (adm - Len(pend)) + (k - Len(given))
  <2>1. k - Len(given) \in 1..Len(pend)
    BY <1>2, <1>3, <1>4
  <2>2. all[k] = Rejections(pend)[k - Len(given)]
    BY <1>2, <1>3, <1>4
  <2>3. PICK m \in 1..Len(pend) : m = k - Len(given)
    BY <2>1
  <2>4. Rejections(pend)[m].id = pend[m].id /\ pend[m].id = (adm - Len(pend)) + m
    BY <1>1
  <2>. QED BY <2>2, <2>3, <2>4
<1>5. ASSUME NEW k \in 1..Len(all), k <= Len(given) PROVE k \in 1..Len(given) /\ all[k] = given[k]
  BY <1>2, <1>3, <1>5
<1>6. Ordered(all)
  <2>1. ASSUME NEW i \in 1..Len(all), NEW k \in 1..Len(all), i < k
        PROVE  all[i].id < all[k].id \/ (all[k].result = "storage" /\ all[i].id > all[k].id)
    <3>1. CASE k <= Len(given)
      BY <1>3, <1>5, <2>1, <3>1 DEF Ordered
    <3>2. CASE k > Len(given) /\ i <= Len(given)
      <4>1. all[i].id <= adm - Len(pend) /\ all[i].id \in Nat
        BY <1>2, <1>5, <3>2, AnswerAt
      <4>. QED BY <1>3, <1>4, <3>2, <4>1
    <3>3. CASE k > Len(given) /\ i > Len(given)
      BY <1>3, <1>4, <2>1, <3>3
    <3>. QED BY <1>3, <3>1, <3>2, <3>3
  <2>. QED BY <2>1 DEF Ordered
<1>7. ASSUME NEW k \in 1..Len(all) PROVE all[k].id <= adm /\ ((k \in 1..Len(given) /\ all[k] = given[k]) \/ all[k].id > adm - Len(pend))
  <2>1. CASE k <= Len(given)
    <3>1. all[k].id \in Nat
      BY <1>2, AnswerAt
    <3>. QED BY <1>3, <1>5, <2>1, <3>1
  <2>2. CASE k > Len(given)
    BY <1>2, <1>3, <1>4, <2>2
  <2>. QED BY <1>3, <2>1, <2>2
<1>. QED BY <1>2, <1>6, <1>7

(* A completion behind what was answered before keeps the order. *)
Follows(given, a) ==
  \A k \in 1..Len(given) : given[k].id < a.id \/ (a.result = "storage" /\ given[k].id # a.id)

Extended(given, a, all) ==
  /\ all \in Seq(Answered) /\ Len(all) = Len(given) + 1 /\ Ordered(all)
  /\ \A k \in 1..Len(all) : (k \in 1..Len(given) /\ all[k] = given[k]) \/ all[k] = a

LEMMA AnsweredOrder ==
  ASSUME NEW given \in Seq(Answered), NEW a \in Answered, Ordered(given), Follows(given, a),
         NEW all, all = Append(given, a)
  PROVE  Extended(given, a, all)
<1>1. /\ all \in Seq(Answered) /\ Len(all) = Len(given) + 1 /\ all[Len(given) + 1] = a
      /\ \A k \in 1..Len(given) : all[k] = given[k]
  BY AppendProperties
<1>2. Len(given) \in Nat
  OBVIOUS
<1>3. ASSUME NEW k \in 1..Len(all) PROVE (k \in 1..Len(given) /\ all[k] = given[k]) \/ (k = Len(given) + 1 /\ all[k] = a)
  BY <1>1, <1>2
<1>4. Ordered(all)
  <2>1. ASSUME NEW i \in 1..Len(all), NEW k \in 1..Len(all), i < k
        PROVE  all[i].id < all[k].id \/ (all[k].result = "storage" /\ all[i].id > all[k].id)
    <3>a. i \in 1..Len(given)
      BY <1>1, <1>2, <2>1
    <3>0. i \in 1..Len(given) /\ all[i] = given[i] /\ given[i].id \in Nat /\ a.id \in Nat
      BY <1>1, <3>a, AnswerAt DEF Answered
    <3>1. CASE k \in 1..Len(given)
      BY <1>1, <2>1, <3>0, <3>1 DEF Ordered
    <3>2. CASE k = Len(given) + 1
      BY <1>1, <3>0, <3>2 DEF Follows
    <3>. QED BY <1>3, <3>1, <3>2
  <2>. QED BY <2>1 DEF Ordered
<1>. QED BY <1>1, <1>3, <1>4 DEF Extended

LEMMA NoJobType ==
  /\ NoJob \in JobRecord /\ NoJob.at = "none" /\ NoJob.result = "none"
  /\ \A e \in Entry : /\ Popped(e) \in JobRecord /\ Popped(e).at = "run" /\ Popped(e).id = e.id
                      /\ Popped(e).result = "none"
<1>1. [d \in Docs |-> <<>>] \in [Docs -> Seq(StagedDocument)]
  BY EmptySeq
<1>2. NoJob \in JobRecord /\ NoJob.at = "none" /\ NoJob.result = "none"
  BY <1>1 DEF NoJob, JobRecord
<1>. QED BY <1>2 DEF Popped, JobRecord, Entry

(* The flags, the queue and what was answered, as one state of the line. *)
LineTypes ==
  /\ pending_line \in Seq(Entry) /\ line_active \in BOOLEAN /\ pumping_commits \in BOOLEAN
  /\ job \in JobRecord /\ answers \in Seq(Answered)
  /\ storage_closed \in BOOLEAN /\ close_waiters \in Nat
LineOK == LineTypes /\ LineInv /\ QueueInv /\ AnsweredInOrder /\ StorageClosedLast

(* The pump's next iteration. *)
LEMMA AdvanceStep ==
  ASSUME NEW pend \in Seq(Entry), NEW given \in Seq(Answered), NEW adm \in Nat, Advance(pend, given),
         admitted' = adm, failed' = failed, failed \in BOOLEAN, closed' \in BOOLEAN, failed => closed',
         storage_closed \in BOOLEAN, close_waiters \in Nat,
         Len(given) + Len(pend) = adm, Ordered(given),
         \A k \in 1..Len(pend) : pend[k].id = (adm - Len(pend)) + k,
         \A k \in 1..Len(given) : given[k].id <= adm - Len(pend),
         storage_closed => pend = <<>>
  PROVE  LineOK'
<1>1. Len(given) \in Nat /\ Len(pend) \in Nat /\ Len(pend) <= adm
  OBVIOUS
<1>2. CASE pend # <<>> /\ ~failed
  <2>1. /\ pumping_commits' = TRUE /\ line_active' = TRUE
        /\ job' = Popped(Head(pend)) /\ pending_line' = Tail(pend) /\ answers' = given
        /\ storage_closed' = storage_closed /\ close_waiters' = close_waiters
    BY <1>2 DEF Advance
  <2>2. /\ Head(pend) \in Entry /\ Tail(pend) \in Seq(Entry) /\ Len(Tail(pend)) = Len(pend) - 1
        /\ \A k \in 1..Len(Tail(pend)) : Tail(pend)[k] = pend[k + 1]
        /\ Head(pend) = pend[1] /\ Len(pend) >= 1
    BY <1>2, HeadTailProperties
  <2>3. /\ job' \in JobRecord /\ job'.at = "run" /\ job'.id = (adm - Len(pend)) + 1 /\ job'.result = "none"
    BY <1>1, <2>1, <2>2, NoJobType
  <2>4. LineTypes'
    BY <2>1, <2>2, <2>3 DEF LineTypes
  <2>5. LineInv'
    BY <1>2, <2>1, <2>3 DEF LineInv, Idle
  <2>6. QueueInv'
    <3>1. ASSUME NEW k \in 1..Len(Tail(pend)) PROVE Tail(pend)[k].id = (adm - Len(Tail(pend))) + k
      <4>1. k + 1 \in 1..Len(pend)
        BY <1>1, <2>2
      <4>. QED BY <1>1, <2>2, <4>1
    <3>2. ASSUME NEW k \in 1..Len(given) PROVE given[k].id <= adm - Len(Tail(pend)) /\ given[k].id < job'.id
      <4>1. given[k].id \in Nat
        BY AnswerAt
      <4>. QED BY <1>1, <2>2, <2>3, <4>1
    <3>3. Len(given) + 1 + Len(Tail(pend)) = adm /\ job'.id <= adm - Len(Tail(pend))
      <4>1. PICK g : g = Len(given)
        OBVIOUS
      <4>2. PICK n : n = Len(pend)
        OBVIOUS
      <4>3. PICK q : q = Len(Tail(pend))
        OBVIOUS
      <4>4. PICK i : i = job'.id
        OBVIOUS
      <4>5. g \in Nat /\ n \in Nat /\ g + n = adm /\ q = n - 1 /\ i = (adm - n) + 1
        BY <1>1, <2>2, <2>3, <4>1, <4>2, <4>3, <4>4
      <4>6. g + 1 + q = adm /\ i <= adm - q
        BY <4>5
      <4>. QED BY <4>1, <4>3, <4>4, <4>6
    <3>. QED BY <2>1, <3>1, <3>2, <3>3 DEF QueueInv
  <2>7. AnsweredInOrder' /\ StorageClosedLast'
    BY <1>2, <2>1 DEF AnsweredInOrder, StorageClosedLast, Idle
  <2>. QED BY <2>4, <2>5, <2>6, <2>7 DEF LineOK
<1>3. CASE ~(pend # <<>> /\ ~failed)
  <2>1. /\ pumping_commits' = FALSE /\ line_active' = FALSE /\ job' = NoJob /\ pending_line' = <<>>
        /\ answers' = given \o Rejections(pend)
        /\ storage_closed' = closed' /\ close_waiters' = IF closed' THEN 0 ELSE close_waiters
    BY <1>3 DEF Advance, FinishClose
  <2>2. PICK all : all = given \o Rejections(pend)
    OBVIOUS
  <2>3. /\ all \in Seq(Answered) /\ Len(all) = Len(given) + Len(pend) /\ Ordered(all)
        /\ \A k \in 1..Len(all) : all[k].id <= adm
    BY <1>1, <2>2, RejectedOrder
  <2>4. LineTypes'
    BY <2>1, <2>2, <2>3, NoJobType, EmptySeq DEF LineTypes
  <2>5. LineInv'
    BY <2>1, NoJobType DEF LineInv, Idle
  <2>6. QueueInv'
    <3>1. Len(all) + 0 + 0 = adm /\ adm - 0 = adm
      BY <1>1, <2>3
    <3>. QED BY <2>1, <2>2, <2>3, <3>1, EmptySeq DEF QueueInv
  <2>7. AnsweredInOrder' /\ StorageClosedLast'
    BY <2>1, <2>2, <2>3 DEF AnsweredInOrder, StorageClosedLast, Idle
  <2>. QED BY <2>4, <2>5, <2>6, <2>7 DEF LineOK
<1>. QED BY <1>2, <1>3

LEMMA Shift ==
  ASSUME NEW a \in Nat, NEW p \in Nat, NEW q \in Nat, NEW m \in Nat, NEW n \in Nat, NEW j \in Nat,
         n - p = m - q
  PROVE  /\ a + 0 + q = m => a + p = n
         /\ a + 1 + q = m => a + 1 + p = n
         /\ j <= m - q => j <= n - p
OBVIOUS

(* A call of pump_line. *)
LEMMA PumpStep ==
  ASSUME TypeOK, LineOK, NEW pend \in Seq(Entry), NEW waiters \in Nat, NEW adm \in Nat,
         PumpLine(pend, waiters),
         admitted' = adm, failed' = failed, closed' \in BOOLEAN, failed => closed',
         adm - Len(pend) = admitted - Len(pending_line),
         \A k \in 1..Len(pend) : pend[k].id = (adm - Len(pend)) + k,
         storage_closed => pend = <<>>
  PROVE  LineOK'
<1>0. /\ Len(answers) \in Nat /\ Len(pend) \in Nat /\ Len(pending_line) \in Nat /\ admitted \in Nat
      /\ failed \in BOOLEAN /\ storage_closed \in BOOLEAN /\ close_waiters \in Nat
      /\ pumping_commits \in BOOLEAN /\ line_active \in BOOLEAN /\ job \in JobRecord /\ answers \in Seq(Answered)
  BY DEF TypeOK
<1>a. PICK a \in Nat, p \in Nat, q \in Nat, m \in Nat, j \in Nat :
        a = Len(answers) /\ p = Len(pend) /\ q = Len(pending_line) /\ m = admitted /\ j = job.id
  <2>1. job.id \in Nat
    BY <1>0 DEF JobRecord
  <2>. QED BY <1>0, <2>1
<1>b. /\ a + 0 + q = m => a + p = adm
      /\ a + 1 + q = m => a + 1 + p = adm
      /\ j <= m - q => j <= adm - p
  <2>1. adm - p = m - q
    BY <1>a
  <2>. QED BY <2>1, Shift
<1>1. CASE ~(pumping_commits \/ line_active)
  <2>1. Advance(pend, answers)
    BY <1>1 DEF PumpLine
  <2>2. Len(answers) + Len(pend) = adm
    <3>1. Len(answers) + 0 + Len(pending_line) = admitted
      BY <1>1 DEF LineOK, QueueInv
    <3>. QED BY <1>a, <1>b, <3>1
  <2>3. \A k \in 1..Len(answers) : answers[k].id <= adm - Len(pend)
    BY <1>0 DEF LineOK, QueueInv
  <2>4. Ordered(answers)
    BY DEF LineOK, AnsweredInOrder
  <2>. QED BY <1>0, <2>1, <2>2, <2>3, <2>4, AdvanceStep
<1>2. CASE pumping_commits \/ line_active
  <2>0. line_active /\ ~storage_closed
    BY <1>2 DEF LineOK, LineInv, StorageClosedLast, Idle
  <2>1. /\ pumping_commits' = pumping_commits /\ line_active' = TRUE /\ job' = job
        /\ storage_closed' = FALSE /\ close_waiters' = waiters
    BY <1>0, <1>2, <2>0 DEF PumpLine
  <2>2. Ordered(answers) /\ LineInv /\ QueueInv
    BY DEF LineOK, AnsweredInOrder
  <2>3. CASE pending_line' = pend /\ answers' = answers
    <3>1. LineTypes'
      BY <1>0, <2>1, <2>3 DEF LineTypes
    <3>2. LineInv'
      BY <1>0, <2>0, <2>1, <2>2, <2>3 DEF LineInv, Idle
    <3>3. QueueInv'
      <4>1. Len(answers) + 1 + Len(pending_line) = admitted /\ job.id <= admitted - Len(pending_line)
        BY <2>0, <2>2 DEF QueueInv
      <4>2. Len(answers) + 1 + Len(pend) = adm /\ job.id <= adm - Len(pend)
        BY <1>a, <1>b, <4>1
      <4>3. ASSUME NEW k \in 1..Len(answers)
            PROVE  /\ answers[k].id <= adm - Len(pend)
                   /\ answers[k].id < job.id \/ (job.result = "storage" /\ answers[k].id # job.id)
        BY <1>0, <2>0, <2>2 DEF QueueInv
      <4>. QED BY <2>1, <2>3, <4>2, <4>3 DEF QueueInv
    <3>4. AnsweredInOrder' /\ StorageClosedLast'
      BY <2>1, <2>2, <2>3 DEF AnsweredInOrder, StorageClosedLast, Idle
    <3>. QED BY <3>1, <3>2, <3>3, <3>4 DEF LineOK
  <2>4. CASE failed /\ ~pumping_commits /\ pending_line' = <<>> /\ answers' = answers \o Rejections(pend)
    <3>1. PICK all : all = answers \o Rejections(pend)
      OBVIOUS
    <3>2. \A k \in 1..Len(answers) : answers[k].id <= adm - Len(pend)
      BY <1>0, <2>2 DEF QueueInv
    <3>a. Len(answers) + 1 + Len(pending_line) = admitted /\ job.id <= admitted - Len(pending_line)
      BY <2>0, <2>2 DEF QueueInv
    <3>b. job.id \in Nat
      BY <1>0 DEF JobRecord
    <3>3. Len(answers) + 1 + Len(pend) = adm /\ job.id <= adm - Len(pend) /\ job.id \in Nat
      BY <1>a, <1>b, <3>a, <3>b
    <3>4. /\ all \in Seq(Answered) /\ Len(all) = Len(answers) + Len(pend) /\ Ordered(all)
          /\ \A k \in 1..Len(all) : all[k].id <= adm
          /\ \A k \in 1..Len(all) : \/ k \in 1..Len(answers) /\ all[k] = answers[k]
                                    \/ all[k].id > adm - Len(pend)
      <4>1. Len(pend) <= adm
        BY <1>0, <3>3
      <4>. QED BY <1>0, <2>2, <3>1, <3>2, <4>1, RejectedOrder
    <3>5. job.at = "done" /\ job.result = "storage"
      BY <2>0, <2>2, <2>4 DEF LineInv
    <3>6. LineTypes'
      BY <1>0, <2>1, <2>4, <3>1, <3>4, EmptySeq DEF LineTypes
    <3>7. LineInv'
      BY <2>0, <2>1, <2>2, <2>4 DEF LineInv, Idle
    <3>8. QueueInv'
      <4>1. ASSUME NEW k \in 1..Len(all) PROVE all[k].id < job.id \/ all[k].id # job.id
        <5>1. all[k].id \in Nat
          BY <3>4, AnswerAt
        <5>2. CASE all[k].id > adm - Len(pend)
          BY <1>0, <3>3, <5>1, <5>2
        <5>3. CASE k \in 1..Len(answers) /\ all[k] = answers[k]
          BY <2>0, <2>2, <5>3 DEF QueueInv
        <5>. QED BY <3>4, <5>2, <5>3
      <4>2. Len(all) + 1 + 0 = adm /\ adm - 0 = adm /\ job.id <= adm
        BY <1>0, <3>3, <3>4
      <4>. QED BY <2>1, <2>4, <3>1, <3>4, <3>5, <4>1, <4>2, EmptySeq DEF QueueInv
    <3>9. AnsweredInOrder' /\ StorageClosedLast'
      BY <2>1, <2>4, <3>1, <3>4 DEF AnsweredInOrder, StorageClosedLast, Idle
    <3>. QED BY <3>6, <3>7, <3>8, <3>9 DEF LineOK
  <2>. QED BY <1>2, <2>3, <2>4 DEF PumpLine
<1>. QED BY <1>1, <1>2

(* A step that leaves the line, or moves the active job on. *)
LEMMA LineSame ==
  ASSUME LineOK, UNCHANGED <<pending_line, line_active, pumping_commits, job, closed, failed,
                             storage_closed, close_waiters, admitted, answers>>
  PROVE  LineOK'
BY DEF LineOK, LineTypes, LineInv, QueueInv, AnsweredInOrder, StorageClosedLast, Idle

LEMMA JobMoves ==
  ASSUME TypeOK, LineOK, job.at \in {"run", "storage"}, job' \in JobRecord,
         job'.at \in {"storage", "done"}, job'.id = job.id, job'.at = "done" <=> job'.result # "none",
         pumping_commits' \in BOOLEAN, pumping_commits' => pumping_commits,
         closed' \in BOOLEAN, failed' \in BOOLEAN, closed => closed',
         failed' => closed' /\ job'.at = "done" /\ job'.result = "storage",
         UNCHANGED <<pending_line, line_active, storage_closed, close_waiters, admitted, answers>>
  PROVE  LineOK'
<1>1. line_active /\ ~failed /\ ~storage_closed
  BY DEF LineOK, LineInv, StorageClosedLast, Idle
<1>2. LineTypes'
  BY DEF LineOK, LineTypes
<1>3. LineInv'
  BY <1>1 DEF LineOK, LineInv, Idle
<1>4. QueueInv'
  <2>1. job.result # "storage"
    BY DEF LineOK, LineInv, QueueInv
  <2>. QED BY <1>1, <2>1 DEF LineOK, QueueInv
<1>5. AnsweredInOrder' /\ StorageClosedLast'
  BY <1>1 DEF LineOK, AnsweredInOrder, StorageClosedLast, Idle
<1>. QED BY <1>2, <1>3, <1>4, <1>5 DEF LineOK

(* Documents: what load_document returns. *)
LEMMA Blanks ==
  /\ NoCache \in CacheRecord /\ Unreadable \in CacheRecord /\ Absent \in StoreRecord
  /\ NoCache.inc = 0 /\ Unreadable.inc = 0 /\ Absent.inc = 0 /\ Absent.rev = 0
BY DEF NoCache, Unreadable, Absent, CacheRecord, StoreRecord

LEMMA LoadFx ==
  ASSUME TypeOK, StoreInv, CacheCoherent, ~failed, NEW v \in Versions, NEW d \in Docs, NEW l, l = Load(v, d)
  PROVE  /\ l \in CacheRecord
         /\ l = NoCache => store[d] = Absent
         /\ l # NoCache /\ l # Unreadable =>
              /\ l.inc # 0 /\ l.inc = store[d].inc /\ l.rev = store[d].rev
              /\ l.sver = store[d].ver /\ l.sver <= v /\ l.ver = v
<1>1. store[d] \in StoreRecord /\ cached_documents[d] \in CacheRecord /\ v \in Nat
  BY SessionAssumption DEF TypeOK
<1>2. CASE cached_documents[d] # NoCache /\ cached_documents[d].ver = v
  BY <1>1, <1>2 DEF Load, CacheCoherent, StoreInv
<1>3. CASE ~(cached_documents[d] # NoCache /\ cached_documents[d].ver = v)
  <2>1. CASE store[d] = Absent
    BY <1>3, <2>1, Blanks DEF Load
  <2>2. CASE store[d] # Absent /\ store[d].ver > v
    BY <1>3, <2>2, Blanks DEF Load, Unreadable, NoCache
  <2>3. CASE store[d] # Absent /\ ~(store[d].ver > v)
    <3>1. l = [inc |-> store[d].inc, rev |-> store[d].rev, ver |-> v, sver |-> store[d].ver,
               deltas |-> store[d].deltas]
      BY <1>3, <2>3 DEF Load
    <3>2. l \in CacheRecord /\ l.inc = store[d].inc /\ l.rev = store[d].rev /\ l.sver = store[d].ver /\ l.ver = v
      BY <1>1, <3>1 DEF CacheRecord, StoreRecord
    <3>3. l.inc # 0
      BY <2>3, <3>2 DEF StoreInv
    <3>4. store[d].ver <= v
      BY <1>1, <2>3 DEF StoreRecord
    <3>. QED BY <3>2, <3>3, <3>4, Blanks
  <2>. QED BY <2>1, <2>2, <2>3
<1>. QED BY <1>2, <1>3

(* What a transaction stages for one address. *)
LEMMA StagedFx ==
  ASSUME NEW l \in CacheRecord, NEW touch \in Touches, NEW cp \in BOOLEAN, NEW ss, ss = Staged(l, touch, cp)
  PROVE  /\ ss \in Seq(StagedDocument)
         /\ \/ ss = <<>>
            \/ /\ Len(ss) = 1 /\ l # NoCache /\ ss[1].from = l /\ ~ss[1].created
               /\ (ss[1].change \/ ss[1].retire) /\ (ss[1].ops => ss[1].change)
            \/ Len(ss) = 1 /\ l = NoCache /\ New(ss[1])
            \/ /\ Len(ss) = 2 /\ l # NoCache /\ ss[1].from = l /\ ~ss[1].created
               /\ ss[1].retire /\ (ss[1].ops => ss[1].change) /\ New(ss[2])
<1>1. ASSUME NEW b \in BOOLEAN PROVE Created(b) \in StagedDocument /\ New(Created(b))
  BY Blanks DEF Created, StagedDocument, New
<1>2. ASSUME NEW b \in BOOLEAN
      PROVE  /\ Loaded(l, touch, b) \in StagedDocument /\ Loaded(l, touch, b).from = l /\ ~Loaded(l, touch, b).created
             /\ Loaded(l, touch, b).ops => Loaded(l, touch, b).change
             /\ touch # "none" => Loaded(l, touch, b).change \/ Loaded(l, touch, b).retire
             /\ touch = "replace" => Loaded(l, touch, b).retire
  <2>1. PICK ch, op, re :
          /\ ch = (touch \in {"get", "edit", "editRetire"}) /\ op = (touch \in {"edit", "editRetire"})
          /\ re = (touch \in {"retire", "editRetire", "replace"})
    OBVIOUS
  <2>a. ch \in BOOLEAN /\ op \in BOOLEAN /\ re \in BOOLEAN
    BY <2>1
  <2>b. /\ ch <=> touch \in {"get", "edit", "editRetire"}
        /\ op <=> touch \in {"edit", "editRetire"}
        /\ re <=> touch \in {"retire", "editRetire", "replace"}
    BY <2>1
  <2>2. PICK x : x = Loaded(l, touch, b)
    OBVIOUS
  <2>3. x = [created |-> FALSE, change |-> ch, ops |-> op, retire |-> re, checkpoint |-> b, from |-> l]
    BY <2>1, <2>2 DEF Loaded
  <2>4. x \in StagedDocument /\ x.from = l /\ x.created = FALSE /\ x.ops = op /\ x.change = ch /\ x.retire = re
    BY <2>a, <2>3 DEF StagedDocument
  <2>5. (op => ch) /\ (touch # "none" => ch \/ re) /\ (touch = "replace" => re)
    BY <2>b DEF Touches
  <2>. QED BY <2>2, <2>4, <2>5
<1>3. CASE touch = "none" \/ (touch = "retire" /\ l = NoCache)
  BY <1>3, EmptySeq DEF Staged
<1>4. CASE ~(touch = "none" \/ (touch = "retire" /\ l = NoCache)) /\ l = NoCache
  <2>1. PICK b \in BOOLEAN : ss = <<Created(b)>>
    BY <1>4 DEF Staged
  <2>2. PICK c : c = Created(b)
    OBVIOUS
  <2>3. c \in StagedDocument /\ New(c) /\ ss = <<c>>
    BY <1>1, <2>1, <2>2
  <2>4. ss \in Seq(StagedDocument) /\ Len(ss) = 1 /\ ss[1] = c
    BY <2>3
  <2>. QED BY <1>4, <2>3, <2>4
<1>5. CASE touch # "none" /\ l # NoCache /\ touch = "replace"
  <2>1. PICK c, e : c = Loaded(l, touch, FALSE) /\ e = Created(FALSE)
    OBVIOUS
  <2>2. ss = <<c, e>>
    BY <1>5, <2>1 DEF Staged
  <2>3. c \in StagedDocument /\ e \in StagedDocument /\ New(e) /\ c.from = l /\ ~c.created /\ c.retire
        /\ (c.ops => c.change)
    BY <1>1, <1>2, <1>5, <2>1
  <2>4. ss \in Seq(StagedDocument) /\ Len(ss) = 2 /\ ss[1] = c /\ ss[2] = e
    BY <2>2, <2>3
  <2>. QED BY <1>5, <2>3, <2>4
<1>6. CASE touch # "none" /\ l # NoCache /\ touch # "replace"
  <2>1. PICK c : c = Loaded(l, touch, cp)
    OBVIOUS
  <2>2. ss = <<c>>
    BY <1>6, <2>1 DEF Staged
  <2>3. c \in StagedDocument /\ c.from = l /\ ~c.created /\ (c.change \/ c.retire) /\ (c.ops => c.change)
    BY <1>2, <1>6, <2>1
  <2>4. ss \in Seq(StagedDocument) /\ Len(ss) = 1 /\ ss[1] = c
    BY <2>2, <2>3
  <2>. QED BY <1>6, <2>3, <2>4
<1>. QED BY <1>3, <1>4, <1>5, <1>6

(* What settling writes for one staged document. *)
Coherent(c, st) ==
  c # NoCache => /\ c.inc # 0 /\ c.inc = st.inc /\ c.rev = st.rev
                 /\ c.sver = st.ver /\ c.sver <= c.ver
Kept(st) == st.inc = 0 => st = Absent
FreshFor(s, st, v) ==
  /\ ~s.created /\ (s.change \/ s.retire) /\ (s.ops => s.change)
  /\ s.from.inc # 0 /\ s.from.inc = st.inc /\ s.from.rev = st.rev
  /\ s.from.sver = st.ver /\ s.from.sver <= v

LEMMA StoreAfterFx ==
  ASSUME NEW st \in StoreRecord, NEW s \in StagedDocument, NEW v \in Nat, NEW n \in Nat \ {0}, Kept(st),
         s.created \/ st.inc # 0, NEW x, x = StoreAfter(st, s, v, n)
  PROVE  /\ x \in StoreRecord /\ Kept(x)
         /\ s.retire => x = Absent
         /\ ~s.retire /\ s.created => x.inc = n /\ x.rev = n /\ x.ver = v
         /\ ~s.retire /\ ~s.created =>
              /\ x.inc = st.inc /\ x.rev = (IF s.ops THEN n ELSE st.rev)
              /\ x.ver = IF Written(s, v) THEN v ELSE st.ver
<1>1. CASE s.retire
  BY <1>1, Blanks DEF StoreAfter, Kept
<1>2. CASE ~s.retire /\ s.created
  BY <1>2 DEF StoreAfter, StoreRecord, Kept
<1>3. CASE ~s.retire /\ ~s.created /\ ~Written(s, v)
  BY <1>3 DEF StoreAfter, Written
<1>4. CASE ~s.retire /\ ~s.created /\ Written(s, v)
  <2>1. PICK k \in Nat : x = [inc |-> st.inc, rev |-> IF s.ops THEN n ELSE st.rev, ver |-> v, deltas |-> k]
    <3>1. st.deltas + 1 \in Nat
      BY DEF StoreRecord
    <3>. QED BY <1>4, <3>1 DEF StoreAfter
  <2>2. x \in StoreRecord /\ x.inc = st.inc /\ x.rev = (IF s.ops THEN n ELSE st.rev) /\ x.ver = v
    BY <2>1 DEF StoreRecord
  <2>. QED BY <1>4, <2>2 DEF Kept
<1>. QED BY <1>1, <1>2, <1>3, <1>4

(* A batch keeps the cache of an address with what the storage has. *)
LEMMA CacheAfterFx ==
  ASSUME NEW st \in StoreRecord, NEW c \in CacheRecord, NEW s \in StagedDocument, NEW v \in Nat,
         NEW n \in Nat \ {0}, Kept(st), Coherent(c, st),
         FreshFor(s, st, v) \/ (New(s) /\ st = Absent),
         NEW x, x = StoreAfter(st, s, v, n), NEW y, y = CacheAfter(c, s, v, n)
  PROVE  /\ x \in StoreRecord /\ Kept(x) /\ y \in CacheRecord /\ Coherent(y, x)
         /\ s.retire => x = Absent /\ y = NoCache
<1>0. s.created \/ st.inc # 0
  BY DEF FreshFor, New
<1>1. /\ x \in StoreRecord /\ Kept(x)
      /\ s.retire => x = Absent
      /\ ~s.retire /\ s.created => x.inc = n /\ x.rev = n /\ x.ver = v
      /\ ~s.retire /\ ~s.created =>
           /\ x.inc = st.inc /\ x.rev = (IF s.ops THEN n ELSE st.rev)
           /\ x.ver = IF Written(s, v) THEN v ELSE st.ver
  BY <1>0, StoreAfterFx
<1>2. CASE s.retire
  BY <1>1, <1>2, Blanks DEF CacheAfter, Coherent
<1>3. CASE ~s.retire
  <2>1. s.change
    BY <1>3 DEF FreshFor, New
  <2>2. s.from \in CacheRecord
    BY DEF StagedDocument
  <2>3. s.from.inc \in Nat /\ s.from.rev \in Nat /\ s.from.sver \in Nat /\ s.from.deltas + 1 \in Nat
    BY <2>2 DEF CacheRecord
  <2>4. PICK k \in Nat : y = [inc |-> IF s.created THEN n ELSE s.from.inc,
                              rev |-> IF s.created \/ s.ops THEN n ELSE s.from.rev,
                              ver |-> v, sver |-> v, deltas |-> k]
    BY <1>3, <2>1, <2>3 DEF CacheAfter
  <2>5. /\ y \in CacheRecord /\ y.ver = v /\ y.sver = v
        /\ y.inc = (IF s.created THEN n ELSE s.from.inc)
        /\ y.rev = (IF s.created \/ s.ops THEN n ELSE s.from.rev)
    BY <2>3, <2>4 DEF CacheRecord
  <2>6. CASE s.created
    BY <1>1, <1>3, <2>5, <2>6 DEF Coherent
  <2>7. CASE ~s.created
    <3>1. FreshFor(s, st, v)
      BY <2>7 DEF New
    <3>2. x.ver = v
      <4>1. CASE Written(s, v)
        BY <1>1, <1>3, <2>7, <4>1
      <4>2. CASE ~Written(s, v)
        <5>1. ~(s.from.sver < v)
          BY <2>7, <4>2 DEF Written, MigrationOnly
        <5>2. s.from.sver = v /\ st.ver = v
          BY <2>3, <3>1, <5>1 DEF FreshFor
        <5>. QED BY <1>1, <1>3, <2>7, <4>2, <5>2
      <4>. QED BY <4>1, <4>2
    <3>3. x.inc = s.from.inc /\ x.inc # 0 /\ x.rev = (IF s.ops THEN n ELSE s.from.rev)
      BY <1>1, <1>3, <2>7, <3>1 DEF FreshFor
    <3>. QED BY <1>1, <1>3, <2>5, <2>7, <3>2, <3>3 DEF Coherent
  <2>. QED BY <1>1, <1>3, <2>5, <2>6, <2>7
<1>. QED BY <1>2, <1>3

(* Watches: what is kept of one, and of one beside its document. *)
Chain(p, r) ==
  \A k \in 1..Len(p) : p[k].whole \/ p[k].from = (IF k = 1 THEN r ELSE p[k - 1].rev)
WatchKept(w) ==
  /\ w.replays
  /\ w.registered => w.doc \in Docs /\ w.at # "none" /\ w.inc # 0
  /\ w.at # "held" => w.pending = <<>>
  /\ Chain(w.pending, w.rev)
  /\ w.at # "none" /\ ~Stopped(w) /\ ~w.registered => LastRev(w) = 0
WatchAt(w, st) ==
  w.registered /\ ~Stopped(w) => w.inc = st.inc /\ LastRev(w) = st.rev
WatchOk(w, st) == WatchKept(w) /\ WatchAt(w, st)

LEMMA WatchesOk ==
  (FramesInv /\ WatchFollows) <=> \A w \in Watchers : WatchOk(watches[w], store[watches[w].doc])
BY DEF FramesInv, WatchFollows, WatchOk, WatchKept, WatchAt, Chain

(* A frame made for the last revision keeps the chain. *)
LEMMA PushFx ==
  ASSUME NEW p \in Seq(Frame), NEW f \in Frame, NEW r \in Nat, Chain(p, r),
         f.whole \/ f.from = (IF p = <<>> THEN r ELSE p[Len(p)].rev),
         NEW q, q = p \o <<f>>
  PROVE  q \in Seq(Frame) /\ q # <<>> /\ q[Len(q)] = f /\ Chain(q, r)
<1>1. q = Append(p, f)
  BY AppendIsConcat
<1>2. /\ q \in Seq(Frame) /\ Len(q) = Len(p) + 1 /\ q[Len(p) + 1] = f
      /\ \A k \in 1..Len(p) : q[k] = p[k]
  BY <1>1, AppendProperties
<1>3. Len(p) \in Nat /\ Len(q) = Len(p) + 1 /\ (p = <<>> <=> Len(p) = 0)
  BY <1>2, EmptySeq
<1>4. ASSUME NEW k \in 1..Len(q) PROVE q[k].whole \/ q[k].from = (IF k = 1 THEN r ELSE q[k - 1].rev)
  <2>1. CASE k \in 1..Len(p)
    <3>1. q[k] = p[k] /\ (k # 1 => q[k - 1] = p[k - 1])
      <4>1. k # 1 => k - 1 \in 1..Len(p)
        BY <1>3, <2>1
      <4>. QED BY <1>2, <2>1, <4>1
    <3>. QED BY <2>1, <3>1 DEF Chain
  <2>2. CASE k = Len(p) + 1
    <3>1. CASE p = <<>>
      BY <1>2, <1>3, <2>2, <3>1
    <3>2. CASE p # <<>>
      <4>1. k # 1 /\ k - 1 = Len(p) /\ Len(p) \in 1..Len(p)
        BY <1>3, <2>2, <3>2
      <4>. QED BY <1>2, <2>2, <3>2, <4>1
    <3>. QED BY <3>1, <3>2
  <2>. QED BY <1>3, <2>1, <2>2
<1>5. q # <<>>
  BY <1>3, EmptySeq
<1>. QED BY <1>2, <1>3, <1>4, <1>5 DEF Chain

LEMMA EmptyChain ==
  ASSUME NEW r PROVE <<>> \in Seq(Frame) /\ Chain(<<>>, r)
BY EmptySeq DEF Chain

(* Ending a watch, and sampling the cancellation of its context. *)
LEMMA EndedFx ==
  ASSUME NEW w \in WatchRecord, WatchKept(w), NEW r \in {"cancelled", "stopped", "retired"},
         NEW x, x = Ended(w, r)
  PROVE  /\ x \in WatchRecord /\ Stopped(x) /\ x.doc = w.doc /\ x.at = w.at /\ x.registered = w.registered
         /\ \A st : WatchOk(x, st)
<1>1. PICK z \in Seq(Frame) : z = <<>>
  BY EmptyChain
<1>2. x = [w EXCEPT !.end = r, !.pending = z]
  BY <1>1 DEF Ended
<1>3. /\ x \in WatchRecord /\ x.end = r /\ x.pending = z /\ x.doc = w.doc /\ x.at = w.at
      /\ x.registered = w.registered /\ x.rev = w.rev /\ x.inc = w.inc /\ x.replays = w.replays
  BY <1>2 DEF WatchRecord
<1>4. Chain(x.pending, x.rev)
  BY <1>1, <1>3, EmptyChain
<1>. QED BY <1>1, <1>3, <1>4 DEF Stopped, WatchOk, WatchKept, WatchAt

LEMMA SampleFx ==
  ASSUME NEW w \in WatchRecord, NEW st, WatchOk(w, st), NEW x, x = SampleCancellation(w)
  PROVE  /\ x \in WatchRecord /\ WatchOk(x, st) /\ x.doc = w.doc /\ x.at = w.at /\ x.registered = w.registered
         /\ ~Stopped(x) => x = w
<1>1. CASE w.cancelled /\ ~Stopped(w)
  BY <1>1, EndedFx DEF SampleCancellation, WatchOk
<1>2. CASE ~(w.cancelled /\ ~Stopped(w))
  BY <1>2 DEF SampleCancellation
<1>. QED BY <1>1, <1>2

(* The frame of one staged document. *)
LEMMA FramesFx ==
  ASSUME NEW w \in WatchRecord, NEW s \in StagedDocument, NEW v \in Nat, NEW n \in Nat, NEW st \in StoreRecord,
         FreshFor(s, st, v), NEW fs, fs = Frames(w, s, v, n)
  PROVE  \/ fs = <<>> /\ ~s.retire /\ ~s.ops
         \/ \E f \in Frame : /\ fs = <<f>> /\ (f.whole \/ f.from = st.rev)
                             /\ f.rev = (IF s.retire THEN 0 ELSE IF s.ops THEN n ELSE st.rev)
<1>1. w.ver \in Nat /\ st.rev \in Nat /\ s.from.rev = st.rev
  BY DEF WatchRecord, StoreRecord, FreshFor
<1>2. CASE s.retire
  <2>1. PICK f : f = [whole |-> TRUE, from |-> 0, rev |-> 0, ver |-> w.ver]
    OBVIOUS
  <2>2. f \in Frame /\ f.whole /\ f.rev = 0
    BY <1>1, <2>1 DEF Frame
  <2>3. fs = <<f>>
    BY <1>2, <2>1 DEF Frames
  <2>. QED BY <1>2, <2>2, <2>3
<1>3. CASE ~s.retire /\ w.ver # v
  <2>0. s.change
    BY <1>3 DEF FreshFor
  <2>1. PICK f : f = [whole |-> TRUE, from |-> 0, rev |-> IF s.ops THEN n ELSE s.from.rev, ver |-> v]
    OBVIOUS
  <2>2. f \in Frame /\ f.whole /\ f.rev = IF s.ops THEN n ELSE st.rev
    BY <1>1, <2>1 DEF Frame
  <2>3. fs = <<f>>
    BY <1>3, <2>0, <2>1 DEF Frames
  <2>. QED BY <1>3, <2>2, <2>3
<1>4. CASE ~s.retire /\ w.ver = v /\ s.ops
  <2>0. s.change
    BY <1>4 DEF FreshFor
  <2>1. PICK f : f = [whole |-> FALSE, from |-> s.from.rev, rev |-> n, ver |-> v]
    OBVIOUS
  <2>2. f \in Frame /\ f.from = st.rev /\ f.rev = n
    BY <1>1, <2>1 DEF Frame
  <2>3. fs = <<f>>
    BY <1>4, <2>0, <2>1 DEF Frames
  <2>. QED BY <1>4, <2>2, <2>3
<1>5. CASE ~s.retire /\ w.ver = v /\ ~s.ops
  BY <1>5 DEF Frames
<1>. QED BY <1>2, <1>3, <1>4, <1>5

(* An observer that is not registered, or is stopped, is with any storage. *)
LEMMA Detached ==
  ASSUME NEW w, WatchKept(w), ~w.registered \/ Stopped(w), NEW st
  PROVE  WatchOk(w, st)
BY DEF WatchOk, WatchAt

(* A stopped watch leaves the registry. *)
LEMMA LeavesFx ==
  ASSUME NEW w \in WatchRecord, WatchKept(w), Stopped(w), NEW x, x = [w EXCEPT !.registered = FALSE]
  PROVE  x \in WatchRecord /\ x.doc = w.doc /\ \A st : WatchOk(x, st)
<1>1. /\ x \in WatchRecord /\ x.doc = w.doc /\ x.end = w.end /\ x.at = w.at /\ ~x.registered
      /\ x.pending = w.pending /\ x.rev = w.rev /\ x.replays = w.replays
  BY DEF WatchRecord
<1>2. Stopped(x)
  BY <1>1 DEF Stopped
<1>. QED BY <1>1, <1>2 DEF WatchOk, WatchKept, WatchAt

(* A frame reaches a registered watch: it waits, or it is delivered. *)
Seen(w, f, live) == [w EXCEPT !.ver = f.ver, !.registered = live]
Taken(w, seen, f) ==
  IF w.at = "held" THEN [seen EXCEPT !.pending = @ \o <<f>>] ELSE Deliver(seen, f)
Takes(w, st, sx, f, live) ==
  /\ WatchOk(w, st) /\ w.registered /\ ~Stopped(w)
  /\ f.whole \/ f.from = st.rev
  /\ f.rev = sx.rev
  /\ live = TRUE => sx.inc = st.inc
  /\ live = FALSE => sx.rev = 0

LEMMA FrameTaken ==
  ASSUME NEW w \in WatchRecord, NEW st \in StoreRecord, NEW sx \in StoreRecord, NEW f \in Frame,
         NEW live \in BOOLEAN, Takes(w, st, sx, f, live),
         NEW x, x = Taken(w, Seen(w, f, live), f)
  PROVE  x \in WatchRecord /\ WatchOk(x, sx) /\ x.doc = w.doc
<1>. USE DEF Takes
<1>. DEFINE seen == Seen(w, f, live)
<1>0. f.ver \in Nat /\ f.rev \in Nat /\ w.rev \in Nat /\ w.pending \in Seq(Frame)
  BY DEF Frame, WatchRecord
<1>1. /\ seen \in WatchRecord /\ seen.registered = live /\ seen.at = w.at /\ seen.doc = w.doc
      /\ seen.inc = w.inc /\ seen.rev = w.rev /\ seen.pending = w.pending /\ seen.replays = w.replays
      /\ seen.end = w.end
  BY <1>0 DEF WatchRecord, Seen
<1>2. /\ w.replays = TRUE /\ w.doc \in Docs /\ w.at # "none" /\ w.inc # 0 /\ Chain(w.pending, w.rev)
      /\ w.inc = st.inc /\ LastRev(w) = st.rev /\ w.end = "none"
      /\ w.at # "held" => w.pending = <<>>
  BY DEF WatchOk, WatchKept, WatchAt, Stopped, WatchRecord
<1>3. CASE w.at = "held"
  <2>1. PICK q : q = w.pending \o <<f>>
    OBVIOUS
  <2>2. f.whole \/ f.from = (IF w.pending = <<>> THEN w.rev ELSE w.pending[Len(w.pending)].rev)
    BY <1>2 DEF LastRev
  <2>3. q \in Seq(Frame) /\ q # <<>> /\ q[Len(q)] = f /\ Chain(q, w.rev)
    <3>1. PICK p \in Seq(Frame), r \in Nat : p = w.pending /\ r = w.rev
      BY <1>0
    <3>2. Chain(p, r) /\ (f.whole \/ f.from = (IF p = <<>> THEN r ELSE p[Len(p)].rev)) /\ q = p \o <<f>>
      BY <1>2, <2>1, <2>2, <3>1
    <3>3. q \in Seq(Frame) /\ q # <<>> /\ q[Len(q)] = f /\ Chain(q, r)
      BY <3>2, PushFx
    <3>. QED BY <3>1, <3>3
  <2>4. x = [seen EXCEPT !.pending = q]
    BY <1>1, <1>3, <2>1 DEF Taken
  <2>5. /\ x \in WatchRecord /\ x.registered = live /\ x.at = "held" /\ x.doc = w.doc
        /\ x.inc = w.inc /\ x.rev = w.rev /\ x.pending = q /\ x.replays /\ x.end = "none"
    <3>1. q \in Seq(Frame)
      BY <2>3
    <3>. QED BY <1>1, <1>2, <1>3, <2>4, <3>1 DEF WatchRecord
  <2>6. LastRev(x) = f.rev
    BY <2>3, <2>5 DEF LastRev
  <2>. QED BY <1>2, <2>3, <2>5, <2>6 DEF WatchOk, WatchKept, WatchAt, Stopped
<1>4. CASE w.at # "held"
  <2>1. f.whole \/ f.from = w.rev
    BY <1>2, <1>4 DEF LastRev
  <2>2. PICK r : r = (seen.replays /\ (f.whole \/ f.from = seen.rev))
    OBVIOUS
  <2>3. r = TRUE
    BY <1>1, <1>2, <2>1, <2>2
  <2>4. x = [seen EXCEPT !.rev = f.rev, !.replays = r]
    BY <1>1, <1>4, <2>2 DEF Deliver, Taken
  <2>5. /\ x \in WatchRecord /\ x.registered = live /\ x.at = w.at /\ x.doc = w.doc
        /\ x.inc = w.inc /\ x.rev = f.rev /\ x.pending = <<>> /\ x.replays /\ x.end = "none"
    BY <1>0, <1>1, <1>2, <1>4, <2>3, <2>4, ZenonT(60) DEF WatchRecord
  <2>6. LastRev(x) = f.rev /\ Chain(x.pending, x.rev)
    BY <2>5, EmptyChain DEF LastRev
  <2>. QED BY <1>2, <1>4, <2>5, <2>6 DEF WatchOk, WatchKept, WatchAt, Stopped
<1>. QED BY <1>3, <1>4

(* One staged document of the address a watch follows. *)
LEMMA WatchAfterFx ==
  ASSUME NEW w \in WatchRecord, NEW s \in StagedDocument, NEW v \in Nat, NEW n \in Nat \ {0},
         NEW st \in StoreRecord, Kept(st), WatchOk(w, st),
         FreshFor(s, st, v) \/ (New(s) /\ st = Absent),
         NEW sx, sx = StoreAfter(st, s, v, n), NEW x, x = WatchAfter(w, s, v, n)
  PROVE  x \in WatchRecord /\ WatchOk(x, sx) /\ x.doc = w.doc
<1>0. s.created \/ st.inc # 0
  BY DEF FreshFor, New
<1>1. /\ sx \in StoreRecord /\ Kept(sx)
      /\ s.retire => sx = Absent
      /\ ~s.retire /\ ~s.created => sx.inc = st.inc /\ sx.rev = (IF s.ops THEN n ELSE st.rev)
  BY <1>0, StoreAfterFx
<1>2. s.retire \/ s.change
  BY DEF FreshFor, New
<1>3. CASE ~w.registered
  <2>1. x = w
    BY <1>3 DEF WatchAfter
  <2>. QED BY <1>3, <2>1, Detached DEF WatchOk
<1>4. CASE w.registered
  <2>1. PICK y : y = SampleCancellation(w)
    OBVIOUS
  <2>2. /\ y \in WatchRecord /\ WatchOk(y, st) /\ y.doc = w.doc /\ y.at = w.at /\ y.registered = w.registered
        /\ ~Stopped(y) => y = w
    BY <2>1, SampleFx
  <2>3. CASE Stopped(y)
    <3>1. x = [y EXCEPT !.registered = FALSE]
      BY <1>2, <1>4, <2>1, <2>3 DEF WatchAfter
    <3>. QED BY <2>2, <2>3, <3>1, LeavesFx DEF WatchOk
  <2>4. CASE ~Stopped(y)
    <3>0. y = w
      BY <2>2, <2>4
    <3>1. FreshFor(s, st, v)
      <4>1. w.inc # 0 /\ w.inc = st.inc
        BY <1>4, <2>4, <3>0 DEF WatchOk, WatchKept, WatchAt
      <4>. QED BY <4>1, Blanks
    <3>2. PICK fs : fs = Frames(w, s, v, n)
      OBVIOUS
    <3>3. CASE fs = <<>> /\ ~s.retire /\ ~s.ops
      <4>1. x = w
        BY <1>2, <1>4, <2>1, <2>4, <3>0, <3>2, <3>3 DEF WatchAfter
      <4>2. sx.inc = st.inc /\ sx.rev = st.rev
        BY <1>1, <3>1, <3>3 DEF FreshFor
      <4>. QED BY <4>1, <4>2 DEF WatchOk, WatchAt
    <3>4. CASE \E f \in Frame : /\ fs = <<f>> /\ (f.whole \/ f.from = st.rev)
                                /\ f.rev = (IF s.retire THEN 0 ELSE IF s.ops THEN n ELSE st.rev)
      <4>1. PICK f \in Frame : /\ fs = <<f>> /\ (f.whole \/ f.from = st.rev)
                               /\ f.rev = (IF s.retire THEN 0 ELSE IF s.ops THEN n ELSE st.rev)
        BY <3>4
      <4>2. fs[1] = f /\ fs # <<>>
        BY <4>1
      <4>3. PICK live : live = ~s.retire
        OBVIOUS
      <4>4. live \in BOOLEAN /\ (live <=> ~s.retire)
        BY <4>3
      <4>5. PICK seen : seen = Seen(w, f, live)
        OBVIOUS
      <4>6. x = IF w.at = "held" THEN [seen EXCEPT !.pending = @ \o fs]
                ELSE IF s.retire THEN Ended(Deliver(seen, f), "retired") ELSE Deliver(seen, f)
        BY <1>2, <1>4, <2>1, <2>4, <3>0, <3>2, <4>2, <4>3, <4>5 DEF WatchAfter, Seen
      <4>7. f.rev = sx.rev /\ (live = TRUE => sx.inc = st.inc) /\ (live = FALSE => sx.rev = 0)
        BY <1>1, <3>1, <4>1, <4>4, Blanks DEF FreshFor
      <4>8. PICK z : z = Taken(w, seen, f)
        OBVIOUS
      <4>a. z \in WatchRecord /\ WatchOk(z, sx) /\ z.doc = w.doc
        <5>1. w.registered /\ ~Stopped(w)
          BY <1>4, <2>4, <3>0
        <5>2. Takes(w, st, sx, f, live)
          BY <4>1, <4>7, <5>1 DEF Takes
        <5>3. sx \in StoreRecord /\ live \in BOOLEAN
          BY <1>1, <4>4
        <5>. QED BY <4>5, <4>8, <5>2, <5>3, FrameTaken
      <4>9. CASE w.at = "held" \/ ~s.retire
        <5>1. x = z
          BY <4>1, <4>6, <4>8, <4>9 DEF Taken
        <5>. QED BY <4>a, <5>1
      <4>10. CASE w.at # "held" /\ s.retire
        <5>1. x = Ended(z, "retired")
          BY <4>6, <4>8, <4>10 DEF Taken
        <5>. QED BY <4>a, <5>1, EndedFx DEF WatchOk
      <4>. QED BY <4>9, <4>10
    <3>. QED BY <3>1, <3>2, <3>3, <3>4, FramesFx
  <2>. QED BY <2>3, <2>4
<1>. QED BY <1>3, <1>4

(* The documents: store, cache, staged batch and watches. *)
DocTypes ==
  /\ store \in [Docs -> StoreRecord] /\ seq \in Nat
  /\ cached_documents \in [Docs -> CacheRecord] /\ watches \in [Watchers -> WatchRecord]
DocsOK == StoreInv /\ CacheCoherent /\ StagedInv /\ FramesInv /\ WatchFollows

LEMMA DocsAre ==
  ASSUME ~failed
  PROVE  (StoreInv /\ CacheCoherent) <=>
           \A d \in Docs : Kept(store[d]) /\ Coherent(cached_documents[d], store[d])
<1>1. ASSUME StoreInv, CacheCoherent, NEW d \in Docs
      PROVE  Kept(store[d]) /\ Coherent(cached_documents[d], store[d])
  BY <1>1 DEF StoreInv, CacheCoherent, Kept, Coherent
<1>2. ASSUME \A d \in Docs : Kept(store[d]) /\ Coherent(cached_documents[d], store[d])
      PROVE  StoreInv /\ CacheCoherent
  BY <1>2 DEF StoreInv, CacheCoherent, Kept, Coherent
<1>. QED BY <1>1, <1>2

(* A step that leaves the documents, and takes no batch to the storage. *)
LEMMA DocsSame ==
  ASSUME DocTypes, DocsOK, UNCHANGED <<store, seq, cached_documents, watches>>, failed => failed',
         job' = job \/ job'.at # "storage"
  PROVE  DocTypes' /\ DocsOK'
<1>1. DocTypes' /\ StoreInv' /\ FramesInv'
  BY DEF DocTypes, DocsOK, StoreInv, FramesInv
<1>2. CacheCoherent' /\ WatchFollows'
  BY DEF DocsOK, CacheCoherent, WatchFollows
<1>3. StagedInv'
  <2>1. CASE job' = job
    BY <2>1 DEF DocsOK, StagedInv, Fresh
  <2>2. CASE job'.at # "storage"
    BY <2>2 DEF StagedInv
  <2>. QED BY <2>1, <2>2
<1>. QED BY <1>1, <1>2, <1>3 DEF DocsOK

(* What a load leaves in the cache. *)
LEMMA CacheLoaded ==
  ASSUME TypeOK, DocsOK, ~failed, NEW v \in Versions, NEW d \in Docs, NEW c, c = CacheAfterLoad(v, d)
  PROVE  c \in CacheRecord /\ Coherent(c, store[d])
<1>1. PICK l : l = Load(v, d)
  OBVIOUS
<1>2. /\ l \in CacheRecord
      /\ l # NoCache /\ l # Unreadable =>
           /\ l.inc # 0 /\ l.inc = store[d].inc /\ l.rev = store[d].rev
           /\ l.sver = store[d].ver /\ l.sver <= v /\ l.ver = v
  BY <1>1, LoadFx DEF DocsOK
<1>3. c = IF l = Unreadable THEN NoCache ELSE l
  BY <1>1 DEF CacheAfterLoad
<1>. QED BY <1>2, <1>3, Blanks DEF Coherent

LEMMA CacheMoves ==
  ASSUME TypeOK, DocsOK, ~failed, failed' = failed, store' = store,
         DOMAIN cached_documents' = Docs, cached_documents' = [d \in Docs |-> cached_documents'[d]],
         \A d \in Docs : \/ cached_documents'[d] = cached_documents[d]
                         \/ \E v \in Versions : cached_documents'[d] = CacheAfterLoad(v, d)
  PROVE  cached_documents' \in [Docs -> CacheRecord] /\ StoreInv' /\ CacheCoherent'
<1>1. ASSUME NEW d \in Docs
      PROVE  cached_documents'[d] \in CacheRecord /\ Kept(store[d]) /\ Coherent(cached_documents'[d], store[d])
  <2>0. Kept(store[d]) /\ Coherent(cached_documents[d], store[d]) /\ cached_documents[d] \in CacheRecord
    BY DocsAre DEF DocsOK, TypeOK
  <2>1. CASE cached_documents'[d] = cached_documents[d]
    BY <2>0, <2>1
  <2>2. CASE \E v \in Versions : cached_documents'[d] = CacheAfterLoad(v, d)
    <3>1. PICK v \in Versions : cached_documents'[d] = CacheAfterLoad(v, d)
      BY <2>2
    <3>2. PICK c : c = CacheAfterLoad(v, d)
      OBVIOUS
    <3>3. c \in CacheRecord /\ Coherent(c, store[d])
      BY <3>2, CacheLoaded
    <3>. QED BY <2>0, <3>1, <3>2, <3>3
  <2>. QED BY <2>1, <2>2
<1>2. cached_documents' \in [Docs -> CacheRecord]
  BY <1>1
<1>3. StoreInv' /\ CacheCoherent'
  BY <1>1 DEF StoreInv, CacheCoherent, Kept, Coherent
<1>. QED BY <1>2, <1>3

(* commit_now. *)
LEMMA RunCommitDocs ==
  ASSUME TypeOK, LineOK, DocsOK, NEW v \in Versions, NEW touch \in [Docs -> Touches],
         NEW cp \in BOOLEAN, NEW table \in BOOLEAN, RunCommit(v, touch, cp, table)
  PROVE  /\ DocTypes' /\ DocsOK' /\ job' \in JobRecord /\ job'.id = job.id
         /\ job'.at \in {"storage", "done"} /\ (job'.at = "done" <=> job'.result # "none")
<1>0. job.at = "run" /\ ~failed /\ failed' = failed /\ store' = store /\ seq' = seq /\ watches' = watches
      /\ job \in JobRecord /\ job.result = "none"
  BY DEF RunCommit, LineOK, LineInv, LineTypes
<1>a. v \in Nat
  BY SessionAssumption
<1>1. cached_documents' \in [Docs -> CacheRecord] /\ StoreInv' /\ CacheCoherent'
  <2>1. cached_documents' = [d \in Docs |-> IF d \in {e \in Docs : touch[e] # "none"} THEN CacheAfterLoad(v, d)
                                            ELSE cached_documents[d]]
    BY DEF RunCommit
  <2>2. \A d \in Docs : \/ cached_documents'[d] = cached_documents[d]
                        \/ \E u \in Versions : cached_documents'[d] = CacheAfterLoad(u, d)
    BY <2>1
  <2>3. DOMAIN cached_documents' = Docs /\ cached_documents' = [d \in Docs |-> cached_documents'[d]]
    BY <2>1
  <2>. QED BY <1>0, <2>2, <2>3, CacheMoves
<1>2. FramesInv' /\ WatchFollows'
  BY <1>0 DEF DocsOK, FramesInv, WatchFollows
<1>3. DocTypes'
  BY <1>0, <1>1 DEF DocTypes, TypeOK
<1>4. CASE \E r \in {"rejected", "ok"} : job' = Settled(job, r)
  <2>1. PICK r \in {"rejected", "ok"} : job' = Settled(job, r)
    BY <1>4
  <2>2. job' \in JobRecord /\ job'.id = job.id /\ job'.at = "done" /\ job'.result = r
    BY <1>0, <2>1 DEF Settled, JobRecord
  <2>3. StagedInv'
    BY <2>2 DEF StagedInv
  <2>. QED BY <1>1, <1>2, <1>3, <2>2, <2>3 DEF DocsOK
<1>5. CASE /\ \A d \in {e \in Docs : touch[e] # "none"} : Load(v, d) # Unreadable
           /\ job' = [job EXCEPT !.at = "storage", !.ver = v,
                                 !.staged = [d \in Docs |-> Staged(Load(v, d), touch[d], cp)]]
  <2>1. PICK staged : staged = [d \in Docs |-> Staged(Load(v, d), touch[d], cp)]
    OBVIOUS
  <2>2. ASSUME NEW d \in Docs
        PROVE  /\ staged[d] \in Seq(StagedDocument)
               /\ \/ staged[d] = <<>>
                  \/ /\ Len(staged[d]) = 1
                     /\ FreshFor(staged[d][1], store[d], v) \/ (New(staged[d][1]) /\ store[d] = Absent)
                  \/ /\ Len(staged[d]) = 2 /\ FreshFor(staged[d][1], store[d], v) /\ staged[d][1].retire
                     /\ New(staged[d][2])
    <3>0. PICK t \in Touches : t = touch[d]
      OBVIOUS
    <3>a. PICK l : l = Load(v, d)
      OBVIOUS
    <3>b. PICK ss : ss = Staged(l, t, cp)
      OBVIOUS
    <3>1. l = Load(v, d) /\ t = touch[d] /\ ss = Staged(l, t, cp)
      BY <3>0, <3>a, <3>b
    <3>2. staged[d] = ss
      BY <2>1, <3>1
    <3>3. /\ l \in CacheRecord
          /\ l = NoCache => store[d] = Absent
          /\ l # NoCache /\ l # Unreadable =>
               /\ l.inc # 0 /\ l.inc = store[d].inc /\ l.rev = store[d].rev
               /\ l.sver = store[d].ver /\ l.sver <= v /\ l.ver = v
      BY <1>0, <3>1, LoadFx DEF DocsOK
    <3>4. /\ ss \in Seq(StagedDocument)
          /\ \/ ss = <<>>
             \/ /\ Len(ss) = 1 /\ l # NoCache /\ ss[1].from = l /\ ~ss[1].created
                /\ (ss[1].change \/ ss[1].retire) /\ (ss[1].ops => ss[1].change)
             \/ Len(ss) = 1 /\ l = NoCache /\ New(ss[1])
             \/ /\ Len(ss) = 2 /\ l # NoCache /\ ss[1].from = l /\ ~ss[1].created
                /\ ss[1].retire /\ (ss[1].ops => ss[1].change) /\ New(ss[2])
      BY <3>1, <3>3, StagedFx
    <3>5. t # "none" => l # Unreadable
      BY <1>5, <3>1
    <3>6. t = "none" => ss = <<>>
      BY <3>1 DEF Staged
    <3>7. CASE ss = <<>>
      BY <3>2, <3>4, <3>7
    <3>8. CASE ss # <<>> /\ l # NoCache
      <4>1. l.inc # 0 /\ l.inc = store[d].inc /\ l.rev = store[d].rev /\ l.sver = store[d].ver /\ l.sver <= v
        BY <3>3, <3>5, <3>6, <3>8
      <4>2. PICK s : s = ss[1]
        OBVIOUS
      <4>3. s.from = l /\ ~s.created /\ (s.change \/ s.retire) /\ (s.ops => s.change)
        BY <3>4, <3>8, <4>2
      <4>4. FreshFor(s, store[d], v)
        BY <4>1, <4>3 DEF FreshFor
      <4>. QED BY <3>2, <3>4, <3>8, <4>2, <4>4
    <3>9. CASE ss # <<>> /\ l = NoCache
      BY <3>2, <3>3, <3>4, <3>9
    <3>. QED BY <3>7, <3>8, <3>9
  <2>3. staged \in [Docs -> Seq(StagedDocument)]
    BY <2>1, <2>2
  <2>4. job' = [job EXCEPT !.at = "storage", !.ver = v, !.staged = staged]
    BY <1>5, <2>1
  <2>5. job' \in JobRecord /\ job'.id = job.id /\ job'.at = "storage" /\ job'.result = "none"
        /\ job'.ver = v /\ job'.staged = staged
    BY <1>0, <1>a, <2>3, <2>4 DEF JobRecord
  <2>6. StagedInv'
    BY <1>0, <2>2, <2>5 DEF StagedInv, Fresh, FreshFor
  <2>. QED BY <1>1, <1>2, <1>3, <2>5, <2>6 DEF DocsOK
<1>. QED BY <1>4, <1>5 DEF RunCommit

(* A stored batch: one address, and one watch. *)
LEMMA StagedAre ==
  ASSUME TypeOK, DocsOK, job.at = "storage", NEW d \in Docs, NEW ss, ss = job.staged[d]
  PROVE  /\ job.ver \in Nat
         /\ \/ ss = <<>>
            \/ /\ Len(ss) = 1 /\ ss # <<>> /\ ss[1] \in StagedDocument
               /\ FreshFor(ss[1], store[d], job.ver) \/ (New(ss[1]) /\ store[d] = Absent)
            \/ /\ Len(ss) = 2 /\ ss # <<>> /\ ss[1] \in StagedDocument /\ ss[2] \in StagedDocument
               /\ FreshFor(ss[1], store[d], job.ver) /\ ss[1].retire /\ New(ss[2])
<1>1. job.ver \in Nat /\ ss \in Seq(StagedDocument)
  BY DEF TypeOK, JobRecord
<1>2. \/ ss = <<>>
      \/ Len(ss) = 1 /\ (FreshFor(ss[1], store[d], job.ver) \/ (New(ss[1]) /\ store[d] = Absent))
      \/ Len(ss) = 2 /\ FreshFor(ss[1], store[d], job.ver) /\ ss[1].retire /\ New(ss[2])
  BY DEF DocsOK, StagedInv, Fresh, FreshFor
<1>3. ss = <<>> => Len(ss) = 0
  BY EmptySeq
<1>4. \A k \in 1..Len(ss) : ss[k] \in StagedDocument
  BY <1>1, ElementOfSeq
<1>5. (Len(ss) = 1 => 1 \in 1..Len(ss)) /\ (Len(ss) = 2 => 1 \in 1..Len(ss) /\ 2 \in 1..Len(ss))
  OBVIOUS
<1>. QED BY <1>1, <1>2, <1>3, <1>4, <1>5

LEMMA DocSettled ==
  ASSUME TypeOK, DocsOK, ~failed, job.at = "storage", NEW d \in Docs, NEW n \in Nat \ {0},
         NEW x, x = StoreSettled(d, n), NEW y, y = CacheSettled(d, n)
  PROVE  x \in StoreRecord /\ y \in CacheRecord /\ Kept(x) /\ Coherent(y, x)
<1>1. PICK ss, st, c, v : ss = job.staged[d] /\ st = store[d] /\ c = cached_documents[d] /\ v = job.ver
  OBVIOUS
<1>2. st \in StoreRecord /\ c \in CacheRecord /\ Kept(st) /\ Coherent(c, st)
  BY <1>1, DocsAre DEF DocsOK, TypeOK
<1>3. /\ v \in Nat
      /\ \/ ss = <<>>
         \/ /\ Len(ss) = 1 /\ ss # <<>> /\ ss[1] \in StagedDocument
            /\ FreshFor(ss[1], st, v) \/ (New(ss[1]) /\ st = Absent)
         \/ /\ Len(ss) = 2 /\ ss # <<>> /\ ss[1] \in StagedDocument /\ ss[2] \in StagedDocument
            /\ FreshFor(ss[1], st, v) /\ ss[1].retire /\ New(ss[2])
  BY <1>1, StagedAre
<1>4. CASE ss = <<>>
  <2>1. x = st /\ y = c
    BY <1>1, <1>4 DEF StoreSettled, CacheSettled
  <2>. QED BY <1>2, <2>1
<1>5. CASE ss # <<>>
  <2>1. PICK s : s = ss[1]
    OBVIOUS
  <2>2. PICK sx, cx : sx = StoreAfter(st, s, v, n) /\ cx = CacheAfter(c, s, v, n)
    OBVIOUS
  <2>3. s \in StagedDocument /\ (FreshFor(s, st, v) \/ (New(s) /\ st = Absent))
    BY <1>3, <1>5, <2>1
  <2>4. /\ sx \in StoreRecord /\ Kept(sx) /\ cx \in CacheRecord /\ Coherent(cx, sx)
        /\ s.retire => sx = Absent /\ cx = NoCache
    BY <1>2, <1>3, <2>2, <2>3, CacheAfterFx
  <2>5. CASE Len(ss) = 1
    <3>1. x = sx /\ y = cx
      BY <1>1, <1>5, <2>1, <2>2, <2>5 DEF StoreSettled, CacheSettled
    <3>. QED BY <2>4, <3>1
  <2>6. CASE Len(ss) = 2
    <3>1. PICK t : t = ss[2]
      OBVIOUS
    <3>2. t \in StagedDocument /\ New(t) /\ sx = Absent
      BY <1>3, <1>5, <2>1, <2>4, <2>6, <3>1
    <3>3. x = StoreAfter(sx, t, v, n) /\ y = CacheAfter(cx, t, v, n)
      BY <1>1, <1>5, <2>1, <2>2, <2>6, <3>1 DEF StoreSettled, CacheSettled
    <3>. QED BY <1>3, <2>4, <3>2, <3>3, CacheAfterFx
  <2>. QED BY <1>3, <1>5, <2>5, <2>6
<1>. QED BY <1>4, <1>5

LEMMA WatchSettles ==
  ASSUME TypeOK, DocsOK, ~failed, job.at = "storage", NEW w \in WatchRecord, NEW n \in Nat \ {0},
         WatchOk(w, store[w.doc]), NEW x, x = WatchSettled(w, n)
  PROVE  /\ x \in WatchRecord /\ x.doc = w.doc
         /\ w.doc \in Docs => WatchOk(x, StoreSettled(w.doc, n))
         /\ w.doc \notin Docs => \A st : WatchOk(x, st)
<1>1. CASE w.doc \notin Docs
  <2>1. x = w /\ ~w.registered
    BY <1>1 DEF WatchSettled, WatchOk, WatchKept
  <2>. QED BY <1>1, <2>1, Detached DEF WatchOk
<1>2. CASE w.doc \in Docs
  <2>0. PICK d \in Docs : d = w.doc
    BY <1>2
  <2>1. PICK ss, st, v : ss = job.staged[d] /\ st = store[d] /\ v = job.ver
    OBVIOUS
  <2>2. st \in StoreRecord /\ Kept(st) /\ WatchOk(w, st)
    BY <2>0, <2>1, DocsAre DEF DocsOK, TypeOK
  <2>3. /\ v \in Nat
        /\ \/ ss = <<>>
           \/ /\ Len(ss) = 1 /\ ss # <<>> /\ ss[1] \in StagedDocument
              /\ FreshFor(ss[1], st, v) \/ (New(ss[1]) /\ st = Absent)
           \/ /\ Len(ss) = 2 /\ ss # <<>> /\ ss[1] \in StagedDocument /\ ss[2] \in StagedDocument
              /\ FreshFor(ss[1], st, v) /\ ss[1].retire /\ New(ss[2])
    BY <2>1, StagedAre
  <2>4. PICK z : z = StoreSettled(d, n)
    OBVIOUS
  <2>5. CASE ss = <<>>
    <3>1. x = w /\ z = st
      BY <1>2, <2>0, <2>1, <2>4, <2>5 DEF StoreSettled, WatchSettled
    <3>. QED BY <1>2, <2>0, <2>2, <2>4, <3>1
  <2>6. CASE ss # <<>>
    <3>1. PICK s : s = ss[1]
      OBVIOUS
    <3>2. PICK sx, wx : sx = StoreAfter(st, s, v, n) /\ wx = WatchAfter(w, s, v, n)
      OBVIOUS
    <3>3. s \in StagedDocument /\ (FreshFor(s, st, v) \/ (New(s) /\ st = Absent))
      BY <2>3, <2>6, <3>1
    <3>4. wx \in WatchRecord /\ WatchOk(wx, sx) /\ wx.doc = w.doc
      BY <2>2, <2>3, <3>2, <3>3, WatchAfterFx
    <3>a. sx \in StoreRecord /\ Kept(sx) /\ (s.retire => sx = Absent)
      <4>1. s.created \/ st.inc # 0
        BY <3>3 DEF FreshFor, New
      <4>. QED BY <2>2, <2>3, <3>2, <3>3, <4>1, StoreAfterFx
    <3>5. CASE Len(ss) = 1
      <4>1. x = wx /\ z = sx
        BY <1>2, <2>0, <2>1, <2>4, <2>6, <3>1, <3>2, <3>5 DEF StoreSettled, WatchSettled
      <4>. QED BY <1>2, <2>0, <2>4, <3>4, <4>1
    <3>6. CASE Len(ss) = 2
      <4>1. PICK t : t = ss[2]
        OBVIOUS
      <4>2. t \in StagedDocument /\ New(t) /\ sx = Absent
        BY <2>3, <2>6, <3>1, <3>a, <3>6, <4>1
      <4>3. x = WatchAfter(wx, t, v, n) /\ z = StoreAfter(sx, t, v, n)
        BY <1>2, <2>0, <2>1, <2>4, <2>6, <3>1, <3>2, <3>6, <4>1 DEF StoreSettled, WatchSettled
      <4>4. x \in WatchRecord /\ WatchOk(x, z) /\ x.doc = wx.doc
        BY <2>3, <3>4, <3>a, <4>2, <4>3, WatchAfterFx
      <4>. QED BY <1>2, <2>0, <2>4, <3>4, <4>4
    <3>. QED BY <2>3, <2>6, <3>5, <3>6
  <2>. QED BY <2>5, <2>6
<1>. QED BY <1>1, <1>2

LEMMA SettleDocs ==
  ASSUME TypeOK, LineOK, DocsOK, Settle
  PROVE  DocTypes' /\ DocsOK'
<1>0. /\ job.at = "storage" /\ ~failed /\ failed' = failed /\ job'.at = "done" /\ seq \in Nat
      /\ watches \in [Watchers -> WatchRecord] /\ job \in JobRecord
  <2>1. job.at = "storage" /\ ~failed /\ failed' = failed /\ job \in JobRecord
    BY DEF Settle, LineOK, LineInv, LineTypes
  <2>. QED BY <2>1 DEF Settle, Settled, JobRecord, TypeOK
<1>1. PICK n \in Nat \ {0} : n = seq + 1
  BY <1>0
<1>2. /\ seq' = n /\ store' = [d \in Docs |-> StoreSettled(d, n)]
      /\ cached_documents' = [d \in Docs |-> CacheSettled(d, n)]
      /\ watches' = [w \in Watchers |-> WatchSettled(watches[w], n)]
  BY <1>1 DEF Settle
<1>3. ASSUME NEW d \in Docs
      PROVE  /\ store'[d] \in StoreRecord /\ cached_documents'[d] \in CacheRecord
             /\ Kept(store'[d]) /\ Coherent(cached_documents'[d], store'[d])
  <2>1. PICK x, y : x = StoreSettled(d, n) /\ y = CacheSettled(d, n)
    OBVIOUS
  <2>2. x \in StoreRecord /\ y \in CacheRecord /\ Kept(x) /\ Coherent(y, x)
    BY <1>0, <2>1, DocSettled
  <2>3. store'[d] = x /\ cached_documents'[d] = y
    BY <1>2, <2>1
  <2>. QED BY <2>2, <2>3
<1>4. ASSUME NEW w \in Watchers
      PROVE  watches'[w] \in WatchRecord /\ WatchOk(watches'[w], store'[watches'[w].doc])
  <2>1. PICK y \in WatchRecord : y = watches[w]
    BY <1>0
  <2>2. PICK x : x = WatchSettled(y, n)
    OBVIOUS
  <2>3. WatchOk(y, store[y.doc])
    BY <2>1, WatchesOk DEF DocsOK
  <2>4. /\ x \in WatchRecord /\ x.doc = y.doc
        /\ y.doc \in Docs => WatchOk(x, StoreSettled(y.doc, n))
        /\ y.doc \notin Docs => \A st : WatchOk(x, st)
    BY <1>0, <2>2, <2>3, WatchSettles
  <2>5. watches'[w] = x
    BY <1>2, <2>1, <2>2
  <2>6. y.doc \in Docs => store'[y.doc] = StoreSettled(y.doc, n)
    BY <1>2
  <2>. QED BY <2>4, <2>5, <2>6
<1>5. DocTypes'
  BY <1>1, <1>2, <1>3, <1>4 DEF DocTypes
<1>6. StoreInv' /\ CacheCoherent'
  BY <1>3 DEF StoreInv, CacheCoherent, Kept, Coherent
<1>7. FramesInv' /\ WatchFollows'
  BY <1>4 DEF FramesInv, WatchFollows, WatchOk, WatchKept, WatchAt, Chain
<1>8. StagedInv'
  BY <1>0 DEF StagedInv
<1>. QED BY <1>5, <1>6, <1>7, <1>8 DEF DocsOK

(* Calls that touch one watch. *)
LEMMA WatchMoves ==
  ASSUME TypeOK, DocsOK, NEW w \in Watchers, NEW x \in WatchRecord, WatchOk(x, store[x.doc]),
         watches' = [watches EXCEPT ![w] = x], store' = store
  PROVE  watches' \in [Watchers -> WatchRecord] /\ FramesInv' /\ WatchFollows'
<1>1. watches \in [Watchers -> WatchRecord]
  BY DEF TypeOK
<1>2. ASSUME NEW z \in Watchers PROVE WatchOk(watches'[z], store'[watches'[z].doc])
  <2>1. CASE z = w
    BY <1>1, <2>1
  <2>2. CASE z # w
    BY <1>1, <2>2, WatchesOk DEF DocsOK
  <2>. QED BY <2>1, <2>2
<1>. QED BY <1>1, <1>2 DEF FramesInv, WatchFollows, WatchOk, WatchKept, WatchAt, Chain

LEMMA OneWatchDocs ==
  ASSUME TypeOK, DocsOK, NEW w \in Watchers, NEW x \in WatchRecord, WatchOk(x, store[x.doc]),
         watches' = [watches EXCEPT ![w] = x],
         UNCHANGED <<store, seq, cached_documents, job, failed>>
  PROVE  DocTypes' /\ DocsOK'
<1>1. watches' \in [Watchers -> WatchRecord] /\ FramesInv' /\ WatchFollows'
  BY WatchMoves
<1>2. DocTypes'
  BY <1>1 DEF DocTypes, TypeOK
<1>3. StoreInv' /\ CacheCoherent' /\ StagedInv'
  BY DEF DocsOK, StoreInv, CacheCoherent, StagedInv, Fresh
<1>. QED BY <1>1, <1>2, <1>3 DEF DocsOK

LEMMA WatchIs ==
  ASSUME TypeOK, DocsOK, NEW w \in Watchers
  PROVE  watches[w] \in WatchRecord /\ WatchOk(watches[w], store[watches[w].doc])
BY WatchesOk DEF DocsOK, TypeOK

LEMMA SnapshotDocs ==
  ASSUME TypeOK, DocsOK, NEW d \in Docs, NEW v \in Versions, Snapshot(d, v)
  PROVE  DocTypes' /\ DocsOK'
<1>1. /\ ~failed /\ cached_documents' = [cached_documents EXCEPT ![d] = CacheAfterLoad(v, d)]
      /\ UNCHANGED <<store, seq, watches, job, failed>>
  BY DEF Snapshot
<1>2. cached_documents \in [Docs -> CacheRecord]
  BY DEF TypeOK
<1>3. cached_documents' \in [Docs -> CacheRecord] /\ StoreInv' /\ CacheCoherent'
  <2>1. \A e \in Docs : \/ cached_documents'[e] = cached_documents[e]
                        \/ \E u \in Versions : cached_documents'[e] = CacheAfterLoad(u, e)
    BY <1>1, <1>2
  <2>2. DOMAIN cached_documents' = Docs /\ cached_documents' = [e \in Docs |-> cached_documents'[e]]
    BY <1>1, <1>2
  <2>. QED BY <1>1, <2>1, <2>2, CacheMoves
<1>4. FramesInv' /\ WatchFollows' /\ StagedInv'
  BY <1>1 DEF DocsOK, FramesInv, WatchFollows, StagedInv, Fresh
<1>5. DocTypes'
  BY <1>1, <1>3 DEF DocTypes, TypeOK
<1>. QED BY <1>3, <1>4, <1>5 DEF DocsOK

LEMMA WatchDocDocs ==
  ASSUME TypeOK, DocsOK, NEW w \in Watchers, NEW d \in Docs, NEW v \in Versions, WatchDoc(w, d, v)
  PROVE  DocTypes' /\ DocsOK'
<1>1. PICK l : l = Load(v, d)
  OBVIOUS
<1>2. /\ ~failed /\ l # NoCache /\ l # Unreadable
      /\ cached_documents' = [cached_documents EXCEPT ![d] = l]
      /\ UNCHANGED <<store, seq, job, failed>>
  BY <1>1 DEF WatchDoc
<1>3. /\ l \in CacheRecord /\ l.inc # 0 /\ l.inc = store[d].inc /\ l.rev = store[d].rev
  BY <1>1, <1>2, LoadFx DEF DocsOK
<1>a. v \in Nat /\ l.inc \in Nat /\ l.rev \in Nat
  BY <1>3, SessionAssumption DEF CacheRecord
<1>4. cached_documents \in [Docs -> CacheRecord]
  BY DEF TypeOK
<1>5. cached_documents' \in [Docs -> CacheRecord] /\ StoreInv' /\ CacheCoherent'
  <2>0. l = CacheAfterLoad(v, d)
    BY <1>1, <1>2 DEF CacheAfterLoad
  <2>1. \A e \in Docs : \/ cached_documents'[e] = cached_documents[e]
                        \/ \E u \in Versions : cached_documents'[e] = CacheAfterLoad(u, e)
    BY <1>2, <1>4, <2>0
  <2>2. DOMAIN cached_documents' = Docs /\ cached_documents' = [e \in Docs |-> cached_documents'[e]]
    BY <1>2, <1>4
  <2>. QED BY <1>2, <2>1, <2>2, CacheMoves
<1>6. PICK u : u = Unwatched
  OBVIOUS
<1>7. /\ u \in WatchRecord /\ u.pending = <<>> /\ u.replays /\ u.end = "none"
  BY <1>6, EmptyChain DEF Unwatched, WatchRecord
<1>8. PICK x : x = [u EXCEPT !.doc = d, !.at = "held", !.registered = TRUE, !.inc = l.inc, !.rev = l.rev,
                             !.ver = v]
  OBVIOUS
<1>9. /\ x \in WatchRecord /\ x.doc = d /\ x.at = "held" /\ x.inc = l.inc /\ x.rev = l.rev
      /\ x.pending = <<>> /\ x.replays /\ x.end = "none" /\ x.registered
  BY <1>a, <1>7, <1>8 DEF WatchRecord
<1>10. WatchOk(x, store[x.doc])
  <2>1. Chain(x.pending, x.rev) /\ LastRev(x) = x.rev
    BY <1>9, EmptyChain DEF LastRev
  <2>. QED BY <1>3, <1>9, <2>1 DEF WatchOk, WatchKept, WatchAt, Stopped
<1>11. watches' = [watches EXCEPT ![w] = x]
  BY <1>1, <1>6, <1>8 DEF WatchDoc
<1>12. watches' \in [Watchers -> WatchRecord] /\ FramesInv' /\ WatchFollows'
  BY <1>2, <1>9, <1>10, <1>11, WatchMoves
<1>13. StagedInv'
  BY <1>2 DEF DocsOK, StagedInv, Fresh
<1>14. DocTypes'
  BY <1>2, <1>5, <1>12 DEF DocTypes, TypeOK
<1>. QED BY <1>5, <1>12, <1>13, <1>14 DEF DocsOK

LEMMA StopWatchDocs ==
  ASSUME TypeOK, DocsOK, NEW w \in Watchers, StopWatch(w)
  PROVE  DocTypes' /\ DocsOK'
<1>1. PICK y, st, z : y = watches[w] /\ st = store[y.doc] /\ z = SampleCancellation(y)
  OBVIOUS
<1>2. y \in WatchRecord /\ WatchOk(y, st)
  BY <1>1, WatchIs
<1>3. z \in WatchRecord /\ WatchOk(z, st) /\ z.doc = y.doc
  BY <1>1, <1>2, SampleFx
<1>4. PICK x : x = IF Stopped(z) THEN z ELSE Ended(z, "stopped")
  OBVIOUS
<1>5. x \in WatchRecord /\ WatchOk(x, st) /\ x.doc = y.doc
  <2>1. CASE Stopped(z)
    BY <1>3, <1>4, <2>1
  <2>2. CASE ~Stopped(z)
    <3>1. x = Ended(z, "stopped") /\ WatchKept(z)
      BY <1>3, <1>4, <2>2 DEF WatchOk
    <3>. QED BY <1>3, <3>1, EndedFx
  <2>. QED BY <2>1, <2>2
<1>6. watches' = [watches EXCEPT ![w] = x] /\ UNCHANGED <<store, seq, cached_documents, job, failed>>
  BY <1>1, <1>4 DEF StopWatch
<1>7. WatchOk(x, store[x.doc])
  BY <1>1, <1>5
<1>. QED BY <1>5, <1>6, <1>7, OneWatchDocs

LEMMA CancelWatchDocs ==
  ASSUME TypeOK, DocsOK, NEW w \in Watchers, CancelWatch(w)
  PROVE  DocTypes' /\ DocsOK'
<1>1. PICK y, st : y = watches[w] /\ st = store[y.doc]
  OBVIOUS
<1>2. y \in WatchRecord /\ WatchOk(y, st)
  BY <1>1, WatchIs
<1>3. PICK x : x = [y EXCEPT !.cancelled = TRUE]
  OBVIOUS
<1>4. /\ x \in WatchRecord /\ x.doc = y.doc /\ x.at = y.at /\ x.registered = y.registered /\ x.end = y.end
      /\ x.inc = y.inc /\ x.rev = y.rev /\ x.pending = y.pending /\ x.replays = y.replays
  BY <1>2, <1>3 DEF WatchRecord
<1>5. WatchOk(x, st)
  BY <1>2, <1>4 DEF WatchOk, WatchKept, WatchAt, Stopped, LastRev
<1>6. watches' = [watches EXCEPT ![w] = x] /\ UNCHANGED <<store, seq, cached_documents, job, failed>>
  <2>1. watches \in [Watchers -> WatchRecord]
    BY DEF TypeOK
  <2>. QED BY <1>1, <1>3, <2>1 DEF CancelWatch
<1>. QED BY <1>1, <1>4, <1>5, <1>6, OneWatchDocs

LEMMA StartWatchDocs ==
  ASSUME TypeOK, DocsOK, NEW w \in Watchers, StartWatch(w)
  PROVE  DocTypes' /\ DocsOK'
<1>1. PICK y, st, z : y = watches[w] /\ st = store[y.doc] /\ z = SampleCancellation(y)
  OBVIOUS
<1>2. y \in WatchRecord /\ WatchOk(y, st)
  BY <1>1, WatchIs
<1>3. z \in WatchRecord /\ WatchOk(z, st) /\ z.doc = y.doc
  BY <1>1, <1>2, SampleFx
<1>4. PICK fs \in Seq(Frame) : fs = z.pending
  BY <1>3 DEF WatchRecord
<1>5. PICK n \in Nat : n = Len(fs)
  OBVIOUS
<1>6. PICK r : r = (z.replays /\ \A k \in 1..n : fs[k].whole \/ fs[k].from = (IF k = 1 THEN z.rev ELSE fs[k - 1].rev))
  OBVIOUS
<1>7. r = TRUE
  BY <1>3, <1>4, <1>5, <1>6 DEF WatchOk, WatchKept, Chain
<1>8. PICK x : x = IF Stopped(z) THEN z
                   ELSE IF n = 0 THEN [z EXCEPT !.at = "started"]
                   ELSE [z EXCEPT !.at = "started", !.pending = <<>>, !.rev = fs[n].rev, !.replays = r]
  OBVIOUS
<1>9. z.at = "held"
  BY <1>1 DEF StartWatch
<1>10. x \in WatchRecord /\ WatchOk(x, st) /\ x.doc = y.doc
  <2>1. CASE Stopped(z)
    BY <1>3, <1>8, <2>1
  <2>2. CASE ~Stopped(z) /\ n = 0
    <3>1. fs = <<>>
      BY <1>5, <2>2, EmptySeq
    <3>2. x = [z EXCEPT !.at = "started"]
      BY <1>8, <2>2
    <3>3. /\ x \in WatchRecord /\ x.doc = z.doc /\ x.at = "started" /\ x.registered = z.registered /\ x.end = z.end
          /\ x.inc = z.inc /\ x.rev = z.rev /\ x.pending = z.pending /\ x.replays = z.replays
      BY <1>3, <3>2 DEF WatchRecord
    <3>. QED BY <1>3, <1>4, <1>9, <3>1, <3>3 DEF WatchOk, WatchKept, WatchAt, Stopped, LastRev
  <2>3. CASE ~Stopped(z) /\ n # 0
    <3>1. fs # <<>> /\ n \in 1..Len(fs)
      BY <1>5, <2>3, EmptySeq
    <3>a. fs[n] \in Frame
      BY <3>1, ElementOfSeq
    <3>b. fs[n].rev \in Nat
      BY <3>a DEF Frame
    <3>2. PICK e \in Seq(Frame) : e = <<>>
      BY EmptyChain
    <3>3. x = [z EXCEPT !.at = "started", !.pending = e, !.rev = fs[n].rev, !.replays = r]
      BY <1>8, <2>3, <3>2
    <3>4. PICK v \in Nat : v = fs[n].rev
      BY <3>b
    <3>5. x = [z EXCEPT !.at = "started", !.pending = e, !.rev = v, !.replays = r]
      BY <3>3, <3>4
    <3>6. /\ x \in WatchRecord /\ x.doc = z.doc /\ x.at = "started" /\ x.registered = z.registered /\ x.end = z.end
          /\ x.inc = z.inc /\ x.rev = v /\ x.pending = e /\ x.replays
      BY <1>3, <1>7, <3>5 DEF WatchRecord
    <3>7. LastRev(z) = v /\ LastRev(x) = v /\ Chain(x.pending, x.rev)
      BY <1>4, <1>5, <3>1, <3>2, <3>4, <3>6, EmptyChain DEF LastRev
    <3>. QED BY <1>3, <1>9, <3>2, <3>6, <3>7 DEF WatchOk, WatchKept, WatchAt, Stopped
  <2>. QED BY <2>1, <2>2, <2>3
<1>11. watches' = [watches EXCEPT ![w] = x] /\ UNCHANGED <<store, seq, cached_documents, job, failed>>
  BY <1>1, <1>4, <1>5, <1>6, <1>8 DEF StartWatch
<1>. QED BY <1>1, <1>10, <1>11, OneWatchDocs

(* The whole Session: types, the line and the documents. *)
Good == TypeOK /\ LineOK /\ DocsOK
Counted == closed \in BOOLEAN /\ failed \in BOOLEAN /\ close_calls \in Nat /\ admitted \in Nat

LEMMA GoodIs ==
  /\ Good <=> (Counted /\ LineOK /\ DocTypes /\ DocsOK)
  /\ Good <=> /\ TypeOK /\ SessionInv
              /\ AnsweredInOrder /\ StorageClosedLast /\ CacheCoherent /\ WatchFollows
<1>1. TypeOK /\ LineOK <=> Counted /\ LineOK /\ DocTypes
  BY DEF TypeOK, LineOK, LineTypes, Counted, DocTypes
<1>2. TypeOK => LineTypes
  BY DEF TypeOK, LineTypes
<1>. QED BY <1>1, <1>2 DEF Good, LineOK, DocsOK, SessionInv

LEMMA GoodNow ==
  ASSUME Counted', LineOK', DocTypes', DocsOK'
  PROVE  Good'
BY DEF Good, TypeOK, Counted, LineOK, LineTypes, DocTypes

(* commit(), the line reads and close() call the pump. *)
LEMMA PumpedJob ==
  ASSUME NEW pend \in Seq(Entry), NEW waiters, PumpLine(pend, waiters)
  PROVE  job' = job \/ job'.at # "storage"
<1>1. CASE pumping_commits \/ line_active
  BY <1>1 DEF PumpLine
<1>2. CASE ~(pumping_commits \/ line_active)
  <2>1. CASE pend # <<>> /\ ~failed
    <3>1. Head(pend) \in Entry /\ job' = Popped(Head(pend))
      BY <1>2, <2>1, HeadTailProperties DEF PumpLine, Advance
    <3>. QED BY <3>1, NoJobType
  <2>2. CASE ~(pend # <<>> /\ ~failed)
    BY <1>2, <2>2, NoJobType DEF PumpLine, Advance
  <2>. QED BY <2>1, <2>2
<1>. QED BY <1>1, <1>2

LEMMA AdmitStep ==
  ASSUME Good, NEW kind \in {"commit", "read"}, Admit(kind)
  PROVE  Good'
<1>0. /\ TypeOK /\ LineOK /\ DocTypes /\ DocsOK
      /\ pending_line \in Seq(Entry) /\ admitted \in Nat /\ close_waiters \in Nat /\ close_calls \in Nat
      /\ ~closed /\ ~failed /\ closed' = closed /\ failed' = failed /\ close_calls' = close_calls
      /\ closed \in BOOLEAN /\ failed \in BOOLEAN
  BY GoodIs DEF Good, Admit, TypeOK
<1>1. PICK adm \in Nat : adm = admitted + 1
  BY <1>0
<1>2. PICK e : e = [id |-> adm, kind |-> kind]
  OBVIOUS
<1>3. e \in Entry /\ e.id = adm
  BY <1>2 DEF Entry
<1>4. PICK pend : pend = Append(pending_line, e)
  OBVIOUS
<1>5. /\ pend \in Seq(Entry) /\ Len(pend) = Len(pending_line) + 1
      /\ \A k \in 1..Len(pending_line) : pend[k] = pending_line[k]
      /\ pend[Len(pending_line) + 1] = e
  BY <1>0, <1>3, <1>4, AppendProperties
<1>6. PumpLine(pend, close_waiters) /\ admitted' = adm /\ UNCHANGED <<store, seq, cached_documents, watches>>
  BY <1>1, <1>2, <1>4 DEF Admit
<1>7. PICK p \in Nat : p = Len(pending_line)
  BY <1>0
<1>8. adm - Len(pend) = admitted - Len(pending_line)
  BY <1>0, <1>1, <1>5, <1>7
<1>9. ASSUME NEW k \in 1..Len(pend) PROVE pend[k].id = (adm - Len(pend)) + k
  <2>1. CASE k \in 1..Len(pending_line)
    <3>1. pending_line[k].id = (admitted - Len(pending_line)) + k
      BY <1>0, <2>1 DEF LineOK, QueueInv
    <3>. QED BY <1>5, <1>8, <2>1, <3>1
  <2>2. CASE k = p + 1
    BY <1>0, <1>1, <1>3, <1>5, <1>7, <2>2
  <2>. QED BY <1>5, <1>7, <2>1, <2>2
<1>10. ~storage_closed
  BY <1>0 DEF LineOK, StorageClosedLast
<1>11. LineOK'
  BY <1>0, <1>5, <1>6, <1>8, <1>9, <1>10, PumpStep
<1>12. job' = job \/ job'.at # "storage"
  BY <1>5, <1>6, PumpedJob
<1>13. DocTypes' /\ DocsOK'
  BY <1>0, <1>6, <1>12, DocsSame
<1>14. Counted'
  BY <1>0, <1>6 DEF Counted
<1>. QED BY <1>11, <1>13, <1>14, GoodNow

LEMMA CloseStep ==
  ASSUME Good, Close
  PROVE  Good'
<1>0. /\ TypeOK /\ LineOK /\ DocTypes /\ DocsOK
      /\ pending_line \in Seq(Entry) /\ admitted \in Nat /\ close_waiters \in Nat /\ close_calls \in Nat
      /\ closed' = TRUE /\ failed' = failed /\ close_calls' = close_calls + 1 /\ failed \in BOOLEAN
      /\ admitted' = admitted /\ UNCHANGED <<store, seq, cached_documents, watches>>
  BY GoodIs DEF Good, Close, TypeOK
<1>1. PICK m \in Nat : m = close_waiters + 1
  BY <1>0
<1>2. PumpLine(pending_line, m)
  BY <1>1 DEF Close
<1>3. \A k \in 1..Len(pending_line) : pending_line[k].id = (admitted - Len(pending_line)) + k
  BY <1>0 DEF LineOK, QueueInv
<1>4. storage_closed => pending_line = <<>>
  BY <1>0 DEF LineOK, StorageClosedLast, AnsweredInOrder
<1>5. LineOK'
  BY <1>0, <1>2, <1>3, <1>4, PumpStep
<1>6. job' = job \/ job'.at # "storage"
  BY <1>0, <1>2, PumpedJob
<1>7. DocTypes' /\ DocsOK'
  BY <1>0, <1>6, DocsSame
<1>8. Counted'
  BY <1>0 DEF Counted
<1>. QED BY <1>5, <1>7, <1>8, GoodNow

LEMMA CompleteStep ==
  ASSUME Good, Complete
  PROVE  Good'
<1>0. /\ TypeOK /\ LineOK /\ DocTypes /\ DocsOK /\ LineInv /\ QueueInv /\ Ordered(answers)
      /\ pending_line \in Seq(Entry) /\ admitted \in Nat /\ close_waiters \in Nat /\ close_calls \in Nat
      /\ storage_closed \in BOOLEAN /\ answers \in Seq(Answered) /\ job \in JobRecord
      /\ closed' = closed /\ failed' = failed /\ close_calls' = close_calls /\ failed \in BOOLEAN /\ closed \in BOOLEAN
      /\ admitted' = admitted /\ UNCHANGED <<store, seq, cached_documents, watches>> /\ job.at = "done"
  BY GoodIs DEF Good, Complete, TypeOK, LineOK, AnsweredInOrder
<1>1. line_active /\ ~storage_closed /\ (failed => closed)
  BY <1>0 DEF LineInv, LineOK, StorageClosedLast, Idle
<1>2. PICK a : a = Answer(job, job.result)
  OBVIOUS
<1>3. a \in Answered /\ a.id = job.id /\ a.result = job.result
  <2>1. job.id \in Nat /\ job.result \in {"ok", "error", "rejected", "storage"}
    BY <1>0 DEF JobRecord, LineInv
  <2>. QED BY <1>2, <2>1 DEF Answer, Answered
<1>4. PICK given : given = Append(answers, a)
  OBVIOUS
<1>5. \A k \in 1..Len(answers) : answers[k].id < a.id \/ (a.result = "storage" /\ answers[k].id # a.id)
  BY <1>0, <1>1, <1>3 DEF QueueInv
<1>6. /\ given \in Seq(Answered) /\ Len(given) = Len(answers) + 1 /\ Ordered(given)
      /\ \A k \in 1..Len(given) : (k \in 1..Len(answers) /\ given[k] = answers[k]) \/ given[k] = a
  <2>1. PICK ans \in Seq(Answered) : ans = answers
    BY <1>0
  <2>2. Ordered(ans) /\ given = Append(ans, a) /\ a \in Answered /\ Follows(ans, a)
    BY <1>0, <1>3, <1>4, <1>5, <2>1 DEF Follows
  <2>3. Extended(ans, a, given)
    BY <2>2, AnsweredOrder
  <2>. QED BY <2>1, <2>3 DEF Extended
<1>7. PICK p \in Nat, q \in Nat : p = Len(pending_line) /\ q = Len(answers)
  BY <1>0
<1>8. Len(given) + Len(pending_line) = admitted
  <2>1. q + 1 + p = admitted
    BY <1>0, <1>1, <1>7 DEF QueueInv
  <2>. QED BY <1>6, <1>7, <2>1
<1>9. \A k \in 1..Len(given) : given[k].id <= admitted - Len(pending_line)
  BY <1>0, <1>1, <1>3, <1>6 DEF QueueInv
<1>10. \A k \in 1..Len(pending_line) : pending_line[k].id = (admitted - Len(pending_line)) + k
  BY <1>0 DEF QueueInv
<1>11. Advance(pending_line, given)
  BY <1>2, <1>4 DEF Complete
<1>12. LineOK'
  BY <1>0, <1>1, <1>6, <1>8, <1>9, <1>10, <1>11, AdvanceStep
<1>13. job'.at # "storage"
  <2>1. CASE pending_line # <<>> /\ ~failed
    <3>1. Head(pending_line) \in Entry /\ job' = Popped(Head(pending_line))
      BY <1>0, <1>11, <2>1, HeadTailProperties DEF Advance
    <3>. QED BY <3>1, NoJobType
  <2>2. CASE ~(pending_line # <<>> /\ ~failed)
    BY <1>11, <2>2, NoJobType DEF Advance
  <2>. QED BY <2>1, <2>2
<1>14. DocTypes' /\ DocsOK'
  BY <1>0, <1>13, DocsSame
<1>15. Counted'
  BY <1>0 DEF Counted
<1>. QED BY <1>12, <1>14, <1>15, GoodNow

(* The active job runs, reaches the storage, is detached or settles. *)
LEMMA JobStep ==
  ASSUME Good, \/ RunRead \/ Settle \/ SettleFailed \/ Detach
               \/ \E v \in Versions, touch \in [Docs -> Touches], cp, table \in BOOLEAN :
                    RunCommit(v, touch, cp, table)
  PROVE  Good'
<1>0. /\ TypeOK /\ LineOK /\ DocTypes /\ DocsOK /\ LineInv /\ job \in JobRecord
      /\ closed \in BOOLEAN /\ failed \in BOOLEAN /\ pumping_commits \in BOOLEAN /\ close_calls \in Nat /\ admitted \in Nat
  BY GoodIs DEF Good, TypeOK, LineOK
<1>1. CASE RunRead
  <2>1. PICK r \in {"ok", "error"} : job' = Settled(job, r)
    BY <1>1 DEF RunRead
  <2>2. job' \in JobRecord /\ job'.id = job.id /\ job'.at = "done" /\ job'.result = r
    BY <1>0, <2>1 DEF Settled, JobRecord
  <2>3. ~failed /\ job.at = "run"
    BY <1>0, <1>1 DEF RunRead, LineInv
  <2>4. LineOK'
    BY <1>0, <1>1, <2>2, <2>3, JobMoves DEF RunRead
  <2>5. DocTypes' /\ DocsOK'
    BY <1>0, <1>1, <2>2, DocsSame DEF RunRead
  <2>6. Counted'
    BY <1>0, <1>1 DEF RunRead, Counted
  <2>. QED BY <2>4, <2>5, <2>6, GoodNow
<1>2. CASE Settle
  <2>1. job' = Settled(job, "ok")
    BY <1>2 DEF Settle
  <2>2. job' \in JobRecord /\ job'.id = job.id /\ job'.at = "done" /\ job'.result = "ok"
    BY <1>0, <2>1 DEF Settled, JobRecord
  <2>3. ~failed /\ job.at = "storage"
    BY <1>0, <1>2 DEF Settle, LineInv
  <2>4. LineOK'
    BY <1>0, <1>2, <2>2, <2>3, JobMoves DEF Settle
  <2>5. DocTypes' /\ DocsOK'
    BY <1>0, <1>2, SettleDocs
  <2>6. Counted'
    BY <1>0, <1>2 DEF Settle, Counted
  <2>. QED BY <2>4, <2>5, <2>6, GoodNow
<1>3. CASE SettleFailed
  <2>1. job' = Settled(job, "storage")
    BY <1>3 DEF SettleFailed
  <2>2. job' \in JobRecord /\ job'.id = job.id /\ job'.at = "done" /\ job'.result = "storage"
    BY <1>0, <2>1 DEF Settled, JobRecord
  <2>3. ~failed /\ job.at = "storage"
    BY <1>0, <1>3 DEF SettleFailed, LineInv
  <2>4. LineOK'
    BY <1>0, <1>3, <2>2, <2>3, JobMoves DEF SettleFailed
  <2>5. DocTypes' /\ DocsOK'
    BY <1>0, <1>3, <2>2, DocsSame DEF SettleFailed
  <2>6. Counted'
    BY <1>0, <1>3 DEF SettleFailed, Counted
  <2>. QED BY <2>4, <2>5, <2>6, GoodNow
<1>4. CASE Detach
  <2>1. job' = job /\ job.at = "storage" /\ ~failed /\ job.result = "none"
    BY <1>0, <1>4 DEF Detach, LineInv
  <2>2. LineOK'
    BY <1>0, <1>4, <2>1, JobMoves DEF Detach
  <2>3. DocTypes' /\ DocsOK'
    BY <1>0, <1>4, <2>1, DocsSame DEF Detach
  <2>4. Counted'
    BY <1>0, <1>4 DEF Detach, Counted
  <2>. QED BY <2>2, <2>3, <2>4, GoodNow
<1>5. ASSUME NEW v \in Versions, NEW touch \in [Docs -> Touches], NEW cp \in BOOLEAN, NEW table \in BOOLEAN,
             RunCommit(v, touch, cp, table)
      PROVE  Good'
  <2>1. /\ DocTypes' /\ DocsOK' /\ job' \in JobRecord /\ job'.id = job.id
        /\ job'.at \in {"storage", "done"} /\ (job'.at = "done" <=> job'.result # "none")
    BY <1>0, <1>5, RunCommitDocs
  <2>2. /\ job.at = "run" /\ UNCHANGED <<pending_line, line_active, pumping_commits, closed, failed, storage_closed,
                                         close_waiters, close_calls, admitted, answers>>
    BY <1>5 DEF RunCommit
  <2>3. ~failed
    BY <1>0, <2>2 DEF LineInv
  <2>4. LineOK'
    BY <1>0, <2>1, <2>2, <2>3, JobMoves
  <2>5. Counted'
    BY <1>0, <2>2 DEF Counted
  <2>. QED BY <2>1, <2>4, <2>5, GoodNow
<1>. QED BY <1>1, <1>2, <1>3, <1>4, <1>5

(* Reads and watches leave the line. *)
LEMMA ReadStep ==
  ASSUME Good, \/ \E d \in Docs, v \in Versions : Snapshot(d, v)
               \/ \E w \in Watchers : \/ \E d \in Docs, v \in Versions : WatchDoc(w, d, v)
                                      \/ StartWatch(w) \/ StopWatch(w) \/ CancelWatch(w)
  PROVE  Good'
<1>0. TypeOK /\ LineOK /\ DocsOK /\ Counted
  BY GoodIs DEF Good
<1>1. DocTypes' /\ DocsOK'
  BY <1>0, SnapshotDocs, WatchDocDocs, StartWatchDocs, StopWatchDocs, CancelWatchDocs
<1>2. UNCHANGED <<pending_line, line_active, pumping_commits, job, closed, failed, storage_closed,
                  close_waiters, close_calls, admitted, answers>>
  BY DEF Snapshot, WatchDoc, StartWatch, StopWatch, CancelWatch
<1>3. LineOK'
  BY <1>0, <1>2, LineSame
<1>4. Counted'
  BY <1>0, <1>2 DEF Counted
<1>. QED BY <1>1, <1>3, <1>4, GoodNow

LEMMA GoodInit == Init => Good
<1>. SUFFICES ASSUME Init PROVE Good
  OBVIOUS
<1>1. NoJob \in JobRecord /\ NoJob.at = "none" /\ NoJob.result = "none"
  BY NoJobType
<1>2. Unwatched \in WatchRecord /\ \A st : WatchOk(Unwatched, st)
  <2>1. PICK u : u = Unwatched
    OBVIOUS
  <2>2. /\ u \in WatchRecord /\ u.pending = <<>> /\ u.replays /\ u.end = "none" /\ u.at = "none" /\ ~u.registered
    BY <2>1, EmptyChain DEF Unwatched, WatchRecord
  <2>3. WatchKept(u)
    BY <2>2, EmptyChain DEF WatchKept
  <2>. QED BY <2>1, <2>2, <2>3 DEF WatchOk, WatchAt
<1>3. TypeOK
  BY <1>1, <1>2, EmptySeq, Blanks DEF Init, TypeOK
<1>4. LineOK
  <2>1. LineTypes
    BY <1>3 DEF TypeOK, LineTypes
  <2>2. LineInv
    BY <1>1 DEF Init, LineInv, Idle
  <2>3. QueueInv /\ AnsweredInOrder /\ StorageClosedLast
    BY EmptySeq DEF Init, QueueInv, AnsweredInOrder, StorageClosedLast, Idle, Ordered
  <2>. QED BY <2>1, <2>2, <2>3 DEF LineOK
<1>5. DocsOK
  <2>1. StoreInv /\ CacheCoherent
    BY Blanks DEF Init, StoreInv, CacheCoherent
  <2>2. StagedInv
    BY <1>1 DEF Init, StagedInv
  <2>3. FramesInv /\ WatchFollows
    BY <1>2, WatchesOk DEF Init
  <2>. QED BY <2>1, <2>2, <2>3 DEF DocsOK
<1>. QED BY <1>3, <1>4, <1>5 DEF Good

LEMMA GoodStep == Good /\ [Next]_vars => Good'
<1>. SUFFICES ASSUME Good, [Next]_vars PROVE Good'
  OBVIOUS
<1>1. CASE Line \/ Detach
  BY <1>1, JobStep, CompleteStep DEF Line
<1>2. CASE Host
  BY <1>2, AdmitStep, CloseStep, ReadStep DEF Host
<1>3. CASE UNCHANGED vars
  <2>1. TypeOK /\ LineOK /\ DocsOK /\ Counted /\ DocTypes
    BY GoodIs DEF Good
  <2>2. LineOK'
    BY <1>3, <2>1, LineSame
  <2>3. DocTypes' /\ DocsOK'
    BY <1>3, <2>1, DocsSame
  <2>4. Counted'
    BY <1>3, <2>1 DEF Counted
  <2>. QED BY <2>2, <2>3, <2>4, GoodNow
<1>. QED BY <1>1, <1>2, <1>3 DEF Next

LEMMA AlwaysGood == Spec => []Good
BY GoodInit, GoodStep, PTL DEF Spec

(* The Session keeps its types, the queue of the line, the agreement of a   *)
(* staged batch with the storage and the chains of waiting frames, through  *)
(* commits, failures, close() and callbacks that call back: the inductive   *)
(* invariant.                                                               *)
THEOREM SessionCorrect ==
  Spec => [](TypeOK /\ SessionInv)
<1>1. Good => TypeOK /\ SessionInv
  BY GoodIs
<1>. QED BY <1>1, AlwaysGood, PTL

(* Completions are called once each, in admission order (only the job that  *)
(* failed the Session is overtaken), and an idle line has answered all.     *)
THEOREM AnswersInOrder ==
  Spec => []AnsweredInOrder
<1>1. Good => AnsweredInOrder
  BY GoodIs
<1>. QED BY <1>1, AlwaysGood, PTL

(* finish_close_if_ready closes the storage last: nothing active, queued or *)
(* unanswered, and no close() left waiting.                                 *)
THEOREM StorageClosesLast ==
  Spec => []StorageClosedLast
<1>1. Good => StorageClosedLast
  BY GoodIs
<1>. QED BY <1>1, AlwaysGood, PTL

(* cached_documents never serves what is not the storage's incarnation,     *)
(* revision and stored version.                                             *)
THEOREM CacheStaysCoherent ==
  Spec => []CacheCoherent
<1>1. Good => CacheCoherent
  BY GoodIs
<1>. QED BY <1>1, AlwaysGood, PTL

(* A watch replays its frames and follows the incarnation it was acquired   *)
(* for, to its retirement and not beyond.                                   *)
THEOREM WatchesFollow ==
  Spec => []WatchFollows
<1>1. Good => WatchFollows
  BY GoodIs
<1>. QED BY <1>1, AlwaysGood, PTL
=============================================================================
