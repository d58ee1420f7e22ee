-------------------------- MODULE AgentInputProofs --------------------------
(***************************************************************************)
(* What becomes of the messages the host hands to the Agent, and of the     *)
(* tool calls of its replies: theorems about AgentLoop for every bound.     *)
(***************************************************************************)
EXTENDS AgentLoopProofs

(* The messages of a vector, under the operations the model applies to it.  *)
LEMMA ElsConcat ==
  ASSUME NEW s \in Seq(Message), NEW t \in Seq(Message), NEW u, u = s \o t
  PROVE  Els(u) = Els(s) \cup Els(t)
<1>1. /\ u \in Seq(Message) /\ Len(u) = Len(s) + Len(t)
      /\ \A k \in 1..Len(s) + Len(t) : u[k] = IF k <= Len(s) THEN s[k] ELSE t[k - Len(s)]
  BY ConcatProperties
<1>2. Len(s) \in Nat /\ Len(t) \in Nat
  OBVIOUS
<1>3. DOMAIN s = 1..Len(s) /\ DOMAIN t = 1..Len(t) /\ DOMAIN u = 1..(Len(s) + Len(t))
  BY <1>1
<1>4. ASSUME NEW k \in 1..(Len(s) + Len(t)) PROVE u[k] \in Els(s) \cup Els(t)
  <2>1. CASE k <= Len(s)
    BY <1>1, <1>2, <1>3, <2>1 DEF Els
  <2>2. CASE k > Len(s)
    <3>1. k - Len(s) \in 1..Len(t)
      BY <1>2, <2>2
    <3>. QED BY <1>1, <1>2, <1>3, <2>2, <3>1 DEF Els
  <2>. QED BY <1>2, <2>1, <2>2
<1>5. ASSUME NEW k \in 1..Len(s) PROVE s[k] \in Els(u)
  <2>1. k \in 1..(Len(s) + Len(t)) /\ k <= Len(s)
    BY <1>2
  <2>. QED BY <1>1, <1>3, <2>1 DEF Els
<1>6. ASSUME NEW k \in 1..Len(t) PROVE t[k] \in Els(u)
  <2>1. Len(s) + k \in 1..(Len(s) + Len(t)) /\ ~(Len(s) + k <= Len(s)) /\ (Len(s) + k) - Len(s) = k
    BY <1>2
  <2>2. u[Len(s) + k] = t[k]
    BY <1>1, <2>1
  <2>. QED BY <1>3, <2>1, <2>2 DEF Els
<1>. QED BY <1>3, <1>4, <1>5, <1>6, ZenonT(60) DEF Els

LEMMA ElsOne ==
  ASSUME NEW m \in Message
  PROVE  Els(<<m>>) = {m} /\ Chained(<<m>>) /\ Els(<<>>) = {} /\ Chained(<<>>)
BY DEF Els, Chained

LEMMA ElsAppend ==
  ASSUME NEW s \in Seq(Message), NEW m \in Message, NEW u, u = Append(s, m)
  PROVE  u \in Seq(Message) /\ Els(u) = Els(s) \cup {m}
<1>0. u = s \o <<m>> /\ <<m>> \in Seq(Message)
  BY AppendIsConcat
<1>1. PICK one \in Seq(Message) : one = <<m>> /\ u = s \o one
  BY <1>0
<1>2. Els(one) = {m}
  BY <1>1, ElsOne
<1>3. Els(u) = Els(s) \cup Els(one)
  BY <1>1, ElsConcat
<1>. QED BY <1>2, <1>3

LEMMA ChainConcat ==
  ASSUME NEW s \in Seq(Message), NEW t \in Seq(Message), NEW u, u = s \o t,
         Chained(s), Chained(t), Precedes(s, t)
  PROVE  Chained(u)
<1>1. /\ Len(u) = Len(s) + Len(t) /\ DOMAIN u = 1..(Len(s) + Len(t))
      /\ \A k \in 1..Len(s) + Len(t) : u[k] = IF k <= Len(s) THEN s[k] ELSE t[k - Len(s)]
      /\ DOMAIN s = 1..Len(s) /\ DOMAIN t = 1..Len(t)
  BY ConcatProperties
<1>2. Len(s) \in Nat /\ Len(t) \in Nat
  OBVIOUS
<1>. SUFFICES ASSUME NEW j \in 1..(Len(s) + Len(t)), NEW k \in 1..(Len(s) + Len(t)), j < k
              PROVE  Follows(u[j], u[k])
  BY <1>1 DEF Chained
<1>3. CASE k <= Len(s)
  <2>1. j \in 1..Len(s) /\ k \in 1..Len(s) /\ u[j] = s[j] /\ u[k] = s[k]
    BY <1>1, <1>2, <1>3
  <2>. QED BY <1>1, <2>1 DEF Chained
<1>4. CASE j <= Len(s) /\ k > Len(s)
  <2>1. j \in 1..Len(s) /\ k - Len(s) \in 1..Len(t) /\ u[j] = s[j] /\ u[k] = t[k - Len(s)]
    BY <1>1, <1>2, <1>4
  <2>2. u[j] \in Els(s) /\ u[k] \in Els(t)
    BY <1>1, <2>1 DEF Els
  <2>. QED BY <2>2 DEF Precedes
<1>5. CASE j > Len(s)
  <2>1. /\ j - Len(s) \in 1..Len(t) /\ k - Len(s) \in 1..Len(t) /\ j - Len(s) < k - Len(s)
        /\ u[j] = t[j - Len(s)] /\ u[k] = t[k - Len(s)]
    BY <1>1, <1>2, <1>5
  <2>. QED BY <1>1, <2>1 DEF Chained
<1>. QED BY <1>2, <1>3, <1>4, <1>5

LEMMA ChainAppend ==
  ASSUME NEW s \in Seq(Message), NEW m \in Message, NEW u, u = Append(s, m),
         Chained(s), \A x \in Els(s) : Follows(x, m)
  PROVE  Chained(u)
<1>0. u = s \o <<m>> /\ <<m>> \in Seq(Message)
  BY AppendIsConcat
<1>1. PICK one \in Seq(Message) : one = <<m>> /\ u = s \o one
  BY <1>0
<1>2. Els(one) = {m} /\ Chained(one)
  BY <1>1, ElsOne
<1>3. Precedes(s, one)
  BY <1>2 DEF Precedes
<1>. QED BY <1>1, <1>2, <1>3, ChainConcat

(* A vector is its first message and the rest, in this order. *)
LEMMA ChainTail ==
  ASSUME NEW s \in Seq(Message), s # <<>>, NEW h, h = Head(s), NEW t, t = Tail(s)
  PROVE  /\ h \in Message /\ t \in Seq(Message) /\ Els(s) = {h} \cup Els(t)
         /\ Chained(s) => Chained(t) /\ \A y \in Els(t) : Follows(h, y)
<1>1. /\ h \in Message /\ t \in Seq(Message) /\ h = s[1] /\ Len(t) = Len(s) - 1
      /\ \A k \in 1..Len(t) : t[k] = s[k + 1]
  BY HeadTailProperties
<1>2. Len(s) \in Nat /\ Len(s) >= 1 /\ DOMAIN s = 1..Len(s) /\ DOMAIN t = 1..Len(t)
  BY <1>1, EmptySeq
<1>0. s = <<h>> \o t /\ <<h>> \in Seq(Message)
  BY <1>1, <1>2, HeadTailProperties, ConcatProperties
<1>3. PICK one \in Seq(Message) : one = <<h>> /\ s = one \o t
  BY <1>0
<1>4. Els(s) = {h} \cup Els(t)
  <2>1. Els(one) = {h}
    BY <1>1, <1>3, ElsOne
  <2>2. Els(s) = Els(one) \cup Els(t)
    BY <1>1, <1>3, ElsConcat
  <2>. QED BY <2>1, <2>2
<1>5. ASSUME NEW k \in DOMAIN t PROVE t[k] = s[k + 1] /\ k + 1 \in DOMAIN s /\ 1 < k + 1 /\ 1 \in DOMAIN s
  BY <1>1, <1>2, <1>5
<1>6. ASSUME Chained(s) PROVE Chained(t)
  <2>. SUFFICES ASSUME NEW j \in DOMAIN t, NEW k \in DOMAIN t, j < k PROVE Follows(t[j], t[k])
    BY DEF Chained
  <2>1. j + 1 < k + 1
    BY <1>2
  <2>. QED BY <1>5, <1>6, <2>1 DEF Chained
<1>7. ASSUME Chained(s), NEW y \in Els(t) PROVE Follows(h, y)
  BY <1>1, <1>5, <1>7 DEF Chained, Els
<1>. QED BY <1>1, <1>4, <1>6, <1>7

(* drain splits a queue in order. *)
LEMMA DrainSplits ==
  ASSUME NEW q \in Seq(Message), NEW mode, NEW a, a = Drained(q, mode), NEW b, b = Remains(q, mode),
         Chained(q)
  PROVE  /\ a \in Seq(Message) /\ b \in Seq(Message) /\ Els(q) = Els(a) \cup Els(b)
         /\ Chained(a) /\ Chained(b) /\ Precedes(a, b)
<1>1. CASE q = <<>> \/ mode = "All"
  <2>1. a = q /\ b = <<>>
    BY <1>1 DEF Drained, Remains
  <2>2. Els(b) = {} /\ Chained(b) /\ b \in Seq(Message)
    BY <2>1 DEF Els, Chained
  <2>. QED BY <2>1, <2>2 DEF Precedes
<1>2. CASE ~(q = <<>> \/ mode = "All")
  <2>1. a = <<Head(q)>> /\ b = Tail(q) /\ q # <<>>
    BY <1>2 DEF Drained, Remains
  <2>2. PICK h : h = Head(q)
    OBVIOUS
  <2>3. /\ h \in Message /\ b \in Seq(Message) /\ Els(q) = {h} \cup Els(b)
        /\ Chained(b) /\ \A y \in Els(b) : Follows(h, y)
    BY <2>1, <2>2, ChainTail, ZenonT(60)
  <2>4. Els(a) = {h} /\ Chained(a) /\ a \in Seq(Message)
    BY <2>1, <2>2, <2>3, ElsOne
  <2>. QED BY <2>3, <2>4 DEF Precedes
<1>. QED BY <1>1, <1>2

(* The ids of a vector are those of its messages. *)
LEMMA IdsOf ==
  ASSUME NEW s \in Seq(Message)
  PROVE  /\ Ids(s) = {x.id : x \in Els(s)} \ {0}
         /\ \A x \in Els(s) : x \in Message
<1>1. \A k \in DOMAIN s : s[k] \in Message
  BY ElementOfSeq
<1>. QED BY <1>1 DEF Ids, Els

Merges(u, s, t) == Els(u) = Els(s) \cup Els(t)
LEMMA IdsUnion ==
  ASSUME NEW s \in Seq(Message), NEW t \in Seq(Message), NEW u \in Seq(Message), Merges(u, s, t)
  PROVE  Ids(u) = Ids(s) \cup Ids(t)
BY IdsOf DEF Merges

LEMMA IdsApart ==
  ASSUME NEW s \in Seq(Message), NEW t \in Seq(Message), Precedes(s, t)
  PROVE  Ids(s) \cap Ids(t) = {}
<1>. SUFFICES ASSUME NEW x \in Els(s), NEW y \in Els(t), x.id = y.id, x.id # 0 PROVE FALSE
  BY IdsOf
<1>1. Follows(x, y)
  BY DEF Precedes
<1>. QED BY <1>1 DEF Follows

(* One message more. *)
Gains(u, s, m) == Els(u) = Els(s) \cup {m}
LEMMA IdsOneMore ==
  ASSUME NEW s \in Seq(Message), NEW m \in Message, NEW u \in Seq(Message), Gains(u, s, m)
  PROVE  Ids(u) = Ids(s) \cup ({m.id} \ {0})
BY IdsOf DEF Gains

(* Two vectors put together. *)
LEMMA Joined ==
  ASSUME NEW s \in Seq(Message), NEW t \in Seq(Message), NEW u, u = s \o t,
         Chained(s), Chained(t), Precedes(s, t)
  PROVE  u \in Seq(Message) /\ Els(u) = Els(s) \cup Els(t) /\ Chained(u) /\ Ids(u) = Ids(s) \cup Ids(t)
<1>1. u \in Seq(Message)
  BY ConcatProperties
<1>2. Els(u) = Els(s) \cup Els(t)
  BY ElsConcat
<1>3. Chained(u)
  BY ChainConcat
<1>4. Ids(u) = Ids(s) \cup Ids(t)
  BY <1>1, <1>2, IdsUnion DEF Merges
<1>. QED BY <1>1, <1>2, <1>3, <1>4

(* The accounts of the Agent's four vectors. *)
Sound(m, p, s, f, gone, n) ==
  /\ m \in Seq(Message) /\ p \in Seq(Message) /\ s \in Seq(Message) /\ f \in Seq(Message)
  /\ n \in Nat /\ n >= 1
  /\ Sources(m, p, s, f) /\ Orderly(m, p, s, f) /\ Accounted(m, p, s, f, gone, n)

(* A message without an id at the end of the transcript. *)
LEMMA SoundAppend ==
  ASSUME NEW m, NEW p, NEW s, NEW f, NEW gone, NEW n, Sound(m, p, s, f, gone, n),
         NEW x \in Message, x.id = 0, NEW m2, m2 = Append(m, x)
  PROVE  Sound(m2, p, s, f, gone, n)
<1>1. m2 \in Seq(Message) /\ Els(m2) = Els(m) \cup {x}
  BY ElsAppend DEF Sound
<1>2. \A y : Follows(x, y) /\ Follows(y, x)
  BY DEF Follows
<1>3. Chained(m2)
  BY <1>2, ChainAppend DEF Sound, Orderly
<1>4. Ids(m2) = Ids(m)
  <2>1. Gains(m2, m, x)
    BY <1>1 DEF Gains
  <2>2. m \in Seq(Message) /\ m2 \in Seq(Message)
    BY <1>1 DEF Sound
  <2>3. Ids(m2) = Ids(m) \cup ({x.id} \ {0})
    BY <2>1, <2>2, IdsOneMore
  <2>. QED BY <2>3
<1>5. Sources(m2, p, s, f) /\ Orderly(m2, p, s, f)
  BY <1>1, <1>2, <1>3 DEF Sound, Sources, Orderly, Precedes
<1>. QED BY <1>1, <1>4, <1>5 DEF Sound, Accounted, AllIds

(* append_message_with_lifecycle of the first pending message. *)
LEMMA SoundMove ==
  ASSUME NEW m, NEW p, NEW s, NEW f, NEW gone, NEW n, Sound(m, p, s, f, gone, n), p # <<>>,
         NEW m2, m2 = Append(m, Head(p)), NEW p2, p2 = Tail(p)
  PROVE  Sound(m2, p2, s, f, gone, n)
<1>1. PICK h : h = Head(p)
  OBVIOUS
<1>2. /\ h \in Message /\ p2 \in Seq(Message) /\ Els(p) = {h} \cup Els(p2)
      /\ Chained(p2) /\ \A y \in Els(p2) : Follows(h, y)
  BY <1>1, ChainTail DEF Sound, Orderly
<1>3. m2 \in Seq(Message) /\ Els(m2) = Els(m) \cup {h}
  BY <1>1, <1>2, ElsAppend, ZenonT(60) DEF Sound
<1>4. \A x \in Els(m) : Follows(x, h)
  BY <1>2 DEF Sound, Orderly, Precedes
<1>5. Chained(m2)
  BY <1>1, <1>2, <1>4, ChainAppend DEF Sound, Orderly
<1>6. Ids(m2) = Ids(m) \cup ({h.id} \ {0}) /\ Ids(p) = Ids(p2) \cup ({h.id} \ {0})
  <2>1. Gains(m2, m, h) /\ Gains(p, p2, h)
    BY <1>2, <1>3 DEF Gains
  <2>2. m \in Seq(Message) /\ p \in Seq(Message) /\ m2 \in Seq(Message) /\ p2 \in Seq(Message) /\ h \in Message
    BY <1>2, <1>3 DEF Sound
  <2>3. Ids(m2) = Ids(m) \cup ({h.id} \ {0})
    BY <2>1, <2>2, IdsOneMore
  <2>4. Ids(p) = Ids(p2) \cup ({h.id} \ {0})
    BY <2>1, <2>2, IdsOneMore
  <2>. QED BY <2>3, <2>4
<1>7. Orderly(m2, p2, s, f)
  BY <1>2, <1>3, <1>5 DEF Sound, Orderly, Precedes
<1>8. Sources(m2, p2, s, f)
  BY <1>2, <1>3 DEF Sound, Sources
<1>9. Accounted(m2, p2, s, f, gone, n)
  BY <1>6 DEF Sound, Accounted, AllIds
<1>. QED BY <1>2, <1>3, <1>7, <1>8, <1>9 DEF Sound

(* A poll of the steering queue. *)
LEMMA SoundSteering ==
  ASSUME NEW m, NEW p, NEW s, NEW f, NEW gone, NEW n, Sound(m, p, s, f, gone, n),
         NEW mode, NEW p2, p2 = p \o Drained(s, mode), NEW s2, s2 = Remains(s, mode)
  PROVE  Sound(m, p2, s2, f, gone, n)
<1>1. PICK a : a = Drained(s, mode) /\ p2 = p \o a
  OBVIOUS
<1>2. /\ a \in Seq(Message) /\ s2 \in Seq(Message) /\ Els(s) = Els(a) \cup Els(s2)
      /\ Chained(a) /\ Chained(s2) /\ Precedes(a, s2)
  BY <1>1, DrainSplits DEF Sound, Orderly
<1>3. Precedes(p, a)
  BY <1>2 DEF Sound, Orderly, Precedes
<1>4. p2 \in Seq(Message) /\ Els(p2) = Els(p) \cup Els(a) /\ Chained(p2) /\ Ids(p2) = Ids(p) \cup Ids(a)
  <2>1. p \in Seq(Message) /\ Chained(p) /\ a \in Seq(Message) /\ Chained(a)
    BY <1>2 DEF Sound, Orderly
  <2>. QED BY <1>1, <1>3, <2>1, Joined, ZenonT(60)
<1>5. Ids(s) = Ids(a) \cup Ids(s2)
  <2>1. Merges(s, a, s2)
    BY <1>2 DEF Merges
  <2>. QED BY <1>2, <2>1, IdsUnion DEF Sound
<1>6. Orderly(m, p2, s2, f)
  BY <1>2, <1>4 DEF Sound, Orderly, Precedes
<1>7. Sources(m, p2, s2, f)
  BY <1>2, <1>4 DEF Sound, Sources
<1>8. Accounted(m, p2, s2, f, gone, n)
  BY <1>4, <1>5 DEF Sound, Accounted, AllIds
<1>. QED BY <1>2, <1>4, <1>6, <1>7, <1>8 DEF Sound

(* Messages of two different queues may follow each other either way. *)
LEMMA FollowsBoth ==
  ASSUME NEW x, NEW y, Follows(x, y), x.role # y.role
  PROVE  Follows(y, x)
BY DEF Follows

(* A poll of the follow-up queue, whatever waits in the other. *)
LEMMA SoundFollowUp ==
  ASSUME NEW m, NEW p, NEW s, NEW f, NEW gone, NEW n, Sound(m, p, s, f, gone, n),
         NEW mode, NEW p2, p2 = p \o Drained(f, mode), NEW f2, f2 = Remains(f, mode)
  PROVE  Sound(m, p2, s, f2, gone, n)
<1>1. PICK a : a = Drained(f, mode) /\ p2 = p \o a
  OBVIOUS
<1>2. /\ a \in Seq(Message) /\ f2 \in Seq(Message) /\ Els(f) = Els(a) \cup Els(f2)
      /\ Chained(a) /\ Chained(f2) /\ Precedes(a, f2)
  BY <1>1, DrainSplits DEF Sound, Orderly
<1>3. Precedes(p, a)
  BY <1>2 DEF Sound, Orderly, Precedes
<1>4. p2 \in Seq(Message) /\ Els(p2) = Els(p) \cup Els(a) /\ Chained(p2) /\ Ids(p2) = Ids(p) \cup Ids(a)
  <2>1. p \in Seq(Message) /\ Chained(p) /\ a \in Seq(Message) /\ Chained(a)
    BY <1>2 DEF Sound, Orderly
  <2>. QED BY <1>1, <1>3, <2>1, Joined, ZenonT(60)
<1>5. Ids(f) = Ids(a) \cup Ids(f2)
  <2>1. Merges(f, a, f2)
    BY <1>2 DEF Merges
  <2>. QED BY <1>2, <2>1, IdsUnion DEF Sound
<1>6. Precedes(a, s)
  <2>. SUFFICES ASSUME NEW x \in Els(a), NEW y \in Els(s) PROVE Follows(x, y)
    BY DEF Precedes
  <2>1. x \in Els(f) /\ x.role = "followUp" /\ y.role = "steering"
    BY <1>2 DEF Sound, Sources
  <2>2. Follows(y, x)
    BY <2>1 DEF Sound, Orderly, Precedes
  <2>. QED BY <2>1, <2>2, FollowsBoth
<1>7. Orderly(m, p2, s, f2)
  BY <1>2, <1>4, <1>6 DEF Sound, Orderly, Precedes
<1>8. Sources(m, p2, s, f2)
  BY <1>2, <1>4 DEF Sound, Sources
<1>9. Accounted(m, p2, s, f2, gone, n)
  BY <1>4, <1>5 DEF Sound, Accounted, AllIds
<1>. QED BY <1>2, <1>4, <1>7, <1>8, <1>9 DEF Sound

(* Messages of prepareNextTurn go first. *)
LEMMA SoundOwn ==
  ASSUME NEW m, NEW p, NEW s, NEW f, NEW gone, NEW n, Sound(m, p, s, f, gone, n),
         NEW own \in {<<>>, <<Msg("prepared", 0, 0)>>}, NEW p2, p2 = own \o p
  PROVE  Sound(m, p2, s, f, gone, n)
<1>0. Msg("prepared", 0, 0) \in Message
  BY MsgType DEF Roles
<1>1. PICK x \in Message : x = Msg("prepared", 0, 0) /\ x.id = 0 /\ x.role = "prepared"
  BY <1>0 DEF Msg
<1>2. own \in Seq(Message) /\ Els(own) \subseteq {x} /\ Chained(own)
  <2>1. CASE own = <<>>
    BY <2>1 DEF Els, Chained
  <2>2. CASE own = <<x>>
    BY <2>2, ElsOne
  <2>. QED BY <1>1, <2>1, <2>2
<1>3. \A y : Follows(x, y) /\ Follows(y, x)
  BY <1>1 DEF Follows
<1>4. Precedes(own, p)
  BY <1>2, <1>3 DEF Precedes
<1>5. p2 \in Seq(Message) /\ Els(p2) = Els(own) \cup Els(p) /\ Chained(p2)
  BY <1>2, <1>4, ElsConcat, ChainConcat, SeqType DEF Sound, Orderly
<1>6. Ids(p2) = Ids(p)
  BY <1>1, <1>2, <1>5, IdsOf, ZenonT(60) DEF Sound
<1>7. Orderly(m, p2, s, f)
  BY <1>2, <1>3, <1>5 DEF Sound, Orderly, Precedes
<1>8. Sources(m, p2, s, f)
  BY <1>1, <1>2, <1>5 DEF Sound, Sources
<1>9. Accounted(m, p2, s, f, gone, n)
  BY <1>6 DEF Sound, Accounted, AllIds
<1>. QED BY <1>5, <1>7, <1>8, <1>9 DEF Sound

(* Every id in use was handed out. *)
LEMMA IdsBelow ==
  ASSUME NEW m, NEW p, NEW s, NEW f, NEW gone, NEW n, Sound(m, p, s, f, gone, n),
         NEW x \in Els(m) \cup Els(p) \cup Els(s) \cup Els(f)
  PROVE  x \in Message /\ x.id \in Nat /\ x.id < n
<1>1. PICK v \in {m, p, s, f} : x \in Els(v)
  OBVIOUS
<1>2. v \in Seq(Message) /\ Ids(v) \subseteq 1..(n - 1)
  BY DEF Sound, Accounted, AllIds
<1>3. x \in Message /\ (x.id = 0 \/ x.id \in Ids(v))
  BY <1>1, <1>2, IdsOf
<1>. QED BY <1>2, <1>3 DEF Sound, Message

(* A message with the next id may follow whatever is there, and anything of *)
(* another kind may follow it.                                              *)
LEMMA FreshFollows ==
  ASSUME NEW m, NEW p, NEW s, NEW f, NEW gone, NEW n, Sound(m, p, s, f, gone, n), NEW x, x.id = n,
         NEW y \in Els(m) \cup Els(p) \cup Els(s) \cup Els(f)
  PROVE  Follows(y, x) /\ (x.role # y.role => Follows(x, y))
<1>1. y.id \in Nat /\ y.id < n /\ n \in Nat
  BY IdsBelow DEF Sound
<1>. QED BY <1>1 DEF Follows

(* The accounts with one id more. *)
LEMMA NextId ==
  ASSUME NEW n \in Nat, n >= 1
  PROVE  1..((n + 1) - 1) = 1..(n - 1) \cup {n} /\ n \notin 1..(n - 1) /\ n + 1 \in Nat /\ n + 1 >= 1
OBVIOUS

LEMMA AccountsGrow ==
  ASSUME NEW a, NEW b, NEW gone, NEW n \in Nat, n >= 1, a \cup gone = 1..(n - 1), a \cap gone = {},
         b = a \cup {n}
  PROVE  b \cup gone = 1..((n + 1) - 1) /\ b \cap gone = {}
BY NextId

(* steer: a message at the end of the steering queue. *)
LEMMA SoundSteer ==
  ASSUME NEW m, NEW p, NEW s, NEW f, NEW gone, NEW n, Sound(m, p, s, f, gone, n),
         NEW s2, s2 = Append(s, Msg("steering", n, 0))
  PROVE  Sound(m, p, s2, f, gone, n + 1)
<1>1. PICK x : x = Msg("steering", n, 0)
  OBVIOUS
<1>2. x \in Message /\ x.id = n /\ x.role = "steering" /\ n \in Nat /\ n # 0 /\ n >= 1
  BY <1>1, MsgType DEF Msg, Roles, Sound
<1>3. s2 \in Seq(Message) /\ Els(s2) = Els(s) \cup {x}
  BY <1>1, <1>2, ElsAppend DEF Sound
<1>4. \A y \in Els(m) \cup Els(p) \cup Els(s) \cup Els(f) : Follows(y, x) /\ (x.role # y.role => Follows(x, y))
  BY <1>2, FreshFollows
<1>5. Chained(s2)
  BY <1>1, <1>2, <1>4, ChainAppend DEF Sound, Orderly
<1>6. Sources(m, p, s2, f)
  BY <1>2, <1>3 DEF Sound, Sources
<1>7. \A y \in Els(f) : Follows(x, y)
  BY <1>2, <1>4 DEF Sound, Sources
<1>8. Orderly(m, p, s2, f)
  BY <1>3, <1>4, <1>5, <1>7 DEF Sound, Orderly, Precedes
<1>9. Ids(s2) = Ids(s) \cup {n}
  <2>1. Gains(s2, s, x) /\ s \in Seq(Message)
    BY <1>3 DEF Gains, Sound
  <2>2. Ids(s2) = Ids(s) \cup ({x.id} \ {0})
    BY <1>2, <1>3, <2>1, IdsOneMore
  <2>. QED BY <1>2, <2>2
<1>10. Accounted(m, p, s2, f, gone, n + 1)
  <2>1. AllIds(m, p, s2, f) = AllIds(m, p, s, f) \cup {n}
    BY <1>9 DEF AllIds
  <2>2. AllIds(m, p, s, f) \cup gone = 1..(n - 1) /\ AllIds(m, p, s, f) \cap gone = {}
    BY DEF Accounted, Sound
  <2>. QED BY <1>2, <2>1, <2>2, AccountsGrow DEF Accounted
<1>. QED BY <1>2, <1>3, <1>6, <1>8, <1>10, NextId DEF Sound

(* follow_up: a message at the end of the follow-up queue. *)
LEMMA SoundQueued ==
  ASSUME NEW m, NEW p, NEW s, NEW f, NEW gone, NEW n, Sound(m, p, s, f, gone, n),
         NEW f2, f2 = Append(f, Msg("followUp", n, 0))
  PROVE  Sound(m, p, s, f2, gone, n + 1)
<1>1. PICK x : x = Msg("followUp", n, 0)
  OBVIOUS
<1>2. x \in Message /\ x.id = n /\ x.role = "followUp" /\ n \in Nat /\ n # 0 /\ n >= 1
  BY <1>1, MsgType DEF Msg, Roles, Sound
<1>3. f2 \in Seq(Message) /\ Els(f2) = Els(f) \cup {x}
  BY <1>1, <1>2, ElsAppend DEF Sound
<1>4. \A y \in Els(m) \cup Els(p) \cup Els(s) \cup Els(f) : Follows(y, x)
  BY <1>2, FreshFollows
<1>5. Chained(f2)
  BY <1>1, <1>2, <1>4, ChainAppend DEF Sound, Orderly
<1>6. Sources(m, p, s, f2)
  BY <1>2, <1>3 DEF Sound, Sources
<1>7. Orderly(m, p, s, f2)
  BY <1>3, <1>4, <1>5 DEF Sound, Orderly, Precedes
<1>8. Ids(f2) = Ids(f) \cup {n}
  <2>1. Gains(f2, f, x) /\ f \in Seq(Message)
    BY <1>3 DEF Gains, Sound
  <2>2. Ids(f2) = Ids(f) \cup ({x.id} \ {0})
    BY <1>2, <1>3, <2>1, IdsOneMore
  <2>. QED BY <1>2, <2>2
<1>9. Accounted(m, p, s, f2, gone, n + 1)
  <2>1. AllIds(m, p, s, f2) = AllIds(m, p, s, f) \cup {n}
    BY <1>8 DEF AllIds
  <2>2. AllIds(m, p, s, f) \cup gone = 1..(n - 1) /\ AllIds(m, p, s, f) \cap gone = {}
    BY DEF Accounted, Sound
  <2>. QED BY <1>2, <2>1, <2>2, AccountsGrow DEF Accounted
<1>. QED BY <1>2, <1>3, <1>6, <1>7, <1>9, NextId DEF Sound

(* prompt: the only pending message of a new run. *)
LEMMA SoundPrompt ==
  ASSUME NEW m, NEW s, NEW f, NEW gone, NEW n, Sound(m, <<>>, s, f, gone, n),
         NEW p2, p2 = <<Msg("prompt", n, 0)>>
  PROVE  Sound(m, p2, s, f, gone, n + 1)
<1>1. PICK x : x = Msg("prompt", n, 0)
  OBVIOUS
<1>2. x \in Message /\ x.id = n /\ x.role = "prompt" /\ n \in Nat /\ n # 0 /\ n >= 1
  BY <1>1, MsgType DEF Msg, Roles, Sound
<1>3. p2 \in Seq(Message) /\ Els(p2) = {x} /\ Chained(p2) /\ Els(<<>>) = {}
  BY <1>1, <1>2, ElsOne
<1>4. \A y \in Els(m) \cup Els(s) \cup Els(f) : Follows(y, x) /\ (x.role # y.role => Follows(x, y))
  BY <1>2, FreshFollows
<1>6. Sources(m, p2, s, f)
  BY <1>2, <1>3 DEF Sound, Sources
<1>7. \A y \in Els(s) \cup Els(f) : Follows(x, y)
  BY <1>2, <1>4 DEF Sound, Sources
<1>8. Orderly(m, p2, s, f)
  BY <1>3, <1>4, <1>7 DEF Sound, Orderly, Precedes
<1>9. Ids(p2) = {n} /\ Ids(<<>>) = {}
  BY <1>1, <1>2 DEF Ids
<1>10. Accounted(m, p2, s, f, gone, n + 1)
  <2>1. AllIds(m, p2, s, f) = AllIds(m, <<>>, s, f) \cup {n}
    BY <1>9 DEF AllIds
  <2>2. AllIds(m, <<>>, s, f) \cup gone = 1..(n - 1) /\ AllIds(m, <<>>, s, f) \cap gone = {}
    BY DEF Accounted, Sound
  <2>. QED BY <1>2, <2>1, <2>2, AccountsGrow DEF Accounted
<1>. QED BY <1>2, <1>3, <1>6, <1>8, <1>10, NextId DEF Sound

(* No two vectors share an id. *)
LEMMA Apart ==
  ASSUME NEW m, NEW p, NEW s, NEW f, NEW gone, NEW n, Sound(m, p, s, f, gone, n)
  PROVE  /\ Ids(m) \cap Ids(p) = {} /\ Ids(m) \cap Ids(s) = {} /\ Ids(m) \cap Ids(f) = {}
         /\ Ids(p) \cap Ids(s) = {} /\ Ids(p) \cap Ids(f) = {} /\ Ids(s) \cap Ids(f) = {}
BY IdsApart DEF Sound, Orderly

LEMMA EmptyVector ==
  <<>> \in Seq(Message) /\ Els(<<>>) = {} /\ Chained(<<>>) /\ Ids(<<>>) = {}
BY DEF Els, Chained, Ids

(* What is removed is accounted for as gone. *)
LEMMA AccountsMove ==
  ASSUME NEW whole, NEW rest, NEW x, NEW gone, NEW r, whole = rest \cup x, rest \cap x = {},
         whole \cup gone = r, whole \cap gone = {}
  PROVE  rest \cup (gone \cup x) = r /\ rest \cap (gone \cup x) = {}
OBVIOUS

LEMMA SoundDropped ==
  ASSUME NEW m, NEW p, NEW s, NEW f, NEW gone, NEW n, Sound(m, p, s, f, gone, n)
  PROVE  Sound(m, <<>>, s, f, gone \cup Ids(p), n)
<1>1. Sources(m, <<>>, s, f) /\ Orderly(m, <<>>, s, f)
  BY EmptyVector DEF Sound, Sources, Orderly, Precedes
<1>2. Accounted(m, <<>>, s, f, gone \cup Ids(p), n)
  <2>1. /\ AllIds(m, p, s, f) = AllIds(m, <<>>, s, f) \cup Ids(p)
        /\ AllIds(m, <<>>, s, f) \cap Ids(p) = {}
    BY Apart, EmptyVector DEF AllIds
  <2>2. AllIds(m, p, s, f) \cup gone = 1..(n - 1) /\ AllIds(m, p, s, f) \cap gone = {}
    BY DEF Sound, Accounted
  <2>. QED BY <2>1, <2>2, AccountsMove DEF Accounted
<1>. QED BY <1>1, <1>2, EmptyVector DEF Sound

LEMMA SoundSteeringCleared ==
  ASSUME NEW m, NEW p, NEW s, NEW f, NEW gone, NEW n, Sound(m, p, s, f, gone, n)
  PROVE  Sound(m, p, <<>>, f, gone \cup Ids(s), n)
<1>1. Sources(m, p, <<>>, f) /\ Orderly(m, p, <<>>, f)
  BY EmptyVector DEF Sound, Sources, Orderly, Precedes
<1>2. Accounted(m, p, <<>>, f, gone \cup Ids(s), n)
  <2>1. /\ AllIds(m, p, s, f) = AllIds(m, p, <<>>, f) \cup Ids(s)
        /\ AllIds(m, p, <<>>, f) \cap Ids(s) = {}
    BY Apart, EmptyVector DEF AllIds
  <2>2. AllIds(m, p, s, f) \cup gone = 1..(n - 1) /\ AllIds(m, p, s, f) \cap gone = {}
    BY DEF Sound, Accounted
  <2>. QED BY <2>1, <2>2, AccountsMove DEF Accounted
<1>. QED BY <1>1, <1>2, EmptyVector DEF Sound

LEMMA SoundFollowUpCleared ==
  ASSUME NEW m, NEW p, NEW s, NEW f, NEW gone, NEW n, Sound(m, p, s, f, gone, n)
  PROVE  Sound(m, p, s, <<>>, gone \cup Ids(f), n)
<1>1. Sources(m, p, s, <<>>) /\ Orderly(m, p, s, <<>>)
  BY EmptyVector DEF Sound, Sources, Orderly, Precedes
<1>2. Accounted(m, p, s, <<>>, gone \cup Ids(f), n)
  <2>1. /\ AllIds(m, p, s, f) = AllIds(m, p, s, <<>>) \cup Ids(f)
        /\ AllIds(m, p, s, <<>>) \cap Ids(f) = {}
    BY Apart, EmptyVector DEF AllIds
  <2>2. AllIds(m, p, s, f) \cup gone = 1..(n - 1) /\ AllIds(m, p, s, f) \cap gone = {}
    BY DEF Sound, Accounted
  <2>. QED BY <2>1, <2>2, AccountsMove DEF Accounted
<1>. QED BY <1>1, <1>2, EmptyVector DEF Sound

(* replace_messages and reset leave the transcript alone or one that        *)
(* carries no input.                                                        *)
LEMMA SoundReplaced ==
  ASSUME NEW m, NEW p, NEW s, NEW f, NEW gone, NEW n, Sound(m, p, s, f, gone, n),
         NEW m2 \in {<<>>, <<SystemMessage>>}
  PROVE  Sound(m2, p, s, f, gone \cup Ids(m), n) /\ Ids(m2) = {}
<1>1. PICK x \in Message : x = SystemMessage /\ x.id = 0 /\ x.role = "system"
  <2>1. SystemMessage \in Message
    BY MsgType DEF SystemMessage, Roles
  <2>. QED BY <2>1 DEF SystemMessage, Msg
<1>2. m2 \in Seq(Message) /\ Els(m2) \subseteq {x} /\ Chained(m2) /\ Ids(m2) = {}
  <2>1. CASE m2 = <<>>
    BY <2>1, EmptyVector
  <2>2. CASE m2 = <<x>>
    BY <1>1, <2>2, ElsOne DEF Ids
  <2>. QED BY <1>1, <2>1, <2>2
<1>3. \A y : Follows(x, y)
  BY <1>1 DEF Follows
<1>4. Sources(m2, p, s, f)
  BY <1>1, <1>2 DEF Sound, Sources
<1>5. Orderly(m2, p, s, f)
  BY <1>2, <1>3 DEF Sound, Orderly, Precedes
<1>6. Accounted(m2, p, s, f, gone \cup Ids(m), n)
  <2>1. /\ AllIds(m, p, s, f) = AllIds(m2, p, s, f) \cup Ids(m)
        /\ AllIds(m2, p, s, f) \cap Ids(m) = {}
    BY <1>2, Apart DEF AllIds
  <2>2. AllIds(m, p, s, f) \cup gone = 1..(n - 1) /\ AllIds(m, p, s, f) \cap gone = {}
    BY DEF Sound, Accounted
  <2>. QED BY <2>1, <2>2, AccountsMove DEF Accounted
<1>. QED BY <1>2, <1>4, <1>5, <1>6 DEF Sound

(* pop_trailing_assistant: the message that goes carries no input. *)
LEMMA SoundPopped ==
  ASSUME NEW m, NEW p, NEW s, NEW f, NEW gone, NEW n, Sound(m, p, s, f, gone, n),
         m # <<>>, m[Len(m)].role = "assistant", NEW m2, m2 = SubSeq(m, 1, Len(m) - 1)
  PROVE  Sound(m2, p, s, f, gone, n)
<1>1. m \in Seq(Message) /\ Len(m) \in Nat /\ Len(m) >= 1 /\ DOMAIN m = 1..Len(m)
  BY EmptySeq DEF Sound
<1>2. /\ m2 \in Seq(Message) /\ Len(m2) = Len(m) - 1 /\ DOMAIN m2 = 1..Len(m2)
      /\ \A k \in 1..Len(m2) : m2[k] = m[k]
  BY <1>1, SubSeqProperties
<1>3. PICK x : x = m[Len(m)]
  OBVIOUS
<1>4. x \in Message /\ x \in Els(m) /\ x.id = 0
  <2>1. x \in Els(m)
    BY <1>1, <1>3 DEF Els
  <2>2. x \in Message
    BY <1>1, <2>1, IdsOf
  <2>. QED BY <1>3, <2>1, <2>2 DEF Sound, Sources
<1>5. \A k \in 1..Len(m) : k = Len(m) \/ k \in 1..Len(m2)
  <2>1. PICK a \in Nat : a = Len(m) /\ Len(m2) = a - 1 /\ a >= 1
    BY <1>1, <1>2
  <2>2. \A k \in 1..a : k = a \/ k \in 1..(a - 1)
    BY <2>1
  <2>. QED BY <2>1, <2>2
<1>6. Els(m) = Els(m2) \cup {x}
  <2>1. ASSUME NEW k \in 1..Len(m2) PROVE k \in 1..Len(m) /\ m2[k] = m[k]
    BY <1>1, <1>2
  <2>2. Els(m2) \subseteq Els(m)
    BY <1>1, <1>2, <2>1 DEF Els
  <2>3. ASSUME NEW k \in 1..Len(m) PROVE m[k] \in Els(m2) \cup {x}
    BY <1>2, <1>3, <1>5 DEF Els
  <2>. QED BY <1>1, <1>4, <2>2, <2>3 DEF Els
<1>7. Chained(m2)
  <2>. SUFFICES ASSUME NEW j \in 1..Len(m2), NEW k \in 1..Len(m2), j < k PROVE Follows(m2[j], m2[k])
    BY <1>2 DEF Chained
  <2>1. j \in DOMAIN m /\ k \in DOMAIN m /\ m2[j] = m[j] /\ m2[k] = m[k]
    BY <1>1, <1>2
  <2>. QED BY <2>1 DEF Sound, Orderly, Chained
<1>8. Ids(m) = Ids(m2)
  <2>1. Gains(m, m2, x)
    BY <1>6 DEF Gains
  <2>2. m \in Seq(Message) /\ m2 \in Seq(Message) /\ x \in Message
    BY <1>1, <1>2, <1>4
  <2>3. Ids(m) = Ids(m2) \cup ({x.id} \ {0})
    BY <2>1, <2>2, IdsOneMore
  <2>. QED BY <1>4, <2>3
<1>9. Sources(m2, p, s, f) /\ Orderly(m2, p, s, f)
  BY <1>6, <1>7 DEF Sound, Sources, Orderly, Precedes
<1>. QED BY <1>2, <1>8, <1>9 DEF Sound, Accounted, AllIds

(* The invariant is that the accounts of the four vectors are sound. *)
LEMMA InputSound ==
  ASSUME TypeOK, InputInv, NEW gone, gone = cleared \cup dropped
  PROVE  Sound(messages, pending, steering, followUp, gone, nextInput)
BY DEF TypeOK, DataOK, InputInv, Sound

LEMMA SoundInput ==
  ASSUME pc' = "idle" => pending' = <<>>, NEW gone, gone = cleared' \cup dropped',
         Sound(messages', pending', steering', followUp', gone, nextInput')
  PROVE  InputInv'
BY DEF InputInv, Sound

(* Steps that touch none of it. *)
InputQuiet ==
  /\ UNCHANGED <<messages, pending, steering, followUp, nextInput, cleared, dropped>>
  /\ pc' = "idle" => pc = "idle"

LEMMA QuietKeeps == InputInv /\ InputQuiet => InputInv'
BY DEF InputInv, InputQuiet

LEMMA QuietSteps ==
  ASSUME \/ StartTurn \/ Exhausted \/ RequestHookFails \/ BeginRequest \/ StreamStart \/ StreamFails
         \/ HardTurnEnd \/ HardAgentEnd \/ BatchReturns \/ BatchFails \/ FinishTurnFails \/ EndAfterTurn
         \/ PrepareNextTurnFails \/ CommitFails \/ BatchCommitFails \/ UpdateCommitFails \/ Abort
         \/ \E c \in Nat : StreamToolCall(c) \/ ToolStart(c) \/ ToolEnd(c) \/ ToolAborted(c) \/ ParallelCommitFails(c)
         \/ \E a \in Actions : FinishTurn(a)
         \/ \E m \in Modes : SetSteeringMode(m) \/ SetFollowUpMode(m)
         \/ UNCHANGED vars
  PROVE  InputQuiet
<1>1. CASE StartTurn
  BY <1>1 DEF StartTurn, InputQuiet, host, live, run, flags, batch
<1>2. CASE Exhausted
  BY <1>2 DEF Exhausted, InputQuiet, host, live, run, flags, batch, EmitAgentEnd
<1>3. CASE RequestHookFails
  BY <1>3 DEF RequestHookFails, InputQuiet, host, live, run, flags, batch, EmitAgentEnd
<1>4. CASE BeginRequest
  BY <1>4 DEF BeginRequest, InputQuiet, host, live, run, flags, batch
<1>5. CASE StreamStart
  BY <1>5 DEF StreamStart, InputQuiet, host, live, run, flags, batch
<1>6. CASE StreamFails
  BY <1>6 DEF StreamFails, InputQuiet, host, live, run, flags, batch, EmitAgentEnd
<1>7. CASE HardTurnEnd
  BY <1>7 DEF HardTurnEnd, InputQuiet, host, live, run, flags, batch
<1>8. CASE HardAgentEnd
  BY <1>8 DEF HardAgentEnd, InputQuiet, host, live, run, flags, batch, EmitAgentEnd
<1>9. CASE BatchReturns
  BY <1>9 DEF BatchReturns, InputQuiet, host, live, run, flags, batch
<1>10. CASE BatchFails
  BY <1>10 DEF BatchFails, InputQuiet, host, live, run, flags, batch, EmitAgentEnd
<1>11. CASE FinishTurnFails
  BY <1>11 DEF FinishTurnFails, InputQuiet, host, live, run, flags, batch, EmitAgentEnd
<1>12. CASE EndAfterTurn
  BY <1>12 DEF EndAfterTurn, InputQuiet, host, live, run, flags, batch, EmitAgentEnd
<1>13. CASE PrepareNextTurnFails
  BY <1>13 DEF PrepareNextTurnFails, InputQuiet, host, live, run, flags, batch, EmitAgentEnd
<1>14. CASE CommitFails
  BY <1>14 DEF CommitFails, InputQuiet, host, live, run, flags, batch
<1>15. CASE BatchCommitFails
  BY <1>15 DEF BatchCommitFails, InputQuiet, host, live, run, flags, batch, EmitAgentEnd
<1>16. CASE UpdateCommitFails
  BY <1>16 DEF UpdateCommitFails, InputQuiet, host, live, run, flags, batch
<1>17. CASE Abort
  BY <1>17 DEF Abort, InputQuiet, host, live, run, flags, batch
<1>18. ASSUME NEW c \in Nat, StreamToolCall(c) \/ ToolStart(c) \/ ToolEnd(c) \/ ToolAborted(c) \/ ParallelCommitFails(c)
       PROVE  InputQuiet
  BY <1>18 DEF StreamToolCall, ToolStart, ToolEnd, ToolAborted, ParallelCommitFails, InputQuiet, host, live, run, flags, batch
<1>19. ASSUME NEW a \in Actions, FinishTurn(a) PROVE InputQuiet
  BY <1>19 DEF FinishTurn, InputQuiet, host, live, run, flags, batch
<1>20. ASSUME NEW m \in Modes, SetSteeringMode(m) \/ SetFollowUpMode(m) PROVE InputQuiet
  BY <1>20 DEF SetSteeringMode, SetFollowUpMode, InputQuiet, host, live, run, flags, batch
<1>21. CASE UNCHANGED vars
  BY <1>21 DEF vars, InputQuiet, host, live, run, flags, batch
<1>. QED
  BY <1>1, <1>2, <1>3, <1>4, <1>5, <1>6, <1>7, <1>8, <1>9, <1>10, <1>11, <1>12, <1>13, <1>14, <1>15, <1>16, <1>17, <1>18, <1>19, <1>20, <1>21

(* No step loses, doubles or reorders a message of the host's. *)
LEMMA InputStep ==
  ASSUME TypeOK, InputInv, RunInv, [Next]_vars
  PROVE  InputInv'
<1>1. PICK g : g = cleared \cup dropped
  OBVIOUS
<1>2. PICK h : h = cleared' \cup dropped'
  OBVIOUS
<1>3. Sound(messages, pending, steering, followUp, g, nextInput)
  BY <1>1, InputSound
<1>4. ASSUME InputQuiet PROVE InputInv'
  BY <1>4, QuietKeeps
<1>5. ASSUME pc' = "idle" => pending' = <<>>,
             Sound(messages', pending', steering', followUp', h, nextInput')
      PROVE  InputInv'
  BY <1>2, <1>5, SoundInput
<1>6. ASSUME UNCHANGED <<cleared, dropped>> PROVE h = g
  BY <1>1, <1>2, <1>6
<1>7. \A x \in Seq(Message) : <<>> \o x = x /\ x \o <<>> = x
  BY ConcatEmptySeq
<1>8. \A q \in Seq(Message) : \A mode : Drained(q, mode) \in Seq(Message)
  BY DrainType
<1>9. /\ messages \in Seq(Message) /\ pending \in Seq(Message)
      /\ steering \in Seq(Message) /\ followUp \in Seq(Message) /\ nextInput \in Nat
  BY DEF TypeOK, DataOK
<1>10. CASE AssemblePending
  <2>1. pc' # "idle" /\ UNCHANGED <<messages, followUp, nextInput, cleared, dropped>>
    BY <1>10 DEF AssemblePending, live
  <2>2. CASE turn = 1 /\ ~drained
    <3>1. pending' = pending \o Drained(steering, steeringMode) /\ steering' = Remains(steering, steeringMode)
      BY <1>10, <2>2 DEF AssemblePending
    <3>. QED BY <1>3, <1>5, <1>6, <2>1, <3>1, SoundSteering
  <2>3. CASE ~(turn = 1 /\ ~drained)
    BY <1>4, <1>10, <2>1, <2>3 DEF AssemblePending, InputQuiet
  <2>. QED BY <2>2, <2>3
<1>11. CASE AppendPending
  <2>1. /\ pc' # "idle" /\ UNCHANGED <<steering, followUp, nextInput, cleared, dropped>> /\ pending # <<>>
        /\ messages' = Append(messages, Head(pending)) /\ pending' = Tail(pending)
    BY <1>11 DEF AppendPending, host
  <2>. QED BY <1>3, <1>5, <1>6, <2>1, SoundMove
<1>12. ASSUME NEW reason \in Reasons, NEW n \in 0..MaxCalls, Reply(reason, n) PROVE InputInv'
  <2>1. /\ pc' # "idle" /\ UNCHANGED <<pending, steering, followUp, nextInput, cleared, dropped>>
        /\ messages' = Append(messages, Msg("assistant", 0, n))
    BY <1>12 DEF Reply, PointAfter, host
  <2>2. n \in Nat
    BY ConstantsAssumption
  <2>3. Msg("assistant", 0, n) \in Message
    BY <2>2, MsgType DEF Roles
  <2>4. PICK x \in Message : x = Msg("assistant", 0, n) /\ x.id = 0
    BY <2>3 DEF Msg
  <2>. QED BY <1>3, <1>5, <1>6, <2>1, <2>4, SoundAppend
<1>13. CASE ToolResult
  <2>1. /\ pc' # "idle" /\ UNCHANGED <<pending, steering, followUp, nextInput, cleared, dropped>>
        /\ messages' = Append(messages, Msg("toolResult", 0, results + 1))
    BY <1>13 DEF ToolResult, host
  <2>2. results + 1 \in Nat
    BY DEF TypeOK, DataOK
  <2>3. Msg("toolResult", 0, results + 1) \in Message
    BY <2>2, MsgType DEF Roles
  <2>4. PICK x \in Message : x = Msg("toolResult", 0, results + 1) /\ x.id = 0
    BY <2>3 DEF Msg
  <2>. QED BY <1>3, <1>5, <1>6, <2>1, <2>4, SoundAppend
<1>14. CASE ContinueAfterTurn
  <2>1. /\ pc' # "idle" /\ UNCHANGED <<messages, nextInput, cleared, dropped>> /\ pending = <<>>
        /\ pending' = SteeringPoll \o FollowUpPoll
        /\ steering' = IF stop THEN steering ELSE Remains(steering, steeringMode)
        /\ followUp' = IF FollowUpPoll = <<>> THEN followUp ELSE Remains(followUp, followUpMode)
    BY <1>14 DEF ContinueAfterTurn, live, RunInv
  <2>2. PICK p : p = pending \o SteeringPoll
    OBVIOUS
  <2>3. SteeringPoll \in Seq(Message) /\ FollowUpPoll \in Seq(Message)
    BY PollType
  <2>4. p = SteeringPoll /\ pending' = p \o FollowUpPoll
    BY <1>7, <2>1, <2>2, <2>3
  <2>5. Sound(messages, p, steering', followUp, g, nextInput)
    <3>1. CASE stop
      BY <1>3, <2>1, <2>4, <3>1 DEF SteeringPoll
    <3>2. CASE ~stop
      BY <1>3, <2>1, <2>2, <3>2, SoundSteering DEF SteeringPoll
    <3>. QED BY <3>1, <3>2
  <2>6. Sound(messages, pending', steering', followUp', g, nextInput)
    <3>1. CASE FollowUpPoll = <<>>
      BY <1>7, <2>1, <2>3, <2>4, <2>5, <3>1
    <3>2. CASE FollowUpPoll # <<>>
      <4>1. FollowUpPoll = Drained(followUp, followUpMode) /\ followUp' = Remains(followUp, followUpMode)
        BY <2>1, <3>2 DEF FollowUpPoll
      <4>. QED BY <2>4, <2>5, <4>1, SoundFollowUp
    <3>. QED BY <3>1, <3>2
  <2>. QED BY <1>5, <1>6, <2>1, <2>6
<1>15. ASSUME NEW own \in {<<>>, <<Msg("prepared", 0, 0)>>}, PrepareNextTurn(own) PROVE InputInv'
  <2>1. /\ pc' # "idle" /\ UNCHANGED <<messages, followUp, nextInput, cleared, dropped>>
        /\ pending' = own \o pending \o SecondPoll
        /\ steering' = IF SecondPoll = <<>> THEN steering ELSE Remains(steering, steeringMode)
    BY <1>15 DEF PrepareNextTurn, live
  <2>2. PICK p : p = own \o pending
    OBVIOUS
  <2>3. Sound(messages, p, steering, followUp, g, nextInput)
    BY <1>3, <2>2, SoundOwn
  <2>4. pending' = p \o SecondPoll /\ p \in Seq(Message)
    BY <2>1, <2>2, <2>3 DEF Sound
  <2>5. CASE SecondPoll = <<>>
    BY <1>5, <1>6, <1>7, <2>1, <2>3, <2>4, <2>5
  <2>6. CASE SecondPoll # <<>>
    <3>1. SecondPoll = Drained(steering, steeringMode) /\ steering' = Remains(steering, steeringMode)
      BY <2>1, <2>6 DEF SecondPoll
    <3>. QED BY <1>5, <1>6, <2>1, <2>3, <2>4, <3>1, SoundSteering
  <2>. QED BY <2>5, <2>6
<1>16. CASE FinishRun
  <2>1. /\ UNCHANGED <<messages, steering, followUp, nextInput, cleared>> /\ pending' = <<>>
        /\ dropped' = dropped \cup Ids(pending)
    BY <1>16 DEF FinishRun, host
  <2>2. h = g \cup Ids(pending)
    BY <1>1, <1>2, <2>1
  <2>3. Sound(messages, <<>>, steering, followUp, g \cup Ids(pending), nextInput)
    BY <1>3, SoundDropped
  <2>. QED BY <1>5, <2>1, <2>2, <2>3
<1>17. CASE Prompt
  <2>1. /\ pc = "idle" /\ pc' # "idle" /\ UNCHANGED <<messages, steering, followUp, cleared, dropped>>
        /\ pending' = <<Msg("prompt", nextInput, 0)>> /\ nextInput' = nextInput + 1
    BY <1>17 DEF Prompt, RunLoop
  <2>2. pending = <<>>
    BY <2>1 DEF InputInv
  <2>. QED BY <1>3, <1>5, <1>6, <2>1, <2>2, SoundPrompt
<1>18. CASE ContinueRun
  <2>1. /\ pc = "idle" /\ pc' # "idle" /\ pending' = <<>>
        /\ UNCHANGED <<messages, steering, followUp, nextInput, cleared, dropped>>
    BY <1>18 DEF ContinueRun, RunLoop
  <2>2. pending = <<>>
    BY <2>1 DEF InputInv
  <2>. QED BY <1>4, <2>1, <2>2 DEF InputQuiet
<1>19. CASE ContinueWithQueueFallback
  <2>1. pc = "idle" /\ pc' # "idle" /\ UNCHANGED <<messages, nextInput, cleared, dropped>>
    BY <1>19 DEF ContinueWithQueueFallback, RunLoop
  <2>2. pending = <<>>
    BY <2>1 DEF InputInv
  <2>3. CASE pending' = <<>> /\ UNCHANGED <<steering, followUp>>
    BY <1>4, <2>1, <2>2, <2>3 DEF InputQuiet
  <2>4. CASE /\ pending' = Drained(steering, steeringMode)
             /\ steering' = Remains(steering, steeringMode) /\ followUp' = followUp
    <3>1. pending' = pending \o Drained(steering, steeringMode)
      BY <1>7, <1>8, <1>9, <2>2, <2>4
    <3>. QED BY <1>3, <1>5, <1>6, <2>1, <2>4, <3>1, SoundSteering
  <2>5. CASE /\ pending' = Drained(followUp, followUpMode)
             /\ followUp' = Remains(followUp, followUpMode) /\ steering' = steering
    <3>1. pending' = pending \o Drained(followUp, followUpMode)
      BY <1>7, <1>8, <1>9, <2>2, <2>5
    <3>. QED BY <1>3, <1>5, <1>6, <2>1, <2>5, <3>1, SoundFollowUp
  <2>. QED BY <1>19, <2>3, <2>4, <2>5 DEF ContinueWithQueueFallback, RunLoop
<1>20. CASE Steer
  <2>1. /\ UNCHANGED <<pc, messages, pending, followUp, cleared, dropped>> /\ nextInput' = nextInput + 1
        /\ steering' = Append(steering, Msg("steering", nextInput, 0))
    BY <1>20 DEF Steer, live, run
  <2>2. pc' = "idle" => pending' = <<>>
    BY <2>1 DEF InputInv
  <2>. QED BY <1>3, <1>5, <1>6, <2>1, <2>2, SoundSteer
<1>21. CASE FollowUp
  <2>1. /\ UNCHANGED <<pc, messages, pending, steering, cleared, dropped>> /\ nextInput' = nextInput + 1
        /\ followUp' = Append(followUp, Msg("followUp", nextInput, 0))
    BY <1>21 DEF FollowUp, live, run
  <2>2. pc' = "idle" => pending' = <<>>
    BY <2>1 DEF InputInv
  <2>. QED BY <1>3, <1>5, <1>6, <2>1, <2>2, SoundQueued
<1>22. CASE ClearSteering
  <2>1. /\ UNCHANGED <<pc, messages, pending, followUp, nextInput, dropped>> /\ steering' = <<>>
        /\ cleared' = cleared \cup Ids(steering)
    BY <1>22 DEF ClearSteering, live, run
  <2>2. h = g \cup Ids(steering) /\ (pc' = "idle" => pending' = <<>>)
    BY <1>1, <1>2, <2>1 DEF InputInv
  <2>3. Sound(messages, pending, <<>>, followUp, g \cup Ids(steering), nextInput)
    BY <1>3, SoundSteeringCleared
  <2>. QED BY <1>5, <2>1, <2>2, <2>3
<1>23. CASE ClearFollowUp
  <2>1. /\ UNCHANGED <<pc, messages, pending, steering, nextInput, dropped>> /\ followUp' = <<>>
        /\ cleared' = cleared \cup Ids(followUp)
    BY <1>23 DEF ClearFollowUp, live, run
  <2>2. h = g \cup Ids(followUp) /\ (pc' = "idle" => pending' = <<>>)
    BY <1>1, <1>2, <2>1 DEF InputInv
  <2>3. Sound(messages, pending, steering, <<>>, g \cup Ids(followUp), nextInput)
    BY <1>3, SoundFollowUpCleared
  <2>. QED BY <1>5, <2>1, <2>2, <2>3
<1>24. ASSUME NEW new \in {<<SystemMessage>>, messages}, ReplaceMessages(new) PROVE InputInv'
  <2>1. /\ UNCHANGED <<pc, pending, steering, followUp, nextInput, dropped>> /\ messages' = new
        /\ cleared' = cleared \cup (Ids(messages) \ Ids(new))
    BY <1>24 DEF ReplaceMessages, run
  <2>2. CASE new = messages
    BY <1>4, <2>1, <2>2 DEF InputQuiet
  <2>3. CASE new = <<SystemMessage>>
    <3>1. Sound(new, pending, steering, followUp, g \cup Ids(messages), nextInput) /\ Ids(new) = {}
      BY <1>3, <2>3, SoundReplaced
    <3>2. h = g \cup Ids(messages) /\ (pc' = "idle" => pending' = <<>>)
      BY <1>1, <1>2, <2>1, <3>1 DEF InputInv
    <3>. QED BY <1>5, <2>1, <3>1, <3>2
  <2>. QED BY <2>2, <2>3
<1>25. CASE Reset
  <2>1. PICK new \in {<<>>, <<SystemMessage>>} : messages' = new
    BY <1>25 DEF Reset
  <2>2. /\ pc = "idle" /\ UNCHANGED <<pc, pending, nextInput, dropped>> /\ steering' = <<>> /\ followUp' = <<>>
        /\ cleared' = cleared \cup Ids(messages) \cup Ids(steering) \cup Ids(followUp)
    BY <1>25 DEF Reset, run
  <2>3. PICK g1 : g1 = g \cup Ids(messages)
    OBVIOUS
  <2>4. PICK g2 : g2 = g1 \cup Ids(steering)
    OBVIOUS
  <2>5. Sound(new, pending, steering, followUp, g1, nextInput)
    <3>1. Sound(new, pending, steering, followUp, g \cup Ids(messages), nextInput)
      BY <1>3, SoundReplaced
    <3>. QED BY <2>3, <3>1
  <2>6. Sound(new, pending, <<>>, followUp, g2, nextInput)
    BY <2>4, <2>5, SoundSteeringCleared
  <2>7. Sound(new, pending, <<>>, <<>>, g2 \cup Ids(followUp), nextInput)
    BY <2>6, SoundFollowUpCleared
  <2>8. h = g2 \cup Ids(followUp)
    BY <1>1, <1>2, <2>2, <2>3, <2>4
  <2>9. pending' = <<>>
    BY <2>2 DEF InputInv
  <2>. QED BY <1>5, <2>1, <2>2, <2>7, <2>8, <2>9
<1>26. CASE AppendBashExecution
  <2>1. /\ UNCHANGED <<pc, pending, steering, followUp, nextInput, cleared, dropped>>
        /\ messages' = Append(messages, Msg("bash", 0, 0))
    BY <1>26 DEF AppendBashExecution, host, run
  <2>2. Msg("bash", 0, 0) \in Message
    BY MsgType DEF Roles
  <2>3. PICK x \in Message : x = Msg("bash", 0, 0) /\ x.id = 0
    BY <2>2 DEF Msg
  <2>4. pc' = "idle" => pending' = <<>>
    BY <2>1 DEF InputInv
  <2>. QED BY <1>3, <1>5, <1>6, <2>1, <2>3, <2>4, SoundAppend
<1>27. CASE PopTrailingAssistant
  <2>1. /\ UNCHANGED <<pc, pending, steering, followUp, nextInput, cleared, dropped>>
        /\ messages' = SubSeq(messages, 1, Len(messages) - 1)
        /\ messages # <<>> /\ messages[Len(messages)].role = "assistant"
    BY <1>27 DEF PopTrailingAssistant, EndsWithAssistant, host, run
  <2>2. pc' = "idle" => pending' = <<>>
    BY <2>1 DEF InputInv
  <2>. QED BY <1>3, <1>5, <1>6, <2>1, <2>2, SoundPopped
<1>28. Calls \subseteq Nat /\ 1..MaxCalls \subseteq Nat
  BY ConstantsAssumption DEF Calls, TypeOK, DataOK
<1>29. CASE UNCHANGED vars
  BY <1>4, <1>29, QuietSteps
<1>30. CASE RunStep
  BY <1>4, <1>10, <1>11, <1>12, <1>13, <1>14, <1>15, <1>16, <1>28, <1>30, QuietSteps DEF RunStep, StreamEnds
<1>31. CASE CommitFailure
  BY <1>4, <1>28, <1>31, QuietSteps DEF CommitFailure
<1>32. CASE HostCall
  BY <1>4, <1>17, <1>18, <1>19, <1>20, <1>21, <1>22, <1>23, <1>24, <1>25, <1>26, <1>27, <1>32, QuietSteps DEF HostCall
<1>. QED BY <1>29, <1>30, <1>31, <1>32 DEF Next

LEMMA InitInput == Init => InputInv
<1>. SUFFICES ASSUME Init PROVE InputInv
  OBVIOUS
<1>1. PICK x \in Message : x = SystemMessage /\ x.id = 0 /\ x.role = "system"
  <2>1. SystemMessage \in Message
    BY MsgType DEF SystemMessage, Roles
  <2>. QED BY <2>1 DEF SystemMessage, Msg
<1>2. /\ pending = <<>> /\ steering = <<>> /\ followUp = <<>> /\ cleared = {} /\ dropped = {} /\ nextInput = 1
      /\ messages \in {<<>>, <<x>>}
  BY <1>1 DEF Init
<1>3. Els(messages) \subseteq {x} /\ Chained(messages) /\ Ids(messages) = {}
  <2>1. CASE messages = <<>>
    BY <2>1, EmptyVector
  <2>2. CASE messages = <<x>>
    BY <1>1, <2>2, ElsOne DEF Ids
  <2>. QED BY <1>2, <2>1, <2>2
<1>4. Sources(messages, pending, steering, followUp) /\ Orderly(messages, pending, steering, followUp)
  BY <1>1, <1>2, <1>3, EmptyVector DEF Sources, Orderly, Precedes
<1>5. Accounted(messages, pending, steering, followUp, cleared \cup dropped, nextInput)
  <2>1. AllIds(messages, pending, steering, followUp) = {}
    BY <1>2, <1>3, EmptyVector DEF AllIds
  <2>2. 1..(1 - 1) = {}
    OBVIOUS
  <2>. QED BY <1>2, <2>1, <2>2 DEF Accounted
<1>. QED BY <1>2, <1>4, <1>5 DEF InputInv

(* What the Agent holds, as one vector. *)
LEMMA HeldJoined ==
  ASSUME TypeOK, InputInv
  PROVE  Chained(Held) /\ Ids(Held) = AllIds(messages, pending, steering, followUp) /\ Held \in Seq(Message)
<1>1. /\ messages \in Seq(Message) /\ pending \in Seq(Message)
      /\ steering \in Seq(Message) /\ followUp \in Seq(Message)
  BY DEF TypeOK, DataOK
<1>2. Orderly(messages, pending, steering, followUp)
  BY DEF InputInv
<1>3. PICK a : a = messages \o pending
  OBVIOUS
<1>4. PICK b : b = a \o steering
  OBVIOUS
<1>5. PICK c : c = b \o followUp
  OBVIOUS
<1>6. /\ a \in Seq(Message) /\ Els(a) = Els(messages) \cup Els(pending) /\ Chained(a)
      /\ Ids(a) = Ids(messages) \cup Ids(pending)
  <2>1. Chained(messages) /\ Chained(pending) /\ Precedes(messages, pending)
    BY <1>2 DEF Orderly
  <2>. QED BY <1>1, <1>3, <2>1, Joined
<1>7. Precedes(a, steering) /\ Precedes(a, followUp)
  BY <1>2, <1>6 DEF Orderly, Precedes
<1>8. b \in Seq(Message) /\ Els(b) = Els(a) \cup Els(steering) /\ Chained(b) /\ Ids(b) = Ids(a) \cup Ids(steering)
  <2>1. Chained(steering) /\ a \in Seq(Message) /\ Chained(a) /\ Precedes(a, steering)
    BY <1>2, <1>6, <1>7 DEF Orderly
  <2>. QED BY <1>1, <1>4, <2>1, Joined, ZenonT(60)
<1>9. Precedes(b, followUp)
  BY <1>2, <1>7, <1>8 DEF Orderly, Precedes
<1>10. c \in Seq(Message) /\ Chained(c) /\ Ids(c) = Ids(b) \cup Ids(followUp)
  <2>1. Chained(followUp) /\ b \in Seq(Message) /\ Chained(b) /\ Precedes(b, followUp)
    BY <1>2, <1>8, <1>9 DEF Orderly
  <2>. QED BY <1>1, <1>5, <2>1, Joined
<1>11. Held = c
  BY <1>3, <1>4, <1>5 DEF Held
<1>. QED BY <1>6, <1>8, <1>10, <1>11 DEF AllIds

(* The accounts of the host's messages: who holds which, in what order, and *)
(* which are gone, for any number of messages, turns and early returns.     *)
THEOREM InputCorrect == Spec => []InputInv
<1>1. TypeOK /\ InputInv /\ RunInv /\ [Next]_vars => InputInv'
  BY InputStep
<1>. QED BY <1>1, InitInput, TypeCorrect, StrengtheningInvariant, PTL DEF Spec

(* Every message handed to the Agent is held, or was removed by the host,   *)
(* or was dropped by a failed run, and never two of these, through all five *)
(* sites that drain a queue and every early return of run_turns.            *)
THEOREM InputAlwaysConserved == Spec => []InputConserved
<1>1. TypeOK /\ InputInv => InputConserved
  <2>. SUFFICES ASSUME TypeOK, InputInv PROVE InputConserved
    OBVIOUS
  <2>1. Ids(Held) = AllIds(messages, pending, steering, followUp)
    BY HeldJoined
  <2>2. Accounted(messages, pending, steering, followUp, cleared \cup dropped, nextInput)
    BY DEF InputInv
  <2>. QED BY <2>1, <2>2 DEF Accounted, InputConserved
<1>. QED BY <1>1, InputCorrect, TypeCorrect, PTL

(* Messages of one kind reach the transcript in the order they were handed  *)
(* over, none twice, whatever is drained, prepared, cleared or replaced.    *)
THEOREM QueueOrderKept == Spec => []QueueOrder
<1>1. TypeOK /\ InputInv => QueueOrder
  <2>. SUFFICES ASSUME TypeOK, InputInv PROVE QueueOrder
    OBVIOUS
  <2>1. PICK v : v = Held /\ Chained(v)
    BY HeldJoined
  <2>2. ASSUME NEW j \in DOMAIN v, NEW k \in DOMAIN v,
               j < k /\ v[j].role = v[k].role /\ v[j].id # 0 /\ v[k].id # 0
        PROVE  v[j].id < v[k].id
    BY <2>1, <2>2 DEF Chained, Follows
  <2>. QED BY <2>1, <2>2 DEF QueueOrder
<1>. QED BY <1>1, InputCorrect, TypeCorrect, PTL

-----------------------------------------------------------------------------
(* The calls of the replies and their results. *)

(* A result behind a reply: what AnsweredBut asks for. *)
ResultAfter(s, k, c) ==
  \E j \in (k + 1)..Len(s) : s[j].role = "toolResult" /\ s[j].n = c

LEMMA AppendAt ==
  ASSUME NEW s \in Seq(Message), NEW x \in Message, NEW u, u = Append(s, x), NEW len, len = Len(s)
  PROVE  /\ len \in Nat /\ Len(u) = len + 1 /\ u[len + 1] = x
         /\ \A k \in 1..len : u[k] = s[k]
BY AppendProperties

(* A result stays behind its reply. *)
LEMMA ResultStays ==
  ASSUME NEW s \in Seq(Message), NEW x \in Message, NEW u, u = Append(s, x),
         NEW k \in Nat, NEW c, ResultAfter(s, k, c)
  PROVE  ResultAfter(u, k, c)
<1>1. PICK len : len = Len(s)
  OBVIOUS
<1>2. len \in Nat /\ Len(u) = len + 1 /\ \A i \in 1..len : u[i] = s[i]
  BY <1>1, AppendAt
<1>3. PICK j \in (k + 1)..len : s[j].role = "toolResult" /\ s[j].n = c
  BY <1>1 DEF ResultAfter
<1>4. j \in (k + 1)..(len + 1) /\ j \in 1..len
  BY <1>2
<1>. QED BY <1>2, <1>3, <1>4 DEF ResultAfter

LEMMA AnswersIs ==
  ASSUME NEW s, NEW start, NEW open
  PROVE  AnsweredBut(s, start, open) <=>
           \A k \in (start + 1)..Len(s) : s[k].role = "assistant" =>
             \A c \in (1..s[k].n) \ open : ResultAfter(s, k, c)
BY DEF AnsweredBut, ResultAfter

(* One message more at the end of the transcript: a reply adds its calls to *)
(* those that are open, a result takes its own away, others change nothing. *)
Turns(open, x, open2) ==
  /\ x.role = "assistant" => 1..x.n \subseteq open2
  /\ \A c \in open : c \in open2 \/ (x.role = "toolResult" /\ x.n = c)
LEMMA AnswersAppend ==
  ASSUME NEW s \in Seq(Message), NEW x \in Message, NEW u, u = Append(s, x), NEW start \in Nat,
         NEW open, NEW open2, AnsweredBut(s, start, open), Turns(open, x, open2)
  PROVE  AnsweredBut(u, start, open2)
<1>1. PICK len : len = Len(s)
  OBVIOUS
<1>2. len \in Nat /\ Len(u) = len + 1 /\ u[len + 1] = x /\ \A i \in 1..len : u[i] = s[i]
  BY <1>1, AppendAt
<1>. SUFFICES ASSUME NEW k \in (start + 1)..(len + 1), u[k].role = "assistant",
                     NEW c \in (1..u[k].n) \ open2
              PROVE  ResultAfter(u, k, c)
  BY <1>2, AnswersIs
<1>3. CASE k = len + 1
  BY <1>2, <1>3 DEF Turns
<1>4. CASE k # len + 1
  <2>1. k \in (start + 1)..len /\ k \in 1..len /\ k \in Nat
    BY <1>2, <1>4
  <2>2. u[k] = s[k]
    BY <1>2, <2>1
  <2>3. CASE c \in open
    <3>1. x.role = "toolResult" /\ x.n = c
      BY <2>3 DEF Turns
    <3>2. len + 1 \in (k + 1)..Len(u)
      BY <1>2, <2>1
    <3>. QED BY <1>2, <3>1, <3>2 DEF ResultAfter
  <2>4. CASE c \notin open
    <3>1. ResultAfter(s, k, c)
      BY <1>1, <2>1, <2>2, <2>4, AnswersIs
    <3>. QED BY <2>1, <3>1, ResultStays
  <2>. QED BY <2>3, <2>4
<1>. QED BY <1>3, <1>4

LEMMA AnswersEmpty ==
  ASSUME NEW s \in Seq(Message), NEW open, NEW start, start = Len(s)
  PROVE  AnsweredBut(s, start, open)
<1>1. start \in Nat
  OBVIOUS
<1>2. (start + 1)..start = {}
  BY <1>1
<1>. QED BY <1>2, AnswersIs

(* Steps that leave the transcript and the stage of the run alone. *)
CallsQuiet ==
  /\ UNCHANGED <<messages, offset, pc, exec, results, reply, cancelTried>>
  /\ stop => stop'
LEMMA CallsQuietKeeps == CallsInv /\ CallsQuiet => CallsInv'
BY DEF CallsInv, CallsQuiet

(* Steps that end a run, or find it over. *)
CallsOver ==
  pc' \in {"idle", "end", "settle", "hard", "hardEnd"} /\ (cancelTried' => stop')
LEMMA CallsOverKeeps == CallsOver => CallsInv'
BY DEF CallsInv, CallsOver

(* Steps of a run from one point to the next. *)
LEMMA CallsStep ==
  ASSUME TypeOK, InputInv, RunInv, CallsInv, [Next]_vars
  PROVE  CallsInv'
<1>1. ASSUME CallsQuiet PROVE CallsInv'
  BY <1>1, CallsQuietKeeps
<1>2. ASSUME CallsOver PROVE CallsInv'
  BY <1>2, CallsOverKeeps
<1>3. /\ messages \in Seq(Message) /\ offset \in Nat /\ results \in Nat /\ reply.n \in Nat
      /\ pending \in Seq(Message) /\ Len(messages) \in Nat
  BY DEF TypeOK, DataOK
<1>4. cancelTried => stop
  BY DEF CallsInv
<1>5. CASE StartTurn
  BY <1>4, <1>5 DEF StartTurn, CallsInv, live, flags
<1>6. CASE Exhausted \/ RequestHookFails \/ StreamFails \/ HardAgentEnd \/ BatchFails \/ FinishTurnFails
  BY <1>2, <1>4, <1>6
  DEF Exhausted, RequestHookFails, StreamFails, HardAgentEnd, BatchFails, FinishTurnFails, EmitAgentEnd,
      CallsOver, flags
<1>7. CASE EndAfterTurn \/ PrepareNextTurnFails \/ BatchCommitFails
  BY <1>2, <1>4, <1>7
  DEF EndAfterTurn, PrepareNextTurnFails, BatchCommitFails, EmitAgentEnd, CallsOver, flags
<1>8. CASE AssemblePending
  BY <1>4, <1>8 DEF AssemblePending, CallsInv, live, flags, batch
<1>9. CASE AppendPending
  <2>1. PICK x : x = Head(pending)
    OBVIOUS
  <2>2. x \in Els(pending) /\ x \in Message
    <3>1. pending # <<>>
      BY <1>9 DEF AppendPending
    <3>2. PICK t : t = Tail(pending)
      OBVIOUS
    <3>. QED BY <1>3, <2>1, <3>1, <3>2, ChainTail
  <2>3. x.role # "assistant"
    BY <2>2 DEF InputInv, Sources
  <2>4. /\ messages' = Append(messages, x) /\ offset' = offset /\ pc = "append" /\ pc' = "append"
        /\ results' = results /\ stop' = stop /\ exec' = exec /\ cancelTried' = cancelTried
    BY <1>9, <2>1 DEF AppendPending, batch, flags
  <2>5. AnsweredBut(messages, offset, {}) => AnsweredBut(messages', offset', {})
    <3>1. Turns({}, x, {})
      BY <2>3 DEF Turns
    <3>2. ASSUME AnsweredBut(messages, offset, {}) PROVE AnsweredBut(messages', offset, {})
      BY <1>3, <2>2, <2>4, <3>1, <3>2, AnswersAppend
    <3>. QED BY <2>4, <3>2
  <2>. QED BY <2>4, <2>5 DEF CallsInv
<1>10. CASE BeginRequest
  BY <1>4, <1>10 DEF BeginRequest, CallsInv, live, batch
<1>11. CASE StreamStart
  BY <1>1, <1>11 DEF StreamStart, CallsQuiet, batch
<1>12. ASSUME NEW c, StreamToolCall(c) PROVE CallsInv'
  BY <1>1, <1>12 DEF StreamToolCall, CallsQuiet, run, batch, flags
<1>13. ASSUME NEW reason \in Reasons, NEW n \in 0..MaxCalls, Reply(reason, n) PROVE CallsInv'
  <2>1. /\ cancelTried' = cancelTried /\ stop' = stop /\ results' = results /\ results = 0
        /\ offset' = offset /\ reply'.n = n /\ pc' = PointAfter(reason, n)
        /\ messages' = Append(messages, Msg("assistant", 0, n)) /\ n \in Nat
    BY <1>13, ConstantsAssumption DEF Reply, CallsInv, flags
  <2>2. CASE reason \in HardReasons
    BY <1>2, <1>4, <2>1, <2>2 DEF CallsOver, PointAfter
  <2>3. CASE reason \notin HardReasons
    <3>1. AnsweredBut(messages, offset, {})
      BY <1>13, <2>3 DEF Reply, CallsInv
    <3>2. Msg("assistant", 0, n) \in Message
      BY <2>1, MsgType DEF Roles
    <3>3. PICK x \in Message : x = Msg("assistant", 0, n) /\ x.role = "assistant" /\ x.n = n
      BY <3>2 DEF Msg
    <3>4. AnsweredBut(messages', offset', 1..n)
      <4>1. Turns({}, x, 1..n)
        BY <3>3 DEF Turns
      <4>2. messages' = Append(messages, x)
        BY <2>1, <3>3
      <4>3. AnsweredBut(messages', offset, 1..n)
        BY <1>3, <3>1, <4>1, <4>2, AnswersAppend
      <4>. QED BY <2>1, <4>3
    <3>5. CASE n > 0
      <4>1. pc' = "tools" /\ (results' + 1)..reply'.n = 1..n
        BY <2>1, <2>3, <3>5 DEF PointAfter
      <4>. QED BY <1>4, <2>1, <3>4, <4>1 DEF CallsInv
    <3>6. CASE n = 0
      <4>1. pc' = "finish" /\ 1..n = {}
        BY <2>1, <2>3, <3>6 DEF PointAfter
      <4>. QED BY <1>4, <2>1, <3>4, <4>1 DEF CallsInv
    <3>. QED BY <2>1, <3>5, <3>6
  <2>. QED BY <2>2, <2>3
<1>14. CASE HardTurnEnd
  BY <1>2, <1>4, <1>14 DEF HardTurnEnd, CallsOver, flags
<1>15. ASSUME NEW c, ToolStart(c) \/ ToolEnd(c) \/ ToolAborted(c) \/ ParallelCommitFails(c) PROVE CallsInv'
  BY <1>1, <1>15 DEF ToolStart, ToolEnd, ToolAborted, ParallelCommitFails, CallsQuiet, live, flags
<1>16. CASE ToolResult
  <2>1. /\ cancelTried' = cancelTried /\ stop' = stop /\ results' = results + 1 /\ pc = "tools" /\ pc' = "tools"
        /\ offset' = offset /\ reply' = reply
        /\ messages' = Append(messages, Msg("toolResult", 0, results + 1))
    BY <1>16 DEF ToolResult, flags
  <2>2. PICK r \in Nat : r = results + 1
    BY <1>3
  <2>3. Msg("toolResult", 0, r) \in Message
    BY <2>2, MsgType DEF Roles
  <2>4. PICK x \in Message : x = Msg("toolResult", 0, r) /\ x.role = "toolResult" /\ x.n = r
    BY <2>3 DEF Msg
  <2>5. PICK open : open = (results + 1)..reply.n
    OBVIOUS
  <2>6. PICK open2 : open2 = (results' + 1)..reply'.n
    OBVIOUS
  <2>7. \A c \in open : c \in open2 \/ c = r
    BY <1>3, <2>1, <2>2, <2>5, <2>6
  <2>8. AnsweredBut(messages, offset, open)
    BY <2>1, <2>5 DEF CallsInv
  <2>9. AnsweredBut(messages', offset', open2)
    <3>1. Turns(open, x, open2)
      BY <2>4, <2>7 DEF Turns
    <3>2. messages' = Append(messages, x)
      BY <2>1, <2>2, <2>4
    <3>3. AnsweredBut(messages', offset, open2)
      BY <1>3, <2>8, <3>1, <3>2, AnswersAppend
    <3>. QED BY <2>1, <3>3
  <2>. QED BY <1>4, <2>1, <2>6, <2>9 DEF CallsInv
<1>17. CASE BatchReturns
  <2>1. /\ cancelTried' = cancelTried /\ stop' = stop /\ pc = "tools" /\ pc' = "finish" /\ exec' = exec
        /\ messages' = messages /\ offset' = offset /\ BatchDone
    BY <1>17 DEF BatchReturns, live, flags
  <2>2. CASE results = reply.n
    <3>1. (results + 1)..reply.n = {}
      BY <1>3, <2>2
    <3>2. AnsweredBut(messages, offset, {})
      BY <2>1, <3>1 DEF CallsInv
    <3>. QED BY <1>4, <2>1, <3>2 DEF CallsInv
  <2>3. CASE results # reply.n
    BY <1>4, <2>1, <2>3 DEF BatchDone, CallsInv
  <2>. QED BY <2>2, <2>3
<1>18. ASSUME NEW a, FinishTurn(a) PROVE CallsInv'
  BY <1>4, <1>18 DEF FinishTurn, CallsInv, flags, batch
<1>19. CASE ContinueAfterTurn
  BY <1>4, <1>19 DEF ContinueAfterTurn, CallsInv, live, flags, batch
<1>20. ASSUME NEW own, PrepareNextTurn(own) PROVE CallsInv'
  BY <1>4, <1>20 DEF PrepareNextTurn, CallsInv, live, flags, batch
<1>21. CASE FinishRun
  BY <1>2, <1>21 DEF FinishRun, CallsOver
<1>22. CASE CommitFails
  BY <1>2, <1>4, <1>22 DEF CommitFails, CallsOver, flags
<1>23. CASE UpdateCommitFails
  BY <1>1, <1>23 DEF UpdateCommitFails, CallsQuiet, live, flags
<1>24. ASSUME NEW initial, NEW already, RunLoop(initial, already) PROVE CallsInv'
  <2>1. ~cancelTried
    BY <1>24 DEF RunLoop, RunInv
  <2>2. /\ pc' = "begin" /\ messages' = messages /\ offset' = Len(messages) /\ cancelTried' = cancelTried
    BY <1>24 DEF RunLoop, InvocationStart
  <2>3. AnsweredBut(messages', offset', {})
    BY <1>3, <2>2, AnswersEmpty
  <2>. QED BY <2>1, <2>2, <2>3 DEF CallsInv
<1>25. CASE Prompt \/ ContinueRun \/ ContinueWithQueueFallback
  BY <1>24, <1>25 DEF Prompt, ContinueRun, ContinueWithQueueFallback
<1>26. CASE Steer \/ FollowUp \/ ClearSteering \/ ClearFollowUp \/ Abort
  BY <1>1, <1>26 DEF Steer, FollowUp, ClearSteering, ClearFollowUp, Abort, CallsQuiet, live, run, batch, flags
<1>27. ASSUME NEW m, SetSteeringMode(m) \/ SetFollowUpMode(m) PROVE CallsInv'
  BY <1>1, <1>27 DEF SetSteeringMode, SetFollowUpMode, CallsQuiet, live, run, batch, flags
<1>28. ASSUME NEW new \in {<<SystemMessage>>, messages}, ReplaceMessages(new) PROVE CallsInv'
  <2>1. /\ messages' = new /\ offset' = Len(new)
        /\ UNCHANGED <<pc, exec, results, reply, cancelTried, stop>>
    BY <1>28 DEF ReplaceMessages, InvocationStart, run, batch, flags
  <2>2. new \in Seq(Message)
    <3>1. SystemMessage \in Message
      BY MsgType DEF SystemMessage, Roles
    <3>2. PICK x \in Message : x = SystemMessage
      BY <3>1
    <3>3. <<x>> \in Seq(Message)
      OBVIOUS
    <3>. QED BY <1>3, <3>2, <3>3
  <2>3. \A open : AnsweredBut(messages', offset', open)
    BY <2>1, <2>2, AnswersEmpty
  <2>. QED BY <2>1, <2>3 DEF CallsInv
<1>29. CASE Reset \/ AppendBashExecution \/ PopTrailingAssistant
  BY <1>2, <1>4, <1>29 DEF Reset, AppendBashExecution, PopTrailingAssistant, CallsOver, run, flags
<1>30. CASE UNCHANGED vars
  BY <1>1, <1>30 DEF vars, CallsQuiet, live, run, batch, flags
<1>31. CASE RunStep
  BY <1>5, <1>6, <1>7, <1>8, <1>9, <1>10, <1>11, <1>12, <1>13, <1>14, <1>15, <1>16, <1>17, <1>18, <1>19,
     <1>20, <1>21, <1>31 DEF RunStep, StreamEnds
<1>32. CASE CommitFailure
  BY <1>7, <1>15, <1>22, <1>23, <1>32 DEF CommitFailure
<1>33. CASE HostCall
  BY <1>25, <1>26, <1>27, <1>28, <1>29, <1>33 DEF HostCall
<1>. QED BY <1>30, <1>31, <1>32, <1>33 DEF Next

(* Which calls may lack a result, at every point of a run. *)
THEOREM CallsCorrect == Spec => []CallsInv
<1>1. Init => CallsInv
  BY DEF Init, CallsInv
<1>2. TypeOK /\ InputInv /\ RunInv /\ CallsInv /\ [Next]_vars => CallsInv'
  BY CallsStep
<1>. QED BY <1>1, <1>2, TypeCorrect, InputCorrect, StrengtheningInvariant, PTL DEF Spec

(* Every request is sent with a result behind every call of the run's       *)
(* replies, for any number of calls and turns, also when the transcript is  *)
(* replaced in mid-run, but for the cancelled request behind a sequential   *)
(* batch that a stop cut short.                                             *)
THEOREM CallsAlwaysAnswered == Spec => []CallsAnswered
<1>1. CallsInv => CallsAnswered
  BY DEF CallsInv, CallsAnswered
<1>. QED BY <1>1, CallsCorrect, PTL
=============================================================================
