-------------------------- MODULE StdioClientProofs --------------------------
(***************************************************************************)
(* Theorems about StdioClient, for every number of requests, of launched   *)
(* processes and of messages the server sends on its own, with and without *)
(* a deadline.                                                             *)
(***************************************************************************)
EXTENDS StdioClient, SequenceTheorems, TLAPS

USE DEF vars, link, errs

(* A queue that is not empty has a first entry and a rest of the same type. *)
LEMMA QueueParts ==
  ASSUME NEW S, NEW q \in Seq(S), q # <<>>
  PROVE  /\ Head(q) \in S /\ Tail(q) \in Seq(S) /\ Head(q) = q[1] /\ 1 \in DOMAIN q
         /\ \A k \in DOMAIN Tail(q) : k + 1 \in DOMAIN q /\ Tail(q)[k] = q[k + 1] /\ k \in Nat
<1>1. Len(q) \in Nat /\ Len(q) # 0 /\ DOMAIN q = 1..Len(q)
  BY EmptySeq
<1>2. Head(q) \in S /\ Tail(q) \in Seq(S) /\ Head(q) = q[1]
  BY HeadTailProperties
<1>3. Len(Tail(q)) = Len(q) - 1 /\ \A k \in 1..Len(Tail(q)) : Tail(q)[k] = q[k + 1]
  BY <1>1
<1>4. DOMAIN Tail(q) = 1..Len(Tail(q))
  BY <1>2, LenProperties
<1>. QED BY <1>1, <1>2, <1>3, <1>4

(* What is appended is the last entry, and the others stay. *)
LEMMA AppendParts ==
  ASSUME NEW S, NEW q \in Seq(S), NEW e \in S
  PROVE  /\ Append(q, e) \in Seq(S) /\ DOMAIN Append(q, e) = 1..(Len(q) + 1)
         /\ Len(Append(q, e)) = Len(q) + 1 /\ Len(q) \in Nat /\ DOMAIN q = 1..Len(q)
         /\ \A k \in 1..Len(q) : Append(q, e)[k] = q[k]
         /\ Append(q, e)[Len(q) + 1] = e
BY AppendProperties, LenProperties

(* New and settled requests are requests. *)
LEMMA RequestType ==
  ASSUME NEW n \in Nat
  PROVE  NewRequest(n) \in RequestRecord /\ SettledRequest(n) \in RequestRecord
BY DEF NewRequest, SettledRequest, RequestRecord

(* Every request has the fields of one. *)
LEMMA RequestFields ==
  ASSUME TypeOK, NEW u \in Requests
  PROVE  /\ requests[u] \in RequestRecord
         /\ requests[u].id \in Nat /\ requests[u].settled \in Nat
         /\ requests[u].sends \in Nat /\ requests[u].at \in Nat
         /\ u \in Nat /\ u # 0 /\ Len(requests) \in Nat
<1>1. requests[u] \in RequestRecord
  BY ElementOfSeq DEF TypeOK, PumpTypeOK, Requests
<1>. QED BY <1>1, SMTT(60) DEF RequestRecord, Requests, TypeOK, PumpTypeOK

(* The pump's record at each suspension point. *)
LEMMA PumpAtType ==
  ASSUME NEW pc \in {"none", "top", "idle", "write", "rewrite", "answer"},
         NEW item \in Nat, NEW id \in Nat, NEW re \in BOOLEAN
  PROVE  PumpAt(pc, item, id, re) \in PumpRecord
BY DEF PumpAt, PumpRecord

LEMMA AtTopType == AtTop \in PumpRecord /\ NoPump \in PumpRecord
BY PumpAtType DEF AtTop, NoPump

(* The pump goes on with the request it serves. *)
LEMMA PumpGoesOn ==
  ASSUME NEW p \in PumpRecord
  PROVE  /\ \A pc \in {"answer", "drained", "await"} : [p EXCEPT !.pc = pc] \in PumpRecord
         /\ \A why \in {"cancelled", "timeout"} :
              [p EXCEPT !.pc = "cancel", !.out = why] \in PumpRecord
BY DEF PumpRecord

(* What settling a request does: it is counted once more and forgotten, the *)
(* other requests stay.                                                     *)
LEMMA CompleteParts ==
  ASSUME TypeOK, NEW u \in {0} \cup Requests, NEW result \in Outcomes, NEW by \in Nat,
         Complete(u, result, by)
  PROVE  /\ PumpTypeOK' /\ Requests' = Requests /\ (requests = <<>> <=> requests' = <<>>)
         /\ \A v \in Requests : v # u => requests'[v] = requests[v]
         /\ u # 0 => requests'[u] = SettledRequest(requests[u].settled + 1)
<1>0. /\ requests \in Seq(RequestRecord) /\ Len(requests) \in Nat /\ cancelled \in SUBSET Nat
      /\ outcome \in [request : Nat, result : Outcomes, by : Nat]
  BY DEF TypeOK, PumpTypeOK
<1>1. pump' \in PumpRecord /\ io' \in IoStates
  BY PumpAtType DEF Complete, AtTop, IoStates
<1>2. CASE u = 0
  BY <1>0, <1>1, <1>2 DEF Complete, Requests, PumpTypeOK
<1>3. CASE u # 0
  <2>1. u \in 1..Len(requests)
    BY <1>3 DEF Requests
  <2>. DEFINE r == SettledRequest(requests[u].settled + 1)
  <2>2. r \in RequestRecord
    BY <1>3, RequestFields, RequestType
  <2>3. requests' = [requests EXCEPT ![u] = r]
    BY <1>3 DEF Complete
  <2>. HIDE DEF r
  <2>4. requests' \in Seq(RequestRecord) /\ Len(requests') = Len(requests)
        /\ \A v \in 1..Len(requests) : requests'[v] = IF v = u THEN r ELSE requests[v]
    BY <1>0, <2>1, <2>2, <2>3, ExceptSeq
  <2>5. outcome' \in [request : Nat, result : Outcomes, by : Nat] /\ cancelled' \in SUBSET Nat
    <3>1. outcome' = [request |-> u, result |-> result, by |-> by] /\ u \in Nat
      BY <1>3, <2>1 DEF Complete
    <3>2. cancelled' = cancelled \ {requests[u].id}
      BY <1>3 DEF Complete
    <3>. QED BY <1>0, <3>1, <3>2
  <2>6. requests # <<>> /\ requests' # <<>>
    BY <1>0, <2>1, <2>4, EmptySeq
  <2>. QED BY <1>0, <1>1, <1>3, <2>1, <2>4, <2>5, <2>6 DEF Requests, PumpTypeOK, r
<1>. QED BY <1>2, <1>3

(* Starting the pump, telling the server and awaiting keep the types. *)
LEMMA StartPumpType ==
  ASSUME TypeOK, NEW q, StartPump(q)
  PROVE  pump' \in PumpRecord /\ io' \in IoStates
BY PumpAtType DEF TypeOK, PumpTypeOK, StartPump, AtTop, IoStates

LEMMA AwaitType ==
  ASSUME TypeOK, NEW buffer, Await(buffer)
  PROVE  PumpTypeOK'
BY PumpGoesOn DEF TypeOK, PumpTypeOK, Await, GiveUp, ReadStart, IoStates

LEMMA GiveUpType ==
  ASSUME TypeOK, NEW why \in {"cancelled", "timeout"}, GiveUp(why)
  PROVE  PumpTypeOK'
BY PumpGoesOn DEF TypeOK, PumpTypeOK, GiveUp, IoStates

LEMMA ServeType ==
  ASSUME TypeOK, NEW u \in {0} \cup Requests, Serve(u)
  PROVE  PumpTypeOK'
<1>1. CASE u # 0 /\ requests[u].id \in cancelled
  BY <1>1, CompleteParts DEF Serve, Outcomes
<1>2. CASE ~(u # 0 /\ requests[u].id \in cancelled)
  <2>1. (IF u = 0 THEN 0 ELSE requests[u].id) \in Nat /\ u \in Nat
    BY RequestFields
  <2>2. /\ pump' = PumpAt("write", u, IF u = 0 THEN 0 ELSE requests[u].id, FALSE)
        /\ io' = "pending" /\ UNCHANGED <<requests, outcome, cancelled>>
    BY <1>2 DEF Serve
  <2>3. pump' \in PumpRecord
    BY <2>1, <2>2, PumpAtType
  <2>. QED BY <2>2, <2>3 DEF TypeOK, PumpTypeOK, IoStates
<1>. QED BY <1>1, <1>2

LEMMA ReturnedType ==
  ASSUME TypeOK, pump.item \in {0} \cup Requests,
         NEW result \in {"ok", "closed", "none", "cancelled", "timeout"}, NEW by \in Nat,
         Returned(result, by)
  PROVE  PumpTypeOK' /\ closed' \in BOOLEAN /\ queue' \in Seq(Nat)
<1>1. CASE ~pump.re
  BY <1>1, CompleteParts DEF Returned, Outcomes, TypeOK
<1>3. CASE pump.re /\ Serve(pump.item) /\ queue' \in {queue, Append(queue, 0)} /\ closed' = closed
  <2>1. queue \in Seq(Nat) /\ Append(queue, 0) \in Seq(Nat) /\ closed \in BOOLEAN
    BY AppendParts DEF TypeOK
  <2>2. PumpTypeOK'
    BY <1>3, ServeType
  <2>. QED BY <1>3, <2>1, <2>2
<1>4. CASE pump.re /\ closed' = TRUE /\ UNCHANGED queue /\
           Complete(pump.item, IF result = "ok" THEN "closed" ELSE result, 0)
  BY <1>4, CompleteParts DEF Outcomes, TypeOK
<1>. QED BY <1>1, <1>3, <1>4 DEF Returned

(* Nothing is a sequence of lines. *)
LEMMA EmptyLines == <<>> \in Seq(Line)
OBVIOUS

(* close() tears down the child and leaves the pump to resume. *)
LEMMA CloseType ==
  ASSUME TypeOK, CloseClient
  PROVE  /\ closed' \in BOOLEAN /\ closing' \in BOOLEAN /\ open' \in BOOLEAN
         /\ stderr_eof' \in BOOLEAN /\ io' \in IoStates /\ drains' \in Nat
         /\ server' \in ServerRecord /\ out' \in Seq(Line)
BY EmptyLines DEF TypeOK, PumpTypeOK, CloseClient, DrainsAborted, TornDown, ServerRecord, IoStates

(* What waits in the queue, and what the pump serves, is a request or a     *)
(* notification.                                                            *)
LEMMA HeadIsRequest ==
  ASSUME TypeOK, QueueInv, queue # <<>>
  PROVE  Head(queue) \in {0} \cup Requests
<1>1. 1 \in DOMAIN queue /\ Head(queue) = queue[1]
  BY QueueParts DEF TypeOK
<1>. QED BY <1>1 DEF QueueInv, Unwritten

LEMMA ItemIsRequest == ASSUME PumpInv PROVE pump.item \in {0} \cup Requests
BY DEF PumpInv

(* The lines that were read are messages: a read that returned a line left  *)
(* one in the buffer.                                                       *)
LEMMA TailType ==
  ASSUME TypeOK, LineInv, io = "line"
  PROVE  Head(read_buffer) \in Line /\ Tail(read_buffer) \in Seq(Line)
BY QueueParts DEF TypeOK, LineInv

(* What a completed write does to the requests: a request went out, or was  *)
(* cancelled.                                                               *)
LEMMA WriteParts ==
  ASSUME TypeOK, PumpInv, WriteCompletes
  PROVE  /\ requests' \in Seq(RequestRecord) /\ Requests' = Requests
         /\ requests = <<>> <=> requests' = <<>>
         /\ \A v \in Requests : v # pump.item => requests'[v] = requests[v]
         /\ pump.item # 0 =>
              /\ requests'[pump.item].id = requests[pump.item].id
              /\ requests'[pump.item].settled = requests[pump.item].settled
              /\ \/ requests'[pump.item] = requests[pump.item]
                 \/ pump.pc = "cancel" /\ requests'[pump.item] = [requests[pump.item] EXCEPT !.told = TRUE]
                 \/ /\ pump.pc = "write"
                    /\ requests'[pump.item].sends = requests[pump.item].sends + 1
              /\ pump.pc = "cancel" /\ ~pump.re /\ io' = "ok" => requests'[pump.item].told
<1>0. requests \in Seq(RequestRecord) /\ Len(requests) \in Nat /\ pump \in PumpRecord
      /\ server \in ServerRecord
  BY DEF TypeOK, PumpTypeOK
<1>1. CASE requests' = requests /\ (pump.item = 0 \/ pump.re \/ pump.pc # "cancel" \/ io' # "ok")
  BY <1>0, <1>1 DEF Requests
<1>2. CASE ~(requests' = requests /\ (pump.item = 0 \/ pump.re \/ pump.pc # "cancel" \/ io' # "ok"))
  <2>. DEFINE u == pump.item
              r == Written(requests[u])
  <2>1. u # 0 /\ ~pump.re /\ pump.pc \in {"write", "cancel"} /\ requests' = [requests EXCEPT ![u] = r]
    <3>1. open /\ server.alive
      BY <1>2 DEF WriteCompletes
    <3>2. ~(pump.item = 0 \/ pump.re \/ pump.pc \notin {"write", "cancel"})
      BY <1>2, <3>1 DEF WriteCompletes
    <3>. QED BY <3>1, <3>2 DEF WriteCompletes
  <2>2. u \in 1..Len(requests) /\ requests[u] \in RequestRecord
    BY <2>1, ItemIsRequest, RequestFields DEF Requests
  <2>3. /\ r \in RequestRecord /\ r.id = requests[u].id /\ r.settled = requests[u].settled
        /\ pump.pc = "write" => r.sends = requests[u].sends + 1
        /\ pump.pc = "cancel" => r = [requests[u] EXCEPT !.told = TRUE] /\ r.told
    <3>1. server.epoch \in Nat /\ requests[u].sends + 1 \in Nat
      BY <1>0, <2>2, SMTT(60) DEF RequestRecord, ServerRecord
    <3>2. CASE pump.pc = "cancel"
      BY <2>2, <3>2 DEF RequestRecord, Written
    <3>3. CASE pump.pc = "write"
      BY <2>2, <3>1, <3>3 DEF RequestRecord, Written
    <3>. QED BY <2>1, <3>2, <3>3
  <2>. HIDE DEF r
  <2>4. requests' \in Seq(RequestRecord) /\ Len(requests') = Len(requests)
        /\ \A v \in 1..Len(requests) : requests'[v] = IF v = u THEN r ELSE requests[v]
    BY <1>0, <2>1, <2>2, <2>3, ExceptSeq
  <2>5. requests # <<>> /\ requests' # <<>>
    BY <1>0, <2>2, <2>4, EmptySeq
  <2>6. Requests' = Requests /\ requests'[u] = r
    BY <2>2, <2>4 DEF Requests
  <2>. QED BY <2>1, <2>2, <2>3, <2>4, <2>5, <2>6 DEF Requests
<1>. QED BY <1>1, <1>2

(* A stop callback marks its request and no other. *)
LEMMA CancelParts ==
  ASSUME TypeOK, NEW u \in Requests, CancelRequest(u)
  PROVE  /\ requests' \in Seq(RequestRecord) /\ Requests' = Requests
         /\ requests = <<>> <=> requests' = <<>>
         /\ \A v \in Requests :
              /\ requests'[v].id = requests[v].id /\ requests'[v].settled = requests[v].settled
              /\ requests'[v].sends = requests[v].sends /\ requests'[v].at = requests[v].at
              /\ requests'[v].told = requests[v].told
<1>. DEFINE r == [requests[u] EXCEPT !.stop = TRUE]
<1>1. requests \in Seq(RequestRecord) /\ u \in 1..Len(requests) /\ requests[u] \in RequestRecord
  BY RequestFields DEF TypeOK, PumpTypeOK, Requests
<1>2. /\ r \in RequestRecord /\ r.id = requests[u].id /\ r.settled = requests[u].settled
      /\ r.sends = requests[u].sends /\ r.at = requests[u].at /\ r.told = requests[u].told
  BY <1>1 DEF RequestRecord
<1>3. requests' = [requests EXCEPT ![u] = r]
  BY DEF CancelRequest
<1>. HIDE DEF r
<1>4. requests' \in Seq(RequestRecord) /\ Len(requests') = Len(requests)
      /\ \A v \in 1..Len(requests) : requests'[v] = IF v = u THEN r ELSE requests[v]
  BY <1>1, <1>2, <1>3, ExceptSeq
<1>5. requests # <<>> /\ requests' # <<>>
  BY <1>1, <1>4, EmptySeq
<1>. QED BY <1>1, <1>2, <1>4, <1>5 DEF Requests

(* Every step keeps the types. *)
LEMMA TypeStep == TypeOK /\ QueueInv /\ PumpInv /\ LineInv /\ [Next]_vars => TypeOK'
<1>. SUFFICES ASSUME TypeOK, QueueInv, PumpInv, LineInv, [Next]_vars PROVE TypeOK'
  OBVIOUS
<1>. USE ItemIsRequest, EmptyLines DEF TypeOK, PumpTypeOK
<1>1. CASE Connect
  <2>1. CASE phase' = "failed" /\ UNCHANGED <<server, open, drains, requests, next_id, queue, pump, io>>
    BY <1>1, <2>1 DEF Connect
  <2>2. CASE /\ phase' = "connecting" /\ server' = NewChild /\ open' = TRUE /\ drains' = 1
             /\ requests' = <<NewRequest(FreshId)>> /\ next_id' = next_id + 1 /\ Enqueue(1)
    <3>1. requests' \in Seq(RequestRecord) /\ server' \in ServerRecord
      BY <2>2, RequestType DEF FreshId, NewChild, ServerRecord
    <3>2. queue' \in Seq(Nat) /\ pump' \in PumpRecord /\ io' \in IoStates
      BY <2>2, AppendParts, StartPumpType DEF Enqueue
    <3>. QED BY <1>1, <2>2, <3>1, <3>2 DEF Connect
  <2>. QED BY <1>1, <2>1, <2>2 DEF Connect
<1>2. CASE Request
  <2>1. phase' = phase /\ UNCHANGED <<cancelled, link, read_buffer, server, out, errs, noise>>
    BY <1>2 DEF Request
  <2>2. CASE /\ UNCHANGED <<next_id, queue, pump, io>>
             /\ requests' = Append(requests, SettledRequest(1))
             /\ outcome' \in [request : Nat, result : Outcomes, by : Nat]
    BY <2>1, <2>2, AppendParts, RequestType
  <2>3. CASE /\ requests' = Append(requests, NewRequest(FreshId)) /\ next_id' = next_id + 1
             /\ Enqueue(Len(requests) + 1) /\ UNCHANGED outcome
    <3>1. requests' \in Seq(RequestRecord) /\ next_id' \in Nat
      BY <2>3, AppendParts, RequestType DEF FreshId
    <3>2. queue' \in Seq(Nat) /\ pump' \in PumpRecord /\ io' \in IoStates
      BY <2>3, AppendParts, StartPumpType DEF Enqueue
    <3>. QED BY <2>1, <2>3, <3>1, <3>2
  <2>4. ASSUME outcome' = [request |-> Len(requests) + 1, by |-> 0,
                           result |-> IF closing THEN "closed" ELSE "cancelled"]
        PROVE  outcome' \in [request : Nat, result : Outcomes, by : Nat]
    BY <2>4 DEF Outcomes
  <2>. QED BY <1>2, <2>2, <2>3, <2>4 DEF Request
<1>3. CASE SetListener
  BY <1>3, StartPumpType DEF SetListener
<1>4. CASE Close
  BY <1>4, CloseType DEF Close
<1>5. ASSUME NEW u \in Requests, CancelRequest(u) PROVE TypeOK'
  <2>1. requests' \in Seq(RequestRecord)
    BY <1>5, CancelParts
  <2>2. cancelled' \in SUBSET Nat
    BY <1>5, RequestFields DEF CancelRequest
  <2>. QED BY <1>5, <2>1, <2>2 DEF CancelRequest, IoStates
<1>6. CASE ConnectReturns
  <2>1. phase' \in {"up", "failed"} /\ UNCHANGED <<requests, outcome, next_id, cancelled, read_buffer, noise>>
    BY <1>6 DEF ConnectReturns
  <2>2. CASE CloseClient /\ UNCHANGED <<queue, pump>>
    BY <2>1, <2>2, CloseType
  <2>3. CASE UNCHANGED <<queue, pump, io, link, errs, server, out>>
    BY <2>1, <2>3
  <2>4. CASE Enqueue(0) /\ UNCHANGED <<link, errs, server, out>>
    BY <2>1, <2>4, AppendParts, StartPumpType DEF Enqueue
  <2>. QED BY <1>6, <2>2, <2>3, <2>4 DEF ConnectReturns
<1>7. CASE PumpEnds
  BY <1>7, PumpAtType DEF PumpEnds, NoPump
<1>8. CASE PumpIdles
  BY <1>8, PumpAtType DEF PumpIdles, ReadStart, IoStates
<1>9. CASE PumpRefuses
  <2>1. queue' \in Seq(Nat) /\ Head(queue) \in {0} \cup Requests
    BY <1>9, QueueParts, HeadIsRequest DEF PumpRefuses
  <2>2. PumpTypeOK'
    BY <1>9, <2>1, CompleteParts DEF PumpRefuses, Outcomes
  <2>. QED BY <1>9, <2>1, <2>2 DEF PumpRefuses
<1>10. CASE PumpServes
  <2>1. queue' \in Seq(Nat) /\ Head(queue) \in {0} \cup Requests
    BY <1>10, QueueParts, HeadIsRequest DEF PumpServes
  <2>2. PumpTypeOK'
    BY <1>10, <2>1, ServeType DEF PumpServes
  <2>. QED BY <1>10, <2>1, <2>2 DEF PumpServes
<1>11. CASE PumpReconnects
  <2>1. queue' \in Seq(Nat) /\ Head(queue) \in {0} \cup Requests /\ Head(queue) \in Nat
    BY <1>11, QueueParts, HeadIsRequest DEF PumpReconnects, Reconnect
  <2>2. UNCHANGED <<phase, closing, noise>> /\ read_buffer' = <<>> /\ out' = <<>> /\ stderr_eof' \in BOOLEAN
    BY <1>11 DEF PumpReconnects, Reconnect, DrainsAborted
  <2>3. CASE /\ server' = NewChild /\ open' = TRUE /\ closed' = FALSE /\ next_id' = next_id + 1
             /\ \E aborted \in 0..drains : drains' = drains - aborted + 1
             /\ pump' = PumpAt("rewrite", Head(queue), FreshId, TRUE) /\ io' = "pending"
             /\ UNCHANGED <<requests, outcome, cancelled>>
    <3>1. server' \in ServerRecord /\ drains' \in Nat
      BY <2>3 DEF NewChild, ServerRecord
    <3>2. pump' \in PumpRecord /\ io' \in IoStates
      BY <2>1, <2>3, PumpAtType DEF FreshId, IoStates
    <3>3. requests' \in Seq(RequestRecord) /\ next_id' \in Nat /\ UNCHANGED <<outcome, cancelled>>
      BY <2>3
    <3>4. open' \in BOOLEAN /\ closed' \in BOOLEAN
      BY <2>3
    <3>. QED BY <2>1, <2>2, <3>1, <3>2, <3>3, <3>4
  <2>4. CASE /\ server' = TornDown(server) /\ drains' = 0 /\ open' = FALSE
             /\ Complete(Head(queue), "closed", 0) /\ UNCHANGED <<closed, next_id>>
    <3>1. PumpTypeOK'
      BY <2>1, <2>4, CompleteParts DEF Outcomes
    <3>2. server' \in ServerRecord
      BY <2>4 DEF TornDown, ServerRecord
    <3>. QED BY <2>1, <2>2, <2>4, <3>1, <3>2
  <2>. QED BY <1>11, <2>3, <2>4 DEF PumpReconnects, Reconnect
<1>12. CASE PumpIdleReturns
  <2>1. UNCHANGED <<phase, requests, outcome, queue, next_id, cancelled, closing, open, server, out, errs, noise>>
    BY <1>12 DEF PumpIdleReturns
  <2>2. pump' \in PumpRecord /\ io' \in IoStates
    BY <1>12, PumpAtType, AtTopType, ZenonT(60) DEF PumpIdleReturns, IoStates
  <2>3. read_buffer' \in Seq(Line) /\ closed' \in BOOLEAN
    BY <1>12, TailType DEF PumpIdleReturns, AtPump
  <2>. QED BY <2>1, <2>2, <2>3
<1>13. CASE PumpWritten
  <2>1. PumpTypeOK' /\ closed' \in BOOLEAN
    <3>1. CASE io = "error"
      BY <1>13, <3>1, CompleteParts DEF PumpWritten, Outcomes
    <3>2. CASE io # "error" /\ pump.item = 0
      BY <1>13, <3>2, AtTopType DEF PumpWritten, IoStates
    <3>3. CASE io # "error" /\ pump.item # 0
      BY <1>13, <3>3, AwaitType DEF PumpWritten
    <3>. QED BY <3>1, <3>2, <3>3
  <2>. QED BY <1>13, <2>1 DEF PumpWritten
<1>14. CASE PumpRewritten
  <2>1. PumpTypeOK' /\ closed' \in BOOLEAN
    BY <1>14, CompleteParts, AwaitType DEF PumpRewritten, Outcomes
  <2>. QED BY <1>14, <2>1 DEF PumpRewritten
<1>15. CASE PumpLine
  <2>. DEFINE msg == Head(read_buffer)
  <2>1. read_buffer' \in Seq(Line) /\ UNCHANGED <<phase, next_id, closing, open, server, out, errs, noise>>
    BY <1>15, TailType DEF PumpLine, AtPump
  <2>2. CASE /\ pump' = [pump EXCEPT !.pc = "answer"] /\ io' = "pending"
             /\ UNCHANGED <<requests, outcome, cancelled, closed, queue>>
    BY <2>1, <2>2, PumpGoesOn DEF IoStates
  <2>3. CASE Returned("ok", msg.to)
    <3>1. msg \in Line
      BY <1>15, TailType DEF PumpLine, AtPump
    <3>2. PumpTypeOK' /\ closed' \in BOOLEAN /\ queue' \in Seq(Nat)
      BY <2>3, <3>1, ReturnedType DEF Line
    <3>. QED BY <2>1, <3>2
  <2>4. CASE Await(Tail(read_buffer)) /\ UNCHANGED <<closed, queue>>
    BY <2>1, <2>4, AwaitType
  <2>. QED BY <1>15, <2>2, <2>3, <2>4 DEF PumpLine
<1>16. CASE PumpNoLine
  <2>1. closed' \in BOOLEAN
    BY <1>16 DEF PumpNoLine
  <2>2. PumpTypeOK'
    BY <1>16, AwaitType, GiveUpType, PumpGoesOn DEF PumpNoLine, IoStates
  <2>. QED BY <1>16, <2>1, <2>2 DEF PumpNoLine
<1>17. CASE PumpFails
  <2>1. PumpTypeOK' /\ closed' \in BOOLEAN /\ queue' \in Seq(Nat)
    BY <1>17, ReturnedType DEF PumpFails, PumpRecord
  <2>. QED BY <1>17, <2>1 DEF PumpFails
<1>18. CASE PumpAnswered
  <2>1. PumpTypeOK' /\ closed' \in BOOLEAN
    <3>1. CASE pump.item = 0 /\ ~pump.re
      BY <1>18, <3>1, AtTopType DEF PumpAnswered, IoStates
    <3>2. CASE ~(pump.item = 0 /\ ~pump.re)
      BY <1>18, <3>2, AwaitType DEF PumpAnswered
    <3>. QED BY <3>1, <3>2
  <2>. QED BY <1>18, <2>1 DEF PumpAnswered
<1>19. CASE WriteCompletes
  <2>1. requests' \in Seq(RequestRecord)
    BY <1>19, WriteParts
  <2>2. server' \in ServerRecord
    <3>1. Frame \in [to : Nat, id : Nat]
      BY DEF PumpRecord, Frame
    <3>2. server' = server \/ server' = [server EXCEPT !.todo = server.todo \cup {Frame}]
      BY <1>19 DEF WriteCompletes
    <3>. QED BY <3>1, <3>2 DEF ServerRecord
  <2>. QED BY <1>19, <2>1, <2>2 DEF WriteCompletes, IoStates
<1>20. CASE ReadCompletes
  BY <1>20 DEF ReadCompletes, IoStates
<1>21. CASE TimerFires
  BY <1>21 DEF TimerFires, IoStates
<1>22. CASE DrainEnds
  BY <1>22 DEF DrainEnds, IoStates
<1>23. CASE ServerAnswers
  <2>1. PICK m \in server.todo : /\ server' = [server EXCEPT !.todo = @ \ {m}]
                                  /\ out' = Append(out, [kind |-> "answer", to |-> m.to, id |-> m.id])
    BY <1>23 DEF ServerAnswers
  <2>2. server' \in ServerRecord /\ [kind |-> "answer", to |-> m.to, id |-> m.id] \in Line
    BY <2>1 DEF ServerRecord, Line
  <2>. QED BY <1>23, <2>1, <2>2, AppendParts DEF ServerAnswers
<1>24. CASE ServerSpeaks
  <2>1. PICK kind \in {"ask", "note"} : out' = Append(out, [kind |-> kind, to |-> 0, id |-> 0])
    BY <1>24 DEF ServerSpeaks
  <2>2. [kind |-> kind, to |-> 0, id |-> 0] \in Line
    BY <2>1 DEF Line
  <2>. QED BY <1>24, <2>1, <2>2, AppendParts DEF ServerSpeaks
<1>25. CASE ServerDies
  BY <1>25 DEF ServerDies, ServerRecord
<1>26. CASE DescendantDies
  BY <1>26 DEF DescendantDies, ServerRecord
<1>27. CASE UNCHANGED vars
  BY <1>27
<1>. QED
  BY <1>1, <1>2, <1>3, <1>4, <1>5, <1>6, <1>7, <1>8, <1>9, <1>10, <1>11, <1>12, <1>13,
     <1>14, <1>15, <1>16, <1>17, <1>18, <1>19, <1>20, <1>21, <1>22, <1>23, <1>24, <1>25,
     <1>26, <1>27
     DEF Next, Host, Pump, Completions, Child

(* What a step may leave of a request. *)
Same(v) ==
  /\ v \in Requests' /\ requests'[v].settled = requests[v].settled
  /\ requests'[v].sends = requests[v].sends /\ requests'[v].at = requests[v].at
  /\ requests'[v].id = requests[v].id

LEMMA SameAll ==
  ASSUME requests' = requests
  PROVE  Requests' = Requests /\ \A v \in Requests : Same(v)
BY DEF Same, Requests

(* A request that the step leaves unwritten stays unwritten. *)
LEMMA SameUnwritten ==
  ASSUME NEW v, Unwritten(v), Same(v)
  PROVE  Unwritten(v)'
BY DEF Unwritten, Same, Requests

(* What the pump is left with when it settles, serves, awaits or gives up.  *)
LEMMA CompleteFx ==
  ASSUME TypeOK, NEW u \in {0} \cup Requests, NEW result \in Outcomes, NEW by \in Nat,
         Complete(u, result, by)
  PROVE  /\ pump' = AtTop /\ io' = "none" /\ Requests' = Requests
         /\ requests = <<>> <=> requests' = <<>>
         /\ \A v \in Requests : v # u => Same(v)
         /\ u # 0 => /\ requests'[u].settled = requests[u].settled + 1
                     /\ requests'[u].sends = 0
                     /\ outcome' = [request |-> u, result |-> result, by |-> by]
         /\ u = 0 => outcome' = outcome /\ requests' = requests
<1>1. /\ Requests' = Requests /\ (requests = <<>> <=> requests' = <<>>)
      /\ \A v \in Requests : v # u => requests'[v] = requests[v]
      /\ u # 0 => requests'[u] = SettledRequest(requests[u].settled + 1)
  BY CompleteParts
<1>2. u # 0 => requests'[u].settled = requests[u].settled + 1 /\ requests'[u].sends = 0
  BY <1>1 DEF SettledRequest
<1>3. pump' = AtTop /\ io' = "none"
      /\ (u # 0 => outcome' = [request |-> u, result |-> result, by |-> by])
      /\ (u = 0 => outcome' = outcome /\ requests' = requests)
  BY DEF Complete
<1>. QED BY <1>1, <1>2, <1>3 DEF Same

LEMMA TopFields ==
  /\ AtTop.pc = "top" /\ AtTop.item = 0 /\ AtTop.id = 0 /\ AtTop.re = FALSE
  /\ NoPump.pc = "none" /\ NoPump.item = 0 /\ NoPump.id = 0 /\ NoPump.re = FALSE
BY DEF AtTop, NoPump, PumpAt

LEMMA AwaitFx ==
  ASSUME TypeOK, NEW buffer, Await(buffer)
  PROVE  /\ pump'.item = pump.item /\ pump'.id = pump.id /\ pump'.re = pump.re
         /\ pump'.pc \in {"await", "cancel"} /\ (pump'.pc = "cancel" => io' = "pending")
         /\ io' = "line" => buffer # <<>>
         /\ UNCHANGED <<requests, outcome>>
BY DEF TypeOK, PumpTypeOK, PumpRecord, Await, GiveUp, ReadStart

LEMMA GiveUpFx ==
  ASSUME TypeOK, NEW why, GiveUp(why)
  PROVE  /\ pump'.item = pump.item /\ pump'.id = pump.id /\ pump'.re = pump.re
         /\ pump'.pc = "cancel" /\ io' = "pending" /\ UNCHANGED <<requests, outcome>>
BY DEF TypeOK, PumpTypeOK, PumpRecord, GiveUp

LEMMA ServeFx ==
  ASSUME TypeOK, NEW u \in {0} \cup Requests, Serve(u)
  PROVE  \/ Complete(u, "cancelled", 0) /\ u # 0
         \/ /\ pump'.pc = "write" /\ pump'.item = u /\ ~pump'.re /\ io' = "pending"
            /\ pump'.id = IF u = 0 THEN 0 ELSE requests[u].id
            /\ UNCHANGED <<requests, outcome>>
BY DEF Serve, PumpAt

LEMMA ReturnedFx ==
  ASSUME TypeOK, pump.item \in {0} \cup Requests, NEW result, NEW by, Returned(result, by)
  PROVE  \/ Complete(pump.item, result, by) /\ UNCHANGED queue /\ ~pump.re
         \/ Serve(pump.item) /\ queue' \in {queue, Append(queue, 0)} /\ pump.re
         \/ /\ Complete(pump.item, IF result = "ok" THEN "closed" ELSE result, 0)
            /\ UNCHANGED queue /\ pump.re
BY DEF Returned

(* The queue as steps change it: left alone, one entry longer, or without   *)
(* its first entry.                                                         *)
LEMMA QueueStays ==
  ASSUME TypeOK, QueueInv, queue' = queue, pump'.item \in {0, pump.item},
         \A v \in Requests : v # pump.item => Same(v)
  PROVE  QueueInv'
<1>1. ASSUME NEW k \in DOMAIN queue
      PROVE  (queue[k] # 0 => Unwritten(queue[k]) /\ queue[k] # pump.item)'
  BY <1>1 DEF QueueInv, Unwritten, Same
<1>. QED BY <1>1 DEF QueueInv

LEMMA QueueQuiet ==
  ASSUME TypeOK, QueueInv, UNCHANGED <<requests, queue>>, pump'.item \in {0, pump.item}
  PROVE  QueueInv'
BY SameAll, QueueStays

LEMMA QueueGrows ==
  ASSUME TypeOK, QueueInv, NEW e \in Nat, queue' = Append(queue, e), pump'.item \in {0, pump.item},
         \A v \in Requests : v # pump.item => Same(v),
         e # 0 => e \notin Requests /\ Unwritten(e)' /\ e # pump'.item
  PROVE  QueueInv'
<1>1. /\ DOMAIN queue' = 1..(Len(queue) + 1) /\ DOMAIN queue = 1..Len(queue) /\ Len(queue) \in Nat
      /\ \A k \in 1..Len(queue) : queue'[k] = queue[k]
      /\ queue'[Len(queue) + 1] = e
  BY AppendParts DEF TypeOK
<1>2. ASSUME NEW k \in DOMAIN queue, NEW v, v = queue[k], v # 0
      PROVE  Unwritten(v)' /\ v # pump'.item /\ v \in Requests
  BY <1>2, SameUnwritten DEF QueueInv, Unwritten
<1>3. ASSUME NEW k \in DOMAIN queue'
      PROVE  (queue[k] # 0 => Unwritten(queue[k]) /\ queue[k] # pump.item)'
  <2>1. CASE k = Len(queue) + 1
    BY <1>1, <1>3, <2>1 DEF Unwritten
  <2>2. CASE k # Len(queue) + 1
    BY <1>1, <1>2, <1>3, <2>2 DEF Unwritten
  <2>. QED BY <2>1, <2>2
<1>4. ASSUME NEW j \in DOMAIN queue', NEW k \in DOMAIN queue', j # k
      PROVE  queue'[j] # queue'[k] \/ queue'[j] = 0
  <2>1. CASE j \in DOMAIN queue /\ k \in DOMAIN queue
    BY <1>1, <1>4, <2>1 DEF QueueInv
  <2>2. CASE j = Len(queue) + 1
    BY <1>1, <1>2, <1>4, <2>2
  <2>3. CASE k = Len(queue) + 1
    BY <1>1, <1>2, <1>4, <2>3
  <2>. QED BY <1>1, <2>1, <2>2, <2>3
<1>. QED BY <1>3, <1>4 DEF QueueInv

LEMMA QueueShrinks ==
  ASSUME TypeOK, QueueInv, queue # <<>>, queue' = Tail(queue), pump'.item \in {0, Head(queue)},
         \A v \in Requests : v # Head(queue) => Same(v)
  PROVE  QueueInv'
<1>1. /\ Head(queue) = queue[1] /\ 1 \in DOMAIN queue
      /\ \A k \in DOMAIN queue' : k + 1 \in DOMAIN queue /\ queue'[k] = queue[k + 1] /\ k \in Nat
      /\ DOMAIN queue' = 1..Len(queue') /\ Len(queue') \in Nat
  BY QueueParts, LenProperties DEF TypeOK
<1>2. ASSUME NEW k \in DOMAIN queue'
      PROVE  (queue[k] # 0 => Unwritten(queue[k]) /\ queue[k] # pump.item)'
  <2>. SUFFICES ASSUME queue'[k] # 0 PROVE (Unwritten(queue[k]) /\ queue[k] # pump.item)'
    OBVIOUS
  <2>1. queue'[k] = queue[k + 1] /\ Unwritten(queue[k + 1]) /\ queue[k + 1] # Head(queue)
    BY <1>1, <1>2 DEF QueueInv
  <2>2. Unwritten(queue[k])'
    BY <2>1 DEF Unwritten, Same
  <2>. QED BY <2>1, <2>2
<1>3. ASSUME NEW j \in DOMAIN queue', NEW k \in DOMAIN queue', j # k
      PROVE  queue'[j] # queue'[k] \/ queue'[j] = 0
  BY <1>1, <1>3 DEF QueueInv
<1>. QED BY <1>2, <1>3 DEF QueueInv

(* A request that is made. *)
LEMMA AppendFx ==
  ASSUME TypeOK, NEW r \in RequestRecord, requests' = Append(requests, r)
  PROVE  /\ Requests' = Requests \cup {Len(requests) + 1} /\ Len(requests) + 1 \notin Requests
         /\ \A v \in Requests : Same(v) /\ requests'[v] = requests[v]
         /\ requests'[Len(requests) + 1] = r /\ requests' # <<>> /\ Len(requests) + 1 \in Nat
<1>1. /\ requests' \in Seq(RequestRecord) /\ Len(requests') = Len(requests) + 1 /\ Len(requests) \in Nat
      /\ \A k \in 1..Len(requests) : requests'[k] = requests[k]
      /\ requests'[Len(requests) + 1] = r
  BY AppendParts DEF TypeOK, PumpTypeOK
<1>2. requests' # <<>>
  BY <1>1, EmptySeq
<1>. QED BY <1>1, <1>2 DEF Requests, Same

(* What serving and returning leave of the requests and of the queue. *)
LEMMA ServeKeeps ==
  ASSUME TypeOK, NEW u \in {0} \cup Requests, Serve(u)
  PROVE  pump'.item \in {0, u} /\ \A v \in Requests : v # u => Same(v)
<1>1. CASE Complete(u, "cancelled", 0)
  BY <1>1, CompleteFx, TopFields DEF Outcomes
<1>2. CASE pump'.item = u /\ requests' = requests
  BY <1>2, SameAll
<1>. QED BY <1>1, <1>2, ServeFx

LEMMA ReturnedQueue ==
  ASSUME TypeOK, QueueInv, PumpInv, NEW result \in Outcomes, NEW by \in Nat, Returned(result, by)
  PROVE  QueueInv'
<1>0. pump.item \in {0} \cup Requests
  BY ItemIsRequest
<1>1. ASSUME NEW r \in Outcomes, NEW b \in Nat, Complete(pump.item, r, b), UNCHANGED queue
      PROVE  QueueInv'
  BY <1>0, <1>1, CompleteFx, TopFields, QueueStays
<1>2. CASE Serve(pump.item) /\ queue' \in {queue, Append(queue, 0)}
  <2>1. pump'.item \in {0, pump.item} /\ \A v \in Requests : v # pump.item => Same(v)
    BY <1>0, <1>2, ServeKeeps
  <2>. QED BY <1>2, <2>1, QueueStays, QueueGrows
<1>3. (IF result = "ok" THEN "closed" ELSE result) \in Outcomes
  BY DEF Outcomes
<1>. QED BY <1>0, <1>1, <1>2, <1>3, ReturnedFx

(* Every step keeps the queue. *)
LEMMA QueueStep == TypeOK /\ QueueInv /\ PumpInv /\ LinkInv /\ LineInv /\ [Next]_vars => QueueInv'
<1>. SUFFICES ASSUME TypeOK, QueueInv, PumpInv, LinkInv, LineInv, [Next]_vars PROVE QueueInv'
  OBVIOUS
<1>. USE ItemIsRequest
<1>1. CASE Connect
  <2>1. CASE UNCHANGED <<requests, queue, pump>>
    BY <2>1, QueueQuiet
  <2>2. CASE requests' = <<NewRequest(FreshId)>> /\ Enqueue(1)
    <3>1. requests = <<>> /\ pump.item = 0 /\ FreshId \in Nat
      BY <1>1 DEF Connect, LinkInv, PumpInv, TypeOK, FreshId
    <3>2. requests' = Append(requests, NewRequest(FreshId)) /\ Len(requests) = 0
      BY <2>2, <3>1
    <3>3. Unwritten(1)' /\ 1 \notin Requests
      BY <3>1, <3>2, AppendFx, RequestType DEF NewRequest, Unwritten
    <3>4. pump'.item = 0
      BY <2>2, <3>1, TopFields DEF Enqueue, StartPump
    <3>. QED BY <2>2, <3>1, <3>3, <3>4, QueueGrows DEF Enqueue, Requests
  <2>. QED BY <1>1, <2>1, <2>2 DEF Connect
<1>2. CASE Request
  <2>1. CASE UNCHANGED <<queue, pump>> /\ requests' = Append(requests, SettledRequest(1))
    <3>1. \A v \in Requests : Same(v)
      BY <2>1, AppendFx, RequestType
    <3>. QED BY <2>1, <3>1, QueueStays
  <2>2. CASE requests' = Append(requests, NewRequest(FreshId)) /\ Enqueue(Len(requests) + 1)
    <3>0. PICK n \in Nat : n = Len(requests) + 1
      BY DEF TypeOK, PumpTypeOK
    <3>1. FreshId \in Nat /\ n # pump.item /\ n # 0
      BY <3>0, ItemIsRequest DEF FreshId, TypeOK, PumpTypeOK, Requests
    <3>2. n \in Requests' /\ requests'[n] = NewRequest(FreshId) /\ n \notin Requests
          /\ \A v \in Requests : Same(v)
      BY <2>2, <3>0, <3>1, AppendFx, RequestType
    <3>3. Unwritten(n)'
      BY <3>2 DEF Unwritten, NewRequest
    <3>4. pump'.item \in {0, pump.item} /\ queue' = Append(queue, n)
      BY <2>2, <3>0, TopFields DEF Enqueue, StartPump
    <3>5. n # pump'.item
      BY <3>1, <3>4
    <3>. QED BY <3>2, <3>3, <3>4, <3>5, QueueGrows
  <2>. QED BY <1>2, <2>1, <2>2 DEF Request
<1>3. CASE SetListener
  <2>1. pump'.item \in {0, pump.item}
    BY <1>3, TopFields DEF SetListener, StartPump
  <2>. QED BY <1>3, <2>1, QueueQuiet DEF SetListener
<1>4. CASE Close
  BY <1>4, QueueQuiet, TopFields DEF Close
<1>5. ASSUME NEW u \in Requests, CancelRequest(u) PROVE QueueInv'
  <2>1. \A v \in Requests : Same(v)
    BY <1>5, CancelParts DEF Same
  <2>. QED BY <1>5, <2>1, QueueStays DEF CancelRequest
<1>6. CASE ConnectReturns
  <2>1. requests' = requests
    BY <1>6 DEF ConnectReturns
  <2>2. CASE UNCHANGED <<queue, pump>>
    BY <2>1, <2>2, QueueQuiet
  <2>3. CASE Enqueue(0)
    <3>1. pump'.item \in {0, pump.item}
      BY <2>3, TopFields DEF Enqueue, StartPump
    <3>. QED BY <2>1, <2>3, <3>1, SameAll, QueueGrows DEF Enqueue
  <2>. QED BY <1>6, <2>2, <2>3 DEF ConnectReturns
<1>7. CASE PumpEnds
  BY <1>7, QueueQuiet, TopFields DEF PumpEnds
<1>8. CASE PumpIdles
  BY <1>8, QueueQuiet DEF PumpIdles, PumpAt
<1>9. CASE PumpRefuses
  <2>1. queue # <<>> /\ queue' = Tail(queue) /\ Head(queue) \in {0} \cup Requests
    BY <1>9, HeadIsRequest DEF PumpRefuses
  <2>2. pump' = AtTop /\ \A v \in Requests : v # Head(queue) => Same(v)
    BY <1>9, <2>1, CompleteFx DEF PumpRefuses, Outcomes
  <2>. QED BY <2>1, <2>2, TopFields, QueueShrinks
<1>10. CASE PumpServes
  <2>1. queue # <<>> /\ queue' = Tail(queue) /\ Head(queue) \in {0} \cup Requests
    BY <1>10, HeadIsRequest DEF PumpServes
  <2>2. pump'.item \in {0, Head(queue)} /\ \A v \in Requests : v # Head(queue) => Same(v)
    BY <1>10, <2>1, ServeKeeps DEF PumpServes
  <2>. QED BY <2>1, <2>2, QueueShrinks
<1>11. CASE PumpReconnects
  <2>1. queue # <<>> /\ queue' = Tail(queue) /\ Head(queue) \in {0} \cup Requests
    BY <1>11, HeadIsRequest DEF PumpReconnects, Reconnect
  <2>2. CASE pump' = PumpAt("rewrite", Head(queue), FreshId, TRUE) /\ requests' = requests
    BY <2>1, <2>2, SameAll, QueueShrinks DEF PumpAt
  <2>3. CASE Complete(Head(queue), "closed", 0)
    <3>1. pump' = AtTop /\ \A v \in Requests : v # Head(queue) => Same(v)
      BY <2>1, <2>3, CompleteFx DEF Outcomes
    <3>. QED BY <2>1, <3>1, TopFields, QueueShrinks
  <2>. QED BY <1>11, <2>2, <2>3 DEF PumpReconnects, Reconnect
<1>12. CASE PumpIdleReturns
  <2>1. pump'.item = 0
    BY <1>12, TopFields DEF PumpIdleReturns, PumpAt
  <2>. QED BY <1>12, <2>1, QueueQuiet DEF PumpIdleReturns
<1>13. CASE PumpWritten
  <2>1. pump'.item \in {0, pump.item} /\ \A v \in Requests : v # pump.item => Same(v)
    BY <1>13, CompleteFx, AwaitFx, TopFields, SameAll DEF PumpWritten, Outcomes
  <2>. QED BY <1>13, <2>1, QueueStays DEF PumpWritten
<1>14. CASE PumpRewritten
  <2>1. pump'.item \in {0, pump.item} /\ \A v \in Requests : v # pump.item => Same(v)
    BY <1>14, CompleteFx, AwaitFx, TopFields, SameAll DEF PumpRewritten, Outcomes
  <2>. QED BY <1>14, <2>1, QueueStays DEF PumpRewritten
<1>15. CASE PumpLine
  <2>1. CASE pump' = [pump EXCEPT !.pc = "answer"] /\ UNCHANGED <<requests, queue>>
    <3>1. pump'.item = pump.item
      BY <2>1 DEF TypeOK, PumpTypeOK, PumpRecord
    <3>. QED BY <2>1, <3>1, QueueQuiet
  <2>2. CASE Returned("ok", Head(read_buffer).to)
    <3>1. Head(read_buffer).to \in Nat
      BY <1>15, TailType DEF PumpLine, AtPump, Line
    <3>. QED BY <2>2, <3>1, ReturnedQueue DEF Outcomes
  <2>3. CASE Await(Tail(read_buffer)) /\ UNCHANGED queue
    BY <2>3, AwaitFx, QueueQuiet
  <2>. QED BY <1>15, <2>1, <2>2, <2>3 DEF PumpLine
<1>16. CASE PumpNoLine
  <2>1. pump'.item = pump.item /\ requests' = requests
    BY <1>16, AwaitFx, GiveUpFx DEF PumpNoLine, TypeOK, PumpTypeOK, PumpRecord
  <2>. QED BY <1>16, <2>1, QueueQuiet DEF PumpNoLine
<1>17. CASE PumpFails
  <2>1. pump.out \in {"none", "cancelled", "timeout"}
    BY DEF TypeOK, PumpTypeOK, PumpRecord
  <2>. QED BY <1>17, <2>1, ReturnedQueue DEF PumpFails, Outcomes
<1>18. CASE PumpAnswered
  <2>1. pump'.item \in {0, pump.item} /\ requests' = requests
    BY <1>18, AwaitFx, TopFields DEF PumpAnswered
  <2>. QED BY <1>18, <2>1, QueueQuiet DEF PumpAnswered
<1>19. CASE WriteCompletes
  <2>1. \A v \in Requests : v # pump.item => Same(v)
    BY <1>19, WriteParts DEF Same
  <2>. QED BY <1>19, <2>1, QueueStays DEF WriteCompletes
<1>20. CASE ReadCompletes
  BY <1>20, QueueQuiet, TopFields DEF ReadCompletes
<1>21. CASE TimerFires
  BY <1>21, QueueQuiet, TopFields DEF TimerFires
<1>22. CASE DrainEnds
  BY <1>22, QueueQuiet, TopFields DEF DrainEnds
<1>23. CASE ServerAnswers
  BY <1>23, QueueQuiet, TopFields DEF ServerAnswers
<1>24. CASE ServerSpeaks
  BY <1>24, QueueQuiet, TopFields DEF ServerSpeaks
<1>25. CASE ServerDies
  BY <1>25, QueueQuiet, TopFields DEF ServerDies
<1>26. CASE DescendantDies
  BY <1>26, QueueQuiet, TopFields DEF DescendantDies
<1>27. CASE UNCHANGED vars
  BY <1>27, QueueQuiet
<1>. QED
  BY <1>1, <1>2, <1>3, <1>4, <1>5, <1>6, <1>7, <1>8, <1>9, <1>10, <1>11, <1>12, <1>13,
     <1>14, <1>15, <1>16, <1>17, <1>18, <1>19, <1>20, <1>21, <1>22, <1>23, <1>24, <1>25,
     <1>26, <1>27
     DEF Next, Host, Pump, Completions, Child

(* The first entry of the queue is unwritten. *)
LEMMA HeadUnwritten ==
  ASSUME TypeOK, QueueInv, queue # <<>>
  PROVE  Head(queue) \in {0} \cup Requests /\ (Head(queue) # 0 => Unwritten(Head(queue)))
<1>1. 1 \in DOMAIN queue /\ Head(queue) = queue[1]
  BY QueueParts DEF TypeOK
<1>. QED BY <1>1, HeadIsRequest DEF QueueInv

(* The pump as steps change it: without a request, with the same request at *)
(* a later point, where it was, started, or with a request it begins.       *)
LEMMA PumpParked ==
  ASSUME pump'.item = 0, pump'.re = FALSE, pump'.id = 0,
         pump'.pc \in {"none", "top", "idle", "answer"}
  PROVE  PumpInv'
BY DEF PumpInv

LEMMA PumpGoesAhead ==
  ASSUME TypeOK, PumpInv, pump'.item = pump.item, pump'.id = pump.id, pump'.re = pump.re,
         pump'.pc \in {"await", "cancel", "drained", "answer"}, pump.item # 0 \/ pump.re,
         \A v \in Requests : Same(v)
  PROVE  PumpInv'
<1>1. ASSUME pump.item # 0
      PROVE  /\ pump.item \in Requests' /\ requests'[pump.item].settled = 0
             /\ requests'[pump.item].sends <= 1
             /\ pump.re => Unwritten(pump.item)
             /\ pump.re => requests'[pump.item].sends = 0 /\ requests'[pump.item].at = 0
             /\ ~pump.re => pump.id = requests'[pump.item].id
  BY <1>1 DEF PumpInv, Same, Unwritten
<1>. QED BY <1>1 DEF PumpInv, Unwritten

LEMMA PumpStays ==
  ASSUME TypeOK, PumpInv, pump' = pump, \A v \in Requests : Same(v),
         io' = "pending" /\ pump.pc = "write" => io = "pending"
  PROVE  PumpInv'
<1>1. ASSUME pump.item # 0
      PROVE  /\ pump.item \in Requests' /\ requests'[pump.item].settled = 0
             /\ requests'[pump.item].sends <= 1
             /\ pump.re \/ (pump.pc = "write" /\ io' = "pending")
                  => requests'[pump.item].sends = 0 /\ requests'[pump.item].at = 0
             /\ ~pump.re => pump.id = requests'[pump.item].id
  BY <1>1 DEF PumpInv, Same, Unwritten
<1>. QED BY <1>1 DEF PumpInv, Unwritten

LEMMA PumpStarts ==
  ASSUME TypeOK, PumpInv, NEW q, StartPump(q), \A v \in Requests : Same(v)
  PROVE  PumpInv'
<1>1. CASE pump' = AtTop
  BY <1>1, TopFields, PumpParked
<1>2. CASE pump' = pump
  BY <1>2, PumpStays DEF StartPump
<1>. QED BY <1>1, <1>2 DEF StartPump

LEMMA PumpBegins ==
  ASSUME TypeOK, NEW u \in {0} \cup Requests, u # 0 => Unwritten(u), Serve(u)
  PROVE  PumpInv'
<1>1. CASE Complete(u, "cancelled", 0)
  BY <1>1, CompleteFx, TopFields, PumpParked DEF Outcomes
<1>2. CASE /\ pump'.pc = "write" /\ pump'.item = u /\ ~pump'.re
           /\ pump'.id = IF u = 0 THEN 0 ELSE requests[u].id
           /\ UNCHANGED <<requests, outcome>>
  <2>1. u # 0 => Unwritten(u)' /\ u \in Requests' /\ requests'[u].sends = 0 /\ requests'[u].settled = 0
    BY <1>2 DEF Unwritten, Requests
  <2>. QED BY <1>2, <2>1 DEF PumpInv
<1>. QED BY <1>1, <1>2, ServeFx

LEMMA ReturnedPump ==
  ASSUME TypeOK, PumpInv, NEW result, NEW by, Returned(result, by)
  PROVE  PumpInv'
<1>1. CASE pump' = AtTop
  BY <1>1, TopFields, PumpParked
<1>2. CASE Serve(pump.item) /\ pump.re
  <2>1. pump.item \in {0} \cup Requests /\ (pump.item # 0 => Unwritten(pump.item))
    BY <1>2 DEF PumpInv
  <2>. QED BY <1>2, <2>1, PumpBegins
<1>. QED BY <1>1, <1>2, ItemIsRequest, ReturnedFx DEF Complete

(* Every step keeps the pump's locals and the request they are about in     *)
(* step.                                                                    *)
LEMMA PumpStep == TypeOK /\ QueueInv /\ PumpInv /\ LinkInv /\ LineInv /\ [Next]_vars => PumpInv'
<1>. SUFFICES ASSUME TypeOK, QueueInv, PumpInv, LinkInv, LineInv, [Next]_vars PROVE PumpInv'
  OBVIOUS
<1>1. CASE Connect
  <2>1. CASE UNCHANGED <<requests, pump, io>>
    BY <2>1, SameAll, PumpStays
  <2>2. CASE pump' = AtTop
    BY <2>2, TopFields, PumpParked
  <2>. QED BY <1>1, <2>1, <2>2 DEF Connect, Enqueue, StartPump, LinkInv
<1>2. CASE Request
  <2>1. \A v \in Requests : Same(v)
    BY <1>2, AppendFx, RequestType DEF Request, FreshId, TypeOK
  <2>2. CASE UNCHANGED <<pump, io>>
    BY <2>1, <2>2, PumpStays
  <2>3. CASE \E q : StartPump(q)
    BY <2>1, <2>3, PumpStarts
  <2>. QED BY <1>2, <2>2, <2>3 DEF Request, Enqueue
<1>3. CASE SetListener
  BY <1>3, SameAll, PumpStarts DEF SetListener
<1>4. CASE Close
  BY <1>4, SameAll, PumpStays DEF Close, CloseClient, Reading
<1>5. ASSUME NEW u \in Requests, CancelRequest(u) PROVE PumpInv'
  <2>1. \A v \in Requests : Same(v)
    BY <1>5, CancelParts DEF Same
  <2>. QED BY <1>5, <2>1, PumpStays DEF CancelRequest
<1>6. CASE ConnectReturns
  <2>1. \A v \in Requests : Same(v)
    BY <1>6, SameAll DEF ConnectReturns
  <2>2. CASE pump' = pump /\ (io' = io \/ io' = "aborted")
    BY <2>1, <2>2, PumpStays
  <2>3. CASE \E q : StartPump(q)
    BY <2>1, <2>3, PumpStarts
  <2>. QED BY <1>6, <2>2, <2>3 DEF ConnectReturns, Enqueue, CloseClient
<1>7. CASE PumpEnds
  BY <1>7, TopFields, PumpParked DEF PumpEnds
<1>8. CASE PumpIdles
  BY <1>8, PumpParked DEF PumpIdles, PumpAt
<1>9. CASE PumpRefuses
  <2>1. Head(queue) \in {0} \cup Requests
    BY <1>9, HeadIsRequest DEF PumpRefuses
  <2>2. pump' = AtTop
    BY <1>9, <2>1, CompleteFx DEF PumpRefuses, Outcomes
  <2>. QED BY <2>2, TopFields, PumpParked
<1>10. CASE PumpServes
  <2>1. Head(queue) \in {0} \cup Requests /\ (Head(queue) # 0 => Unwritten(Head(queue)))
    BY <1>10, HeadUnwritten DEF PumpServes
  <2>. QED BY <1>10, <2>1, PumpBegins DEF PumpServes
<1>11. CASE PumpReconnects
  <2>1. Head(queue) \in {0} \cup Requests /\ (Head(queue) # 0 => Unwritten(Head(queue)))
    BY <1>11, HeadUnwritten DEF PumpReconnects, Reconnect
  <2>2. CASE pump' = PumpAt("rewrite", Head(queue), FreshId, TRUE) /\ requests' = requests /\ io' = "pending"
    <3>0. PICK u \in {0} \cup Requests : u = Head(queue)
      BY <2>1
    <3>1. pump'.pc = "rewrite" /\ pump'.item = u /\ pump'.re
      BY <2>2, <3>0 DEF PumpAt
    <3>2. u # 0 => /\ u \in Requests' /\ requests'[u].settled = 0 /\ requests'[u].sends = 0
                   /\ requests'[u].at = 0
      BY <2>1, <2>2, <3>0 DEF Unwritten, Requests
    <3>. QED BY <3>1, <3>2 DEF PumpInv, Unwritten
  <2>3. CASE Complete(Head(queue), "closed", 0)
    <3>1. pump' = AtTop
      BY <2>1, <2>3, CompleteFx DEF Outcomes
    <3>. QED BY <3>1, TopFields, PumpParked
  <2>. QED BY <1>11, <2>2, <2>3 DEF PumpReconnects, Reconnect
<1>12. CASE PumpIdleReturns
  <2>1. CASE pump' = AtTop
    BY <2>1, TopFields, PumpParked
  <2>2. CASE pump' = PumpAt("answer", 0, 0, FALSE)
    BY <2>2, PumpParked DEF PumpAt
  <2>. QED BY <1>12, <2>1, <2>2 DEF PumpIdleReturns
<1>13. CASE PumpWritten
  <2>1. CASE pump' = AtTop
    BY <2>1, TopFields, PumpParked
  <2>2. CASE Await(read_buffer) /\ pump.item # 0
    BY <2>2, AwaitFx, SameAll, PumpGoesAhead
  <2>. QED BY <1>13, <2>1, <2>2 DEF PumpWritten, Complete
<1>14. CASE PumpRewritten
  <2>1. CASE pump' = AtTop
    BY <2>1, TopFields, PumpParked
  <2>2. CASE Await(read_buffer) /\ pump.re
    BY <2>2, AwaitFx, SameAll, PumpGoesAhead
  <2>. QED BY <1>14, <2>1, <2>2 DEF PumpRewritten, AtPump, PumpInv, Complete
<1>15. CASE PumpLine
  <2>0. pump.item # 0 \/ pump.re
    BY <1>15 DEF PumpLine, AtPump, PumpInv
  <2>1. CASE pump' = [pump EXCEPT !.pc = "answer"] /\ UNCHANGED requests /\ io' = "pending"
    <3>1. pump'.item = pump.item /\ pump'.id = pump.id /\ pump'.re = pump.re /\ pump'.pc = "answer"
      BY <2>1 DEF TypeOK, PumpTypeOK, PumpRecord
    <3>. QED BY <2>0, <2>1, <3>1, SameAll, PumpGoesAhead
  <2>2. CASE Returned("ok", Head(read_buffer).to)
    BY <2>2, ReturnedPump
  <2>3. CASE Await(Tail(read_buffer))
    BY <2>0, <2>3, AwaitFx, SameAll, PumpGoesAhead
  <2>. QED BY <1>15, <2>1, <2>2, <2>3 DEF PumpLine
<1>16. CASE PumpNoLine
  <2>0. pump.item # 0 \/ pump.re
    BY <1>16 DEF PumpNoLine, AtPump, PumpInv
  <2>1. CASE \E why : GiveUp(why)
    BY <2>0, <2>1, GiveUpFx, SameAll, PumpGoesAhead
  <2>2. CASE Await(read_buffer)
    BY <2>0, <2>2, AwaitFx, SameAll, PumpGoesAhead
  <2>3. CASE pump' = [pump EXCEPT !.pc = "drained"] /\ requests' = requests
    <3>1. pump'.item = pump.item /\ pump'.id = pump.id /\ pump'.re = pump.re /\ pump'.pc = "drained"
      BY <2>3 DEF TypeOK, PumpTypeOK, PumpRecord
    <3>. QED BY <2>0, <2>3, <3>1, SameAll, PumpGoesAhead
  <2>. QED BY <1>16, <2>1, <2>2, <2>3 DEF PumpNoLine
<1>17. CASE PumpFails
  BY <1>17, ReturnedPump DEF PumpFails
<1>18. CASE PumpAnswered
  <2>1. CASE pump' = AtTop
    BY <2>1, TopFields, PumpParked
  <2>2. CASE Await(read_buffer) /\ (pump.item # 0 \/ pump.re)
    BY <2>2, AwaitFx, SameAll, PumpGoesAhead
  <2>. QED BY <1>18, <2>1, <2>2 DEF PumpAnswered
<1>19. CASE WriteCompletes
  <2>1. pump' = pump /\ io' # "pending" /\ Requests' = Requests
    BY <1>19, WriteParts DEF WriteCompletes
  <2>2. ASSUME pump.item # 0
        PROVE  /\ requests'[pump.item].id = requests[pump.item].id
               /\ requests'[pump.item].settled = 0 /\ requests'[pump.item].sends <= 1
    <3>1. pump.item \in Requests /\ requests[pump.item].settled = 0 /\ requests[pump.item].sends <= 1
      BY <2>2 DEF PumpInv
    <3>2. pump.pc = "write" => requests[pump.item].sends = 0
      BY <1>19, <2>2 DEF PumpInv, Unwritten, WriteCompletes, Writing
    <3>3. requests[pump.item] \in RequestRecord /\ requests[pump.item].sends \in Nat
      BY <3>1, RequestFields
    <3>4. [requests[pump.item] EXCEPT !.told = TRUE].sends = requests[pump.item].sends
      BY <3>3 DEF RequestRecord
    <3>5. CASE requests'[pump.item].sends = requests[pump.item].sends
      BY <1>19, <2>2, <3>1, <3>5, WriteParts
    <3>6. CASE pump.pc = "write" /\ requests'[pump.item].sends = requests[pump.item].sends + 1
      BY <1>19, <2>2, <3>1, <3>2, <3>6, WriteParts
    <3>. QED BY <1>19, <2>2, <3>4, <3>5, <3>6, WriteParts
  <2>3. ASSUME pump.item # 0, pump.re PROVE requests'[pump.item] = requests[pump.item]
    BY <1>19, <2>1, <2>3 DEF WriteCompletes
  <2>4. ASSUME pump.item # 0, pump.re PROVE Unwritten(pump.item)'
    BY <2>1, <2>3, <2>4 DEF PumpInv, Unwritten
  <2>. QED BY <2>1, <2>2, <2>4 DEF PumpInv
<1>20. CASE ReadCompletes
  BY <1>20, SameAll, PumpStays DEF ReadCompletes
<1>21. CASE TimerFires
  BY <1>21, SameAll, PumpStays DEF TimerFires
<1>22. CASE DrainEnds
  BY <1>22, SameAll, PumpStays DEF DrainEnds
<1>23. CASE ServerAnswers
  BY <1>23, SameAll, PumpStays DEF ServerAnswers
<1>24. CASE ServerSpeaks
  BY <1>24, SameAll, PumpStays DEF ServerSpeaks
<1>25. CASE ServerDies
  BY <1>25, SameAll, PumpStays DEF ServerDies
<1>26. CASE DescendantDies
  BY <1>26, SameAll, PumpStays DEF DescendantDies
<1>27. CASE UNCHANGED vars
  BY <1>27, SameAll, PumpStays
<1>. QED
  BY <1>1, <1>2, <1>3, <1>4, <1>5, <1>6, <1>7, <1>8, <1>9, <1>10, <1>11, <1>12, <1>13,
     <1>14, <1>15, <1>16, <1>17, <1>18, <1>19, <1>20, <1>21, <1>22, <1>23, <1>24, <1>25,
     <1>26, <1>27
     DEF Next, Host, Pump, Completions, Child

(* A read returns a line only if it read one. *)
LEMMA LineStep == TypeOK /\ QueueInv /\ PumpInv /\ LineInv /\ [Next]_vars => LineInv'
<1>. SUFFICES ASSUME TypeOK, QueueInv, PumpInv, LineInv, [Next]_vars PROVE LineInv'
  OBVIOUS
<1>. USE AwaitFx, GiveUpFx DEF LineInv, AtPump
<1>1. CASE Connect
  BY <1>1 DEF Connect, Enqueue, StartPump
<1>2. CASE Request
  BY <1>2 DEF Request, Enqueue, StartPump
<1>3. CASE SetListener
  BY <1>3 DEF SetListener, StartPump
<1>4. CASE Close
  BY <1>4 DEF Close, CloseClient
<1>5. ASSUME NEW u \in Requests, CancelRequest(u) PROVE LineInv'
  BY <1>5 DEF CancelRequest
<1>6. CASE ConnectReturns
  BY <1>6 DEF ConnectReturns, Enqueue, StartPump, CloseClient
<1>7. CASE PumpEnds
  BY <1>7 DEF PumpEnds, AtPump
<1>8. CASE PumpIdles
  BY <1>8 DEF PumpIdles, ReadStart
<1>9. CASE PumpRefuses
  BY <1>9 DEF PumpRefuses, Complete
<1>10. CASE PumpServes
  BY <1>10 DEF PumpServes, Serve, Complete
<1>11. CASE PumpReconnects
  BY <1>11 DEF PumpReconnects, Reconnect, Complete
<1>12. CASE PumpIdleReturns
  BY <1>12 DEF PumpIdleReturns, AtPump
<1>13. CASE PumpWritten
  BY <1>13 DEF PumpWritten, Complete
<1>14. CASE PumpRewritten
  BY <1>14 DEF PumpRewritten, Complete
<1>15. CASE PumpLine
  BY <1>15 DEF PumpLine, Returned, Serve, Complete
<1>16. CASE PumpNoLine
  BY <1>16 DEF PumpNoLine, AtPump
<1>17. CASE PumpFails
  BY <1>17 DEF PumpFails, Returned, Serve, Complete
<1>18. CASE PumpAnswered
  BY <1>18 DEF PumpAnswered, AtPump
<1>19. CASE WriteCompletes
  BY <1>19 DEF WriteCompletes
<1>20. CASE ReadCompletes
  BY <1>20 DEF ReadCompletes
<1>21. CASE TimerFires
  BY <1>21 DEF TimerFires
<1>22. CASE DrainEnds
  BY <1>22 DEF DrainEnds
<1>23. CASE ServerAnswers
  BY <1>23 DEF ServerAnswers
<1>24. CASE ServerSpeaks
  BY <1>24 DEF ServerSpeaks
<1>25. CASE ServerDies
  BY <1>25 DEF ServerDies
<1>26. CASE DescendantDies
  BY <1>26 DEF DescendantDies
<1>27. CASE UNCHANGED vars
  BY <1>27
<1>. QED
  BY <1>1, <1>2, <1>3, <1>4, <1>5, <1>6, <1>7, <1>8, <1>9, <1>10, <1>11, <1>12, <1>13,
     <1>14, <1>15, <1>16, <1>17, <1>18, <1>19, <1>20, <1>21, <1>22, <1>23, <1>24, <1>25,
     <1>26, <1>27
     DEF Next, Host, Pump, Completions, Child

(* Ids as steps change them: an unsettled request keeps its id or is new,   *)
(* with the next one, and so does the pump's id in a reconnection.          *)
IdsMove ==
  /\ next_id' \in {next_id, next_id + 1}
  /\ \A u \in Requests' :
       requests'[u].settled = 0 =>
         \/ u \in Requests /\ requests[u].settled = 0 /\ requests'[u].id = requests[u].id
         \/ u = Len(requests) + 1 /\ requests'[u].id = next_id /\ next_id' = next_id + 1
  /\ pump'.re =>
       \/ pump.re /\ pump'.id = pump.id
       \/ pump'.id = next_id /\ next_id' = next_id + 1 /\ requests' = requests

LEMMA IdsSame ==
  ASSUME next_id' = next_id, \A u \in Requests : Same(u), Requests' = Requests,
         pump'.re => pump.re /\ pump'.id = pump.id
  PROVE  IdsMove
BY DEF IdsMove, Same

LEMMA IdsSettle ==
  ASSUME TypeOK, NEW u \in {0} \cup Requests, NEW result \in Outcomes, NEW by \in Nat,
         Complete(u, result, by), next_id' = next_id
  PROVE  IdsMove
<1>1. /\ pump' = AtTop /\ Requests' = Requests /\ \A v \in Requests : v # u => Same(v)
      /\ u # 0 => requests'[u].settled = requests[u].settled + 1
  BY CompleteFx
<1>2. u # 0 => requests'[u].settled # 0
  BY <1>1, RequestFields
<1>3. 0 \notin Requests
  BY DEF Requests
<1>. QED BY <1>1, <1>2, <1>3, TopFields DEF IdsMove, Same

LEMMA IdsServe ==
  ASSUME TypeOK, NEW u \in {0} \cup Requests, Serve(u), next_id' = next_id
  PROVE  IdsMove
<1>1. CASE Complete(u, "cancelled", 0)
  BY <1>1, IdsSettle DEF Outcomes
<1>2. CASE ~pump'.re /\ requests' = requests
  BY <1>2, SameAll, IdsSame
<1>. QED BY <1>1, <1>2, ServeFx

LEMMA IdsReturned ==
  ASSUME TypeOK, PumpInv, NEW result \in Outcomes, NEW by \in Nat, Returned(result, by),
         next_id' = next_id
  PROVE  IdsMove
<1>1. (IF result = "ok" THEN "closed" ELSE result) \in Outcomes
  BY DEF Outcomes
<1>. QED BY <1>1, ItemIsRequest, ReturnedFx, IdsSettle, IdsServe

LEMMA IdsStart ==
  ASSUME NEW q, StartPump(q)
  PROVE  pump'.re => pump.re /\ pump'.id = pump.id
BY TopFields DEF StartPump

(* Every step moves ids so. *)
LEMMA IdsStep ==
  TypeOK /\ QueueInv /\ PumpInv /\ LinkInv /\ LineInv /\ [Next]_vars => IdsMove
<1>. SUFFICES ASSUME TypeOK, QueueInv, PumpInv, LinkInv, LineInv, [Next]_vars PROVE IdsMove
  OBVIOUS
<1>. USE ItemIsRequest
<1>1. CASE Connect
  <2>1. CASE UNCHANGED <<requests, next_id, pump>>
    BY <2>1, SameAll, IdsSame
  <2>2. CASE requests' = <<NewRequest(FreshId)>> /\ next_id' = next_id + 1 /\ Enqueue(1)
    <3>1. requests = <<>> /\ Len(requests) = 0 /\ ~pump'.re
      BY <1>1, <2>2, TopFields DEF Connect, LinkInv, Enqueue, StartPump
    <3>2. requests'[1].id = next_id /\ Requests' = {1}
      BY <2>2 DEF FreshId, NewRequest, Requests
    <3>. QED BY <2>2, <3>1, <3>2 DEF IdsMove
  <2>. QED BY <1>1, <2>1, <2>2 DEF Connect
<1>2. CASE Request
  <2>1. CASE UNCHANGED <<next_id, pump>> /\ requests' = Append(requests, SettledRequest(1))
    <3>1. /\ Requests' = Requests \cup {Len(requests) + 1} /\ \A v \in Requests : Same(v)
          /\ requests'[Len(requests) + 1].settled = 1
      BY <2>1, AppendFx, RequestType DEF SettledRequest
    <3>2. ASSUME NEW v \in Requests', requests'[v].settled = 0
          PROVE  v \in Requests /\ requests[v].settled = 0 /\ requests'[v].id = requests[v].id
      <4>1. CASE v = Len(requests) + 1
        BY <3>1, <3>2, <4>1
      <4>. QED BY <3>1, <3>2, <4>1 DEF Same
    <3>. QED BY <2>1, <3>2 DEF IdsMove
  <2>2. CASE /\ requests' = Append(requests, NewRequest(FreshId)) /\ next_id' = next_id + 1
             /\ Enqueue(Len(requests) + 1)
    <3>1. /\ Requests' = Requests \cup {Len(requests) + 1} /\ \A v \in Requests : Same(v)
          /\ requests'[Len(requests) + 1].id = next_id
      BY <2>2, AppendFx, RequestType DEF NewRequest, FreshId, TypeOK
    <3>2. pump'.re => pump.re /\ pump'.id = pump.id
      BY <2>2, IdsStart DEF Enqueue
    <3>. QED BY <2>2, <3>1, <3>2 DEF IdsMove, Same
  <2>. QED BY <1>2, <2>1, <2>2 DEF Request
<1>3. CASE SetListener
  BY <1>3, SameAll, IdsSame, IdsStart DEF SetListener
<1>4. CASE Close
  BY <1>4, SameAll, IdsSame, TopFields DEF Close
<1>5. ASSUME NEW u \in Requests, CancelRequest(u) PROVE IdsMove
  <2>1. Requests' = Requests /\ \A v \in Requests : Same(v)
    BY <1>5, CancelParts DEF Same
  <2>. QED BY <1>5, <2>1, IdsSame DEF CancelRequest
<1>6. CASE ConnectReturns
  <2>1. UNCHANGED <<requests, next_id>>
    BY <1>6 DEF ConnectReturns
  <2>2. pump'.re => pump.re /\ pump'.id = pump.id
    BY <1>6, IdsStart DEF ConnectReturns, Enqueue
  <2>. QED BY <2>1, <2>2, SameAll, IdsSame
<1>7. CASE PumpEnds
  BY <1>7, SameAll, IdsSame, TopFields DEF PumpEnds
<1>8. CASE PumpIdles
  BY <1>8, SameAll, IdsSame, TopFields DEF PumpIdles, PumpAt
<1>9. CASE PumpRefuses
  BY <1>9, HeadIsRequest, IdsSettle DEF PumpRefuses, Outcomes
<1>10. CASE PumpServes
  BY <1>10, HeadIsRequest, IdsServe DEF PumpServes
<1>11. CASE PumpReconnects
  <2>1. Head(queue) \in {0} \cup Requests
    BY <1>11, HeadIsRequest DEF PumpReconnects, Reconnect
  <2>2. CASE /\ pump' = PumpAt("rewrite", Head(queue), FreshId, TRUE) /\ requests' = requests
             /\ next_id' = next_id + 1
    BY <2>2, SameAll DEF IdsMove, Same, PumpAt, FreshId
  <2>3. CASE Complete(Head(queue), "closed", 0) /\ next_id' = next_id
    BY <2>1, <2>3, IdsSettle DEF Outcomes
  <2>. QED BY <1>11, <2>2, <2>3 DEF PumpReconnects, Reconnect
<1>12. CASE PumpIdleReturns
  BY <1>12, SameAll, IdsSame, TopFields DEF PumpIdleReturns, PumpAt
<1>13. CASE PumpWritten
  <2>1. CASE Complete(pump.item, "closed", 0)
    BY <1>13, <2>1, IdsSettle DEF PumpWritten, Outcomes
  <2>2. CASE pump' = AtTop /\ requests' = requests
    BY <1>13, <2>2, SameAll, IdsSame, TopFields DEF PumpWritten
  <2>3. CASE Await(read_buffer)
    BY <1>13, <2>3, AwaitFx, SameAll, IdsSame DEF PumpWritten
  <2>. QED BY <1>13, <2>1, <2>2, <2>3 DEF PumpWritten
<1>14. CASE PumpRewritten
  <2>1. CASE Complete(pump.item, "closed", 0)
    BY <1>14, <2>1, IdsSettle DEF PumpRewritten, Outcomes
  <2>2. CASE Await(read_buffer)
    BY <1>14, <2>2, AwaitFx, SameAll, IdsSame DEF PumpRewritten
  <2>. QED BY <1>14, <2>1, <2>2 DEF PumpRewritten
<1>15. CASE PumpLine
  <2>0. next_id' = next_id
    BY <1>15 DEF PumpLine
  <2>1. CASE pump' = [pump EXCEPT !.pc = "answer"] /\ requests' = requests
    <3>1. pump'.re = pump.re /\ pump'.id = pump.id
      BY <2>1 DEF TypeOK, PumpTypeOK, PumpRecord
    <3>. QED BY <2>0, <2>1, <3>1, SameAll, IdsSame
  <2>2. CASE Returned("ok", Head(read_buffer).to)
    <3>1. Head(read_buffer).to \in Nat
      BY <1>15, TailType DEF PumpLine, AtPump, Line
    <3>. QED BY <2>0, <2>2, <3>1, IdsReturned DEF Outcomes
  <2>3. CASE Await(Tail(read_buffer))
    BY <2>0, <2>3, AwaitFx, SameAll, IdsSame
  <2>. QED BY <1>15, <2>1, <2>2, <2>3 DEF PumpLine
<1>16. CASE PumpNoLine
  <2>0. next_id' = next_id
    BY <1>16 DEF PumpNoLine
  <2>1. pump'.re = pump.re /\ pump'.id = pump.id /\ requests' = requests
    BY <1>16, AwaitFx, GiveUpFx DEF PumpNoLine, TypeOK, PumpTypeOK, PumpRecord
  <2>. QED BY <2>0, <2>1, SameAll, IdsSame
<1>17. CASE PumpFails
  <2>1. pump.out \in Outcomes
    BY DEF TypeOK, PumpTypeOK, PumpRecord, Outcomes
  <2>. QED BY <1>17, <2>1, IdsReturned DEF PumpFails, Outcomes
<1>18. CASE PumpAnswered
  <2>1. CASE pump' = AtTop /\ requests' = requests
    BY <1>18, <2>1, SameAll, IdsSame, TopFields DEF PumpAnswered
  <2>2. CASE Await(read_buffer)
    BY <1>18, <2>2, AwaitFx, SameAll, IdsSame DEF PumpAnswered
  <2>. QED BY <1>18, <2>1, <2>2 DEF PumpAnswered
<1>19. CASE WriteCompletes
  <2>1. /\ Requests' = Requests
        /\ \A v \in Requests : requests'[v].id = requests[v].id /\ requests'[v].settled = requests[v].settled
    <3>1. 0 \notin Requests
      BY DEF Requests
    <3>2. /\ Requests' = Requests /\ \A v \in Requests : v # pump.item => requests'[v] = requests[v]
          /\ pump.item # 0 => /\ requests'[pump.item].id = requests[pump.item].id
                             /\ requests'[pump.item].settled = requests[pump.item].settled
      BY <1>19, WriteParts
    <3>. QED BY <3>1, <3>2
  <2>. QED BY <1>19, <2>1 DEF WriteCompletes, IdsMove
<1>20. CASE ReadCompletes
  BY <1>20, SameAll, IdsSame, TopFields DEF ReadCompletes
<1>21. CASE TimerFires
  BY <1>21, SameAll, IdsSame, TopFields DEF TimerFires
<1>22. CASE DrainEnds
  BY <1>22, SameAll, IdsSame, TopFields DEF DrainEnds
<1>23. CASE ServerAnswers
  BY <1>23, SameAll, IdsSame, TopFields DEF ServerAnswers
<1>24. CASE ServerSpeaks
  BY <1>24, SameAll, IdsSame, TopFields DEF ServerSpeaks
<1>25. CASE ServerDies
  BY <1>25, SameAll, IdsSame, TopFields DEF ServerDies
<1>26. CASE DescendantDies
  BY <1>26, SameAll, IdsSame, TopFields DEF DescendantDies
<1>27. CASE UNCHANGED vars
  BY <1>27, SameAll, IdsSame
<1>. QED
  BY <1>1, <1>2, <1>3, <1>4, <1>5, <1>6, <1>7, <1>8, <1>9, <1>10, <1>11, <1>12, <1>13,
     <1>14, <1>15, <1>16, <1>17, <1>18, <1>19, <1>20, <1>21, <1>22, <1>23, <1>24, <1>25,
     <1>26, <1>27
     DEF Next, Host, Pump, Completions, Child

(* The messages on their way between the child and the pump. *)
Messages(m) ==
  \/ m \in server.todo
  \/ \E k \in DOMAIN out : out[k].kind = "answer" /\ m = out[k]
  \/ \E k \in DOMAIN read_buffer : read_buffer[k].kind = "answer" /\ m = read_buffer[k]

(* A message has an id and a request. *)
LEMMA MessageType == ASSUME TypeOK, NEW m, Messages(m) PROVE m.id \in Nat /\ m.to \in Nat
<1>1. CASE m \in server.todo
  BY <1>1 DEF TypeOK, ServerRecord
<1>2. ASSUME NEW q \in Seq(Line), NEW k \in DOMAIN q, m = q[k] PROVE m.id \in Nat /\ m.to \in Nat
  <2>1. m \in Line
    BY <1>2, ElementOfSeq, LenProperties
  <2>. QED BY <2>1 DEF Line
<1>. QED BY <1>1, <1>2 DEF Messages, TypeOK

(* A message that answers an unsettled request, if any, goes on to do so. *)
LEMMA AnswersStay ==
  ASSUME TypeOK, IdsMove, NEW m, m.id \in Nat, Answers(m)
  PROVE  Answers(m)'
<1>1. next_id \in Nat /\ next_id' \in {next_id, next_id + 1} /\ m.id < next_id
  BY DEF TypeOK, IdsMove, Answers
<1>2. ASSUME NEW u \in Requests', Unsettled(u)', requests'[u].id = m.id PROVE m.to = u
  <2>1. u \in Requests /\ requests[u].settled = 0 /\ requests'[u].id = requests[u].id
    BY <1>1, <1>2 DEF IdsMove, Unsettled
  <2>. QED BY <1>2, <2>1 DEF Answers, Unsettled
<1>. QED BY <1>1, <1>2 DEF Answers


(* The messages as steps change them: some are dropped, the buffer is read, *)
(* a line is added.                                                         *)
Answered == \A m : Messages(m) => Answers(m)

LEMMA AnsweredStay ==
  ASSUME TypeOK, IdsMove, Answered, NEW m, Messages(m)
  PROVE  Answers(m)'
BY MessageType, AnswersStay DEF Answered

LEMMA MessagesQuiet ==
  ASSUME TypeOK, IdsMove, Answered, UNCHANGED <<out, read_buffer>>,
         server'.todo \subseteq server.todo
  PROVE  Answered'
<1>1. \A m : Messages(m)' => Messages(m)
  BY DEF Messages
<1>. QED BY <1>1, AnsweredStay DEF Answered

LEMMA MessagesDropped ==
  ASSUME TypeOK, IdsMove, Answered, UNCHANGED read_buffer, CloseClient
  PROVE  Answered'
<1>1. server'.todo = server.todo /\ out' = <<>>
  BY DEF CloseClient, TornDown, TypeOK, ServerRecord
<1>2. \A m : Messages(m)' => Messages(m)
  BY <1>1 DEF Messages
<1>. QED BY <1>2, AnsweredStay DEF Answered

LEMMA MessagesRead ==
  ASSUME TypeOK, LineInv, IdsMove, Answered, UNCHANGED <<server, out>>,
         read_buffer' = read_buffer \/ (io = "line" /\ read_buffer' = Tail(read_buffer))
  PROVE  Answered'
<1>1. CASE read_buffer' = read_buffer
  BY <1>1, MessagesQuiet
<1>2. CASE io = "line" /\ read_buffer' = Tail(read_buffer)
  <2>1. \A k \in DOMAIN read_buffer' : k + 1 \in DOMAIN read_buffer /\ read_buffer'[k] = read_buffer[k + 1]
    BY <1>2, QueueParts DEF LineInv, TypeOK
  <2>2. \A m : Messages(m)' => Messages(m)
    BY <2>1 DEF Messages
  <2>. QED BY <2>2, AnsweredStay DEF Answered
<1>. QED BY <1>1, <1>2

LEMMA MessagesAppend ==
  ASSUME TypeOK, IdsMove, Answered, UNCHANGED read_buffer, server'.todo \subseteq server.todo,
         NEW r \in Line, r.kind # "answer" \/ Answers(r), out' = Append(out, r)
  PROVE  Answered'
<1>1. /\ DOMAIN out' = 1..(Len(out) + 1) /\ DOMAIN out = 1..Len(out) /\ Len(out) \in Nat
      /\ \A k \in 1..Len(out) : out'[k] = out[k]
      /\ out'[Len(out) + 1] = r
  BY AppendParts DEF TypeOK
<1>2. ASSUME NEW m, Messages(m)' PROVE Messages(m) \/ (m = r /\ r.kind = "answer")
  <2>1. ASSUME NEW k \in DOMAIN out', out'[k].kind = "answer", m = out'[k]
        PROVE  Messages(m) \/ (m = r /\ r.kind = "answer")
    <3>1. CASE k = Len(out) + 1
      BY <1>1, <2>1, <3>1
    <3>2. CASE k # Len(out) + 1
      BY <1>1, <2>1, <3>2 DEF Messages
    <3>. QED BY <3>1, <3>2
  <2>2. CASE ~\E k \in DOMAIN out' : out'[k].kind = "answer" /\ m = out'[k]
    BY <1>2, <2>2 DEF Messages
  <2>. QED BY <2>1, <2>2
<1>3. r.id \in Nat
  BY DEF Line
<1>4. ASSUME Answers(r) PROVE Answers(r)'
  BY <1>3, <1>4, AnswersStay
<1>. QED BY <1>2, <1>4, AnsweredStay DEF Answered

LEMMA MessagesStep ==
  TypeOK /\ PumpInv /\ IdInv /\ LineInv /\ Answered /\ IdsMove /\ [Next]_vars => Answered'
<1>. SUFFICES ASSUME TypeOK, PumpInv, IdInv, LineInv, Answered, IdsMove, [Next]_vars PROVE Answered'
  OBVIOUS
<1>1. CASE Connect
  <2>1. UNCHANGED <<out, read_buffer>> /\ (server'.todo = server.todo \/ server'.todo = {})
    BY <1>1 DEF Connect, NewChild
  <2>. QED BY <2>1, MessagesQuiet
<1>2. CASE Request
  BY <1>2, MessagesQuiet DEF Request
<1>3. CASE SetListener
  BY <1>3, MessagesQuiet DEF SetListener
<1>4. CASE Close
  BY <1>4, MessagesDropped DEF Close
<1>5. ASSUME NEW u \in Requests, CancelRequest(u) PROVE Answered'
  BY <1>5, MessagesQuiet DEF CancelRequest
<1>6. CASE ConnectReturns
  <2>1. CASE CloseClient /\ UNCHANGED read_buffer
    BY <2>1, MessagesDropped
  <2>2. CASE UNCHANGED <<server, out, read_buffer>>
    BY <2>2, MessagesQuiet
  <2>. QED BY <1>6, <2>1, <2>2 DEF ConnectReturns
<1>7. CASE PumpEnds
  BY <1>7, MessagesQuiet DEF PumpEnds
<1>8. CASE PumpIdles
  BY <1>8, MessagesQuiet DEF PumpIdles
<1>9. CASE PumpRefuses
  BY <1>9, MessagesQuiet DEF PumpRefuses
<1>10. CASE PumpServes
  BY <1>10, MessagesQuiet DEF PumpServes
<1>11. CASE PumpReconnects
  <2>1. out' = <<>> /\ read_buffer' = <<>>
    BY <1>11 DEF PumpReconnects, Reconnect
  <2>2. server'.todo = server.todo \/ server'.todo = {}
    <3>1. CASE server' = NewChild
      BY <3>1 DEF NewChild
    <3>2. CASE server' = TornDown(server)
      BY <3>2 DEF TornDown, TypeOK, ServerRecord
    <3>. QED BY <1>11, <3>1, <3>2 DEF PumpReconnects, Reconnect
  <2>3. \A m : Messages(m)' => Messages(m)
    BY <2>1, <2>2 DEF Messages
  <2>. QED BY <2>3, AnsweredStay DEF Answered
<1>12. CASE PumpIdleReturns
  <2>1. UNCHANGED <<server, out>> /\ (read_buffer' = read_buffer \/ (io = "line" /\ read_buffer' = Tail(read_buffer)))
    BY <1>12 DEF PumpIdleReturns
  <2>. QED BY <2>1, MessagesRead
<1>13. CASE PumpWritten
  BY <1>13, MessagesQuiet DEF PumpWritten
<1>14. CASE PumpRewritten
  BY <1>14, MessagesQuiet DEF PumpRewritten
<1>15. CASE PumpLine
  <2>1. UNCHANGED <<server, out>> /\ io = "line" /\ read_buffer' = Tail(read_buffer)
    BY <1>15 DEF PumpLine, AtPump
  <2>. QED BY <2>1, MessagesRead
<1>16. CASE PumpNoLine
  BY <1>16, MessagesQuiet DEF PumpNoLine
<1>17. CASE PumpFails
  BY <1>17, MessagesQuiet DEF PumpFails
<1>18. CASE PumpAnswered
  BY <1>18, MessagesQuiet DEF PumpAnswered
<1>19. CASE WriteCompletes
  <2>1. UNCHANGED <<out, read_buffer>>
    BY <1>19 DEF WriteCompletes
  <2>2. PICK f : f = Frame
    OBVIOUS
  <2>3. CASE server' = server
    BY <2>1, <2>3, MessagesQuiet
  <2>4. CASE server' # server
    <3>1. /\ server' = [server EXCEPT !.todo = server.todo \cup {f}]
          /\ pump.pc \in {"write", "rewrite"} /\ pump.id # 0
      BY <1>19, <2>2, <2>4 DEF WriteCompletes
    <3>2. server'.todo = server.todo \cup {f}
      BY <3>1 DEF TypeOK, ServerRecord
    <3>3. f.id = pump.id /\ f.to = IF pump.re THEN 0 ELSE pump.item
      BY <2>2 DEF Frame
    <3>4. pump.id \in Nat
      BY DEF TypeOK, PumpTypeOK, PumpRecord
    <3>5. Answers(f)
      <4>1. CASE pump.re
        BY <3>3, <4>1 DEF IdInv, Answers, Unsettled, Answered
      <4>2. CASE ~pump.re
        <5>1. pump.item # 0 /\ Unsettled(pump.item) /\ pump.id = requests[pump.item].id
          BY <3>1, <4>2 DEF PumpInv, Unsettled
        <5>. QED BY <3>3, <4>2, <5>1 DEF IdInv, Answers, Unsettled, Answered
      <4>. QED BY <4>1, <4>2
    <3>6. Answers(f)'
      BY <3>3, <3>4, <3>5, AnswersStay
    <3>7. \A m : Messages(m)' => Messages(m) \/ m = f
      BY <2>1, <3>2 DEF Messages
    <3>. QED BY <3>6, <3>7, AnsweredStay DEF Answered
  <2>. QED BY <2>3, <2>4
<1>20. CASE ReadCompletes
  <2>1. server' = server /\ ((out' = out /\ read_buffer' = read_buffer) \/ (out' = <<>> /\ read_buffer' = out))
    BY <1>20 DEF ReadCompletes
  <2>2. \A m : Messages(m)' => Messages(m)
    BY <2>1 DEF Messages
  <2>. QED BY <2>2, AnsweredStay DEF Answered
<1>21. CASE TimerFires
  BY <1>21, MessagesQuiet DEF TimerFires
<1>22. CASE DrainEnds
  BY <1>22, MessagesQuiet DEF DrainEnds
<1>23. CASE ServerAnswers
  <2>1. PICK f \in server.todo : /\ server' = [server EXCEPT !.todo = @ \ {f}]
                                  /\ out' = Append(out, [kind |-> "answer", to |-> f.to, id |-> f.id])
    BY <1>23 DEF ServerAnswers
  <2>2. PICK r : r = [kind |-> "answer", to |-> f.to, id |-> f.id]
    OBVIOUS
  <2>3. r \in Line /\ Answers(r)
    <3>1. f.to \in Nat /\ f.id \in Nat
      BY DEF TypeOK, ServerRecord
    <3>2. Answers(f)
      BY DEF Answered, Messages
    <3>3. r \in Line /\ r.id = f.id /\ r.to = f.to
      BY <2>2, <3>1 DEF Line
    <3>. QED BY <3>2, <3>3 DEF Answers
  <2>4. server'.todo \subseteq server.todo /\ read_buffer' = read_buffer
    BY <1>23, <2>1 DEF ServerAnswers, TypeOK, ServerRecord
  <2>. QED BY <2>1, <2>2, <2>3, <2>4, MessagesAppend
<1>24. CASE ServerSpeaks
  <2>1. PICK r : r.kind # "answer" /\ r \in Line /\ out' = Append(out, r)
    <3>1. PICK kind \in {"ask", "note"} : out' = Append(out, [kind |-> kind, to |-> 0, id |-> 0])
      BY <1>24 DEF ServerSpeaks
    <3>. QED BY <3>1 DEF Line
  <2>2. UNCHANGED <<server, read_buffer>>
    BY <1>24 DEF ServerSpeaks
  <2>. QED BY <2>1, <2>2, MessagesAppend
<1>25. CASE ServerDies
  <2>1. server'.todo = server.todo /\ UNCHANGED <<out, read_buffer>>
    BY <1>25 DEF ServerDies, TypeOK, ServerRecord
  <2>. QED BY <2>1, MessagesQuiet
<1>26. CASE DescendantDies
  <2>1. server'.todo = server.todo /\ UNCHANGED <<out, read_buffer>>
    BY <1>26 DEF DescendantDies, TypeOK, ServerRecord
  <2>. QED BY <2>1, MessagesQuiet
<1>27. CASE UNCHANGED vars
  BY <1>27, MessagesQuiet
<1>. QED
  BY <1>1, <1>2, <1>3, <1>4, <1>5, <1>6, <1>7, <1>8, <1>9, <1>10, <1>11, <1>12, <1>13,
     <1>14, <1>15, <1>16, <1>17, <1>18, <1>19, <1>20, <1>21, <1>22, <1>23, <1>24, <1>25,
     <1>26, <1>27
     DEF Next, Host, Pump, Completions, Child

(* Ids stay unique, and every answer stays with its request. *)
LEMMA IdStep ==
  TypeOK /\ QueueInv /\ PumpInv /\ IdInv /\ LinkInv /\ LineInv /\ [Next]_vars => IdInv'
<1>. SUFFICES ASSUME TypeOK, QueueInv, PumpInv, IdInv, LinkInv, LineInv, [Next]_vars PROVE IdInv'
  OBVIOUS
<1>1. IdsMove
  BY IdsStep
<1>2. next_id \in Nat /\ next_id' \in {next_id, next_id + 1} /\ Len(requests) + 1 \notin Requests
  BY <1>1 DEF IdsMove, TypeOK, PumpTypeOK, Requests
<1>3. \A u \in Requests : requests[u].id \in Nat
  BY RequestFields
<1>9. next_id' > 0
  BY <1>2 DEF IdInv
<1>4. (\A u \in Requests : Unsettled(u) => 0 < requests[u].id /\ requests[u].id < next_id)'
  BY <1>1, <1>2, <1>3 DEF IdInv, IdsMove, Unsettled
<1>5. (\A u, v \in Requests :
         Unsettled(u) /\ Unsettled(v) /\ u # v => requests[u].id # requests[v].id)'
  BY <1>1, <1>2, <1>3 DEF IdInv, IdsMove, Unsettled
<1>6. (pump.re => /\ pump.id < next_id
                  /\ \A u \in Requests : Unsettled(u) => requests[u].id # pump.id)'
  <2>1. CASE pump.re /\ pump'.id = pump.id
    <3>1. pump.id \in Nat
      BY DEF TypeOK, PumpTypeOK, PumpRecord
    <3>2. pump.id < next_id /\ \A u \in Requests : Unsettled(u) => requests[u].id # pump.id
      BY <2>1 DEF IdInv
    <3>3. ASSUME NEW u \in Requests', Unsettled(u)' PROVE requests'[u].id # pump.id
      BY <1>1, <3>1, <3>2, <3>3 DEF IdsMove, Unsettled
    <3>. QED BY <1>2, <2>1, <3>1, <3>2, <3>3
  <2>2. CASE pump'.id = next_id /\ next_id' = next_id + 1 /\ requests' = requests
    BY <1>1, <1>2, <1>3, <2>2 DEF IdInv, Unsettled, Requests
  <2>. QED BY <1>1, <2>1, <2>2 DEF IdsMove
<1>7. Answered
  BY DEF IdInv, Answered, Messages
<1>8. Answered'
  BY <1>1, <1>7, MessagesStep
<1>. QED BY <1>4, <1>5, <1>6, <1>8, <1>9 DEF IdInv, Answered, Messages


(* Settling makes no request and forgets none. *)
LEMMA EmptyServe ==
  ASSUME TypeOK, NEW u \in {0} \cup Requests, Serve(u)
  PROVE  requests = <<>> <=> requests' = <<>>
BY ServeFx, CompleteFx DEF Outcomes

LEMMA EmptyReturned ==
  ASSUME TypeOK, PumpInv, NEW result \in Outcomes, NEW by \in Nat, Returned(result, by)
  PROVE  requests = <<>> <=> requests' = <<>>
<1>1. (IF result = "ok" THEN "closed" ELSE result) \in Outcomes
  BY DEF Outcomes
<1>. QED BY <1>1, ItemIsRequest, ReturnedFx, CompleteFx, EmptyServe

(* The process and its pipes live and die together. *)
LEMMA LinkStep ==
  TypeOK /\ QueueInv /\ PumpInv /\ LinkInv /\ LineInv /\ [Next]_vars => LinkInv'
<1>. SUFFICES ASSUME TypeOK, QueueInv, PumpInv, LinkInv, LineInv, [Next]_vars PROVE LinkInv'
  OBVIOUS
<1>. USE ItemIsRequest
<1>1. CASE Connect
  <2>1. CASE UNCHANGED <<server, open, requests>> /\ phase' = "failed"
    BY <1>1, <2>1 DEF Connect, LinkInv
  <2>2. CASE server' = NewChild /\ open' = TRUE /\ phase' = "connecting"
    <3>1. server'.epoch > 0 /\ ~closing'
      BY <1>1, <2>2 DEF Connect, LinkInv, NewChild, TypeOK, ServerRecord
    <3>. QED BY <1>1, <2>2, <3>1 DEF LinkInv
  <2>. QED BY <1>1, <2>1, <2>2 DEF Connect
<1>2. CASE Request
  BY <1>2 DEF LinkInv, Request
<1>3. CASE SetListener
  BY <1>3 DEF LinkInv, SetListener
<1>4. CASE Close
  <2>1. server'.alive = FALSE /\ server'.epoch = server.epoch
    BY <1>4 DEF Close, CloseClient, TornDown, TypeOK, ServerRecord
  <2>. QED BY <1>4, <2>1 DEF LinkInv, Close, CloseClient
<1>5. ASSUME NEW u \in Requests, CancelRequest(u) PROVE LinkInv'
  <2>1. requests = <<>> <=> requests' = <<>>
    BY <1>5, CancelParts
  <2>. QED BY <1>5, <2>1 DEF LinkInv, CancelRequest
<1>6. CASE ConnectReturns
  <2>1. phase' # "new" /\ requests' = requests /\ phase = "connecting"
    BY <1>6 DEF ConnectReturns
  <2>2. CASE CloseClient
    <3>1. server'.alive = FALSE /\ server'.epoch = server.epoch
      BY <2>2 DEF CloseClient, TornDown, TypeOK, ServerRecord
    <3>. QED BY <2>1, <2>2, <3>1 DEF LinkInv, CloseClient
  <2>3. CASE UNCHANGED <<link, server>>
    BY <2>1, <2>3 DEF LinkInv
  <2>. QED BY <1>6, <2>2, <2>3 DEF ConnectReturns
<1>7. CASE PumpEnds
  BY <1>7 DEF LinkInv, PumpEnds, AtPump
<1>8. CASE PumpIdles
  BY <1>8 DEF LinkInv, PumpIdles, AtPump
<1>9. CASE PumpRefuses
  <2>1. requests = <<>> <=> requests' = <<>>
    BY <1>9, HeadIsRequest, CompleteFx DEF PumpRefuses, Outcomes
  <2>. QED BY <1>9, <2>1 DEF LinkInv, PumpRefuses, AtPump
<1>10. CASE PumpServes
  <2>1. requests = <<>> <=> requests' = <<>>
    BY <1>10, HeadIsRequest, EmptyServe DEF PumpServes
  <2>. QED BY <1>10, <2>1 DEF LinkInv, PumpServes, AtPump
<1>11. CASE PumpReconnects
  <2>0. phase # "new" /\ phase' = phase /\ ~closing /\ ~closing'
    BY <1>11 DEF PumpReconnects, Reconnect, AtPump, LinkInv
  <2>1. CASE server' = NewChild /\ open' = TRUE
    <3>1. server'.epoch > 0
      BY <2>1 DEF NewChild, TypeOK, ServerRecord
    <3>. QED BY <2>0, <2>1, <3>1 DEF LinkInv
  <2>2. CASE server' = TornDown(server) /\ open' = FALSE /\ Complete(Head(queue), "closed", 0)
    <3>1. requests = <<>> <=> requests' = <<>>
      BY <1>11, <2>2, HeadIsRequest, CompleteFx DEF PumpReconnects, Reconnect, Outcomes
    <3>2. server'.alive = FALSE /\ server'.epoch = server.epoch
      BY <2>2 DEF TornDown, TypeOK, ServerRecord
    <3>. QED BY <2>0, <2>2, <3>1, <3>2 DEF LinkInv
  <2>. QED BY <1>11, <2>1, <2>2 DEF PumpReconnects, Reconnect
<1>12. CASE PumpIdleReturns
  BY <1>12 DEF LinkInv, PumpIdleReturns, AtPump
<1>13. CASE PumpWritten
  <2>1. requests = <<>> <=> requests' = <<>>
    BY <1>13, CompleteFx, AwaitFx, GiveUpFx DEF PumpWritten, Outcomes
  <2>. QED BY <1>13, <2>1 DEF LinkInv, PumpWritten, AtPump
<1>14. CASE PumpRewritten
  <2>1. requests = <<>> <=> requests' = <<>>
    BY <1>14, CompleteFx, AwaitFx, GiveUpFx DEF PumpRewritten, Outcomes
  <2>. QED BY <1>14, <2>1 DEF LinkInv, PumpRewritten, AtPump
<1>15. CASE PumpLine
  <2>0. Head(read_buffer).to \in Nat
    BY <1>15, TailType DEF PumpLine, AtPump, Line
  <2>1. requests = <<>> <=> requests' = <<>>
    BY <1>15, <2>0, AwaitFx, EmptyReturned DEF PumpLine, Outcomes
  <2>. QED BY <1>15, <2>1 DEF LinkInv, PumpLine, AtPump
<1>16. CASE PumpNoLine
  <2>1. requests = <<>> <=> requests' = <<>>
    BY <1>16, CompleteFx, AwaitFx, GiveUpFx DEF PumpNoLine, Outcomes
  <2>. QED BY <1>16, <2>1 DEF LinkInv, PumpNoLine, AtPump
<1>17. CASE PumpFails
  <2>0. pump.out \in Outcomes
    BY DEF TypeOK, PumpTypeOK, PumpRecord, Outcomes
  <2>1. requests = <<>> <=> requests' = <<>>
    BY <1>17, <2>0, EmptyReturned DEF PumpFails, Outcomes
  <2>. QED BY <1>17, <2>1 DEF LinkInv, PumpFails, AtPump
<1>18. CASE PumpAnswered
  <2>1. requests = <<>> <=> requests' = <<>>
    BY <1>18, CompleteFx, AwaitFx, GiveUpFx DEF PumpAnswered, Outcomes
  <2>. QED BY <1>18, <2>1 DEF LinkInv, PumpAnswered, AtPump
<1>19. CASE WriteCompletes
  <2>1. requests = <<>> <=> requests' = <<>>
    BY <1>19, WriteParts
  <2>2. server'.alive = server.alive /\ server'.epoch = server.epoch
    BY <1>19 DEF WriteCompletes, TypeOK, ServerRecord
  <2>. QED BY <1>19, <2>1, <2>2 DEF LinkInv, WriteCompletes, Writing
<1>20. CASE ReadCompletes
  BY <1>20 DEF LinkInv, ReadCompletes, Reading
<1>21. CASE TimerFires
  BY <1>21 DEF LinkInv, TimerFires
<1>22. CASE DrainEnds
  BY <1>22 DEF LinkInv, DrainEnds
<1>23. CASE ServerAnswers
  BY <1>23 DEF LinkInv, ServerAnswers, TypeOK, ServerRecord
<1>24. CASE ServerSpeaks
  BY <1>24 DEF LinkInv, ServerSpeaks
<1>25. CASE ServerDies
  BY <1>25 DEF LinkInv, ServerDies, TypeOK, ServerRecord
<1>26. CASE DescendantDies
  BY <1>26 DEF LinkInv, DescendantDies, TypeOK, ServerRecord
<1>27. CASE UNCHANGED vars
  BY <1>27 DEF LinkInv
<1>. QED
  BY <1>1, <1>2, <1>3, <1>4, <1>5, <1>6, <1>7, <1>8, <1>9, <1>10, <1>11, <1>12, <1>13,
     <1>14, <1>15, <1>16, <1>17, <1>18, <1>19, <1>20, <1>21, <1>22, <1>23, <1>24, <1>25,
     <1>26, <1>27
     DEF Next, Host, Pump, Completions, Child

LEMMA ToldServe ==
  ASSUME TypeOK, NEW u, Serve(u)
  PROVE  ToldInv'
BY TopFields DEF Serve, Complete, PumpAt, ToldInv

LEMMA ToldReturned ==
  ASSUME TypeOK, NEW result, NEW by, Returned(result, by)
  PROVE  ToldInv'
BY TopFields, ToldServe DEF Returned, Complete, ToldInv

LEMMA ToldClose ==
  ASSUME TypeOK, ToldInv, CloseClient, UNCHANGED <<requests, pump>>
  PROVE  ToldInv'
<1>1. server'.alive = FALSE
  BY DEF CloseClient, TornDown, TypeOK, ServerRecord
<1>2. pump.pc = "cancel" => io' = io
  BY DEF CloseClient, Reading
<1>. QED BY <1>1, <1>2 DEF ToldInv

(* A cancellation that was not written finds the child gone. *)
LEMMA ToldStep ==
  TypeOK /\ PumpInv /\ LinkInv /\ ToldInv /\ [Next]_vars => ToldInv'
<1>. SUFFICES ASSUME TypeOK, PumpInv, LinkInv, ToldInv, [Next]_vars PROVE ToldInv'
  OBVIOUS
<1>1. CASE Connect
  BY <1>1, TopFields DEF ToldInv, LinkInv, Connect, Enqueue, StartPump
<1>2. CASE Request
  <2>1. CASE UNCHANGED <<pump, io, server>> /\ requests' = Append(requests, SettledRequest(1))
    <3>1. \A v \in Requests : requests'[v] = requests[v]
      BY <2>1, AppendFx, RequestType
    <3>2. pump.pc = "cancel" /\ ~pump.re => pump.item \in Requests
      BY DEF PumpInv
    <3>. QED BY <2>1, <3>1, <3>2 DEF ToldInv
  <2>2. CASE /\ server' = server /\ requests' = Append(requests, NewRequest(FreshId))
             /\ StartPump(Append(queue, Len(requests) + 1))
    <3>1. \A v \in Requests : requests'[v] = requests[v]
      BY <2>2, AppendFx, RequestType DEF FreshId, TypeOK
    <3>2. pump.pc = "cancel" /\ ~pump.re => pump.item \in Requests
      BY DEF PumpInv
    <3>3. pump'.pc = "cancel" => pump' = pump /\ io' = io
      BY <2>2, TopFields DEF StartPump
    <3>. QED BY <2>2, <3>1, <3>2, <3>3 DEF ToldInv
  <2>. QED BY <1>2, <2>1, <2>2 DEF Request, Enqueue
<1>3. CASE SetListener
  BY <1>3, TopFields DEF ToldInv, LinkInv, SetListener, Enqueue, StartPump
<1>4. CASE Close
  BY <1>4, ToldClose DEF Close
<1>5. ASSUME NEW u \in Requests, CancelRequest(u) PROVE ToldInv'
  <2>1. pump.pc = "cancel" => io' = io
    BY <1>5 DEF CancelRequest
  <2>2. \A v \in Requests : requests'[v].told = requests[v].told
    BY <1>5, CancelParts
  <2>3. pump.pc = "cancel" /\ ~pump.re => pump.item \in Requests
    BY DEF PumpInv
  <2>. QED BY <1>5, <2>1, <2>2, <2>3 DEF CancelRequest, ToldInv
<1>6. CASE ConnectReturns
  <2>1. CASE CloseClient /\ UNCHANGED <<requests, pump>>
    BY <2>1, ToldClose
  <2>2. CASE UNCHANGED <<pump, io, server>>
    BY <1>6, <2>2 DEF ConnectReturns, ToldInv
  <2>3. CASE StartPump(Append(queue, 0)) /\ UNCHANGED server
    BY <1>6, <2>3, TopFields DEF ConnectReturns, StartPump, ToldInv
  <2>. QED BY <1>6, <2>1, <2>2, <2>3 DEF ConnectReturns, Enqueue
<1>7. CASE PumpEnds
  BY <1>7, TopFields DEF ToldInv, PumpEnds, PumpAt
<1>8. CASE PumpIdles
  BY <1>8, TopFields DEF ToldInv, PumpIdles, PumpAt
<1>9. CASE PumpRefuses
  BY <1>9, TopFields DEF PumpRefuses, Complete, ToldInv
<1>10. CASE PumpServes
  BY <1>10, ToldServe DEF PumpServes
<1>11. CASE PumpReconnects
  BY <1>11, TopFields DEF PumpReconnects, Reconnect, Complete, PumpAt, ToldInv
<1>12. CASE PumpIdleReturns
  BY <1>12, TopFields DEF ToldInv, PumpIdleReturns, PumpAt
<1>13. CASE PumpWritten
  BY <1>13, TopFields, AwaitFx DEF PumpWritten, Complete, ToldInv
<1>14. CASE PumpRewritten
  BY <1>14, TopFields, AwaitFx DEF PumpRewritten, Complete, ToldInv
<1>15. CASE PumpLine
  <2>1. CASE pump' = [pump EXCEPT !.pc = "answer"]
    BY <2>1 DEF ToldInv, TypeOK, PumpTypeOK, PumpRecord
  <2>. QED BY <1>15, <2>1, AwaitFx, ToldReturned DEF PumpLine, ToldInv
<1>16. CASE PumpNoLine
  <2>1. CASE pump' = [pump EXCEPT !.pc = "drained"]
    BY <2>1 DEF ToldInv, TypeOK, PumpTypeOK, PumpRecord
  <2>. QED BY <1>16, <2>1, AwaitFx, GiveUpFx DEF PumpNoLine, ToldInv
<1>17. CASE PumpFails
  BY <1>17, ToldReturned DEF PumpFails
<1>18. CASE PumpAnswered
  BY <1>18, TopFields, AwaitFx DEF PumpAnswered, ToldInv
<1>19. CASE WriteCompletes
  <2>1. pump.pc = "cancel" => server'.alive = server.alive
    BY <1>19 DEF WriteCompletes
  <2>2. pump.pc = "cancel" /\ ~pump.re => pump.item # 0
    BY DEF PumpInv
  <2>3. pump.pc = "cancel" /\ ~pump.re /\ io' = "ok" => requests'[pump.item].told
    BY <1>19, <2>2, WriteParts
  <2>4. /\ io' \in {"ok", "error"} /\ pump' = pump
        /\ io' = "error" => ~(open /\ server.alive)
    BY <1>19 DEF WriteCompletes
  <2>. QED BY <2>1, <2>3, <2>4 DEF ToldInv, LinkInv
<1>20. CASE ReadCompletes
  BY <1>20 DEF ToldInv, ReadCompletes, Reading
<1>21. CASE TimerFires
  BY <1>21 DEF ToldInv, TimerFires
<1>22. CASE DrainEnds
  BY <1>22 DEF ToldInv, DrainEnds
<1>23. CASE ServerAnswers
  <2>1. server'.alive => server.alive
    BY <1>23 DEF ServerAnswers, TypeOK, ServerRecord
  <2>. QED BY <1>23, <2>1 DEF ToldInv, ServerAnswers
<1>24. CASE ServerSpeaks
  <2>1. server'.alive => server.alive
    BY <1>24 DEF ServerSpeaks, TypeOK, ServerRecord
  <2>. QED BY <1>24, <2>1 DEF ToldInv, ServerSpeaks
<1>25. CASE ServerDies
  <2>1. server'.alive => server.alive
    BY <1>25 DEF ServerDies, TypeOK, ServerRecord
  <2>. QED BY <1>25, <2>1 DEF ToldInv, ServerDies
<1>26. CASE DescendantDies
  <2>1. server'.alive => server.alive
    BY <1>26 DEF DescendantDies, TypeOK, ServerRecord
  <2>. QED BY <1>26, <2>1 DEF ToldInv, DescendantDies
<1>27. CASE UNCHANGED vars
  BY <1>27 DEF ToldInv
<1>. QED
  BY <1>1, <1>2, <1>3, <1>4, <1>5, <1>6, <1>7, <1>8, <1>9, <1>10, <1>11, <1>12, <1>13,
     <1>14, <1>15, <1>16, <1>17, <1>18, <1>19, <1>20, <1>21, <1>22, <1>23, <1>24, <1>25,
     <1>26, <1>27
     DEF Next, Host, Pump, Completions, Child


(* What is settled, by which steps, and with which result. *)
LEMMA SettleNothing ==
  ASSUME TypeOK, OwnAnswer, UNCHANGED <<requests, outcome>>
  PROVE  OwnAnswer' /\ ToldFirst
BY DEF OwnAnswer, ToldFirst, Requests

LEMMA Settle ==
  ASSUME TypeOK, OwnAnswer, NEW u \in {0} \cup Requests, NEW result \in Outcomes, NEW by \in Nat,
         Complete(u, result, by), result = "ok" => by = u, u # 0 => requests[u].settled = 0,
         u # 0 /\ requests[u].at = server.epoch /\ result \in {"cancelled", "timeout"} =>
           requests[u].told \/ ~server.alive
  PROVE  OwnAnswer' /\ ToldFirst
<1>1. CASE u = 0
  BY <1>1, SettleNothing DEF Complete
<1>2. CASE u # 0
  <2>1. /\ Requests' = Requests /\ u \in Requests
        /\ \A v \in Requests : v # u => requests'[v].settled = requests[v].settled
                                     /\ requests'[v].sends = requests[v].sends
        /\ requests'[u].settled = 1 /\ requests'[u].sends = 0
        /\ outcome' = [request |-> u, result |-> result, by |-> by]
    BY <1>2, CompleteFx DEF Same
  <2>2. OwnAnswer'
    BY <2>1 DEF OwnAnswer
  <2>3. ToldFirst
    BY <1>2, <2>1, RequestFields DEF ToldFirst
  <2>. QED BY <2>2, <2>3
<1>. QED BY <1>1, <1>2

(* A request that was not written is with no process. *)
LEMMA SettleHead ==
  ASSUME TypeOK, LinkInv, OwnAnswer, NEW u \in {0} \cup Requests, u # 0 => Unwritten(u),
         NEW result \in Outcomes \ {"ok"}, Complete(u, result, 0)
  PROVE  OwnAnswer' /\ ToldFirst
<1>1. u # 0 => requests[u].settled = 0 /\ requests[u].at = 0
  BY DEF Unwritten
<1>2. u # 0 => server.epoch > 0 /\ server.epoch \in Nat
  BY DEF Requests, LinkInv, TypeOK, ServerRecord
<1>. QED BY <1>1, <1>2, Settle

LEMMA SettleServe ==
  ASSUME TypeOK, LinkInv, OwnAnswer, NEW u \in {0} \cup Requests, u # 0 => Unwritten(u), Serve(u)
  PROVE  OwnAnswer' /\ ToldFirst
BY ServeFx, SettleHead, SettleNothing DEF Outcomes

LEMMA SettleItem ==
  ASSUME TypeOK, PumpInv, OwnAnswer, NEW result \in {"closed"}, Complete(pump.item, result, 0)
  PROVE  OwnAnswer' /\ ToldFirst
<1>1. pump.item \in {0} \cup Requests /\ (pump.item # 0 => requests[pump.item].settled = 0)
  BY DEF PumpInv
<1>. QED BY <1>1, Settle DEF Outcomes

LEMMA SettleReturned ==
  ASSUME TypeOK, PumpInv, LinkInv, OwnAnswer, NEW result \in Outcomes, NEW by \in Nat,
         Returned(result, by), result = "ok" /\ ~pump.re => by = pump.item,
         result \in {"cancelled", "timeout"} /\ ~pump.re => requests[pump.item].told \/ ~server.alive
  PROVE  OwnAnswer' /\ ToldFirst
<1>1. /\ pump.item \in {0} \cup Requests
      /\ pump.item # 0 => requests[pump.item].settled = 0
      /\ pump.item # 0 /\ pump.re => Unwritten(pump.item)
  BY DEF PumpInv
<1>2. CASE Complete(pump.item, result, by) /\ ~pump.re
  BY <1>1, <1>2, Settle
<1>3. CASE Serve(pump.item) /\ pump.re
  BY <1>1, <1>3, SettleServe
<1>4. CASE Complete(pump.item, IF result = "ok" THEN "closed" ELSE result, 0) /\ pump.re
  <2>1. (IF result = "ok" THEN "closed" ELSE result) \in Outcomes \ {"ok"}
    BY DEF Outcomes
  <2>. QED BY <1>1, <1>4, <2>1, SettleHead
<1>. QED BY <1>1, <1>2, <1>3, <1>4, ReturnedFx

(* The first request of the queue is unwritten. *)
LEMMA HeadUnsettled ==
  ASSUME TypeOK, QueueInv, queue # <<>>
  PROVE  Head(queue) \in {0} \cup Requests /\ (Head(queue) # 0 => Unwritten(Head(queue)))
<1>1. 1 \in DOMAIN queue /\ Head(queue) = queue[1]
  BY QueueParts DEF TypeOK
<1>. QED BY <1>1 DEF QueueInv, Unwritten

(* Every step settles a request at most once, with its own answer, and fails *)
(* one only after the server was told.                                       *)
LEMMA SettleStep ==
  TypeOK /\ ClientInv /\ OwnAnswer /\ [Next]_vars => OwnAnswer' /\ ToldFirst
<1>. SUFFICES ASSUME TypeOK, QueueInv, PumpInv, IdInv, LinkInv, ToldInv, LineInv, OwnAnswer, [Next]_vars
              PROVE  OwnAnswer' /\ ToldFirst
  BY DEF ClientInv
<1>. USE ItemIsRequest
<1>1. CASE Connect
  <2>1. CASE UNCHANGED requests
    BY <1>1, <2>1, SettleNothing DEF Connect
  <2>2. CASE requests' = <<NewRequest(FreshId)>>
    <3>1. /\ Requests' = {1} /\ requests'[1].sends = 0 /\ requests'[1].settled = 0
          /\ outcome' = outcome /\ requests = <<>>
      BY <1>1, <2>2 DEF Connect, NewRequest, Requests, LinkInv
    <3>2. Requests = {}
      BY <3>1 DEF Requests
    <3>. QED BY <3>1, <3>2 DEF OwnAnswer, ToldFirst
  <2>. QED BY <1>1, <2>1, <2>2 DEF Connect
<1>2. CASE Request
  <2>1. PICK r \in RequestRecord : r.sends = 0 /\ r.settled <= 1 /\ requests' = Append(requests, r)
    <3>1. NewRequest(FreshId) \in RequestRecord /\ SettledRequest(1) \in RequestRecord
      BY RequestType DEF FreshId, TypeOK
    <3>2. /\ NewRequest(FreshId).sends = 0 /\ NewRequest(FreshId).settled <= 1
          /\ SettledRequest(1).sends = 0 /\ SettledRequest(1).settled <= 1
      BY DEF NewRequest, SettledRequest
    <3>. QED BY <1>2, <3>1, <3>2 DEF Request
  <2>2. /\ Requests' = Requests \cup {Len(requests) + 1} /\ requests'[Len(requests) + 1] = r
        /\ \A v \in Requests : requests'[v] = requests[v]
    BY <2>1, AppendFx
  <2>3. outcome' = outcome \/ outcome'.result # "ok"
    BY <1>2 DEF Request
  <2>4. OwnAnswer'
    <3>1. ASSUME NEW v \in Requests' PROVE requests'[v].sends <= 1 /\ requests'[v].settled <= 1
      <4>1. CASE v = Len(requests) + 1
        BY <2>1, <2>2, <4>1
      <4>2. CASE v \in Requests
        BY <2>2, <4>2 DEF OwnAnswer
      <4>. QED BY <2>2, <3>1, <4>1, <4>2
    <3>. QED BY <2>3, <3>1 DEF OwnAnswer
  <2>5. ToldFirst
    BY <2>2, RequestFields DEF ToldFirst
  <2>. QED BY <2>4, <2>5
<1>3. CASE SetListener
  BY <1>3, SettleNothing DEF SetListener
<1>4. CASE Close
  BY <1>4, SettleNothing DEF Close
<1>5. ASSUME NEW u \in Requests, CancelRequest(u) PROVE OwnAnswer' /\ ToldFirst
  <2>1. /\ Requests' = Requests /\ outcome' = outcome
        /\ \A v \in Requests : /\ requests'[v].settled = requests[v].settled
                              /\ requests'[v].sends = requests[v].sends
    BY <1>5, CancelParts DEF CancelRequest
  <2>. QED BY <2>1, RequestFields DEF OwnAnswer, ToldFirst
<1>6. CASE ConnectReturns
  BY <1>6, SettleNothing DEF ConnectReturns
<1>7. CASE PumpEnds
  BY <1>7, SettleNothing DEF PumpEnds
<1>8. CASE PumpIdles
  BY <1>8, SettleNothing DEF PumpIdles
<1>9. CASE PumpRefuses
  <2>1. Head(queue) \in {0} \cup Requests /\ (Head(queue) # 0 => Unwritten(Head(queue)))
    BY <1>9, HeadUnsettled DEF PumpRefuses
  <2>. QED BY <1>9, <2>1, SettleHead DEF PumpRefuses, Outcomes
<1>10. CASE PumpServes
  <2>1. Head(queue) \in {0} \cup Requests /\ (Head(queue) # 0 => Unwritten(Head(queue)))
    BY <1>10, HeadUnsettled DEF PumpServes
  <2>. QED BY <1>10, <2>1, SettleServe DEF PumpServes
<1>11. CASE PumpReconnects
  <2>1. Head(queue) \in {0} \cup Requests /\ (Head(queue) # 0 => Unwritten(Head(queue)))
    BY <1>11, HeadUnsettled DEF PumpReconnects, Reconnect
  <2>. QED BY <1>11, <2>1, SettleHead, SettleNothing DEF PumpReconnects, Reconnect, Outcomes
<1>12. CASE PumpIdleReturns
  BY <1>12, SettleNothing DEF PumpIdleReturns
<1>13. CASE PumpWritten
  BY <1>13, SettleItem, SettleNothing, AwaitFx DEF PumpWritten, Outcomes
<1>14. CASE PumpRewritten
  BY <1>14, SettleItem, SettleNothing, AwaitFx DEF PumpRewritten, Outcomes
<1>15. CASE PumpLine
  <2>. DEFINE msg == Head(read_buffer)
  <2>0. io = "line" /\ pump.pc = "await"
    BY <1>15 DEF PumpLine, AtPump
  <2>1. /\ msg \in Line /\ msg.to \in Nat
        /\ msg.kind = "answer" => Answers(msg)
    <3>1. msg = read_buffer[1] /\ 1 \in DOMAIN read_buffer /\ msg \in Line
      BY <2>0, QueueParts DEF LineInv, TypeOK
    <3>2. msg.to \in Nat
      BY <3>1 DEF Line
    <3>. QED BY <3>1, <3>2 DEF IdInv
  <2>2. CASE msg.kind = "answer" /\ msg.id = pump.id /\ Returned("ok", msg.to)
    <3>1. ~pump.re => msg.to = pump.item
      BY <2>0, <2>1, <2>2 DEF PumpInv, Answers, Unsettled
    <3>. QED BY <2>0, <2>1, <2>2, <3>1, SettleReturned DEF Outcomes
  <2>3. CASE UNCHANGED <<requests, outcome>>
    BY <2>3, SettleNothing
  <2>. QED BY <1>15, <2>2, <2>3, AwaitFx DEF PumpLine
<1>16. CASE PumpNoLine
  BY <1>16, SettleNothing, AwaitFx, GiveUpFx DEF PumpNoLine
<1>17. CASE PumpFails
  <2>1. CASE AtPump("cancel") /\ Returned(pump.out, 0)
    <3>1. pump.out \in Outcomes /\ pump.out # "ok"
      BY DEF TypeOK, PumpTypeOK, PumpRecord, Outcomes
    <3>2. ~pump.re => requests[pump.item].told \/ ~server.alive
      BY <2>1 DEF AtPump, ToldInv
    <3>. QED BY <2>1, <3>1, <3>2, SettleReturned DEF Outcomes
  <2>2. CASE AtPump("drained") /\ Returned("closed", 0)
    BY <2>2, SettleReturned DEF Outcomes
  <2>. QED BY <1>17, <2>1, <2>2 DEF PumpFails
<1>18. CASE PumpAnswered
  BY <1>18, SettleNothing, AwaitFx DEF PumpAnswered
<1>19. CASE WriteCompletes
  <2>1. /\ Requests' = Requests /\ 0 \notin Requests
        /\ \A v \in Requests : v # pump.item => requests'[v] = requests[v]
    BY <1>19, WriteParts DEF Requests
  <2>2. pump.item # 0 =>
          /\ requests'[pump.item].settled = requests[pump.item].settled
          /\ \/ requests'[pump.item].sends = requests[pump.item].sends
             \/ pump.pc = "write" /\ requests'[pump.item].sends = requests[pump.item].sends + 1
    <3>1. ASSUME pump.item # 0 PROVE requests[pump.item] \in RequestRecord
      BY <3>1, RequestFields
    <3>2. ASSUME pump.item # 0, requests'[pump.item] = [requests[pump.item] EXCEPT !.told = TRUE]
          PROVE  requests'[pump.item].sends = requests[pump.item].sends
      BY <3>1, <3>2 DEF RequestRecord
    <3>. QED BY <1>19, <3>2, WriteParts
  <2>3. pump.item # 0 /\ pump.pc = "write" => requests[pump.item].sends = 0
    BY <1>19 DEF PumpInv, Unwritten, WriteCompletes, Writing
  <2>4. \A v \in Requests : requests'[v].settled = requests[v].settled /\ requests'[v].sends <= 1
    BY <2>1, <2>2, <2>3 DEF OwnAnswer
  <2>5. outcome' = outcome
    BY <1>19 DEF WriteCompletes
  <2>. QED BY <2>1, <2>4, <2>5, RequestFields DEF OwnAnswer, ToldFirst
<1>20. CASE ReadCompletes
  BY <1>20, SettleNothing DEF ReadCompletes
<1>21. CASE TimerFires
  BY <1>21, SettleNothing DEF TimerFires
<1>22. CASE DrainEnds
  BY <1>22, SettleNothing DEF DrainEnds
<1>23. CASE ServerAnswers
  BY <1>23, SettleNothing DEF ServerAnswers
<1>24. CASE ServerSpeaks
  BY <1>24, SettleNothing DEF ServerSpeaks
<1>25. CASE ServerDies
  BY <1>25, SettleNothing DEF ServerDies
<1>26. CASE DescendantDies
  BY <1>26, SettleNothing DEF DescendantDies
<1>27. CASE UNCHANGED vars
  BY <1>27, SettleNothing
<1>. QED
  BY <1>1, <1>2, <1>3, <1>4, <1>5, <1>6, <1>7, <1>8, <1>9, <1>10, <1>11, <1>12, <1>13,
     <1>14, <1>15, <1>16, <1>17, <1>18, <1>19, <1>20, <1>21, <1>22, <1>23, <1>24, <1>25,
     <1>26, <1>27
     DEF Next, Host, Pump, Completions, Child

(* A client that was not connected has no requests and no process. *)
LEMMA ClientInit == Init => TypeOK /\ ClientInv /\ OwnAnswer
<1>. SUFFICES ASSUME Init PROVE TypeOK /\ ClientInv /\ OwnAnswer
  OBVIOUS
<1>1. pump = NoPump /\ io = "none" /\ requests = <<>> /\ queue = <<>> /\ read_buffer = <<>> /\ out = <<>>
      /\ server = NoChild /\ outcome = [request |-> 0, result |-> "none", by |-> 0] /\ next_id = 1
      /\ closing = FALSE /\ closed = FALSE /\ open = FALSE /\ phase = "new" /\ cancelled = {}
      /\ drains = 0 /\ stderr_eof = FALSE /\ noise = 0
  BY DEF Init
<1>2. server \in ServerRecord /\ ~server.alive /\ server.todo = {}
  BY <1>1 DEF NoChild, ServerRecord
<1>3. Requests = {} /\ DOMAIN queue = {} /\ DOMAIN out = {} /\ DOMAIN read_buffer = {}
  BY <1>1 DEF Requests
<1>4. outcome \in [request : Nat, result : Outcomes, by : Nat] /\ outcome.result # "ok"
  BY <1>1 DEF Outcomes
<1>5. PumpTypeOK
  BY <1>1, <1>4, AtTopType DEF PumpTypeOK, IoStates
<1>6. TypeOK
  <2>1. queue \in Seq(Nat) /\ read_buffer \in Seq(Line) /\ out \in Seq(Line)
    BY <1>1, EmptyLines
  <2>. QED BY <1>1, <1>2, <1>5, <2>1 DEF TypeOK
<1>7. QueueInv /\ PumpInv
  BY <1>1, <1>3, TopFields DEF QueueInv, PumpInv
<1>8. IdInv
  BY <1>1, <1>2, <1>3, TopFields DEF IdInv
<1>9. LinkInv /\ ToldInv /\ LineInv
  BY <1>1, <1>2, TopFields DEF LinkInv, ToldInv, LineInv
<1>10. OwnAnswer
  BY <1>3, <1>4 DEF OwnAnswer
<1>. QED BY <1>6, <1>7, <1>8, <1>9, <1>10 DEF ClientInv

(* The queue, the pump, the ids and the pipes stay as the client's code     *)
(* expects them, at every suspension point.                                 *)
THEOREM ClientCorrect == Spec => [](TypeOK /\ ClientInv /\ OwnAnswer)
<1>1. TypeOK /\ ClientInv /\ OwnAnswer /\ [Next]_vars => (TypeOK /\ ClientInv /\ OwnAnswer)'
  BY TypeStep, QueueStep, PumpStep, IdStep, LinkStep, ToldStep, LineStep, SettleStep DEF ClientInv
<1>. QED BY ClientInit, <1>1, PTL DEF Spec

(* request, pump and await_response: a request is written at most once,     *)
(* settles at most once, and its result is the server's answer to it,       *)
(* whatever late answers and reconnections there are.                       *)
THEOREM AnswersAreOwn == Spec => []OwnAnswer
BY ClientCorrect, PTL

(* close and reconnect_transport: after close() no child runs, and none is  *)
(* launched.                                                                *)
THEOREM NoProcessAfterClose == Spec => []CloseLeavesNoProcess
<1>1. ClientInv => CloseLeavesNoProcess
  BY DEF ClientInv, LinkInv, CloseLeavesNoProcess
<1>. QED BY ClientCorrect, <1>1, PTL

(* await_response and write_cancellation: a caller is failed by its stop or *)
(* by the deadline only after the process that has the request was told, or *)
(* died.                                                                    *)
THEOREM ToldBeforeFailed == Spec => ServerToldFirst
<1>1. TypeOK /\ ClientInv /\ OwnAnswer /\ [Next]_vars => [ToldFirst]_vars
  BY SettleStep
<1>. QED BY ClientCorrect, <1>1, PTL DEF Spec, ServerToldFirst
=============================================================================
