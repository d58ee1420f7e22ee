----------------------------- MODULE StdioClient -----------------------------
(***************************************************************************)
(* The MCP stdio client (src/mcp/StdioClient.cpp): a queue of requests, a  *)
(* pump coroutine that serves them one at a time over the pipes of a child *)
(* process, cancellation by stop callbacks, a deadline per read, a second  *)
(* coroutine that drains stderr, reconnection after the child's death, and *)
(* close.  Everything runs on one executor; a step is the code between two *)
(* suspension points, and an I/O operation that has completed is resumed   *)
(* by a later step, so that close and cancel can fall in between.          *)
(*                                                                         *)
(* The child is external: it answers what it received in any order or      *)
(* never, sends requests and noise of its own, writes to stderr and dies   *)
(* at any time, possibly leaving a descendant that holds stderr open.      *)
(***************************************************************************)
EXTENDS Integers, Sequences, FiniteSets

CONSTANTS RequestBound,   \* requests a host makes, the handshake included
          SpawnBound,     \* processes launched
          NoiseBound,     \* messages of the server that are no answers
          Timeout         \* a request_timeout is configured

ASSUME StdioAssumption ==
  /\ RequestBound \in Nat /\ SpawnBound \in Nat /\ NoiseBound \in Nat
  /\ Timeout \in BOOLEAN

VARIABLES
  phase,        \* connect_impl: "new", "connecting", "up", "failed"
  requests,     \* every request made, in order
  outcome,      \* how the last one settled, and whose answer it got (history)
  queue,        \* queue_: indices of requests, 0 is a notification
  next_id, cancelled, closed, closing,
  open,         \* the three pipes are open on this side
  read_buffer,
  pump,         \* the pump coroutine: where it is suspended, and its locals
  io,           \* the operation it awaits: "pending" or how it completed
  server,       \* the current child
  out,          \* the child's stdout pipe
  drains,       \* the drain_stderr coroutines that read the stderr pipe
  stderr_eof,
  noise

link == <<closed, closing, open>>
errs == <<drains, stderr_eof>>
vars == <<phase, requests, outcome, queue, next_id, cancelled, link, read_buffer,
          pump, io, server, out, errs, noise>>

Requests == 1..Len(requests)

\* pc: "none" no pump; "top" the head of its loop; "idle" and "await" in
\* read_line; "write", "rewrite" (initialize of a reconnect), "cancel" and
\* "answer" in write_frame; "drained" waiting for stderr.
PumpAt(pc, item, id, re) == [pc |-> pc, item |-> item, id |-> id, re |-> re, out |-> "none"]
AtTop == PumpAt("top", 0, 0, FALSE)
NoPump == PumpAt("none", 0, 0, FALSE)
NoChild == [epoch |-> 0, alive |-> FALSE, err |-> FALSE, todo |-> {}]

Reading == pump.pc \in {"idle", "await"} /\ io = "pending"
Writing == pump.pc \in {"write", "rewrite", "cancel", "answer"} /\ io = "pending"

Init ==
  /\ phase = "new"
  /\ requests = <<>> /\ outcome = [request |-> 0, result |-> "none", by |-> 0]
  /\ queue = <<>> /\ next_id = 1
  /\ cancelled = {}
  /\ closed = FALSE /\ closing = FALSE /\ open = FALSE
  /\ read_buffer = <<>> /\ pump = NoPump /\ io = "none"
  /\ server = NoChild /\ out = <<>>
  /\ drains = 0 /\ stderr_eof = FALSE
  /\ noise = 0
-----------------------------------------------------------------------------
(* Parts of the operations. *)

\* Mutant: ids are given by position, as if late answers did not exist.
FreshIdByPosition == Len(queue) + 1
FreshId == next_id

\* Mutant: a dead server's queue is not served.
StartPumpOpen(q) ==
  LET starts == pump.pc = "none" /\ ~closed
  IN  /\ pump' = IF starts THEN AtTop ELSE pump
      /\ io' = IF pump.pc = "idle" /\ io = "pending" THEN "aborted" ELSE io

\* start_pump: an idle read is woken; a pump that ended is started again.
StartPump(q) ==
  LET starts == pump.pc = "none" /\ (q # <<>> \/ ~closed)
  IN  /\ pump' = IF starts THEN AtTop ELSE pump
      /\ io' = IF pump.pc = "idle" /\ io = "pending" THEN "aborted" ELSE io

\* enqueue_frame
Enqueue(u) == queue' = Append(queue, u) /\ StartPump(Append(queue, u))

\* spawn, once the child runs
NewChild == [epoch |-> server.epoch + 1, alive |-> TRUE, err |-> TRUE, todo |-> {}]

\* teardown_process_group: EOF, SIGTERM, SIGKILL to the whole group.
TornDown(s) == [s EXCEPT !.alive = FALSE, !.err = FALSE]

\* close_transport, as the drain_stderr coroutines see it.  A pending read is
\* aborted, and its coroutine sets stderr_eof.  A coroutine that has not
\* started, or whose read has completed already, finds the pipe closed and ends
\* without a word, or goes on with the next child's pipe if there is one.
DrainsAborted(aborted) ==
  /\ aborted \in 0..drains
  /\ stderr_eof' = (stderr_eof \/ aborted > 0)

\* close()
CloseClient ==
  /\ closing' = TRUE /\ closed' = TRUE /\ open' = FALSE
  /\ \E aborted \in 0..drains :
       /\ DrainsAborted(aborted)
       /\ io' = IF Reading \/ (pump.pc = "drained" /\ aborted > 0)
                THEN "aborted" ELSE io
  /\ drains' = 0
  /\ server' = TornDown(server) /\ out' = <<>>

\* A request: written how often, last to which child, and cancelled there.
NewRequest(id) ==
  [id |-> id, settled |-> 0, sends |-> 0, at |-> 0, told |-> FALSE, stop |-> FALSE]
SettledRequest(times) ==
  [id |-> 0, settled |-> times, sends |-> 0, at |-> 0, told |-> FALSE, stop |-> FALSE]

\* complete_frame and the end of a turn of the pump's loop.
Complete(u, result, by) ==
  /\ requests' = IF u = 0 THEN requests
                 ELSE [requests EXCEPT ![u] = SettledRequest(requests[u].settled + 1)]
  /\ outcome' = IF u = 0 THEN outcome
                ELSE [request |-> u, result |-> result, by |-> by]
  /\ cancelled' = IF u = 0 THEN cancelled ELSE cancelled \ {requests[u].id}
  /\ pump' = AtTop /\ io' = "none"

\* read_line up to its first suspension
ReadStart(buffer) == IF buffer # <<>> THEN "line" ELSE IF open THEN "pending" ELSE "bad"

\* pump: a request cancelled while queued is not sent.
Serve(u) ==
  IF u # 0 /\ requests[u].id \in cancelled
  THEN Complete(u, "cancelled", 0)
  ELSE /\ pump' = PumpAt("write", u, IF u = 0 THEN 0 ELSE requests[u].id, FALSE)
       /\ io' = "pending"
       /\ UNCHANGED <<requests, outcome, cancelled>>

\* Mutant: the caller is failed and the server is not told.
GiveUpSilently(why) == Complete(pump.item, why, 0)

\* await_response: write_cancellation, then the caller fails.
GiveUp(why) ==
  /\ pump' = [pump EXCEPT !.pc = "cancel", !.out = why]
  /\ io' = "pending"
  /\ UNCHANGED <<requests, outcome, cancelled>>

\* await_response: the head of its loop.
Await(buffer) ==
  IF pump.id \in cancelled
  THEN GiveUp("cancelled")
  ELSE /\ pump' = [pump EXCEPT !.pc = "await"]
       /\ io' = ReadStart(buffer)
       /\ UNCHANGED <<requests, outcome, cancelled>>
-----------------------------------------------------------------------------
(* The host. *)

\* connect_impl: spawn, then initialize through the queue.
Connect ==
  /\ phase = "new"
  /\ \/ /\ phase' = "connecting"
        /\ server' = NewChild /\ open' = TRUE /\ drains' = 1
        /\ requests' = <<NewRequest(FreshId)>> /\ next_id' = next_id + 1
        /\ Enqueue(1)
     \/ /\ phase' = "failed"
        /\ UNCHANGED <<server, open, drains, requests, next_id, queue, pump, io>>
  /\ UNCHANGED <<outcome, cancelled, closed, closing, read_buffer, out, stderr_eof, noise>>

\* connect_impl after its request settled: a failure, an answer that is an
\* error, or a stop closes the client; an invalid initialize result is only
\* reported; a valid one is acknowledged.
ConnectReturns ==
  /\ phase = "connecting" /\ requests[1].settled > 0
  /\ \/ /\ phase' = "failed"
        /\ CloseClient
        /\ UNCHANGED <<queue, pump>>
     \/ /\ outcome.result = "ok" /\ ~closing
        /\ phase' = "failed"
        /\ UNCHANGED <<queue, pump, io, link, errs, server, out>>
     \/ /\ outcome.result = "ok" /\ ~closing
        /\ phase' = "up"
        /\ IF closed THEN UNCHANGED <<queue, pump, io>> ELSE Enqueue(0)
        /\ UNCHANGED <<link, errs, server, out>>
  /\ UNCHANGED <<requests, outcome, next_id, cancelled, read_buffer, noise>>

\* request: refused once close() was called, or with a stopped token; else
\* queued, whether the server is alive or not.
Request ==
  /\ phase = "up" /\ Len(requests) < RequestBound
  /\ \/ /\ \E stopped \in BOOLEAN :
             /\ closing \/ stopped
             /\ outcome' = [request |-> Len(requests) + 1, by |-> 0,
                             result |-> IF closing THEN "closed" ELSE "cancelled"]
        /\ requests' = Append(requests, SettledRequest(1))
        /\ UNCHANGED <<next_id, queue, pump, io>>
     \/ /\ ~closing
        /\ requests' = Append(requests, NewRequest(FreshId))
        /\ next_id' = next_id + 1
        /\ Enqueue(Len(requests) + 1)
        /\ UNCHANGED outcome
  /\ UNCHANGED <<phase, cancelled, link, read_buffer, server, out, errs, noise>>

\* set_notification_listener
SetListener ==
  /\ phase = "up"
  /\ StartPump(queue)
  /\ UNCHANGED <<phase, requests, outcome, queue, next_id, cancelled, link,
                 read_buffer, server, out, errs, noise>>

\* request_pending: current_id_ is set from the write on, and not while the
\* pump reconnects for the request.
RequestPending(u) ==
  \/ pump.item = u /\ ~pump.re
  \/ \E k \in DOMAIN queue : queue[k] = u

\* The stop callback posts cancel_request, which runs now.
CancelRequest(u) ==
  /\ requests[u].settled = 0 /\ ~requests[u].stop
  /\ requests' = [requests EXCEPT ![u].stop = TRUE]
  /\ IF closed \/ ~RequestPending(u)
     THEN UNCHANGED <<cancelled, io>>
     ELSE /\ cancelled' = cancelled \cup {requests[u].id}
          /\ io' = IF pump.pc = "await" /\ pump.item = u /\ io = "pending"
                   THEN "aborted" ELSE io
  /\ UNCHANGED <<phase, outcome, queue, next_id, link, read_buffer, pump, server,
                 out, errs, noise>>

Close ==
  /\ phase \in {"connecting", "up"} /\ ~closing
  /\ CloseClient
  /\ UNCHANGED <<phase, requests, outcome, queue, next_id, cancelled, read_buffer,
                 pump, noise>>
-----------------------------------------------------------------------------
(* The pump. *)

AtPump(pc) == pump.pc = pc /\ io # "pending"

PumpEnds ==
  /\ AtPump("top") /\ queue = <<>> /\ closed
  /\ pump' = NoPump
  /\ UNCHANGED <<phase, requests, outcome, queue, next_id, cancelled, link,
                 read_buffer, io, server, out, errs, noise>>

PumpIdles ==
  /\ AtPump("top") /\ queue = <<>> /\ ~closed
  /\ pump' = PumpAt("idle", 0, 0, FALSE)
  /\ io' = ReadStart(read_buffer)
  /\ UNCHANGED <<phase, requests, outcome, queue, next_id, cancelled, link,
                 read_buffer, server, out, errs, noise>>

PumpRefuses ==
  /\ AtPump("top") /\ queue # <<>> /\ closing
  /\ queue' = Tail(queue)
  /\ Complete(Head(queue), "closed", 0)
  /\ UNCHANGED <<phase, next_id, link, read_buffer, server, out, errs, noise>>

PumpServes ==
  /\ AtPump("top") /\ queue # <<>> /\ ~closing /\ ~closed
  /\ queue' = Tail(queue)
  /\ Serve(Head(queue))
  /\ UNCHANGED <<phase, next_id, link, read_buffer, server, out, errs, noise>>

\* reconnect_transport up to its first suspension.
Reconnect ==
  /\ AtPump("top") /\ queue # <<>> /\ closed
  /\ queue' = Tail(queue)
  /\ read_buffer' = <<>> /\ out' = <<>>
  /\ \E aborted \in 0..drains :
       /\ DrainsAborted(aborted)
       /\ \/ /\ server.epoch < SpawnBound
             /\ server' = NewChild /\ drains' = drains - aborted + 1
             /\ open' = TRUE /\ closed' = FALSE
             /\ next_id' = next_id + 1
             /\ pump' = PumpAt("rewrite", Head(queue), FreshId, TRUE)
             /\ io' = "pending"
             /\ UNCHANGED <<requests, outcome, cancelled>>
          \/ /\ server' = TornDown(server) /\ drains' = 0 /\ open' = FALSE
             /\ Complete(Head(queue), "closed", 0)
             /\ UNCHANGED <<closed, next_id>>
  /\ UNCHANGED <<phase, closing, noise>>

\* Mutant: a closed client reconnects for what is still queued.
PumpReconnectsClosing == Reconnect

PumpReconnects == ~closing /\ Reconnect

\* The idle read returned: a server request is answered, the rest is dropped.
PumpIdleReturns ==
  /\ AtPump("idle")
  /\ IF io = "line"
     THEN /\ read_buffer' = Tail(read_buffer)
          /\ pump' = IF Head(read_buffer).kind = "ask"
                     THEN PumpAt("answer", 0, 0, FALSE) ELSE AtTop
          /\ io' = IF Head(read_buffer).kind = "ask" THEN "pending" ELSE "none"
          /\ UNCHANGED closed
     ELSE /\ closed' = (closed \/ io # "aborted")
          /\ pump' = AtTop /\ io' = "none"
          /\ UNCHANGED read_buffer
  /\ UNCHANGED <<phase, requests, outcome, queue, next_id, cancelled, closing, open,
                 server, out, errs, noise>>

\* A frame was written, or could not be.
PumpWritten ==
  /\ AtPump("write")
  /\ \/ /\ io = "error"
        /\ closed' = TRUE
        /\ Complete(pump.item, "closed", 0)
     \/ /\ io # "error" /\ pump.item = 0
        /\ pump' = AtTop /\ io' = "none"
        /\ UNCHANGED <<closed, requests, outcome, cancelled>>
     \/ /\ io # "error" /\ pump.item # 0
        /\ Await(read_buffer)
        /\ UNCHANGED closed
  /\ UNCHANGED <<phase, queue, next_id, closing, open, read_buffer, server,
                 out, errs, noise>>

\* reconnect_transport: initialize was written, or could not be.
PumpRewritten ==
  /\ AtPump("rewrite")
  /\ IF io = "error" THEN closed' = TRUE /\ Complete(pump.item, "closed", 0)
                     ELSE Await(read_buffer) /\ UNCHANGED closed
  /\ UNCHANGED <<phase, queue, next_id, closing, open, read_buffer, server,
                 out, errs, noise>>

\* await_response returned: the request settles, or, in a reconnect, a valid
\* handshake lets it be served and anything else fails it.
Returned(result, by) ==
  IF ~pump.re
  THEN Complete(pump.item, result, by) /\ UNCHANGED <<closed, queue>>
  ELSE \/ /\ result = "ok"
          /\ queue' = IF closed THEN queue ELSE Append(queue, 0)
          /\ Serve(pump.item)
          /\ UNCHANGED closed
       \/ /\ closed' = TRUE
          /\ Complete(pump.item, IF result = "ok" THEN "closed" ELSE result, 0)
          /\ UNCHANGED queue

\* await_response: a line.
PumpLine ==
  /\ AtPump("await") /\ io = "line"
  /\ read_buffer' = Tail(read_buffer)
  /\ LET msg == Head(read_buffer) IN
     \/ /\ msg.kind = "ask"
        /\ pump' = [pump EXCEPT !.pc = "answer"]
        /\ io' = "pending"
        /\ UNCHANGED <<requests, outcome, cancelled, closed, queue>>
     \/ /\ msg.kind = "answer" /\ msg.id = pump.id
        /\ Returned("ok", msg.to)
     \/ /\ msg.kind = "note" \/ (msg.kind = "answer" /\ msg.id # pump.id)
        /\ Await(Tail(read_buffer))
        /\ UNCHANGED <<closed, queue>>
  /\ UNCHANGED <<phase, next_id, closing, open, server, out, errs, noise>>

\* await_response: read_line returned without a line.
PumpNoLine ==
  /\ AtPump("await") /\ io # "line"
  /\ closed' = (closed \/ io \in {"eof", "bad"})
  /\ \/ pump.id \in cancelled /\ GiveUp("cancelled")
     \/ pump.id \notin cancelled /\ io = "aborted" /\ Await(read_buffer)
     \/ pump.id \notin cancelled /\ io = "timeout" /\ GiveUp("timeout")
     \/ /\ pump.id \notin cancelled /\ io \notin {"aborted", "timeout"}
        /\ pump' = [pump EXCEPT !.pc = "drained"]
        /\ io' = IF stderr_eof THEN "ok" ELSE "pending"
        /\ UNCHANGED <<requests, outcome, cancelled>>
  /\ UNCHANGED <<phase, queue, next_id, closing, open, read_buffer, server,
                 out, errs, noise>>

\* The cancellation was written, or could not be; stderr was drained.
PumpFails ==
  /\ \/ AtPump("cancel") /\ Returned(pump.out, 0)
     \/ AtPump("drained") /\ Returned("closed", 0)
  /\ UNCHANGED <<phase, next_id, closing, open, read_buffer, server, out,
                 errs, noise>>

\* dispatch_incoming: the answer was written, or could not be.
PumpAnswered ==
  /\ AtPump("answer")
  /\ closed' = (closed \/ io = "error")
  /\ IF pump.item = 0 /\ ~pump.re
     THEN /\ pump' = AtTop /\ io' = "none"
          /\ UNCHANGED <<requests, outcome, cancelled>>
     ELSE Await(read_buffer)
  /\ UNCHANGED <<phase, queue, next_id, closing, open, read_buffer, server,
                 out, errs, noise>>
-----------------------------------------------------------------------------
(* Operations complete, and the child acts. *)

\* The frame of a request, and of the initialize of a reconnection, as the child
\* will answer it; what the request remembers of a frame that went out.
Frame == [to |-> IF pump.re THEN 0 ELSE pump.item, id |-> pump.id]
Written(r) ==
  IF pump.pc = "cancel" THEN [r EXCEPT !.told = TRUE]
  ELSE [r EXCEPT !.sends = r.sends + 1, !.at = server.epoch]

\* A write reaches the child, or fails with EPIPE or a closed descriptor.
WriteCompletes ==
  /\ Writing
  /\ IF open /\ server.alive
     THEN /\ io' = "ok"
          /\ server' = IF pump.pc \in {"write", "rewrite"} /\ pump.id # 0
                       THEN [server EXCEPT !.todo = server.todo \cup {Frame}]
                       ELSE server
          /\ requests' =
               IF pump.item = 0 \/ pump.re \/ pump.pc \notin {"write", "cancel"}
               THEN requests
               ELSE [requests EXCEPT ![pump.item] = Written(requests[pump.item])]
     ELSE io' = "error" /\ UNCHANGED <<server, requests>>
  /\ UNCHANGED <<phase, outcome, queue, next_id, cancelled, link, read_buffer, pump,
                 out, errs, noise>>

ReadCompletes ==
  /\ Reading
  /\ \/ /\ out # <<>>
        /\ read_buffer' = out /\ out' = <<>> /\ io' = "line"
     \/ /\ out = <<>> /\ ~server.alive
        /\ io' = "eof" /\ UNCHANGED <<read_buffer, out>>
  /\ UNCHANGED <<phase, requests, outcome, queue, next_id, cancelled, link, pump,
                 server, errs, noise>>

\* read_line's timer: it cancels the read, or finds it cancelled already.
TimerFires ==
  /\ Timeout /\ pump.pc = "await" /\ io \in {"pending", "aborted"}
  /\ io' = "timeout"
  /\ UNCHANGED <<phase, requests, outcome, queue, next_id, cancelled, link,
                 read_buffer, pump, server, out, errs, noise>>

\* drain_stderr: EOF wakes whoever waits for the rest of stderr.
DrainEnds ==
  /\ drains > 0 /\ ~server.err
  /\ drains' = drains - 1 /\ stderr_eof' = TRUE
  /\ io' = IF pump.pc = "drained" THEN "ok" ELSE io
  /\ UNCHANGED <<phase, requests, outcome, queue, next_id, cancelled, link,
                 read_buffer, pump, server, out, noise>>

ServerAnswers ==
  /\ server.alive
  /\ \E m \in server.todo :
       /\ server' = [server EXCEPT !.todo = @ \ {m}]
       /\ out' = Append(out, [kind |-> "answer", to |-> m.to, id |-> m.id])
  /\ UNCHANGED <<phase, requests, outcome, queue, next_id, cancelled, link,
                 read_buffer, pump, io, errs, noise>>

ServerSpeaks ==
  /\ server.alive /\ noise < NoiseBound
  /\ noise' = noise + 1
  /\ \E kind \in {"ask", "note"} :
       out' = Append(out, [kind |-> kind, to |-> 0, id |-> 0])
  /\ UNCHANGED <<phase, requests, outcome, queue, next_id, cancelled, link,
                 read_buffer, pump, io, server, errs>>

\* The child exits; a descendant may keep stderr for a while.
ServerDies ==
  /\ server.alive
  /\ \E holds \in BOOLEAN :
       server' = [server EXCEPT !.alive = FALSE, !.err = holds]
  /\ UNCHANGED <<phase, requests, outcome, queue, next_id, cancelled, link,
                 read_buffer, pump, io, out, errs, noise>>

DescendantDies ==
  /\ ~server.alive /\ server.err
  /\ server' = [server EXCEPT !.err = FALSE]
  /\ UNCHANGED <<phase, requests, outcome, queue, next_id, cancelled, link,
                 read_buffer, pump, io, out, errs, noise>>
-----------------------------------------------------------------------------
Pump ==
  \/ PumpEnds \/ PumpIdles \/ PumpRefuses \/ PumpServes \/ PumpReconnects
  \/ PumpIdleReturns \/ PumpWritten \/ PumpRewritten \/ PumpLine \/ PumpNoLine
  \/ PumpFails \/ PumpAnswered

Completions == WriteCompletes \/ ReadCompletes \/ TimerFires

Host ==
  \/ Connect \/ Request \/ SetListener \/ Close
  \/ \E u \in Requests : CancelRequest(u)

Child == ServerAnswers \/ ServerSpeaks \/ ServerDies \/ DescendantDies

Next == Host \/ ConnectReturns \/ Pump \/ Completions \/ DrainEnds \/ Child

Spec == Init /\ [][Next]_vars

\* The executor resumes what has completed, pipes take what is written and
\* deliver, timers fire.
\* Nothing is assumed of the host, of the child and of its descendants.
FairSpec ==
  /\ Spec
  /\ WF_vars(Pump) /\ WF_vars(Completions)
  /\ WF_vars(ConnectReturns) /\ WF_vars(DrainEnds)
-----------------------------------------------------------------------------
(* Properties. *)

Outcomes == {"none", "ok", "closed", "cancelled", "timeout"}
RequestRecord == [id : Nat, settled : Nat, sends : Nat, at : Nat,
                  told : BOOLEAN, stop : BOOLEAN]
PumpRecord == [pc : {"none", "top", "idle", "await", "write", "rewrite", "cancel",
                     "answer", "drained"},
               item : Nat, id : Nat, re : BOOLEAN,
               out : {"none", "cancelled", "timeout"}]
ServerRecord == [epoch : Nat, alive : BOOLEAN, err : BOOLEAN,
                 todo : SUBSET [to : Nat, id : Nat]]
Line == [kind : {"answer", "ask", "note"}, to : Nat, id : Nat]

IoStates == {"none", "pending", "ok", "error", "line", "eof", "bad", "aborted", "timeout"}

\* The members of StdioClientImpl, and the pump's suspension points.
PumpTypeOK ==
  /\ requests \in Seq(RequestRecord)
  /\ outcome \in [request : Nat, result : Outcomes, by : Nat]
  /\ cancelled \in SUBSET Nat
  /\ pump \in PumpRecord /\ io \in IoStates
TypeOK ==
  /\ PumpTypeOK
  /\ phase \in {"new", "connecting", "up", "failed"}
  /\ queue \in Seq(Nat) /\ next_id \in Nat
  /\ closed \in BOOLEAN /\ closing \in BOOLEAN /\ open \in BOOLEAN
  /\ read_buffer \in Seq(Line) /\ out \in Seq(Line)
  /\ server \in ServerRecord
  /\ drains \in Nat /\ stderr_eof \in BOOLEAN /\ noise \in Nat

\* request, pump and await_response: a request is written at most once, settles
\* at most once, and its result is the server's answer to it, however many
\* timed-out requests are still answered late and whatever process answers.
OwnAnswer ==
  /\ \A u \in Requests : requests[u].sends <= 1 /\ requests[u].settled <= 1
  /\ outcome.result = "ok" => outcome.by = outcome.request

\* await_response and write_cancellation: when a caller is failed by its stop or
\* the deadline, the process that has the request was told before, unless it is
\* gone.
ToldFirst ==
  \A u \in Requests :
    /\ requests[u].settled = 0 /\ requests[u].at = server.epoch
    /\ requests'[u].settled > 0 /\ outcome'.result \in {"cancelled", "timeout"}
    => requests[u].told \/ ~server.alive
ServerToldFirst == [][ToldFirst]_vars

\* close and reconnect_transport: once close() was called no child runs and none
\* is launched again, though the pump still has requests to refuse.
CloseLeavesNoProcess == closing => ~server.alive /\ ~open

\* What the proofs need beside the types.  A request that the pump has not
\* written yet: unsettled, with no process.
Unwritten(u) ==
  /\ u \in Requests
  /\ requests[u].settled = 0 /\ requests[u].sends = 0 /\ requests[u].at = 0

\* enqueue_frame and pump: a request waits in the queue once, unwritten, and is
\* not the one that the pump serves.
QueueInv ==
  /\ \A k \in DOMAIN queue :
       queue[k] # 0 => Unwritten(queue[k]) /\ queue[k] # pump.item
  /\ \A j, k \in DOMAIN queue : j # k => queue[j] # queue[k] \/ queue[j] = 0

\* The pump's locals: the request it serves is not settled and, until its frame
\* went out, not written; outside a reconnection it awaits the request's own id.
PumpInv ==
  /\ pump.pc \in {"none", "top", "idle"} => pump.item = 0 /\ ~pump.re
  /\ pump.pc \in {"await", "cancel", "drained"} => pump.item # 0 \/ pump.re
  /\ pump.pc = "write" => ~pump.re
  /\ pump.pc = "rewrite" => pump.re
  /\ pump.item # 0 =>
       /\ pump.item \in Requests /\ requests[pump.item].settled = 0
       /\ requests[pump.item].sends <= 1
       /\ pump.re \/ (pump.pc = "write" /\ io = "pending") => Unwritten(pump.item)
       /\ ~pump.re => pump.id = requests[pump.item].id
  /\ pump.item = 0 /\ ~pump.re => pump.id = 0

\* next_id_: an id is used once, for a request or for the initialize of a
\* reconnection, and an answer that carries the id of an unsettled request
\* answers that request.
Unsettled(u) == u \in Requests /\ requests[u].settled = 0
Answers(m) ==
  m.id < next_id /\ \A u \in Requests : Unsettled(u) /\ requests[u].id = m.id => m.to = u
IdInv ==
  /\ next_id > 0
  /\ \A u \in Requests : Unsettled(u) => 0 < requests[u].id /\ requests[u].id < next_id
  /\ \A u, v \in Requests :
       Unsettled(u) /\ Unsettled(v) /\ u # v => requests[u].id # requests[v].id
  /\ pump.re => /\ pump.id < next_id
                /\ \A u \in Requests : Unsettled(u) => requests[u].id # pump.id
  /\ \A m \in server.todo : Answers(m)
  /\ \A k \in DOMAIN out : out[k].kind = "answer" => Answers(out[k])
  /\ \A k \in DOMAIN read_buffer : read_buffer[k].kind = "answer" => Answers(read_buffer[k])

\* A running child has its pipes, and there is one once a request was made.
LinkInv ==
  /\ server.alive => open /\ ~closing
  /\ closing => ~open
  /\ phase = "new" => ~closing /\ requests = <<>> /\ queue = <<>> /\ pump.pc = "none"
  /\ requests # <<>> \/ phase \in {"connecting", "up"} => server.epoch > 0

\* write_cancellation: it went out, or found the child gone.
ToldInv ==
  pump.pc = "cancel" =>
    /\ io \in {"pending", "ok", "error"}
    /\ io = "error" => ~server.alive
    /\ io = "ok" /\ ~pump.re => requests[pump.item].told

\* read_line: it returns a line only if it has one.
LineInv == io = "line" => read_buffer # <<>>

ClientInv == QueueInv /\ PumpInv /\ IdInv /\ LinkInv /\ ToldInv /\ LineInv

\* The pump is parked on stderr and no coroutine is left to wake it.
Forsaken == pump.pc = "drained" /\ io = "pending" /\ drains = 0

\* The child is dead and a descendant of it keeps stderr open.
HeldByDescendant == pump.pc = "drained" /\ io = "pending" /\ server.err

\* pump, start_pump and reconnect_transport: with a deadline configured every
\* request settles, through deaths, reconnections, cancellations and close,
\* unless the pump waits for the end of a stderr that does not end.
RequestsSettle ==
  \A u \in 1..RequestBound :
    Unsettled(u) ~> (~Unsettled(u) \/ Forsaken \/ HeldByDescendant)

\* StdioClientImpl.hpp: "the in-flight request fails explicitly (never a silent
\* hang)".
NeverHangs ==
  \A u \in 1..RequestBound : Unsettled(u) ~> ~Unsettled(u)

\* Client.hpp: cancellation "must resolve the request".
StopResolves ==
  \A u \in 1..RequestBound :
    (Unsettled(u) /\ requests[u].stop)
      ~> (~Unsettled(u) \/ Forsaken \/ HeldByDescendant)

\* connect: a connection that was not made leaves no process.
FailedConnectLeavesNoProcess == phase = "failed" => ~server.alive
=============================================================================
