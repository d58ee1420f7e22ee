------------------------------ MODULE ToolBatch ------------------------------
(***************************************************************************)
(* ToolCallExecutor: the calls of one reply, in order or in parallel.       *)
(*                                                                          *)
(* Every call is a coroutine; between two suspension points it runs alone.  *)
(* phase[c] names where call c is suspended:                                *)
(*   "wait"     not begun (parallel: queued for the preparation permit)     *)
(*   "opening"  ToolExecutionStart delivered, its commitment outstanding    *)
(*   "before"   in the beforeToolCall hook                                  *)
(*   "lane"     queued for a concurrency permit                             *)
(*   "exec"     the tool executes                                           *)
(*   "afterWait", "after"  queued for, and in, the afterToolCall hook       *)
(*   "closing"  ToolExecutionEnd delivered, its commitment outstanding      *)
(*   "over"     execute_single_call returned                                *)
(*                                                                          *)
(* External: the permit channels hand out permits first come, first served  *)
(* and are never closed; hooks and tools settle; a tool settles its own     *)
(* nested calls before it returns.                                          *)
(***************************************************************************)
EXTENDS Naturals, Sequences, FiniteSets

CONSTANTS
  N,             \* tool calls of the reply
  ParallelPolicy,\* BoundedParallelToolExecution is configured
  MaxInFlight,   \* its max_in_flight, 0: no cap
  HasBefore, HasAfter,   \* the hooks are configured
  Nested,        \* bound: nested calls a tool makes
  UpdateBound    \* bound: updates a tool sends

ASSUME BatchAssumption ==
  /\ N \in Nat /\ MaxInFlight \in Nat /\ Nested \in Nat /\ UpdateBound \in Nat
  /\ ParallelPolicy \in BOOLEAN /\ HasBefore \in BOOLEAN /\ HasAfter \in BOOLEAN

VARIABLES
  mode, stop, phase,
  prep, lanes, afterFree,  \* permits left in the three channels
  holds,     \* calls whose permits.preparation is not yet released
  gate,      \* ToolUpdateGate::active
  trace,     \* history: start, update and end events delivered per call
  vote,      \* call_terminate
  failure,   \* ParallelExecutionState: emit_error or fatal_error
  results,   \* result messages delivered
  status, terminate,
  nested     \* the nested calls of each call, and their phase

permits == <<prep, lanes, afterFree, holds>>
vars == <<mode, stop, phase, permits, gate, trace, vote, failure, results,
          status, terminate, nested>>

Calls == 1..N
Kids  == 1..Nested
Phases == {"wait", "opening", "before", "lane", "exec", "afterWait", "after",
           "closing", "over"}
NestedPhases == {"none", "opening", "before", "exec", "after", "over"}
Events == {"start", "update", "end"}

(* max_in_flight 0 means one lane per call. *)
Limit == IF MaxInFlight = 0 THEN N ELSE MaxInFlight

(* An exclusive tool in the batch, or a cap of one, makes it sequential. *)
ModeOf(exclusive) ==
  IF ~ParallelPolicy \/ exclusive \/ MaxInFlight = 1
  THEN "sequential" ELSE "parallel"

Parallel == mode = "parallel"
-----------------------------------------------------------------------------
Init ==
  /\ \E exclusive \in BOOLEAN : mode = ModeOf(exclusive)
  /\ stop = FALSE
  /\ phase = [c \in Calls |-> "wait"]
  /\ prep = 1 /\ lanes = Limit /\ afterFree = 1 /\ holds = {}
  /\ gate = [c \in Calls |-> FALSE]
  /\ trace = [c \in Calls |-> <<>>]
  /\ vote = [c \in Calls |-> FALSE]
  /\ failure = FALSE /\ results = 0 /\ status = "running" /\ terminate = FALSE
  /\ nested = [c \in Calls |-> [k \in Kids |-> "none"]]

Goes(c, p) == phase[c] # p /\ phase' = [phase EXCEPT ![c] = p]
Emits(c, e) == trace' = [trace EXCEPT ![c] = Append(@, e)]

(* Gives the preparation permit back, once. *)
ReleasePreparation(c) ==
  /\ prep' = IF c \in holds THEN prep + 1 ELSE prep
  /\ holds' = holds \ {c}

(* The call's turn: the tasks are spawned, and queue for the preparation    *)
(* permit, in call order; a sequential batch checks the stop before each.   *)
MayBegin(c) ==
  /\ status = "running" /\ phase[c] = "wait"
  /\ IF Parallel THEN prep > 0 /\ \A d \in Calls : d < c => phase[d] # "wait"
                 ELSE ~stop /\ c = results + 1

Begin(c) ==
  /\ MayBegin(c) /\ ~stop
  /\ Goes(c, "opening") /\ Emits(c, "start")
  /\ IF Parallel THEN prep' = prep - 1 /\ holds' = holds \cup {c}
                 ELSE UNCHANGED <<prep, holds>>
  /\ UNCHANGED <<mode, stop, lanes, afterFree, gate, vote, failure, results,
                 status, terminate, nested>>

(* abort_tool_call: a result, and no event. *)
AbortUnstarted(c) ==
  /\ MayBegin(c) /\ stop
  /\ Goes(c, "over")
  /\ UNCHANGED <<mode, stop, permits, gate, trace, vote, failure, results,
                 status, terminate, nested>>

(* The call settles while it still holds the preparation permit: rejected,  *)
(* blocked, failed in the hook, or stopped.  The end event comes first, the *)
(* permit goes back after it.                                               *)
SettleEarly(c) ==
  /\ Goes(c, "closing") /\ Emits(c, "end")
  /\ UNCHANGED <<permits, gate>>

(* Preparation is over: the permit goes back before the wait for a lane. *)
Prepared(c) ==
  /\ Goes(c, "lane")
  /\ ReleasePreparation(c)
  /\ UNCHANGED <<lanes, afterFree, gate, trace>>

(* resolve_tool_call rejects the name or the arguments. *)
Reject(c) ==
  /\ phase[c] = "opening"
  /\ SettleEarly(c)
  /\ UNCHANGED <<mode, stop, vote, failure, results, status, terminate, nested>>

CallBeforeHook(c) ==
  /\ phase[c] = "opening" /\ HasBefore
  /\ Goes(c, "before")
  /\ UNCHANGED <<mode, stop, permits, gate, trace, vote, failure, results,
                 status, terminate, nested>>

(* The resolved call passes: no hook, or the hook lets it through; the stop *)
(* is checked again.                                                        *)
Pass(c) ==
  /\ phase[c] = IF HasBefore THEN "before" ELSE "opening"
  /\ IF stop THEN SettleEarly(c) ELSE Prepared(c)
  /\ UNCHANGED <<mode, stop, vote, failure, results, status, terminate, nested>>

(* The hook fails, or blocks the call with a vote on termination. *)
Block(c) ==
  /\ phase[c] = "before"
  /\ SettleEarly(c)
  /\ \E v \in BOOLEAN : vote' = [vote EXCEPT ![c] = v]
  /\ UNCHANGED <<mode, stop, failure, results, status, terminate, nested>>

(* A lane is free; a stop seen now gives it straight back. *)
EnterLaneKeeping(c) ==
  /\ phase[c] = "lane" /\ (Parallel => lanes > 0)
  /\ lanes' = IF Parallel THEN lanes - 1 ELSE lanes
  /\ IF stop
       THEN Goes(c, "closing") /\ Emits(c, "end") /\ UNCHANGED gate
       ELSE Goes(c, "exec") /\ gate' = [gate EXCEPT ![c] = TRUE] /\ UNCHANGED trace
  /\ UNCHANGED <<mode, stop, prep, holds, afterFree, vote, failure, results, status,
                 terminate, nested>>
EnterLaneUncapped(c) ==
  /\ phase[c] = "lane"
  /\ IF stop
       THEN Goes(c, "closing") /\ Emits(c, "end") /\ UNCHANGED <<lanes, gate>>
       ELSE /\ Goes(c, "exec")
            /\ lanes' = IF Parallel THEN lanes - 1 ELSE lanes
            /\ gate' = [gate EXCEPT ![c] = TRUE]
            /\ UNCHANGED trace
  /\ UNCHANGED <<mode, stop, prep, holds, afterFree, vote, failure, results, status,
                 terminate, nested>>
EnterLane(c) ==
  /\ phase[c] = "lane" /\ (Parallel => lanes > 0)
  /\ IF stop
       THEN Goes(c, "closing") /\ Emits(c, "end") /\ UNCHANGED <<lanes, gate>>
       ELSE /\ Goes(c, "exec")
            /\ lanes' = IF Parallel THEN lanes - 1 ELSE lanes
            /\ gate' = [gate EXCEPT ![c] = TRUE]
            /\ UNCHANGED trace
  /\ UNCHANGED <<mode, stop, prep, holds, afterFree, vote, failure, results, status,
                 terminate, nested>>

(* The tool, or a thread it left behind, calls its update sink: delivered   *)
(* while the gate is open.  A refused update goes back to the tool.         *)
Update(c) ==
  /\ gate[c]
  /\ Cardinality({i \in DOMAIN trace[c] : trace[c][i] = "update"}) < UpdateBound
  /\ Emits(c, "update")
  /\ UNCHANGED <<mode, stop, phase, permits, gate, vote, failure, results,
                 status, terminate, nested>>

(* The tool returns or fails; the gate closes, the lane is free, and the    *)
(* after hook, if any, is next.                                             *)
ToolReturnsGateOpen(c, v) ==
  /\ phase[c] = "exec"
  /\ \A k \in Kids : nested[c][k] \in {"none", "over"}
  /\ lanes' = IF Parallel THEN lanes + 1 ELSE lanes
  /\ vote' = [vote EXCEPT ![c] = v]
  /\ IF HasAfter THEN Goes(c, "afterWait") /\ UNCHANGED trace
                 ELSE Goes(c, "closing") /\ Emits(c, "end")
  /\ UNCHANGED <<mode, stop, prep, holds, afterFree, gate, failure, results, status,
                 terminate, nested>>
ToolReturns(c, v) ==
  /\ phase[c] = "exec"
  /\ \A k \in Kids : nested[c][k] \in {"none", "over"}
  /\ gate' = [gate EXCEPT ![c] = FALSE]
  /\ lanes' = IF Parallel THEN lanes + 1 ELSE lanes
  /\ vote' = [vote EXCEPT ![c] = v]
  /\ IF HasAfter THEN Goes(c, "afterWait") /\ UNCHANGED trace
                 ELSE Goes(c, "closing") /\ Emits(c, "end")
  /\ UNCHANGED <<mode, stop, prep, holds, afterFree, failure, results, status,
                 terminate, nested>>

(* invoke_serialized_hook. *)
CallAfterHookUnserialized(c) ==
  /\ phase[c] = "afterWait"
  /\ Goes(c, "after")
  /\ UNCHANGED <<mode, stop, permits, gate, trace, vote, failure,
                 results, status, terminate, nested>>
CallAfterHook(c) ==
  /\ phase[c] = "afterWait" /\ (Parallel => afterFree > 0)
  /\ Goes(c, "after")
  /\ afterFree' = IF Parallel THEN afterFree - 1 ELSE afterFree
  /\ UNCHANGED <<mode, stop, prep, holds, lanes, gate, trace, vote, failure,
                 results, status, terminate, nested>>

(* The after hook may change the vote; its failure clears it. *)
AfterHookReturns(c) ==
  /\ phase[c] = "after"
  /\ afterFree' = IF Parallel THEN afterFree + 1 ELSE afterFree
  /\ \E v \in BOOLEAN : vote' = [vote EXCEPT ![c] = v]
  /\ Goes(c, "closing") /\ Emits(c, "end")
  /\ UNCHANGED <<mode, stop, prep, holds, lanes, gate, failure, results, status,
                 terminate, nested>>

(* The end event is committed: the call's result is final. *)
CloseKeeping(c) ==
  /\ phase[c] = "closing"
  /\ Goes(c, "over")
  /\ UNCHANGED <<mode, stop, permits, gate, trace, vote, failure,
                 results, status, terminate, nested>>
Close(c) ==
  /\ phase[c] = "closing"
  /\ Goes(c, "over")
  /\ ReleasePreparation(c)
  /\ UNCHANGED <<mode, stop, lanes, afterFree, gate, trace, vote, failure,
                 results, status, terminate, nested>>

(* The host refuses the call's start or end event: the call is over, at     *)
(* once a sequential batch fails, and a parallel one when all calls are.    *)
Refused(c) ==
  /\ phase[c] \in {"opening", "closing"}
  /\ Goes(c, "over")
  /\ ReleasePreparation(c)
  /\ failure' = (failure \/ Parallel)
  /\ status' = IF Parallel THEN status ELSE "error"
  /\ UNCHANGED <<mode, stop, lanes, afterFree, gate, trace, vote, results,
                 terminate, nested>>
-----------------------------------------------------------------------------
(* A call the tool makes itself (NestedToolCallRunner, run_tool_call): the  *)
(* same hooks, without any permit.                                          *)
AfterExec == IF HasAfter THEN {"after"} ELSE {"over"}
NestedGoes(p) ==
  {q \in NestedPhases :
     \/ p = "none" /\ q = "opening"
     \/ p \in {"opening", "before", "after"} /\ q = "over"
     \/ p = "opening" /\ ~stop /\ q = IF HasBefore THEN "before" ELSE "exec"
     \/ p = "before" /\ ~stop /\ q = "exec"
     \/ p = "exec" /\ q \in AfterExec}

NestedStep(c, k) ==
  /\ phase[c] = "exec"
  /\ \E p \in NestedGoes(nested[c][k]) : nested' = [nested EXCEPT ![c][k] = p]
  /\ UNCHANGED <<mode, stop, phase, permits, gate, trace, vote, failure,
                 results, status, terminate>>

(* The runner ignores a refused start or end of a nested call; the parallel *)
(* batch's sink remembers it.                                               *)
NestedRefused(c) ==
  /\ phase[c] = "exec" /\ Parallel /\ ~failure
  /\ \E k \in Kids : nested[c][k] \in {"opening", "over"}
  /\ failure' = TRUE
  /\ UNCHANGED <<mode, stop, phase, permits, gate, trace, vote, results,
                 status, terminate, nested>>
-----------------------------------------------------------------------------
AllOver == \A c \in Calls : phase[c] = "over"

(* emit_tool_result_message, in call order. *)
ResultDueEarly == results < N /\ phase[results + 1] = "over"
ResultDue ==
  /\ results < N
  /\ IF Parallel THEN AllOver /\ ~failure ELSE phase[results + 1] = "over"

EmitResult ==
  /\ status = "running" /\ ResultDue
  /\ results' = results + 1
  /\ UNCHANGED <<mode, stop, phase, permits, gate, trace, vote, failure,
                 status, terminate, nested>>

ResultRefused ==
  /\ status = "running" /\ ResultDue
  /\ results' \in {results, results + 1}
  /\ status' = "error"
  /\ UNCHANGED <<mode, stop, phase, permits, gate, trace, vote, failure,
                 terminate, nested>>

(* make_batch_result. *)
TerminateBatchAny == \E c \in 1..results : vote[c]
TerminateBatch == results > 0 /\ \A c \in 1..results : vote[c]

(* A sequential batch may return early because of a stop. *)
Complete ==
  \/ results = N
  \/ results < N /\ ~Parallel /\ stop /\ phase[results + 1] = "wait"

Return ==
  /\ status = "running" /\ ~failure /\ Complete
  /\ status' = "ok" /\ terminate' = TerminateBatch
  /\ UNCHANGED <<mode, stop, phase, permits, gate, trace, vote, failure,
                 results, nested>>

Fail ==
  /\ status = "running" /\ Parallel /\ AllOver /\ failure
  /\ status' = "error"
  /\ UNCHANGED <<mode, stop, phase, permits, gate, trace, vote, failure,
                 results, terminate, nested>>

Abort ==
  /\ status = "running" /\ ~stop
  /\ stop' = TRUE
  /\ UNCHANGED <<mode, phase, permits, gate, trace, vote, failure, results,
                 status, terminate, nested>>
-----------------------------------------------------------------------------
CallStep(c) ==
  \/ Begin(c) \/ AbortUnstarted(c)
  \/ Reject(c) \/ CallBeforeHook(c) \/ Pass(c) \/ Block(c)
  \/ EnterLane(c) \/ Update(c)
  \/ \E v \in BOOLEAN : ToolReturns(c, v)
  \/ CallAfterHook(c) \/ AfterHookReturns(c)
  \/ Close(c) \/ Refused(c)
  \/ \E k \in Kids : NestedStep(c, k)
  \/ NestedRefused(c)

BatchStep ==
  \/ \E c \in Calls : CallStep(c)
  \/ EmitResult \/ ResultRefused \/ Return \/ Fail

Next == BatchStep \/ Abort

Spec == Init /\ [][Next]_vars

(* Coroutines are resumed when what they wait for settles, and what they    *)
(* wait for settles (hooks, tools) or is released (permits).                *)
FairSpec == Spec /\ WF_vars(BatchStep)
-----------------------------------------------------------------------------
(* The types of the executor's state. *)
TypeOK ==
  /\ mode \in {"sequential", "parallel"} /\ stop \in BOOLEAN
  /\ phase \in [Calls -> Phases]
  /\ prep \in Nat /\ lanes \in Nat /\ afterFree \in Nat
  /\ holds \in SUBSET Calls
  /\ gate \in [Calls -> BOOLEAN] /\ vote \in [Calls -> BOOLEAN]
  /\ trace \in [Calls -> Seq(Events)]
  /\ failure \in BOOLEAN /\ terminate \in BOOLEAN
  /\ results \in Nat /\ status \in {"running", "ok", "error"}
  /\ nested \in [Calls -> [Kids -> NestedPhases]]

In(p) == {c \in Calls : phase[c] = p}

(* No permit is lost or made up on any exit path of a call (rejection,      *)
(* block, stop, refusal, hook failure), so a parallel batch never runs more *)
(* tools than configured and never starves.                                 *)
PermitsConserved ==
  Parallel =>
    /\ prep + Cardinality(holds) = 1
    /\ lanes + Cardinality(In("exec")) = Limit
    /\ afterFree + Cardinality(In("after")) = 1

Paired(t) ==
  \A i \in DOMAIN t : (t[i] = "start" <=> i = 1) /\ (t[i] = "end" => i = Len(t))

(* ToolExecutionStart and ToolExecutionEnd "stay strictly paired" and       *)
(* updates fall between them: a stopped or rejected call, a tool that keeps *)
(* sending updates after it returned, an unstarted call included.           *)
EventsPaired ==
  \A c \in Calls :
    LET t == trace[c] IN
    Paired(t) /\ (status = "ok" /\ t # <<>> => t[Len(t)] = "end")

(* When the batch returns nothing of it is left running: no hook, no tool,  *)
(* no open update gate, no nested call.                                     *)
NothingOutlivesBatch ==
  status # "running" =>
    \A c \in Calls :
      /\ phase[c] \in {"wait", "over"} /\ ~gate[c]
      /\ \A k \in Kids : nested[c][k] \in {"none", "over"}

(* What the suspension points imply; the proofs' inductive invariant.  An   *)
(* update gate is open, and a nested call runs, only inside a tool.         *)
InsideTool ==
  \A c \in Calls :
    phase[c] # "exec" => ~gate[c] /\ \A k \in Kids : nested[c][k] \in {"none", "over"}

(* The events of a call fit the point it has reached; only a refusal leaves *)
(* a call that is over without its end event.                               *)
TraceFits(c) ==
  LET t == trace[c] IN
  /\ Paired(t)
  /\ phase[c] = "wait" => t = <<>>
  /\ phase[c] \notin {"wait", "over"} => t # <<>>
  /\ phase[c] \notin {"closing", "over"} /\ t # <<>> => t[Len(t)] # "end"
  /\ phase[c] = "closing" => t[Len(t)] = "end"
  /\ phase[c] = "over" /\ t # <<>> => t[Len(t)] = "end" \/ failure \/ status = "error"
TraceInv == \A c \in Calls : TraceFits(c)

(* Results follow the calls; a sequential batch is at its call results + 1, *)
(* and only a parallel one leaves a call over that was never started.       *)
OrderInv ==
  /\ results <= N
  /\ \A c \in 1..results : phase[c] = "over"
  /\ Parallel /\ results > 0 => AllOver
  /\ ~Parallel => \A c \in Calls :
                   /\ c > results + 1 => phase[c] = "wait"
                   /\ phase[c] = "over" => trace[c] # <<>>

(* Only a call that prepares, or whose end event is out, has the            *)
(* preparation permit.                                                      *)
PermitHolders == \A c \in holds : phase[c] \in {"opening", "before", "closing"}

BatchInv == InsideTool /\ TraceInv /\ OrderInv /\ NothingOutlivesBatch

(* How a batch that returned came to its answer. *)
ReturnInv ==
  /\ status = "ok" => ~failure /\ (results = N \/ (stop /\ ~Parallel))
  /\ terminate => status = "ok" /\ results > 0 /\ \A c \in 1..results : vote[c]

(* ADR 0016: transcript results retain source order.  A result is delivered *)
(* only for a call that is over, and in a parallel batch only when all are. *)
ResultsRetainOrder ==
  /\ \A c \in 1..results : phase[c] = "over"
  /\ Parallel /\ results > 0 => AllOver
  /\ status = "ok" => results = N \/ (stop /\ ~Parallel)

(* The all-true terminate hint: without a stop a batch ends the run only    *)
(* when every call of the reply voted for it.                               *)
TerminateUnanimous ==
  terminate /\ ~stop => results = N /\ \A c \in Calls : vote[c]

(* ADR 0016: "Hooks and event sinks remain serialized": no two invocations  *)
(* of one hook overlap.                                                     *)
InHook(p) ==
  {<<c, 0>> : c \in In(p)} \cup
    {ck \in Calls \X Kids : nested[ck[1]][ck[2]] = p}
HooksSerialized ==
  Cardinality(InHook("before")) <= 1 /\ Cardinality(InHook("after")) <= 1

(* Every batch returns: no call waits for a permit that never comes back.   *)
BatchReturns == <>(status # "running")

(* The calls whose start event is out, and the calls that are over but for  *)
(* the commitment of their end event.                                       *)
StartedCalls == {c \in Calls : trace[c] # <<>>}
SettledCalls == {c \in Calls : phase[c] \in {"closing", "over"}}

(* The executor implements the contract the turn machine relies on.         *)
Contract == INSTANCE ToolBatchContract WITH
  started <- StartedCalls,
  settled <- SettledCalls,
  failed  <- failure
ImplementsContract == Contract!Spec
=============================================================================
