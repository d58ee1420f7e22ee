------------------------------ MODULE AgentLoop ------------------------------
(***************************************************************************)
(* The Agent's run: the turn machine of src/agent/AgentRun.cpp driven over  *)
(* the live state of src/agent/Agent.cpp.                                   *)
(*                                                                          *)
(* The Agent is confined to one executor.  A host call (steer, abort,       *)
(* replace_messages, ...) can only land while the run is suspended in a     *)
(* co_await or inside an observer, that is, while an event is delivered.    *)
(* So a step of the run is the code between two such points, and host calls *)
(* interleave freely between steps.  process_event reduces the state, calls *)
(* the observers, and asks the host's commitment last: a commitment failure *)
(* of the event a step emitted is the alternative next step (CommitFails).  *)
(*                                                                          *)
(* pc names the point the run is suspended at:                              *)
(*   "idle"     no run                "begin"   AgentStart emitted          *)
(*   "turn"     TurnStart emitted     "append"  appending pending messages  *)
(*              and, when there are none left, awaiting the request hooks   *)
(*   "stream"   provider stream open  "tools"   tool calls of the reply     *)
(*   "hard"     error/aborted reply, awaiting finishTurn                    *)
(*   "finish"   awaiting finishTurn   "turnEnd" TurnEnd emitted             *)
(*   "hardEnd"  TurnEnd emitted for an error/aborted reply                  *)
(*   "prepare"  awaiting prepareNextTurn                                    *)
(*   "next"     at the loop condition of the next turn                      *)
(*   "end"      AgentEnd emitted      "settle"  run_turns returned early    *)
(***************************************************************************)
EXTENDS Naturals, Sequences

CONSTANTS
  Capped,        \* does the host configure max_turns (ADR 0015: no default)
  MaxTurns,      \* its value when it does
  MaxCalls,      \* bound: tool calls in one reply
  InputBound,    \* bound: messages the host hands over (prompts and queued)
  TurnBound,     \* bound: the provider and the hooks ask for no further turn
                 \* once this turn is reached
  HostUses,      \* bound: which of the rarer host calls this instance makes
  MessageBound   \* bound: transcript length beyond which the host only resets

ASSUME ConstantsAssumption ==
  /\ Capped \in BOOLEAN
  /\ MaxTurns \in Nat
  /\ MaxCalls \in Nat
  /\ InputBound \in Nat
  /\ TurnBound \in Nat
  /\ MessageBound \in Nat
  /\ HostUses \subseteq {"modes", "clear", "replace", "idle"}

VARIABLES
  messages,      \* AgentState::messages, the transcript
  steering, followUp,          \* the two input queues
  steeringMode, followUpMode,  \* their InputQueueMode
  streaming,     \* AgentState::streaming_message is set
  pendingIds,    \* AgentState::pending_tool_call_ids
  offset,        \* invocation_message_offset
  stop,          \* the run's stop source was asked to stop
  pc, turn,
  pending,       \* pending_messages: taken from the host, not yet appended
  drained,       \* InitialInput::steering_already_drained
  cancelTried,   \* cancellation_completion_attempted
  startEmitted,  \* StreamEventState::assistant_start_emitted
  reply,         \* stop reason and number of tool calls of the last reply
  exec,          \* how its tool calls run
  started, settled, results,   \* calls started, calls done, result messages
  batchFailed,   \* parallel batch: emit_error or fatal_error is set
  terminate,     \* terminate_batch
  action,        \* finishTurn's decision
  commitFailed,  \* CommitmentState::failure is set
  result,        \* what run_turns is about to return
  nextInput,     \* the next message the host hands over
  polled,        \* history: steering polls that delivered since the last reply
  prepared,      \* history: prepareNextTurn ran in the current turn
  cleared,       \* history: messages the host removed itself
  dropped        \* history: messages that were still pending when a run ended

host  == <<steering, followUp, steeringMode, followUpMode, nextInput, cleared>>
live  == <<messages, streaming, pendingIds, offset>>
batch == <<exec, started, settled, results, batchFailed, terminate>>
flags == <<drained, cancelTried, startEmitted>>
run   == <<pc, turn, pending, flags, reply, batch, action, commitFailed,
           result, polled, prepared>>
vars  == <<host, live, run, stop, dropped>>
-----------------------------------------------------------------------------
(* A message keeps its role, the input it carries (0: none) and a number:   *)
(* the tool calls of an assistant message, the index of a tool result.      *)
Roles == {"system", "prompt", "steering", "followUp", "prepared",
          "assistant", "toolResult", "bash"}
Message == [role : Roles, id : Nat, n : Nat]

Msg(role, id, n) == [role |-> role, id |-> id, n |-> n]
SystemMessage == Msg("system", 0, 0)

Modes   == {"All", "OneAtATime"}
(* "stop" stands for Stop and ToolUse, "aborted" for Error and Aborted: the *)
(* run treats the two of each pair alike.                                   *)
Reasons == {"stop", "length", "aborted"}
HardReasons == {"aborted"}
Points  == {"idle", "begin", "turn", "append", "stream", "tools", "hard",
            "hardEnd", "finish", "turnEnd", "prepare", "next", "end", "settle"}
Executions == {"none", "sequential", "parallel", "length"}
Actions == {"none", "Continue", "End"}
Outcomes == {"none", "ok", "hook", "stream", "batch", "maxTurns", "commit"}

Ids(s) == {s[k].id : k \in DOMAIN s} \ {0}
EndsWithAssistant(s) == s # <<>> /\ s[Len(s)].role = "assistant"
Calls == 1..reply.n

(* queued_selection_count and drain: the whole queue, or its front. *)
DrainedNewest(q, mode) == IF q = <<>> \/ mode = "All" THEN q ELSE <<q[Len(q)]>>
Drained(q, mode) == IF q = <<>> \/ mode = "All" THEN q ELSE <<Head(q)>>
RemainsNothing(q, mode) == <<>>
Remains(q, mode) == IF q = <<>> \/ mode = "All" THEN <<>> ELSE Tail(q)

Delivers(q) == IF q = <<>> THEN 0 ELSE 1

(* The first message of an invocation's window of the transcript. *)
InvocationStartEarly(s) == Len(s) - 1
InvocationStartLate(s) == Len(s) + 1
InvocationStart(s) == Len(s)

(* A truncated reply's calls are answered by the run itself; otherwise the  *)
(* execution policy and the tools' concurrency decide.                      *)
ExecutionsOf(reason, n) ==
  IF n = 0 \/ reason \in HardReasons THEN {"none"}
  ELSE IF reason = "length" THEN {"length"} ELSE {"sequential", "parallel"}
-----------------------------------------------------------------------------
NoReply == [reason |-> "stop", n |-> 0]

Init ==
  /\ messages \in {<<>>, <<SystemMessage>>}
  /\ steering = <<>> /\ followUp = <<>>
  /\ steeringMode \in Modes /\ followUpMode \in Modes
  /\ streaming = FALSE /\ pendingIds = {} /\ offset = 0
  /\ stop = FALSE
  /\ nextInput = 1 /\ cleared = {} /\ dropped = {}
  /\ pc = "idle" /\ turn = 0 /\ pending = <<>>
  /\ drained = FALSE /\ cancelTried = FALSE /\ startEmitted = FALSE
  /\ reply = NoReply /\ exec = "none"
  /\ started = {} /\ settled = {} /\ results = 0
  /\ batchFailed = FALSE /\ terminate = FALSE /\ action = "none"
  /\ commitFailed = FALSE /\ result = "none"
  /\ polled = 0 /\ prepared = FALSE
-----------------------------------------------------------------------------
(* Starting a run.  run_loop installs the stop source (the host may already *)
(* have used it), clears the transient state and emits AgentStart.          *)
RunLoop(initial, alreadyDrained) ==
  /\ pc = "idle"
  /\ Len(messages) <= MessageBound
  /\ pc' = "begin"
  /\ stop' \in BOOLEAN
  /\ pending' = initial /\ drained' = alreadyDrained
  /\ polled' = IF alreadyDrained THEN 1 ELSE 0
  /\ streaming' = FALSE /\ pendingIds' = {} /\ offset' = InvocationStart(messages)
  /\ UNCHANGED <<messages, steeringMode, followUpMode, cleared, turn,
                 cancelTried, startEmitted, reply, batch, action,
                 commitFailed, result, prepared, dropped>>

Prompt ==
  /\ nextInput <= InputBound
  /\ nextInput' = nextInput + 1
  /\ RunLoop(<<Msg("prompt", nextInput, 0)>>, FALSE)
  /\ UNCHANGED <<steering, followUp>>

(* The Session's continuation: no queue fallback.  An empty or              *)
(* assistant-terminal transcript is an error before any event.              *)
ContinueRun ==
  /\ messages # <<>> /\ ~EndsWithAssistant(messages)
  /\ RunLoop(<<>>, FALSE)
  /\ UNCHANGED <<steering, followUp, nextInput>>

(* The public continuation: an assistant-terminal transcript continues with *)
(* queued input, steering first.                                            *)
ContinueWithQueueFallback ==
  /\ \E k \in DOMAIN messages : messages[k].role # "system"
  /\ ~(Capped /\ MaxTurns = 0)
  /\ UNCHANGED nextInput
  /\ \/ /\ ~EndsWithAssistant(messages)
        /\ RunLoop(<<>>, FALSE)
        /\ UNCHANGED <<steering, followUp>>
     \/ /\ EndsWithAssistant(messages) /\ steering # <<>>
        /\ RunLoop(Drained(steering, steeringMode), TRUE)
        /\ steering' = Remains(steering, steeringMode)
        /\ UNCHANGED followUp
     \/ /\ EndsWithAssistant(messages) /\ steering = <<>> /\ followUp # <<>>
        /\ RunLoop(Drained(followUp, followUpMode), FALSE)
        /\ followUp' = Remains(followUp, followUpMode)
        /\ UNCHANGED steering
-----------------------------------------------------------------------------
(* The turn machine, run_turns. *)

(* emit_agent_end: AgentEnd clears the streaming message; run_turns then    *)
(* returns r.                                                               *)
EmitAgentEndStreaming(r) ==
  /\ pc' = "end" /\ result' = r
  /\ UNCHANGED <<host, live, stop, turn, pending, flags, reply, batch, action,
                 polled, dropped>>
EmitAgentEnd(r) ==
  /\ pc' = "end" /\ result' = r /\ streaming' = FALSE
  /\ UNCHANGED <<host, messages, pendingIds, offset, stop, turn, pending,
                 flags, reply, batch, action, polled, dropped>>

LoopAdmitsOneMore == ~Capped \/ turn <= MaxTurns \/ (stop /\ ~cancelTried)
LoopAdmits == ~Capped \/ turn + 1 <= MaxTurns \/ (stop /\ ~cancelTried)

StartTurn ==
  /\ pc \in {"begin", "next"}
  /\ LoopAdmits
  /\ pc' = "turn" /\ turn' = turn + 1
  /\ action' = "none" /\ prepared' = FALSE
  /\ reply' = NoReply
  /\ started' = {} /\ settled' = {} /\ results' = 0 /\ terminate' = FALSE
  /\ UNCHANGED <<host, live, stop, pending, flags, exec, batchFailed,
                 commitFailed, result, polled, dropped>>

(* The configured cap is used up: AgentEnd, then the validation error. *)
Exhausted ==
  /\ pc \in {"begin", "next"}
  /\ ~LoopAdmits
  /\ EmitAgentEnd("maxTurns")
  /\ UNCHANGED <<commitFailed, prepared>>

(* Turn 1 adds the steering queue to the initial input, stop or no stop. *)
AssemblePending ==
  /\ pc = "turn"
  /\ pc' = "append"
  /\ IF turn = 1 /\ ~drained
       THEN /\ pending' = pending \o Drained(steering, steeringMode)
            /\ steering' = Remains(steering, steeringMode)
            /\ polled' = polled + Delivers(steering)
       ELSE UNCHANGED <<pending, steering, polled>>
  /\ UNCHANGED <<followUp, steeringMode, followUpMode, nextInput, cleared,
                 live, stop, turn, flags, reply, batch, action, commitFailed,
                 result, prepared, dropped>>

(* append_message_with_lifecycle (the tool declarations that may precede it *)
(* belong to the tool loadout): MessageStart changes no state for a         *)
(* non-assistant message, MessageEnd appends it.                            *)
AppendPending ==
  /\ pc = "append" /\ pending # <<>>
  /\ messages' = Append(messages, Head(pending))
  /\ pending' = Tail(pending)
  /\ UNCHANGED <<host, streaming, pendingIds, offset, stop, pc, turn, flags,
                 reply, batch, action, commitFailed, result, polled, prepared, dropped>>

(* prepareRequest, its update, or convertToLlm failed, or transformContext  *)
(* did while no stop was requested.                                         *)
RequestHookFails ==
  /\ pc = "append" /\ pending = <<>>
  /\ EmitAgentEnd("hook")
  /\ UNCHANGED <<commitFailed, prepared>>

BeginRequest ==
  /\ pc = "append" /\ pending = <<>>
  /\ pc' = "stream"
  /\ cancelTried' = (cancelTried \/ stop) /\ startEmitted' = FALSE
  /\ UNCHANGED <<host, live, stop, turn, pending, drained, reply, batch,
                 action, commitFailed, result, polled, prepared,
                 dropped>>

(* MessageStart of the reply; a repeated provider start is suppressed. *)
StreamStart ==
  /\ pc = "stream" /\ ~startEmitted
  /\ startEmitted' = TRUE /\ streaming' = TRUE
  /\ UNCHANGED <<host, messages, pendingIds, offset, stop, pc, turn, pending,
                 drained, cancelTried, reply, batch, action, commitFailed,
                 result, polled, prepared, dropped>>

(* MessageUpdate carrying a completed tool call. *)
StreamToolCall(c) ==
  /\ pc = "stream" /\ c \notin pendingIds
  /\ streaming' = TRUE
  /\ pendingIds' = pendingIds \cup {c}
  /\ UNCHANGED <<host, messages, offset, run, stop, dropped>>

(* The stream ends without a message: a provider failure, or the provider's *)
(* report that the event sink failed because a commitment did.              *)
StreamFails ==
  /\ pc = "stream"
  /\ \/ commitFailed' = commitFailed
     \/ streaming /\ commitFailed' = TRUE
  /\ EmitAgentEnd("stream")
  /\ UNCHANGED prepared

(* Where the run goes after a reply. *)
PointAfterIgnoringHard(reason, n) == IF n > 0 THEN "tools" ELSE "finish"
PointAfter(reason, n) ==
  IF reason \in HardReasons THEN "hard" ELSE IF n > 0 THEN "tools" ELSE "finish"

(* The final message: MessageEnd appends it and makes its calls pending.    *)
(* External: a provider that was handed a stopped token answers "aborted"   *)
(* or "error".                                                              *)
Reply(reason, n) ==
  /\ pc = "stream"
  /\ cancelTried => reason \in HardReasons
  /\ n > 0 => turn < TurnBound
  /\ reply' = [reason |-> reason, n |-> n]
  /\ messages' = Append(messages, Msg("assistant", 0, n))
  /\ streaming' = FALSE
  /\ pendingIds' = 1..n
  /\ polled' = 0
  /\ exec' \in ExecutionsOf(reason, n)
  /\ pc' = PointAfter(reason, n)
  /\ UNCHANGED <<host, offset, stop, turn, pending, flags, started, settled,
                 results, batchFailed, terminate, action, commitFailed,
                 result, prepared, dropped>>

(* finishTurn for an error or aborted reply, its decision discarded; then   *)
(* TurnEnd, then AgentEnd.                                                  *)
HardTurnEnd ==
  /\ pc = "hard"
  /\ pc' = "hardEnd" /\ pendingIds' = {}
  /\ UNCHANGED <<host, messages, streaming, offset, stop, turn, pending,
                 flags, reply, batch, action, commitFailed, result, polled,
                 prepared, dropped>>

HardAgentEnd ==
  /\ pc = "hardEnd"
  /\ EmitAgentEnd("ok")
  /\ UNCHANGED <<commitFailed, prepared>>
-----------------------------------------------------------------------------
(* The reply's tool calls, as the executor's contract (module ToolBatch     *)
(* models the executor itself).  "length" is the run's own loop over the    *)
(* calls of a truncated reply.                                              *)
InOrder == exec \in {"sequential", "length"}

ToolStart(c) ==
  /\ pc = "tools" /\ c \in Calls \ (started \cup settled)
  /\ exec # "length" => ~stop
  /\ InOrder => c = results + 1
  /\ started' = started \cup {c}
  /\ pendingIds' = pendingIds \cup {c}
  /\ UNCHANGED <<host, messages, streaming, offset, stop, pc, turn, pending,
                 flags, reply, exec, settled, results, batchFailed, terminate,
                 action, commitFailed, result, polled, prepared,
                 dropped>>

ToolEnd(c) ==
  /\ pc = "tools" /\ c \in started \ settled
  /\ settled' = settled \cup {c}
  /\ pendingIds' = pendingIds \ {c}
  /\ UNCHANGED <<host, messages, streaming, offset, stop, pc, turn, pending,
                 flags, reply, exec, started, results, batchFailed, terminate,
                 action, commitFailed, result, polled, prepared,
                 dropped>>

(* A parallel call that finds the stop before its start: an aborted result  *)
(* without events.                                                          *)
ToolAborted(c) ==
  /\ pc = "tools" /\ exec = "parallel" /\ stop
  /\ c \in Calls \ (started \cup settled)
  /\ settled' = settled \cup {c}
  /\ UNCHANGED <<host, live, stop, pc, turn, pending, flags, reply, exec,
                 started, results, batchFailed, terminate, action,
                 commitFailed, result, polled, prepared, dropped>>

(* A result message: after each call in order, or once the whole parallel   *)
(* batch has settled without a failure.                                     *)
ToolResult ==
  /\ pc = "tools" /\ results < reply.n
  /\ IF InOrder THEN results + 1 \in settled
                ELSE settled = Calls /\ ~batchFailed
  /\ messages' = Append(messages, Msg("toolResult", 0, results + 1))
  /\ results' = results + 1
  /\ UNCHANGED <<host, streaming, pendingIds, offset, stop, pc, turn, pending,
                 flags, reply, exec, started, settled, batchFailed, terminate,
                 action, commitFailed, result, polled, prepared,
                 dropped>>

(* The batch is complete, or cut short by a stop between two calls of a     *)
(* sequential batch.                                                        *)
BatchDoneOnStop == results = reply.n \/ (stop /\ started = 1..results)
BatchDoneComplete == results = reply.n
BatchDone ==
  results = reply.n \/ (exec = "sequential" /\ stop /\ started = 1..results)

(* terminate_batch needs at least one result. *)
BatchReturns ==
  /\ pc = "tools" /\ ~batchFailed /\ BatchDone
  /\ pc' = "finish"
  /\ terminate' \in IF exec # "length" /\ results > 0 THEN BOOLEAN ELSE {FALSE}
  /\ UNCHANGED <<host, live, stop, turn, pending, flags, reply, exec, started,
                 settled, results, batchFailed, action, commitFailed, result,
                 polled, prepared, dropped>>

(* A failed batch is an error after AgentEnd. *)
BatchFails ==
  /\ pc = "tools" /\ batchFailed /\ settled = Calls
  /\ EmitAgentEnd("batch")
  /\ UNCHANGED <<commitFailed, prepared>>
-----------------------------------------------------------------------------
(* After the turn's messages: finishTurn, TurnEnd, the continuation. *)
FinishTurn(a) ==
  /\ pc = "finish"
  /\ a = "Continue" => turn < TurnBound
  /\ action' = a
  /\ pc' = "turnEnd" /\ pendingIds' = {}
  /\ UNCHANGED <<host, messages, streaming, offset, stop, turn, pending,
                 flags, reply, batch, commitFailed, result, polled, prepared, dropped>>

FinishTurnFails ==
  /\ pc \in {"finish", "hard"}
  /\ EmitAgentEnd("hook")
  /\ UNCHANGED <<commitFailed, prepared>>

MoreToolCalls == reply.n > 0 /\ (~terminate \/ stop)

(* What the polls after TurnEnd deliver: steering, else follow-up when the  *)
(* run would otherwise end; nothing once a stop is requested.               *)
SteeringPollStopped == Drained(steering, steeringMode)
SteeringPoll == IF stop THEN <<>> ELSE Drained(steering, steeringMode)
FollowUpPoll ==
  IF stop \/ MoreToolCalls \/ SteeringPoll # <<>> THEN <<>>
  ELSE Drained(followUp, followUpMode)

EndAfterTurn ==
  /\ pc = "turnEnd"
  /\ \/ action = "End"
     \/ /\ action = "none" /\ ~MoreToolCalls
        /\ SteeringPoll = <<>> /\ FollowUpPoll = <<>>
  /\ EmitAgentEnd("ok")
  /\ UNCHANGED <<commitFailed, prepared>>

ContinueAfterTurn ==
  /\ pc = "turnEnd" /\ action # "End"
  /\ \/ action = "Continue" \/ MoreToolCalls
     \/ SteeringPoll # <<>> \/ FollowUpPoll # <<>>
  /\ pc' = IF stop THEN "next" ELSE "prepare"
  /\ pending' = SteeringPoll \o FollowUpPoll
  /\ steering' = IF stop THEN steering ELSE Remains(steering, steeringMode)
  /\ followUp' = IF FollowUpPoll = <<>> THEN followUp
                 ELSE Remains(followUp, followUpMode)
  /\ polled' = polled + Delivers(SteeringPoll)
  /\ UNCHANGED <<steeringMode, followUpMode, nextInput, cleared, live, stop,
                 turn, flags, reply, batch, action, commitFailed, result,
                 prepared, dropped>>

(* The steering poll after prepareNextTurn, only when the earlier poll      *)
(* delivered nothing.                                                       *)
SecondPollAlways == IF stop THEN <<>> ELSE Drained(steering, steeringMode)
SecondPoll ==
  IF stop \/ pending # <<>> THEN <<>> ELSE Drained(steering, steeringMode)

(* prepareNextTurn settled, possibly with messages of its own, which go first. *)
PrepareNextTurn(own) ==
  /\ pc = "prepare"
  /\ pending' = own \o pending \o SecondPoll
  /\ steering' = IF SecondPoll = <<>> THEN steering
                 ELSE Remains(steering, steeringMode)
  /\ polled' = polled + Delivers(SecondPoll)
  /\ pc' = "next" /\ prepared' = TRUE
  /\ UNCHANGED <<followUp, steeringMode, followUpMode, nextInput, cleared,
                 live, stop, turn, flags, reply, batch, action, commitFailed,
                 result, dropped>>

PrepareNextTurnFailsQuietly ==
  /\ pc = "prepare"
  /\ EmitAgentEnd("ok")
  /\ prepared' = TRUE
  /\ UNCHANGED commitFailed
PrepareNextTurnFails ==
  /\ pc = "prepare"
  /\ EmitAgentEnd("hook")
  /\ prepared' = TRUE
  /\ UNCHANGED commitFailed
-----------------------------------------------------------------------------
(* The host's commitment refuses the event the run emitted last. *)

(* Emitted by run_turns itself: it returns at once, without AgentEnd. *)
CommitFails ==
  /\ \/ pc \in {"begin", "turn", "append", "hard", "hardEnd", "turnEnd", "end"}
     \/ pc = "stream" /\ ~startEmitted   \* the synthesized MessageStart
     \/ pc = "finish" /\ reply.n = 0
     \/ pc = "tools" /\ started = {} /\ settled = {}
     \/ pc = "tools" /\ exec = "length"
  /\ commitFailed' = TRUE /\ pc' = "settle"
  /\ streaming' = (streaming \/ pc = "stream")
  /\ UNCHANGED <<host, messages, pendingIds, offset, stop, turn, pending,
                 flags, reply, batch, action, result, polled, prepared, dropped>>

(* Emitted by the executor in call order: the batch fails, after AgentEnd. *)
BatchCommitFails ==
  /\ pc = "tools"
  /\ \/ exec = "sequential" /\ started # {}
     \/ exec = "parallel" /\ results > 0
  /\ commitFailed' = TRUE
  /\ EmitAgentEnd("batch")
  /\ UNCHANGED prepared

(* Start or end of a parallel call: that call is over, the others go on. *)
ParallelCommitFails(c) ==
  /\ pc = "tools" /\ exec = "parallel" /\ results = 0 /\ c \in started
  /\ commitFailed' = TRUE /\ batchFailed' = TRUE
  /\ settled' = settled \cup {c}
  /\ UNCHANGED <<host, live, stop, pc, turn, pending, flags, reply, exec,
                 started, results, terminate, action, result, polled,
                 prepared, dropped>>

(* A tool's progress update, or an event of a call the tool makes itself:   *)
(* the failure is recorded and the run continues; a parallel batch fails    *)
(* for the latter once its calls have settled.                              *)
UpdateCommitFails ==
  /\ pc = "tools" /\ exec # "length" /\ started \ settled # {}
  /\ commitFailed' = TRUE
  /\ batchFailed' \in {batchFailed, batchFailed \/ exec = "parallel"}
  /\ UNCHANGED <<host, live, stop, pc, turn, pending, flags, reply, exec,
                 started, settled, results, terminate, action, result, polled,
                 prepared, dropped>>

(* What the run returns: a commitment failure outranks run_turns' result. *)
Outcome == IF commitFailed THEN "commit" ELSE result

(* finish_run, and the end of run_turns' local state. *)
FinishRun ==
  /\ pc \in {"end", "settle"}
  /\ streaming' = FALSE /\ pendingIds' = {} /\ stop' = FALSE
  /\ dropped' = dropped \cup Ids(pending)
  /\ pc' = "idle" /\ turn' = 0 /\ pending' = <<>>
  /\ drained' = FALSE /\ cancelTried' = FALSE /\ startEmitted' = FALSE
  /\ reply' = NoReply /\ exec' = "none"
  /\ started' = {} /\ settled' = {} /\ results' = 0
  /\ batchFailed' = FALSE /\ terminate' = FALSE /\ action' = "none"
  /\ commitFailed' = FALSE /\ result' = "none"
  /\ polled' = 0 /\ prepared' = FALSE
  /\ UNCHANGED <<host, messages, offset>>
-----------------------------------------------------------------------------
(* Host calls. *)
Steer ==
  /\ nextInput <= InputBound
  /\ steering' = Append(steering, Msg("steering", nextInput, 0))
  /\ nextInput' = nextInput + 1
  /\ UNCHANGED <<followUp, steeringMode, followUpMode, cleared, live, run,
                 stop, dropped>>

FollowUp ==
  /\ nextInput <= InputBound
  /\ followUp' = Append(followUp, Msg("followUp", nextInput, 0))
  /\ nextInput' = nextInput + 1
  /\ UNCHANGED <<steering, steeringMode, followUpMode, cleared, live, run,
                 stop, dropped>>

SetSteeringMode(m) ==
  /\ m # steeringMode
  /\ steeringMode' = m
  /\ UNCHANGED <<steering, followUp, followUpMode, nextInput, cleared, live,
                 run, stop, dropped>>

SetFollowUpMode(m) ==
  /\ m # followUpMode
  /\ followUpMode' = m
  /\ UNCHANGED <<steering, followUp, steeringMode, nextInput, cleared, live,
                 run, stop, dropped>>

ClearSteering ==
  /\ steering # <<>>
  /\ steering' = <<>>
  /\ cleared' = cleared \cup Ids(steering)
  /\ UNCHANGED <<followUp, steeringMode, followUpMode, nextInput, live, run,
                 stop, dropped>>

ClearFollowUp ==
  /\ followUp # <<>>
  /\ followUp' = <<>>
  /\ cleared' = cleared \cup Ids(followUp)
  /\ UNCHANGED <<steering, steeringMode, followUpMode, nextInput, live, run,
                 stop, dropped>>

Abort ==
  /\ pc # "idle" /\ ~stop
  /\ stop' = TRUE
  /\ UNCHANGED <<host, live, run, dropped>>

(* Idle only: one leading system message survives, the queues are cleared. *)
Reset ==
  /\ pc = "idle"
  /\ messages' = IF \E k \in DOMAIN messages : messages[k].role = "system"
                 THEN <<SystemMessage>> ELSE <<>>
  /\ steering' = <<>> /\ followUp' = <<>>
  /\ streaming' = FALSE /\ pendingIds' = {}
  /\ cleared' = cleared \cup Ids(messages) \cup Ids(steering) \cup Ids(followUp)
  /\ UNCHANGED <<steeringMode, followUpMode, nextInput, offset, run, stop, dropped>>

(* At any time, a running turn included (compaction, session rebuild). *)
ReplaceMessages(new) ==
  /\ messages' = new
  /\ streaming' = FALSE /\ pendingIds' = {}
  /\ offset' = InvocationStart(new)
  /\ cleared' = cleared \cup (Ids(messages) \ Ids(new))
  /\ UNCHANGED <<steering, followUp, steeringMode, followUpMode, nextInput,
                 run, stop, dropped>>

(* Idle only. *)
AppendBashExecution ==
  /\ pc = "idle" /\ Len(messages) <= MessageBound
  /\ messages' = Append(messages, Msg("bash", 0, 0))
  /\ UNCHANGED <<host, streaming, pendingIds, offset, run, stop,
                 dropped>>

(* Idle only. *)
PopTrailingAssistant ==
  /\ pc = "idle" /\ EndsWithAssistant(messages)
  /\ messages' = SubSeq(messages, 1, Len(messages) - 1)
  /\ UNCHANGED <<host, streaming, pendingIds, offset, run, stop,
                 dropped>>
-----------------------------------------------------------------------------
StreamEnds ==
  \/ StreamFails
  \/ \E reason \in Reasons, n \in 0..MaxCalls : Reply(reason, n)

RunStep ==
  \/ StartTurn \/ Exhausted \/ AssemblePending \/ AppendPending
  \/ RequestHookFails \/ BeginRequest
  \/ StreamStart \/ \E c \in 1..MaxCalls : StreamToolCall(c)
  \/ StreamEnds
  \/ HardTurnEnd \/ HardAgentEnd
  \/ \E c \in Calls : ToolStart(c) \/ ToolEnd(c) \/ ToolAborted(c)
  \/ ToolResult \/ BatchReturns \/ BatchFails
  \/ \E a \in Actions : FinishTurn(a)
  \/ FinishTurnFails \/ EndAfterTurn \/ ContinueAfterTurn
  \/ \E own \in {<<>>, <<Msg("prepared", 0, 0)>>} : PrepareNextTurn(own)
  \/ PrepareNextTurnFails
  \/ FinishRun

CommitFailure ==
  \/ CommitFails \/ BatchCommitFails \/ UpdateCommitFails
  \/ \E c \in Calls : ParallelCommitFails(c)

HostCall ==
  \/ Prompt \/ ContinueRun \/ ContinueWithQueueFallback
  \/ Steer \/ FollowUp \/ Abort
  \/ /\ "modes" \in HostUses
     /\ \E m \in Modes : SetSteeringMode(m) \/ SetFollowUpMode(m)
  \/ "clear" \in HostUses /\ (ClearSteering \/ ClearFollowUp)
  \/ /\ "replace" \in HostUses
     /\ \E new \in {<<SystemMessage>>, messages} : ReplaceMessages(new)
  \/ /\ "idle" \in HostUses
     /\ Reset \/ AppendBashExecution \/ PopTrailingAssistant

Next == RunStep \/ CommitFailure \/ HostCall

Spec == Init /\ [][Next]_vars

(* The run is a coroutine: it is resumed whenever what it awaits settles    *)
(* (ADR 0040), so a suspended run always takes a further step; and a        *)
(* provider stream reaches its terminal (external).                         *)
FairSpec == Spec /\ WF_vars(RunStep) /\ WF_vars(StreamEnds)
-----------------------------------------------------------------------------
FlagsOK ==
  /\ streaming \in BOOLEAN /\ stop \in BOOLEAN /\ drained \in BOOLEAN
  /\ cancelTried \in BOOLEAN /\ startEmitted \in BOOLEAN
  /\ batchFailed \in BOOLEAN /\ terminate \in BOOLEAN
  /\ commitFailed \in BOOLEAN /\ prepared \in BOOLEAN

DataOK ==
  /\ messages \in Seq(Message) /\ pending \in Seq(Message)
  /\ steering \in Seq(Message) /\ followUp \in Seq(Message)
  /\ steeringMode \in Modes /\ followUpMode \in Modes
  /\ pendingIds \in SUBSET Nat /\ offset \in Nat
  /\ pc \in Points /\ turn \in Nat
  /\ reply \in [reason : Reasons, n : Nat]
  /\ exec \in Executions /\ started \in SUBSET Nat /\ settled \in SUBSET Nat
  /\ results \in Nat /\ action \in Actions /\ result \in Outcomes
  /\ nextInput \in Nat /\ polled \in Nat
  /\ cleared \in SUBSET Nat /\ dropped \in SUBSET Nat

(* The types of the Agent's live state and of the run's working state. *)
TypeOK == FlagsOK /\ DataOK

(* Every message the Agent holds, in the order it would reach the model. *)
Held == messages \o pending \o steering \o followUp

(* Every message handed to the Agent is held, or was removed by the host,   *)
(* or was dropped by a failed run, and never two of these.  Draining moves  *)
(* messages between vectors at five sites (the continuation's fallback,     *)
(* turn 1, two polls after TurnEnd, the poll after prepareNextTurn) and     *)
(* run_turns has a dozen early returns between drain and append.            *)
InputConserved ==
  /\ Ids(Held) \cup cleared \cup dropped = 1..(nextInput - 1)
  /\ Ids(Held) \cap (cleared \cup dropped) = {}

(* Messages of one queue reach the transcript in the order they were        *)
(* queued, none twice, whatever the interleaving of drains, prepared        *)
(* messages and mode changes.                                               *)
QueueOrder ==
  \A j, k \in DOMAIN Held :
    j < k /\ Held[j].role = Held[k].role /\ Held[j].id # 0 /\ Held[k].id # 0
      => Held[j].id < Held[k].id

(* A run that reports success has appended everything it drained: draining  *)
(* and then ending without an error would lose the host's input silently.   *)
DroppedOnlyOnFailure ==
  [][dropped' # dropped => Outcome # "ok"]_vars

(* The comment before the second steering poll: at most one steering poll   *)
(* delivers between two replies, so one-at-a-time mode never hands the      *)
(* model two steering messages before it answers.                           *)
OneSteeringPollPerReply == polled <= 1

(* ADR 0014: after an error or aborted reply the run completes the turn and *)
(* ends; it takes nothing more from a queue and starts no further turn.     *)
HardReplyEndsRun ==
  [][pc' # "idle" /\ reply.reason \in HardReasons
       => turn' = turn /\ pending' = <<>>]_vars

(* Once a stop is requested the run takes no more input, turn 1's assembly  *)
(* excepted: an aborted run leaves the queues to the host.                  *)
NoPollAfterStop ==
  [][stop /\ pc \notin {"idle", "turn"} => Ids(pending') \subseteq Ids(pending)]_vars

(* After a stop the run sends the provider at most one further request, the *)
(* one that yields the aborted reply.                                       *)
OneRequestAfterStop ==
  [][cancelTried /\ pc = "append" => pc' # "stream"]_vars

(* A configured cap is exceeded by the cancellation turn alone. *)
CapRespected ==
  Capped /\ pc # "idle" =>
    turn <= MaxTurns \/ (turn = MaxTurns + 1 /\ stop)

(* The calls of the replies in the window have their results, but for those *)
(* of open.                                                                 *)
AnsweredBut(s, start, open) ==
  \A k \in (start + 1)..Len(s) :
    s[k].role = "assistant" =>
      \A c \in (1..s[k].n) \ open :
        \E j \in (k + 1)..Len(s) : s[j].role = "toolResult" /\ s[j].n = c

(* Every request carries, behind every tool call of this run's replies, its *)
(* result message.  A sequential batch cut short by a stop leaves calls     *)
(* without one, and the only request that goes out with them is the one     *)
(* sent when the stop is known, which yields the aborted reply.             *)
CallsAnswered ==
  pc = "stream" =>
    AnsweredBut(messages, offset, {}) \/ (cancelTried /\ exec = "sequential")

(* replace_messages: the invocation window "can never address a position    *)
(* outside the replaced vector", also when messages are replaced mid-turn.  *)
WindowInside == pc # "idle" => offset <= Len(messages)

(* Streaming message and pending tool-call ids never outlive the turn they  *)
(* belong to, on any exit path.                                             *)
TransientStateScoped ==
  /\ streaming => pc \in {"stream", "settle"}
  /\ pendingIds # {} =>
       pc \in {"stream", "tools", "hard", "finish", "end", "settle"}

(* The inductive strengthening behind the safety theorems: where in a turn  *)
(* the run is determines its turn number, whether it can hold pending       *)
(* messages, and whether the cancellation request or a hard reply has       *)
(* already been seen.                                                       *)
RunInv ==
  /\ pc \in {"idle", "begin"} => turn = 0
  /\ pc \notin {"idle", "begin", "end", "settle"} => turn >= 1
  /\ pc \in {"stream", "tools", "hard", "hardEnd", "finish", "turnEnd"} =>
       pending = <<>>
  /\ pc \in {"tools", "hard", "hardEnd", "finish", "turnEnd"} => polled = 0
  /\ pc = "begin" /\ ~drained => polled = 0
  /\ pc = "turn" /\ turn = 1 /\ ~drained => polled = 0
  /\ pc = "prepare" /\ pending = <<>> => polled = 0
  /\ reply.reason \in HardReasons =>
       pc \in {"hard", "hardEnd", "end", "settle"} /\ pending = <<>>
  /\ cancelTried => pc \in {"stream", "hard", "hardEnd", "end", "settle"}
  /\ Capped /\ turn > MaxTurns =>
       pc \in {"turn", "append", "stream", "hard", "hardEnd", "end", "settle"}
  /\ Capped /\ turn > MaxTurns /\ pc \in {"stream", "hard", "hardEnd"} => cancelTried

(* What the proofs of the next three need: where a message came from, and   *)
(* what may follow what.  Ids are handed out in order, so a later message   *)
(* of one kind has the higher id, and no two messages share one.            *)
Els(s) == {s[k] : k \in DOMAIN s}
Follows(x, y) ==
  x.id # 0 /\ y.id # 0 => x.id # y.id /\ (x.role = y.role => x.id < y.id)
Chained(s) == \A j, k \in DOMAIN s : j < k => Follows(s[j], s[k])
Precedes(s, t) == \A x \in Els(s), y \in Els(t) : Follows(x, y)

Orderly(m, p, s, f) ==
  /\ Chained(m) /\ Chained(p) /\ Chained(s) /\ Chained(f)
  /\ Precedes(m, p) /\ Precedes(m, s) /\ Precedes(m, f)
  /\ Precedes(p, s) /\ Precedes(p, f) /\ Precedes(s, f)
Sources(m, p, s, f) ==
  /\ \A x \in Els(m) : x.role = "assistant" => x.id = 0
  /\ \A x \in Els(p) : x.role # "assistant"
  /\ \A x \in Els(s) : x.role = "steering"
  /\ \A x \in Els(f) : x.role = "followUp"
AllIds(m, p, s, f) == Ids(m) \cup Ids(p) \cup Ids(s) \cup Ids(f)
Accounted(m, p, s, f, gone, n) ==
  /\ AllIds(m, p, s, f) \cup gone = 1..(n - 1)
  /\ AllIds(m, p, s, f) \cap gone = {}
InputInv ==
  /\ pc = "idle" => pending = <<>>
  /\ nextInput >= 1
  /\ Sources(messages, pending, steering, followUp)
  /\ Orderly(messages, pending, steering, followUp)
  /\ Accounted(messages, pending, steering, followUp, cleared \cup dropped, nextInput)

(* Which calls may lack a result, and where: those of the batch that runs,  *)
(* and those a stop cut off, whose run sends one more request at most.      *)
CallsInv ==
  /\ cancelTried => stop
  /\ pc \in {"turn", "append", "stream"} => results = 0
  /\ pc \in {"begin", "turn", "append", "finish", "turnEnd", "prepare", "next"}
       => AnsweredBut(messages, offset, {}) \/ (stop /\ exec = "sequential")
  /\ pc = "stream" =>
       AnsweredBut(messages, offset, {}) \/ (cancelTried /\ exec = "sequential")
  /\ pc = "tools" => AnsweredBut(messages, offset, (results + 1)..reply.n)

(* ADR 0014: "The run's final turn invokes prepare-next-turn zero times."   *)
FinalTurnNotPrepared ==
  pc = "end" /\ result \in {"ok", "maxTurns"} => ~prepared

(* Every run settles: whatever the hooks, the provider and the commitment   *)
(* answer, the Agent becomes idle again.                                    *)
RunSettles == pc # "idle" ~> pc = "idle"
=============================================================================
