-------------------------- MODULE ToolBatchContract --------------------------
(***************************************************************************)
(* What a tool-call batch promises the turn machine (ToolCallExecutor::     *)
(* execute as run_turns uses it), with nothing said about hooks, permits    *)
(* and updates.  AgentLoop's tool phase takes these steps; ToolBatch        *)
(* implements them.                                                         *)
(***************************************************************************)
EXTENDS Naturals

CONSTANT N       \* tool calls of the reply, a natural number

VARIABLES
  mode,      \* "sequential" or "parallel"
  stop,      \* the run was asked to stop
  started,   \* calls whose ToolExecutionStart was delivered
  settled,   \* calls that are over for the batch
  results,   \* result messages delivered, in call order
  failed,    \* an event of the batch was refused
  status     \* "running", "ok" or "error"

vars == <<mode, stop, started, settled, results, failed, status>>
Calls == 1..N

Init ==
  /\ mode \in {"sequential", "parallel"} /\ stop = FALSE
  /\ started = {} /\ settled = {} /\ results = 0
  /\ failed = FALSE /\ status = "running"

(* Only before the stop is seen; in order when sequential. *)
Start(c) ==
  /\ status = "running" /\ c \in Calls \ (started \cup settled) /\ ~stop
  /\ mode = "sequential" => c = results + 1
  /\ started' = started \cup {c}
  /\ UNCHANGED <<mode, stop, settled, results, failed, status>>

End(c) ==
  /\ status = "running" /\ c \in started \ settled
  /\ settled' = settled \cup {c}
  /\ UNCHANGED <<mode, stop, started, results, failed, status>>

(* A parallel call that never started because of the stop. *)
Aborted(c) ==
  /\ status = "running" /\ mode = "parallel" /\ stop
  /\ c \in Calls \ (started \cup settled)
  /\ settled' = settled \cup {c}
  /\ UNCHANGED <<mode, stop, started, results, failed, status>>

(* After its call in a sequential batch, after the whole parallel one. *)
Result ==
  /\ status = "running" /\ results < N
  /\ IF mode = "sequential" THEN results + 1 \in settled
                            ELSE settled = Calls /\ ~failed
  /\ results' = results + 1
  /\ UNCHANGED <<mode, stop, started, settled, failed, status>>

Return ==
  /\ status = "running" /\ ~failed
  /\ results = N \/ (mode = "sequential" /\ stop /\ started = 1..results)
  /\ status' = "ok"
  /\ UNCHANGED <<mode, stop, started, settled, results, failed>>

(* The start or end of parallel call c, or an event of a call that tool c   *)
(* makes itself, is refused: the batch goes on and fails once all settled.  *)
RefusedInParallel(c) ==
  /\ status = "running" /\ mode = "parallel" /\ results = 0 /\ c \in started
  /\ failed' = TRUE
  /\ settled' \in {settled, settled \cup {c}}
  /\ UNCHANGED <<mode, stop, started, results, status>>

FailAfterAll ==
  /\ status = "running" /\ failed /\ settled = Calls
  /\ status' = "error"
  /\ UNCHANGED <<mode, stop, started, settled, results, failed>>

(* Refused in call order: the batch fails at once. *)
FailAtOnce ==
  /\ status = "running"
  /\ \/ mode = "sequential" /\ started # {}
     \/ mode = "parallel" /\ settled = Calls /\ ~failed
  /\ status' = "error"
  /\ results' \in {results, results + 1} /\ results' <= N
  /\ settled' \in {settled, settled \cup started}
  /\ UNCHANGED <<mode, stop, started, failed>>

Abort == ~stop /\ stop' = TRUE
         /\ UNCHANGED <<mode, started, settled, results, failed, status>>

Next ==
  \/ \E c \in Calls : Start(c) \/ End(c) \/ Aborted(c) \/ RefusedInParallel(c)
  \/ Result \/ Return \/ FailAfterAll \/ FailAtOnce \/ Abort

Spec == Init /\ [][Next]_vars
=============================================================================
