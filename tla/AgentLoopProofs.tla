--------------------------- MODULE AgentLoopProofs ---------------------------
(***************************************************************************)
(* Theorems about AgentLoop, for every cap, every bound and every mix of   *)
(* host calls.                                                             *)
(***************************************************************************)
EXTENDS AgentLoop, SequenceTheorems, TLAPS

(* A message built by Msg is a message. *)
LEMMA MsgType ==
  ASSUME NEW role \in Roles, NEW id \in Nat, NEW n \in Nat
  PROVE  Msg(role, id, n) \in Message
BY DEF Msg, Message

(* drain splits a queue of messages into two queues of messages. *)
LEMMA DrainType ==
  ASSUME NEW q \in Seq(Message), NEW mode
  PROVE  /\ Drained(q, mode) \in Seq(Message)
         /\ Remains(q, mode) \in Seq(Message)
<1>1. CASE q = <<>> \/ mode = "All"
  BY <1>1 DEF Drained, Remains
<1>2. CASE ~(q = <<>> \/ mode = "All")
  <2>1. Head(q) \in Message /\ Tail(q) \in Seq(Message)
    BY <1>2, HeadTailProperties
  <2>. QED BY <1>2, <2>1 DEF Drained, Remains
<1>. QED BY <1>1, <1>2

(* The polls return messages. *)
LEMMA PollType ==
  ASSUME TypeOK
  PROVE  /\ SteeringPoll \in Seq(Message)
         /\ FollowUpPoll \in Seq(Message)
         /\ SecondPoll \in Seq(Message)
BY DrainType DEF TypeOK, DataOK, SteeringPoll, FollowUpPoll, SecondPoll

(* The message and queue vectors keep their type under every operation the  *)
(* model applies to them.                                                   *)
LEMMA SeqType ==
  ASSUME NEW s \in Seq(Message), NEW t \in Seq(Message), NEW m \in Message
  PROVE  /\ Append(s, m) \in Seq(Message)
         /\ s \o t \in Seq(Message)
         /\ s # <<>> => Head(s) \in Message /\ Tail(s) \in Seq(Message)
         /\ Len(s) \in Nat
         /\ <<m>> \in Seq(Message)
         /\ s # <<>> => SubSeq(s, 1, Len(s) - 1) \in Seq(Message)
<1>1. s # <<>> => SubSeq(s, 1, Len(s) - 1) \in Seq(Message)
  BY SubSeqProperties, EmptySeq
<1>. QED BY <1>1, ConcatProperties, HeadTailProperties

(* Appending makes a transcript one longer. *)
LEMMA SeqLen ==
  ASSUME NEW s \in Seq(Message), NEW m
  PROVE  Len(Append(s, m)) = Len(s) + 1
OBVIOUS

(* Every id a vector of messages carries is a natural number. *)
LEMMA IdsType ==
  ASSUME NEW s \in Seq(Message)
  PROVE  Ids(s) \in SUBSET Nat
<1>1. ASSUME NEW k \in DOMAIN s PROVE s[k].id \in Nat
  <2>1. s[k] \in Message
    BY LenProperties, ElementOfSeq
  <2>. QED BY <2>1 DEF Message
<1>. QED BY <1>1 DEF Ids

(* The state of a turn before its reply is a reply value. *)
LEMMA NoReplyType == NoReply \in [reason : Reasons, n : Nat]
BY DEF NoReply, Reasons

USE DEF host, live, batch, flags, run, vars

(* Each step keeps the Boolean flags Boolean. *)
LEMMA FlagsStep == TypeOK /\ [Next]_vars => FlagsOK'
<1>. SUFFICES ASSUME FlagsOK, DataOK, [Next]_vars PROVE FlagsOK'
  BY DEF TypeOK
<1>. USE ConstantsAssumption
<1>1. CASE StartTurn
  BY <1>1 DEF FlagsOK, StartTurn
<1>2. CASE Exhausted
  BY <1>2 DEF FlagsOK, Exhausted, EmitAgentEnd
<1>3. CASE AssemblePending
  BY <1>3 DEF FlagsOK, AssemblePending
<1>4. CASE AppendPending
  BY <1>4 DEF FlagsOK, AppendPending
<1>5. CASE RequestHookFails
  BY <1>5 DEF FlagsOK, RequestHookFails, EmitAgentEnd
<1>6. CASE BeginRequest
  BY <1>6 DEF FlagsOK, BeginRequest
<1>7. CASE StreamStart
  BY <1>7 DEF FlagsOK, StreamStart
<1>8. ASSUME NEW c \in 1..MaxCalls, StreamToolCall(c) PROVE FlagsOK'
  BY <1>8 DEF FlagsOK, StreamToolCall
<1>9. CASE StreamFails
  BY <1>9 DEF FlagsOK, StreamFails, EmitAgentEnd
<1>10. ASSUME NEW reason \in Reasons, NEW n \in 0..MaxCalls, Reply(reason, n) PROVE FlagsOK'
  BY <1>10 DEF FlagsOK, Reply
<1>11. CASE HardTurnEnd
  BY <1>11 DEF FlagsOK, HardTurnEnd
<1>12. CASE HardAgentEnd
  BY <1>12 DEF FlagsOK, HardAgentEnd, EmitAgentEnd
<1>13. ASSUME NEW c \in Calls, ToolStart(c) PROVE FlagsOK'
  BY <1>13 DEF FlagsOK, ToolStart
<1>14. ASSUME NEW c \in Calls, ToolEnd(c) PROVE FlagsOK'
  BY <1>14 DEF FlagsOK, ToolEnd
<1>15. ASSUME NEW c \in Calls, ToolAborted(c) PROVE FlagsOK'
  BY <1>15 DEF FlagsOK, ToolAborted
<1>16. CASE ToolResult
  BY <1>16 DEF FlagsOK, ToolResult
<1>17. CASE BatchReturns
  BY <1>17 DEF FlagsOK, BatchReturns
<1>18. CASE BatchFails
  BY <1>18 DEF FlagsOK, BatchFails, EmitAgentEnd
<1>19. ASSUME NEW a \in Actions, FinishTurn(a) PROVE FlagsOK'
  BY <1>19 DEF FlagsOK, FinishTurn
<1>20. CASE FinishTurnFails
  BY <1>20 DEF FlagsOK, FinishTurnFails, EmitAgentEnd
<1>21. CASE EndAfterTurn
  BY <1>21 DEF FlagsOK, EndAfterTurn, EmitAgentEnd
<1>22. CASE ContinueAfterTurn
  BY <1>22 DEF FlagsOK, ContinueAfterTurn
<1>23. ASSUME NEW own \in {<<>>, <<Msg("prepared", 0, 0)>>}, PrepareNextTurn(own) PROVE FlagsOK'
  BY <1>23 DEF FlagsOK, PrepareNextTurn
<1>24. CASE PrepareNextTurnFails
  BY <1>24 DEF FlagsOK, PrepareNextTurnFails, EmitAgentEnd
<1>25. CASE FinishRun
  BY <1>25 DEF FlagsOK, FinishRun
<1>26. CASE CommitFails
  BY <1>26 DEF FlagsOK, CommitFails
<1>27. CASE BatchCommitFails
  BY <1>27 DEF FlagsOK, BatchCommitFails, EmitAgentEnd
<1>28. ASSUME NEW c \in Calls, ParallelCommitFails(c) PROVE FlagsOK'
  BY <1>28 DEF FlagsOK, ParallelCommitFails
<1>29. CASE UpdateCommitFails
  BY <1>29 DEF FlagsOK, UpdateCommitFails
<1>30. CASE Prompt
  BY <1>30 DEF FlagsOK, Prompt, RunLoop
<1>31. CASE ContinueRun
  BY <1>31 DEF FlagsOK, ContinueRun, RunLoop
<1>32. CASE ContinueWithQueueFallback
  BY <1>32 DEF FlagsOK, ContinueWithQueueFallback, RunLoop
<1>33. CASE Steer
  BY <1>33 DEF FlagsOK, Steer
<1>34. CASE FollowUp
  BY <1>34 DEF FlagsOK, FollowUp
<1>35. ASSUME NEW m \in Modes, SetSteeringMode(m) PROVE FlagsOK'
  BY <1>35 DEF FlagsOK, SetSteeringMode
<1>36. ASSUME NEW m \in Modes, SetFollowUpMode(m) PROVE FlagsOK'
  BY <1>36 DEF FlagsOK, SetFollowUpMode
<1>37. CASE ClearSteering
  BY <1>37 DEF FlagsOK, ClearSteering
<1>38. CASE ClearFollowUp
  BY <1>38 DEF FlagsOK, ClearFollowUp
<1>39. CASE Abort
  BY <1>39 DEF FlagsOK, Abort
<1>40. CASE Reset
  BY <1>40 DEF FlagsOK, Reset
<1>41. ASSUME NEW new \in {<<SystemMessage>>, messages}, ReplaceMessages(new) PROVE FlagsOK'
  BY <1>41 DEF FlagsOK, ReplaceMessages
<1>42. CASE AppendBashExecution
  BY <1>42 DEF FlagsOK, AppendBashExecution
<1>43. CASE PopTrailingAssistant
  BY <1>43 DEF FlagsOK, PopTrailingAssistant
<1>44. CASE UNCHANGED vars
  BY <1>44 DEF FlagsOK
<1>. QED
  BY <1>1, <1>2, <1>3, <1>4, <1>5, <1>6, <1>7, <1>8, <1>9, <1>10, <1>11, <1>12, <1>13, <1>14, <1>15, <1>16, <1>17, <1>18, <1>19, <1>20, <1>21, <1>22, <1>23, <1>24, <1>25, <1>26, <1>27, <1>28, <1>29, <1>30, <1>31, <1>32, <1>33, <1>34, <1>35, <1>36, <1>37, <1>38, <1>39, <1>40, <1>41, <1>42, <1>43, <1>44
  DEF Next, RunStep, StreamEnds, CommitFailure, HostCall

(* Each step keeps the types of the rest of the state. *)
LEMMA DataStep == TypeOK /\ [Next]_vars => DataOK'
<1>. SUFFICES ASSUME FlagsOK, DataOK, [Next]_vars PROVE DataOK'
  BY DEF TypeOK
<1>. USE ConstantsAssumption
<1>1. CASE StartTurn
  BY <1>1, NoReplyType DEF DataOK, Points, Actions, StartTurn
<1>2. CASE Exhausted
  BY <1>2 DEF DataOK, Points, Exhausted, EmitAgentEnd, Outcomes
<1>3. CASE AssemblePending
  <2>1. /\ Drained(steering, steeringMode) \in Seq(Message)
        /\ Remains(steering, steeringMode) \in Seq(Message)
    BY DrainType DEF DataOK
  <2>2. pending \o Drained(steering, steeringMode) \in Seq(Message)
    BY <2>1, ConcatProperties DEF DataOK
  <2>3. CASE turn = 1 /\ ~drained
    <3>1. Delivers(steering) \in Nat
      BY DEF Delivers
    <3>2. /\ pending' = pending \o Drained(steering, steeringMode)
          /\ steering' = Remains(steering, steeringMode)
          /\ polled' = polled + Delivers(steering)
          /\ pc' = "append"
          /\ UNCHANGED <<followUp, steeringMode, followUpMode, nextInput,
                         cleared, live, turn, reply, batch, action, result,
                         dropped>>
      BY <1>3, <2>3 DEF AssemblePending
    <3>. QED BY <3>1, <3>2, <2>1, <2>2, SMTT(60) DEF DataOK, Points
  <2>4. CASE ~(turn = 1 /\ ~drained)
    BY <1>3, <2>4 DEF DataOK, Points, AssemblePending
  <2>. QED BY <2>3, <2>4
<1>4. CASE AppendPending
  BY <1>4, SeqType DEF DataOK, Points, AppendPending
<1>5. CASE RequestHookFails
  BY <1>5 DEF DataOK, Points, RequestHookFails, EmitAgentEnd, Outcomes
<1>6. CASE BeginRequest
  BY <1>6 DEF DataOK, Points, BeginRequest
<1>7. CASE StreamStart
  BY <1>7 DEF DataOK, Points, StreamStart
<1>8. ASSUME NEW c \in 1..MaxCalls, StreamToolCall(c) PROVE DataOK'
  BY <1>8 DEF DataOK, Points, StreamToolCall
<1>9. CASE StreamFails
  BY <1>9 DEF DataOK, Points, StreamFails, EmitAgentEnd, Outcomes
<1>10. ASSUME NEW reason \in Reasons, NEW n \in 0..MaxCalls, Reply(reason, n) PROVE DataOK'
  <2>1. Msg("assistant", 0, n) \in Message
    BY MsgType DEF Roles
  <2>2. Append(messages, Msg("assistant", 0, n)) \in Seq(Message)
    BY <2>1, SeqType DEF DataOK
  <2>3. exec' \in Executions /\ pc' \in Points
    BY <1>10 DEF Reply, ExecutionsOf, Executions, PointAfter, Points
  <2>4. [reason |-> reason, n |-> n] \in [reason : Reasons, n : Nat]
    OBVIOUS
  <2>5. 1..n \in SUBSET Nat
    OBVIOUS
  <2>. QED BY <1>10, <2>2, <2>3, <2>4, <2>5 DEF DataOK, Reply
<1>11. CASE HardTurnEnd
  BY <1>11 DEF DataOK, Points, HardTurnEnd
<1>12. CASE HardAgentEnd
  BY <1>12 DEF DataOK, Points, HardAgentEnd, EmitAgentEnd, Outcomes
<1>13. ASSUME NEW c \in Calls, ToolStart(c) PROVE DataOK'
  BY <1>13 DEF DataOK, Points, ToolStart, Calls
<1>14. ASSUME NEW c \in Calls, ToolEnd(c) PROVE DataOK'
  BY <1>14 DEF DataOK, Points, ToolEnd, Calls
<1>15. ASSUME NEW c \in Calls, ToolAborted(c) PROVE DataOK'
  BY <1>15 DEF DataOK, Points, ToolAborted, Calls
<1>16. CASE ToolResult
  BY <1>16, SeqType, MsgType DEF DataOK, Points, ToolResult, Roles
<1>17. CASE BatchReturns
  BY <1>17 DEF DataOK, Points, BatchReturns
<1>18. CASE BatchFails
  BY <1>18 DEF DataOK, Points, BatchFails, EmitAgentEnd, Outcomes
<1>19. ASSUME NEW a \in Actions, FinishTurn(a) PROVE DataOK'
  BY <1>19 DEF DataOK, Points, FinishTurn
<1>20. CASE FinishTurnFails
  BY <1>20 DEF DataOK, Points, FinishTurnFails, EmitAgentEnd, Outcomes
<1>21. CASE EndAfterTurn
  BY <1>21 DEF DataOK, Points, EndAfterTurn, EmitAgentEnd, Outcomes
<1>22. CASE ContinueAfterTurn
  <2>1. /\ Remains(steering, steeringMode) \in Seq(Message)
        /\ Remains(followUp, followUpMode) \in Seq(Message)
    BY DrainType DEF DataOK
  <2>2. SteeringPoll \o FollowUpPoll \in Seq(Message)
    BY PollType, ConcatProperties DEF TypeOK
  <2>. QED BY <1>22, <2>1, <2>2 DEF DataOK, Points, ContinueAfterTurn, Delivers
<1>23. ASSUME NEW own \in {<<>>, <<Msg("prepared", 0, 0)>>}, PrepareNextTurn(own) PROVE DataOK'
  <2>1. Remains(steering, steeringMode) \in Seq(Message)
    BY DrainType DEF DataOK
  <2>2. own \in Seq(Message)
    <3>1. Msg("prepared", 0, 0) \in Message
      BY MsgType DEF Roles
    <3>2. <<>> \in Seq(Message) /\ <<Msg("prepared", 0, 0)>> \in Seq(Message)
      BY <3>1, EmptySeq
    <3>. QED BY <3>2
  <2>3. own \o pending \in Seq(Message)
    BY <2>2, ConcatProperties DEF DataOK
  <2>4. own \o pending \o SecondPoll \in Seq(Message)
    BY <2>3, PollType, ConcatProperties DEF TypeOK
  <2>. QED BY <1>23, <2>1, <2>4 DEF DataOK, Points, PrepareNextTurn, Delivers
<1>24. CASE PrepareNextTurnFails
  BY <1>24 DEF DataOK, Points, PrepareNextTurnFails, EmitAgentEnd, Outcomes
<1>25. CASE FinishRun
  <2>1. Ids(pending) \in SUBSET Nat
    BY IdsType DEF DataOK
  <2>. QED
    BY <1>25, EmptySeq, <2>1, NoReplyType
    DEF DataOK, Points, FinishRun, Actions, Outcomes, Executions
<1>26. CASE CommitFails
  BY <1>26 DEF DataOK, Points, CommitFails
<1>27. CASE BatchCommitFails
  BY <1>27 DEF DataOK, Points, BatchCommitFails, EmitAgentEnd, Outcomes
<1>28. ASSUME NEW c \in Calls, ParallelCommitFails(c) PROVE DataOK'
  BY <1>28 DEF DataOK, Points, ParallelCommitFails, Calls
<1>29. CASE UpdateCommitFails
  BY <1>29 DEF DataOK, Points, UpdateCommitFails
<1>30. CASE Prompt
  <2>1. Msg("prompt", nextInput, 0) \in Message
    BY MsgType DEF Roles, DataOK
  <2>2. <<Msg("prompt", nextInput, 0)>> \in Seq(Message) /\ Len(messages) \in Nat
    BY <2>1 DEF DataOK
  <2>. QED BY <1>30, <2>2 DEF DataOK, Points, Prompt, RunLoop, InvocationStart
<1>31. CASE ContinueRun
  <2>1. Len(messages) \in Nat
    BY DEF DataOK
  <2>. QED BY <1>31, EmptySeq, <2>1 DEF DataOK, Points, ContinueRun, RunLoop, InvocationStart
<1>32. CASE ContinueWithQueueFallback
  <2>1. /\ Drained(steering, steeringMode) \in Seq(Message)
        /\ Remains(steering, steeringMode) \in Seq(Message)
        /\ Drained(followUp, followUpMode) \in Seq(Message)
        /\ Remains(followUp, followUpMode) \in Seq(Message)
        /\ Len(messages) \in Nat
    BY DrainType DEF DataOK
  <2>2. UNCHANGED <<messages, steeringMode, followUpMode, cleared, turn,
                    nextInput, reply, batch, action, result, dropped>>
    BY <1>32 DEF ContinueWithQueueFallback, RunLoop
  <2>3. pc' \in Points /\ pendingIds' = {} /\ offset' \in Nat /\ polled' \in Nat
    BY <1>32, <2>1 DEF ContinueWithQueueFallback, RunLoop, Points, InvocationStart
  <2>4. /\ pending' \in Seq(Message)
        /\ steering' \in Seq(Message)
        /\ followUp' \in Seq(Message)
    BY <1>32, <2>1, EmptySeq DEF DataOK, ContinueWithQueueFallback, RunLoop
  <2>. QED BY <2>2, <2>3, <2>4 DEF DataOK
<1>33. CASE Steer
  BY <1>33, SeqType, MsgType DEF DataOK, Points, Steer, Roles
<1>34. CASE FollowUp
  BY <1>34, SeqType, MsgType DEF DataOK, Points, FollowUp, Roles
<1>35. ASSUME NEW m \in Modes, SetSteeringMode(m) PROVE DataOK'
  BY <1>35 DEF DataOK, Points, SetSteeringMode
<1>36. ASSUME NEW m \in Modes, SetFollowUpMode(m) PROVE DataOK'
  BY <1>36 DEF DataOK, Points, SetFollowUpMode
<1>37. CASE ClearSteering
  <2>1. Ids(steering) \in SUBSET Nat
    BY IdsType DEF DataOK
  <2>. QED BY <1>37, EmptySeq, <2>1 DEF DataOK, ClearSteering
<1>38. CASE ClearFollowUp
  <2>1. Ids(followUp) \in SUBSET Nat
    BY IdsType DEF DataOK
  <2>. QED BY <1>38, EmptySeq, <2>1 DEF DataOK, ClearFollowUp
<1>39. CASE Abort
  BY <1>39 DEF DataOK, Points, Abort
<1>40. CASE Reset
  <2>1. /\ Ids(messages) \in SUBSET Nat
        /\ Ids(steering) \in SUBSET Nat
        /\ Ids(followUp) \in SUBSET Nat
    BY IdsType DEF DataOK
  <2>2. SystemMessage \in Message
    BY MsgType DEF SystemMessage, Roles
  <2>3. <<SystemMessage>> \in Seq(Message) /\ <<>> \in Seq(Message)
    BY <2>2, EmptySeq
  <2>. QED BY <1>40, <2>1, <2>3 DEF DataOK, Reset
<1>41. ASSUME NEW new \in {<<SystemMessage>>, messages}, ReplaceMessages(new) PROVE DataOK'
  <2>1. SystemMessage \in Message
    BY MsgType DEF SystemMessage, Roles
  <2>2. new \in Seq(Message) /\ Len(new) \in Nat
    BY <2>1, SeqType DEF DataOK
  <2>3. Ids(messages) \in SUBSET Nat
    BY IdsType DEF DataOK
  <2>. QED BY <1>41, <2>2, <2>3 DEF DataOK, ReplaceMessages, InvocationStart
<1>42. CASE AppendBashExecution
  BY <1>42, SeqType, MsgType DEF DataOK, Points, AppendBashExecution, Roles
<1>43. CASE PopTrailingAssistant
  BY <1>43, SeqType DEF DataOK, Points, PopTrailingAssistant, EndsWithAssistant
<1>44. CASE UNCHANGED vars
  BY <1>44 DEF DataOK
<1>. QED
  BY <1>1, <1>2, <1>3, <1>4, <1>5, <1>6, <1>7, <1>8, <1>9, <1>10, <1>11, <1>12, <1>13, <1>14, <1>15, <1>16, <1>17, <1>18, <1>19, <1>20, <1>21, <1>22, <1>23, <1>24, <1>25, <1>26, <1>27, <1>28, <1>29, <1>30, <1>31, <1>32, <1>33, <1>34, <1>35, <1>36, <1>37, <1>38, <1>39, <1>40, <1>41, <1>42, <1>43, <1>44
  DEF Next, RunStep, StreamEnds, CommitFailure, HostCall

(* Initially the types hold. *)
LEMMA InitType == Init => TypeOK
<1>. SUFFICES ASSUME Init PROVE TypeOK
  OBVIOUS
<1>1. SystemMessage \in Message
  BY MsgType DEF SystemMessage, Roles
<1>2. <<>> \in Seq(Message) /\ <<SystemMessage>> \in Seq(Message)
  BY <1>1, EmptySeq
<1>3. FlagsOK
  BY DEF Init, FlagsOK
<1>4. DataOK
  BY <1>2, NoReplyType DEF Init, DataOK, Points, Actions, Outcomes, Executions
<1>. QED BY <1>3, <1>4 DEF TypeOK

(* The state of the Agent and of its run is always well typed. *)
THEOREM TypeCorrect == Spec => []TypeOK
<1>1. TypeOK /\ [Next]_vars => TypeOK'
  BY FlagsStep, DataStep DEF TypeOK
<1>. QED BY InitType, <1>1, PTL DEF Spec

(* No step moves the invocation window outside the transcript. *)
LEMMA WindowStep ==
  TypeOK /\ WindowInside /\ [Next]_vars => WindowInside'
<1>. SUFFICES ASSUME TypeOK, WindowInside, [Next]_vars PROVE WindowInside'
  OBVIOUS
<1>. USE ConstantsAssumption
<1>1. CASE StartTurn
  BY <1>1 DEF TypeOK, DataOK, WindowInside, StartTurn
<1>2. CASE Exhausted
  BY <1>2 DEF TypeOK, DataOK, WindowInside, Exhausted, EmitAgentEnd
<1>3. CASE AssemblePending
  BY <1>3 DEF TypeOK, DataOK, WindowInside, AssemblePending
<1>4. CASE AppendPending
  BY <1>4, SeqLen DEF TypeOK, DataOK, WindowInside, AppendPending
<1>5. CASE RequestHookFails
  BY <1>5 DEF TypeOK, DataOK, WindowInside, RequestHookFails, EmitAgentEnd
<1>6. CASE BeginRequest
  BY <1>6 DEF TypeOK, DataOK, WindowInside, BeginRequest
<1>7. CASE StreamStart
  BY <1>7 DEF TypeOK, DataOK, WindowInside, StreamStart
<1>8. ASSUME NEW c \in 1..MaxCalls, StreamToolCall(c) PROVE WindowInside'
  BY <1>8 DEF TypeOK, DataOK, WindowInside, StreamToolCall
<1>9. CASE StreamFails
  BY <1>9 DEF TypeOK, DataOK, WindowInside, StreamFails, EmitAgentEnd
<1>10. ASSUME NEW reason \in Reasons, NEW n \in 0..MaxCalls, Reply(reason, n) PROVE WindowInside'
  BY <1>10, SeqLen DEF TypeOK, DataOK, WindowInside, Reply
<1>11. CASE HardTurnEnd
  BY <1>11 DEF TypeOK, DataOK, WindowInside, HardTurnEnd
<1>12. CASE HardAgentEnd
  BY <1>12 DEF TypeOK, DataOK, WindowInside, HardAgentEnd, EmitAgentEnd
<1>13. ASSUME NEW c \in Calls, ToolStart(c) PROVE WindowInside'
  BY <1>13 DEF TypeOK, DataOK, WindowInside, ToolStart
<1>14. ASSUME NEW c \in Calls, ToolEnd(c) PROVE WindowInside'
  BY <1>14 DEF TypeOK, DataOK, WindowInside, ToolEnd
<1>15. ASSUME NEW c \in Calls, ToolAborted(c) PROVE WindowInside'
  BY <1>15 DEF TypeOK, DataOK, WindowInside, ToolAborted
<1>16. CASE ToolResult
  BY <1>16, SeqLen DEF TypeOK, DataOK, WindowInside, ToolResult
<1>17. CASE BatchReturns
  BY <1>17 DEF TypeOK, DataOK, WindowInside, BatchReturns
<1>18. CASE BatchFails
  BY <1>18 DEF TypeOK, DataOK, WindowInside, BatchFails, EmitAgentEnd
<1>19. ASSUME NEW a \in Actions, FinishTurn(a) PROVE WindowInside'
  BY <1>19 DEF TypeOK, DataOK, WindowInside, FinishTurn
<1>20. CASE FinishTurnFails
  BY <1>20 DEF TypeOK, DataOK, WindowInside, FinishTurnFails, EmitAgentEnd
<1>21. CASE EndAfterTurn
  BY <1>21 DEF TypeOK, DataOK, WindowInside, EndAfterTurn, EmitAgentEnd
<1>22. CASE ContinueAfterTurn
  BY <1>22 DEF TypeOK, DataOK, WindowInside, ContinueAfterTurn
<1>23. ASSUME NEW own \in {<<>>, <<Msg("prepared", 0, 0)>>}, PrepareNextTurn(own) PROVE WindowInside'
  BY <1>23 DEF TypeOK, DataOK, WindowInside, PrepareNextTurn
<1>24. CASE PrepareNextTurnFails
  BY <1>24 DEF TypeOK, DataOK, WindowInside, PrepareNextTurnFails, EmitAgentEnd
<1>25. CASE FinishRun
  BY <1>25 DEF TypeOK, DataOK, WindowInside, FinishRun
<1>26. CASE CommitFails
  BY <1>26 DEF TypeOK, DataOK, WindowInside, CommitFails
<1>27. CASE BatchCommitFails
  BY <1>27 DEF TypeOK, DataOK, WindowInside, BatchCommitFails, EmitAgentEnd
<1>28. ASSUME NEW c \in Calls, ParallelCommitFails(c) PROVE WindowInside'
  BY <1>28 DEF TypeOK, DataOK, WindowInside, ParallelCommitFails
<1>29. CASE UpdateCommitFails
  BY <1>29 DEF TypeOK, DataOK, WindowInside, UpdateCommitFails
<1>30. CASE Prompt
  BY <1>30 DEF TypeOK, DataOK, WindowInside, Prompt, RunLoop, InvocationStart
<1>31. CASE ContinueRun
  BY <1>31 DEF TypeOK, DataOK, WindowInside, ContinueRun, RunLoop, InvocationStart
<1>32. CASE ContinueWithQueueFallback
  BY <1>32 DEF TypeOK, DataOK, WindowInside, ContinueWithQueueFallback, RunLoop, InvocationStart
<1>33. CASE Steer
  BY <1>33 DEF TypeOK, DataOK, WindowInside, Steer
<1>34. CASE FollowUp
  BY <1>34 DEF TypeOK, DataOK, WindowInside, FollowUp
<1>35. ASSUME NEW m \in Modes, SetSteeringMode(m) PROVE WindowInside'
  BY <1>35 DEF TypeOK, DataOK, WindowInside, SetSteeringMode
<1>36. ASSUME NEW m \in Modes, SetFollowUpMode(m) PROVE WindowInside'
  BY <1>36 DEF TypeOK, DataOK, WindowInside, SetFollowUpMode
<1>37. CASE ClearSteering
  BY <1>37 DEF TypeOK, DataOK, WindowInside, ClearSteering
<1>38. CASE ClearFollowUp
  BY <1>38 DEF TypeOK, DataOK, WindowInside, ClearFollowUp
<1>39. CASE Abort
  BY <1>39 DEF TypeOK, DataOK, WindowInside, Abort
<1>40. CASE Reset
  BY <1>40 DEF TypeOK, DataOK, WindowInside, Reset
<1>41. ASSUME NEW new \in {<<SystemMessage>>, messages}, ReplaceMessages(new) PROVE WindowInside'
  BY <1>41 DEF TypeOK, DataOK, WindowInside, ReplaceMessages, InvocationStart
<1>42. CASE AppendBashExecution
  BY <1>42 DEF TypeOK, DataOK, WindowInside, AppendBashExecution
<1>43. CASE PopTrailingAssistant
  BY <1>43 DEF TypeOK, DataOK, WindowInside, PopTrailingAssistant
<1>44. CASE UNCHANGED vars
  BY <1>44 DEF TypeOK, DataOK, WindowInside
<1>. QED
  BY <1>1, <1>2, <1>3, <1>4, <1>5, <1>6, <1>7, <1>8, <1>9, <1>10, <1>11, <1>12, <1>13, <1>14, <1>15, <1>16, <1>17, <1>18, <1>19, <1>20, <1>21, <1>22, <1>23, <1>24, <1>25, <1>26, <1>27, <1>28, <1>29, <1>30, <1>31, <1>32, <1>33, <1>34, <1>35, <1>36, <1>37, <1>38, <1>39, <1>40, <1>41, <1>42, <1>43, <1>44
  DEF Next, RunStep, StreamEnds, CommitFailure, HostCall

(* Each step keeps the strengthening. *)
LEMMA RunInvStep ==
  TypeOK /\ RunInv /\ CapRespected /\ [Next]_vars => RunInv'
<1>. SUFFICES ASSUME TypeOK, RunInv, CapRespected, [Next]_vars PROVE RunInv'
  OBVIOUS
<1>. USE ConstantsAssumption
<1>1. CASE StartTurn
  BY <1>1 DEF TypeOK, FlagsOK, DataOK, RunInv, StartTurn, NoReply, HardReasons
<1>2. CASE Exhausted
  BY <1>2 DEF TypeOK, FlagsOK, DataOK, RunInv, Exhausted, EmitAgentEnd
<1>3. CASE AssemblePending
  BY <1>3 DEF TypeOK, FlagsOK, DataOK, RunInv, AssemblePending
<1>4. CASE AppendPending
  BY <1>4 DEF TypeOK, FlagsOK, DataOK, RunInv, AppendPending
<1>5. CASE RequestHookFails
  BY <1>5 DEF TypeOK, FlagsOK, DataOK, RunInv, RequestHookFails, EmitAgentEnd
<1>6. CASE BeginRequest
  <2>1. Capped /\ turn > MaxTurns => cancelTried'
    BY <1>6 DEF TypeOK, FlagsOK, DataOK, BeginRequest, CapRespected
  <2>. QED BY <1>6, <2>1 DEF TypeOK, DataOK, RunInv, BeginRequest
<1>7. CASE StreamStart
  BY <1>7 DEF TypeOK, FlagsOK, DataOK, RunInv, StreamStart
<1>8. ASSUME NEW c \in 1..MaxCalls, StreamToolCall(c) PROVE RunInv'
  BY <1>8 DEF TypeOK, FlagsOK, DataOK, RunInv, StreamToolCall
<1>9. CASE StreamFails
  BY <1>9 DEF TypeOK, FlagsOK, DataOK, RunInv, StreamFails, EmitAgentEnd
<1>10. ASSUME NEW reason \in Reasons, NEW n \in 0..MaxCalls, Reply(reason, n) PROVE RunInv'
  <2>1. pc' \in {"hard", "tools", "finish"}
    BY <1>10 DEF Reply, PointAfter
  <2>2. cancelTried => pc' = "hard"
    BY <1>10 DEF Reply, PointAfter
  <2>3. reply'.reason \in HardReasons => pc' = "hard"
    BY <1>10 DEF Reply, PointAfter
  <2>4. Capped /\ turn > MaxTurns => cancelTried
    BY <1>10 DEF Reply, RunInv
  <2>. QED BY <1>10, <2>1, <2>2, <2>3, <2>4 DEF TypeOK, DataOK, RunInv, Reply
<1>11. CASE HardTurnEnd
  BY <1>11 DEF TypeOK, FlagsOK, DataOK, RunInv, HardTurnEnd
<1>12. CASE HardAgentEnd
  BY <1>12 DEF TypeOK, FlagsOK, DataOK, RunInv, HardAgentEnd, EmitAgentEnd
<1>13. ASSUME NEW c \in Calls, ToolStart(c) PROVE RunInv'
  BY <1>13 DEF TypeOK, FlagsOK, DataOK, RunInv, ToolStart
<1>14. ASSUME NEW c \in Calls, ToolEnd(c) PROVE RunInv'
  BY <1>14 DEF TypeOK, FlagsOK, DataOK, RunInv, ToolEnd
<1>15. ASSUME NEW c \in Calls, ToolAborted(c) PROVE RunInv'
  BY <1>15 DEF TypeOK, FlagsOK, DataOK, RunInv, ToolAborted
<1>16. CASE ToolResult
  BY <1>16 DEF TypeOK, FlagsOK, DataOK, RunInv, ToolResult
<1>17. CASE BatchReturns
  BY <1>17 DEF TypeOK, FlagsOK, DataOK, RunInv, BatchReturns
<1>18. CASE BatchFails
  BY <1>18 DEF TypeOK, FlagsOK, DataOK, RunInv, BatchFails, EmitAgentEnd
<1>19. ASSUME NEW a \in Actions, FinishTurn(a) PROVE RunInv'
  BY <1>19 DEF TypeOK, FlagsOK, DataOK, RunInv, FinishTurn
<1>20. CASE FinishTurnFails
  BY <1>20 DEF TypeOK, FlagsOK, DataOK, RunInv, FinishTurnFails, EmitAgentEnd
<1>21. CASE EndAfterTurn
  BY <1>21 DEF TypeOK, FlagsOK, DataOK, RunInv, EndAfterTurn, EmitAgentEnd
<1>22. CASE ContinueAfterTurn
  <2>1. pc' \in {"next", "prepare"}
    BY <1>22 DEF ContinueAfterTurn
  <2>2. pending' = <<>> => polled' = 0
    <3>1. pending' = <<>> => SteeringPoll = <<>>
      <4>1. SteeringPoll \in Seq(Message) /\ FollowUpPoll \in Seq(Message)
        BY PollType
      <4>2. pending' = SteeringPoll \o FollowUpPoll
        BY <1>22 DEF ContinueAfterTurn
      <4>. QED BY <4>1, <4>2, ConcatSimplifications
    <3>2. SteeringPoll = <<>> => polled' = 0
      BY <1>22 DEF ContinueAfterTurn, Delivers, RunInv, TypeOK, DataOK
    <3>. QED BY <3>1, <3>2
  <2>. QED BY <1>22, <2>1, <2>2 DEF TypeOK, DataOK, RunInv, ContinueAfterTurn
<1>23. ASSUME NEW own \in {<<>>, <<Msg("prepared", 0, 0)>>}, PrepareNextTurn(own) PROVE RunInv'
  BY <1>23 DEF TypeOK, FlagsOK, DataOK, RunInv, PrepareNextTurn
<1>24. CASE PrepareNextTurnFails
  BY <1>24 DEF TypeOK, FlagsOK, DataOK, RunInv, PrepareNextTurnFails, EmitAgentEnd
<1>25. CASE FinishRun
  BY <1>25 DEF RunInv, FinishRun, NoReply, HardReasons
<1>26. CASE CommitFails
  BY <1>26 DEF TypeOK, FlagsOK, DataOK, RunInv, CommitFails
<1>27. CASE BatchCommitFails
  BY <1>27 DEF TypeOK, FlagsOK, DataOK, RunInv, BatchCommitFails, EmitAgentEnd
<1>28. ASSUME NEW c \in Calls, ParallelCommitFails(c) PROVE RunInv'
  BY <1>28 DEF TypeOK, FlagsOK, DataOK, RunInv, ParallelCommitFails
<1>29. CASE UpdateCommitFails
  BY <1>29 DEF TypeOK, FlagsOK, DataOK, RunInv, UpdateCommitFails
<1>30. CASE Prompt
  BY <1>30 DEF TypeOK, FlagsOK, DataOK, RunInv, Prompt, RunLoop
<1>31. CASE ContinueRun
  BY <1>31 DEF TypeOK, FlagsOK, DataOK, RunInv, ContinueRun, RunLoop
<1>32. CASE ContinueWithQueueFallback
  BY <1>32 DEF TypeOK, FlagsOK, DataOK, RunInv, ContinueWithQueueFallback, RunLoop
<1>33. CASE Steer
  BY <1>33 DEF TypeOK, FlagsOK, DataOK, RunInv, Steer
<1>34. CASE FollowUp
  BY <1>34 DEF TypeOK, FlagsOK, DataOK, RunInv, FollowUp
<1>35. ASSUME NEW m \in Modes, SetSteeringMode(m) PROVE RunInv'
  BY <1>35 DEF TypeOK, FlagsOK, DataOK, RunInv, SetSteeringMode
<1>36. ASSUME NEW m \in Modes, SetFollowUpMode(m) PROVE RunInv'
  BY <1>36 DEF TypeOK, FlagsOK, DataOK, RunInv, SetFollowUpMode
<1>37. CASE ClearSteering
  BY <1>37 DEF TypeOK, FlagsOK, DataOK, RunInv, ClearSteering
<1>38. CASE ClearFollowUp
  BY <1>38 DEF TypeOK, FlagsOK, DataOK, RunInv, ClearFollowUp
<1>39. CASE Abort
  BY <1>39 DEF TypeOK, FlagsOK, DataOK, RunInv, Abort
<1>40. CASE Reset
  BY <1>40 DEF TypeOK, FlagsOK, DataOK, RunInv, Reset
<1>41. ASSUME NEW new \in {<<SystemMessage>>, messages}, ReplaceMessages(new) PROVE RunInv'
  BY <1>41 DEF TypeOK, FlagsOK, DataOK, RunInv, ReplaceMessages
<1>42. CASE AppendBashExecution
  BY <1>42 DEF TypeOK, FlagsOK, DataOK, RunInv, AppendBashExecution
<1>43. CASE PopTrailingAssistant
  BY <1>43 DEF TypeOK, FlagsOK, DataOK, RunInv, PopTrailingAssistant
<1>44. CASE UNCHANGED vars
  BY <1>44 DEF TypeOK, FlagsOK, DataOK, RunInv
<1>. QED
  BY <1>1, <1>2, <1>3, <1>4, <1>5, <1>6, <1>7, <1>8, <1>9, <1>10, <1>11, <1>12, <1>13, <1>14, <1>15, <1>16, <1>17, <1>18, <1>19, <1>20, <1>21, <1>22, <1>23, <1>24, <1>25, <1>26, <1>27, <1>28, <1>29, <1>30, <1>31, <1>32, <1>33, <1>34, <1>35, <1>36, <1>37, <1>38, <1>39, <1>40, <1>41, <1>42, <1>43, <1>44
  DEF Next, RunStep, StreamEnds, CommitFailure, HostCall

(* Only the cancellation turn exceeds the cap. *)
LEMMA CapStep ==
  TypeOK /\ RunInv /\ CapRespected /\ [Next]_vars => CapRespected'
<1>. SUFFICES ASSUME TypeOK, RunInv, CapRespected, [Next]_vars PROVE CapRespected'
  OBVIOUS
<1>. USE ConstantsAssumption
<1>1. CASE StartTurn
  BY <1>1 DEF TypeOK, FlagsOK, DataOK, RunInv, CapRespected, StartTurn, LoopAdmits
<1>2. CASE Exhausted
  BY <1>2 DEF TypeOK, FlagsOK, DataOK, RunInv, CapRespected, Exhausted, EmitAgentEnd
<1>3. CASE AssemblePending
  BY <1>3 DEF TypeOK, FlagsOK, DataOK, RunInv, CapRespected, AssemblePending
<1>4. CASE AppendPending
  BY <1>4 DEF TypeOK, FlagsOK, DataOK, RunInv, CapRespected, AppendPending
<1>5. CASE RequestHookFails
  BY <1>5 DEF TypeOK, FlagsOK, DataOK, RunInv, CapRespected, RequestHookFails, EmitAgentEnd
<1>6. CASE BeginRequest
  BY <1>6 DEF TypeOK, FlagsOK, DataOK, RunInv, CapRespected, BeginRequest
<1>7. CASE StreamStart
  BY <1>7 DEF TypeOK, FlagsOK, DataOK, RunInv, CapRespected, StreamStart
<1>8. ASSUME NEW c \in 1..MaxCalls, StreamToolCall(c) PROVE CapRespected'
  BY <1>8 DEF TypeOK, FlagsOK, DataOK, RunInv, CapRespected, StreamToolCall
<1>9. CASE StreamFails
  BY <1>9 DEF TypeOK, FlagsOK, DataOK, RunInv, CapRespected, StreamFails, EmitAgentEnd
<1>10. ASSUME NEW reason \in Reasons, NEW n \in 0..MaxCalls, Reply(reason, n) PROVE CapRespected'
  BY <1>10 DEF TypeOK, FlagsOK, DataOK, RunInv, CapRespected, Reply
<1>11. CASE HardTurnEnd
  BY <1>11 DEF TypeOK, FlagsOK, DataOK, RunInv, CapRespected, HardTurnEnd
<1>12. CASE HardAgentEnd
  BY <1>12 DEF TypeOK, FlagsOK, DataOK, RunInv, CapRespected, HardAgentEnd, EmitAgentEnd
<1>13. ASSUME NEW c \in Calls, ToolStart(c) PROVE CapRespected'
  BY <1>13 DEF TypeOK, FlagsOK, DataOK, RunInv, CapRespected, ToolStart
<1>14. ASSUME NEW c \in Calls, ToolEnd(c) PROVE CapRespected'
  BY <1>14 DEF TypeOK, FlagsOK, DataOK, RunInv, CapRespected, ToolEnd
<1>15. ASSUME NEW c \in Calls, ToolAborted(c) PROVE CapRespected'
  BY <1>15 DEF TypeOK, FlagsOK, DataOK, RunInv, CapRespected, ToolAborted
<1>16. CASE ToolResult
  BY <1>16 DEF TypeOK, FlagsOK, DataOK, RunInv, CapRespected, ToolResult
<1>17. CASE BatchReturns
  BY <1>17 DEF TypeOK, FlagsOK, DataOK, RunInv, CapRespected, BatchReturns
<1>18. CASE BatchFails
  BY <1>18 DEF TypeOK, FlagsOK, DataOK, RunInv, CapRespected, BatchFails, EmitAgentEnd
<1>19. ASSUME NEW a \in Actions, FinishTurn(a) PROVE CapRespected'
  BY <1>19 DEF TypeOK, FlagsOK, DataOK, RunInv, CapRespected, FinishTurn
<1>20. CASE FinishTurnFails
  BY <1>20 DEF TypeOK, FlagsOK, DataOK, RunInv, CapRespected, FinishTurnFails, EmitAgentEnd
<1>21. CASE EndAfterTurn
  BY <1>21 DEF TypeOK, FlagsOK, DataOK, RunInv, CapRespected, EndAfterTurn, EmitAgentEnd
<1>22. CASE ContinueAfterTurn
  BY <1>22 DEF TypeOK, FlagsOK, DataOK, RunInv, CapRespected, ContinueAfterTurn
<1>23. ASSUME NEW own \in {<<>>, <<Msg("prepared", 0, 0)>>}, PrepareNextTurn(own) PROVE CapRespected'
  BY <1>23 DEF TypeOK, FlagsOK, DataOK, RunInv, CapRespected, PrepareNextTurn
<1>24. CASE PrepareNextTurnFails
  BY <1>24 DEF TypeOK, FlagsOK, DataOK, RunInv, CapRespected, PrepareNextTurnFails, EmitAgentEnd
<1>25. CASE FinishRun
  BY <1>25 DEF TypeOK, FlagsOK, DataOK, RunInv, CapRespected, FinishRun
<1>26. CASE CommitFails
  BY <1>26 DEF TypeOK, FlagsOK, DataOK, RunInv, CapRespected, CommitFails
<1>27. CASE BatchCommitFails
  BY <1>27 DEF TypeOK, FlagsOK, DataOK, RunInv, CapRespected, BatchCommitFails, EmitAgentEnd
<1>28. ASSUME NEW c \in Calls, ParallelCommitFails(c) PROVE CapRespected'
  BY <1>28 DEF TypeOK, FlagsOK, DataOK, RunInv, CapRespected, ParallelCommitFails
<1>29. CASE UpdateCommitFails
  BY <1>29 DEF TypeOK, FlagsOK, DataOK, RunInv, CapRespected, UpdateCommitFails
<1>30. CASE Prompt
  BY <1>30 DEF TypeOK, FlagsOK, DataOK, RunInv, CapRespected, Prompt, RunLoop
<1>31. CASE ContinueRun
  BY <1>31 DEF TypeOK, FlagsOK, DataOK, RunInv, CapRespected, ContinueRun, RunLoop
<1>32. CASE ContinueWithQueueFallback
  BY <1>32 DEF TypeOK, FlagsOK, DataOK, RunInv, CapRespected, ContinueWithQueueFallback, RunLoop
<1>33. CASE Steer
  BY <1>33 DEF TypeOK, FlagsOK, DataOK, RunInv, CapRespected, Steer
<1>34. CASE FollowUp
  BY <1>34 DEF TypeOK, FlagsOK, DataOK, RunInv, CapRespected, FollowUp
<1>35. ASSUME NEW m \in Modes, SetSteeringMode(m) PROVE CapRespected'
  BY <1>35 DEF TypeOK, FlagsOK, DataOK, RunInv, CapRespected, SetSteeringMode
<1>36. ASSUME NEW m \in Modes, SetFollowUpMode(m) PROVE CapRespected'
  BY <1>36 DEF TypeOK, FlagsOK, DataOK, RunInv, CapRespected, SetFollowUpMode
<1>37. CASE ClearSteering
  BY <1>37 DEF TypeOK, FlagsOK, DataOK, RunInv, CapRespected, ClearSteering
<1>38. CASE ClearFollowUp
  BY <1>38 DEF TypeOK, FlagsOK, DataOK, RunInv, CapRespected, ClearFollowUp
<1>39. CASE Abort
  BY <1>39 DEF TypeOK, FlagsOK, DataOK, RunInv, CapRespected, Abort
<1>40. CASE Reset
  BY <1>40 DEF TypeOK, FlagsOK, DataOK, RunInv, CapRespected, Reset
<1>41. ASSUME NEW new \in {<<SystemMessage>>, messages}, ReplaceMessages(new) PROVE CapRespected'
  BY <1>41 DEF TypeOK, FlagsOK, DataOK, RunInv, CapRespected, ReplaceMessages
<1>42. CASE AppendBashExecution
  BY <1>42 DEF TypeOK, FlagsOK, DataOK, RunInv, CapRespected, AppendBashExecution
<1>43. CASE PopTrailingAssistant
  BY <1>43 DEF TypeOK, FlagsOK, DataOK, RunInv, CapRespected, PopTrailingAssistant
<1>44. CASE UNCHANGED vars
  BY <1>44 DEF TypeOK, FlagsOK, DataOK, RunInv, CapRespected
<1>. QED
  BY <1>1, <1>2, <1>3, <1>4, <1>5, <1>6, <1>7, <1>8, <1>9, <1>10, <1>11, <1>12, <1>13, <1>14, <1>15, <1>16, <1>17, <1>18, <1>19, <1>20, <1>21, <1>22, <1>23, <1>24, <1>25, <1>26, <1>27, <1>28, <1>29, <1>30, <1>31, <1>32, <1>33, <1>34, <1>35, <1>36, <1>37, <1>38, <1>39, <1>40, <1>41, <1>42, <1>43, <1>44
  DEF Next, RunStep, StreamEnds, CommitFailure, HostCall

(* No second steering poll delivers before a reply. *)
LEMMA PollStep ==
  TypeOK /\ RunInv /\ OneSteeringPollPerReply /\ [Next]_vars => OneSteeringPollPerReply'
<1>. SUFFICES ASSUME TypeOK, RunInv, OneSteeringPollPerReply, [Next]_vars PROVE OneSteeringPollPerReply'
  OBVIOUS
<1>. USE ConstantsAssumption
<1>1. CASE StartTurn
  BY <1>1 DEF TypeOK, DataOK, RunInv, OneSteeringPollPerReply, StartTurn
<1>2. CASE Exhausted
  BY <1>2 DEF TypeOK, DataOK, RunInv, OneSteeringPollPerReply, Exhausted, EmitAgentEnd
<1>3. CASE AssemblePending
  <2>1. Delivers(steering) \in {0, 1}
    BY DEF Delivers
  <2>2. CASE turn = 1 /\ ~drained
    BY <1>3, <2>1, <2>2
    DEF TypeOK, DataOK, RunInv, OneSteeringPollPerReply, AssemblePending
  <2>3. CASE ~(turn = 1 /\ ~drained)
    BY <1>3, <2>3 DEF OneSteeringPollPerReply, AssemblePending
  <2>. QED BY <2>2, <2>3
<1>4. CASE AppendPending
  BY <1>4 DEF TypeOK, DataOK, RunInv, OneSteeringPollPerReply, AppendPending
<1>5. CASE RequestHookFails
  BY <1>5 DEF TypeOK, DataOK, RunInv, OneSteeringPollPerReply, RequestHookFails, EmitAgentEnd
<1>6. CASE BeginRequest
  BY <1>6 DEF TypeOK, DataOK, RunInv, OneSteeringPollPerReply, BeginRequest
<1>7. CASE StreamStart
  BY <1>7 DEF TypeOK, DataOK, RunInv, OneSteeringPollPerReply, StreamStart
<1>8. ASSUME NEW c \in 1..MaxCalls, StreamToolCall(c) PROVE OneSteeringPollPerReply'
  BY <1>8 DEF TypeOK, DataOK, RunInv, OneSteeringPollPerReply, StreamToolCall
<1>9. CASE StreamFails
  BY <1>9 DEF TypeOK, DataOK, RunInv, OneSteeringPollPerReply, StreamFails, EmitAgentEnd
<1>10. ASSUME NEW reason \in Reasons, NEW n \in 0..MaxCalls, Reply(reason, n) PROVE OneSteeringPollPerReply'
  BY <1>10 DEF TypeOK, DataOK, RunInv, OneSteeringPollPerReply, Reply
<1>11. CASE HardTurnEnd
  BY <1>11 DEF TypeOK, DataOK, RunInv, OneSteeringPollPerReply, HardTurnEnd
<1>12. CASE HardAgentEnd
  BY <1>12 DEF TypeOK, DataOK, RunInv, OneSteeringPollPerReply, HardAgentEnd, EmitAgentEnd
<1>13. ASSUME NEW c \in Calls, ToolStart(c) PROVE OneSteeringPollPerReply'
  BY <1>13 DEF TypeOK, DataOK, RunInv, OneSteeringPollPerReply, ToolStart
<1>14. ASSUME NEW c \in Calls, ToolEnd(c) PROVE OneSteeringPollPerReply'
  BY <1>14 DEF TypeOK, DataOK, RunInv, OneSteeringPollPerReply, ToolEnd
<1>15. ASSUME NEW c \in Calls, ToolAborted(c) PROVE OneSteeringPollPerReply'
  BY <1>15 DEF TypeOK, DataOK, RunInv, OneSteeringPollPerReply, ToolAborted
<1>16. CASE ToolResult
  BY <1>16 DEF TypeOK, DataOK, RunInv, OneSteeringPollPerReply, ToolResult
<1>17. CASE BatchReturns
  BY <1>17 DEF TypeOK, DataOK, RunInv, OneSteeringPollPerReply, BatchReturns
<1>18. CASE BatchFails
  BY <1>18 DEF TypeOK, DataOK, RunInv, OneSteeringPollPerReply, BatchFails, EmitAgentEnd
<1>19. ASSUME NEW a \in Actions, FinishTurn(a) PROVE OneSteeringPollPerReply'
  BY <1>19 DEF TypeOK, DataOK, RunInv, OneSteeringPollPerReply, FinishTurn
<1>20. CASE FinishTurnFails
  BY <1>20 DEF TypeOK, DataOK, RunInv, OneSteeringPollPerReply, FinishTurnFails, EmitAgentEnd
<1>21. CASE EndAfterTurn
  BY <1>21 DEF TypeOK, DataOK, RunInv, OneSteeringPollPerReply, EndAfterTurn, EmitAgentEnd
<1>22. CASE ContinueAfterTurn
  <2>1. Delivers(SteeringPoll) \in {0, 1}
    BY DEF Delivers
  <2>. QED
    BY <1>22, <2>1
    DEF TypeOK, DataOK, RunInv, OneSteeringPollPerReply, ContinueAfterTurn
<1>23. ASSUME NEW own \in {<<>>, <<Msg("prepared", 0, 0)>>}, PrepareNextTurn(own) PROVE OneSteeringPollPerReply'
  <2>1. Delivers(SecondPoll) \in {0, 1}
    BY DEF Delivers
  <2>2. pending # <<>> => Delivers(SecondPoll) = 0
    BY DEF Delivers, SecondPoll
  <2>3. pending = <<>> => polled = 0
    BY <1>23 DEF PrepareNextTurn, RunInv
  <2>. QED
    BY <1>23, <2>1, <2>2, <2>3
    DEF TypeOK, DataOK, OneSteeringPollPerReply, PrepareNextTurn
<1>24. CASE PrepareNextTurnFails
  BY <1>24 DEF TypeOK, DataOK, RunInv, OneSteeringPollPerReply, PrepareNextTurnFails, EmitAgentEnd
<1>25. CASE FinishRun
  BY <1>25 DEF TypeOK, DataOK, RunInv, OneSteeringPollPerReply, FinishRun
<1>26. CASE CommitFails
  BY <1>26 DEF TypeOK, DataOK, RunInv, OneSteeringPollPerReply, CommitFails
<1>27. CASE BatchCommitFails
  BY <1>27 DEF TypeOK, DataOK, RunInv, OneSteeringPollPerReply, BatchCommitFails, EmitAgentEnd
<1>28. ASSUME NEW c \in Calls, ParallelCommitFails(c) PROVE OneSteeringPollPerReply'
  BY <1>28 DEF TypeOK, DataOK, RunInv, OneSteeringPollPerReply, ParallelCommitFails
<1>29. CASE UpdateCommitFails
  BY <1>29 DEF TypeOK, DataOK, RunInv, OneSteeringPollPerReply, UpdateCommitFails
<1>30. CASE Prompt
  BY <1>30 DEF TypeOK, DataOK, RunInv, OneSteeringPollPerReply, Prompt, RunLoop
<1>31. CASE ContinueRun
  BY <1>31 DEF TypeOK, DataOK, RunInv, OneSteeringPollPerReply, ContinueRun, RunLoop
<1>32. CASE ContinueWithQueueFallback
  BY <1>32 DEF TypeOK, DataOK, RunInv, OneSteeringPollPerReply, ContinueWithQueueFallback, RunLoop
<1>33. CASE Steer
  BY <1>33 DEF TypeOK, DataOK, RunInv, OneSteeringPollPerReply, Steer
<1>34. CASE FollowUp
  BY <1>34 DEF TypeOK, DataOK, RunInv, OneSteeringPollPerReply, FollowUp
<1>35. ASSUME NEW m \in Modes, SetSteeringMode(m) PROVE OneSteeringPollPerReply'
  BY <1>35 DEF TypeOK, DataOK, RunInv, OneSteeringPollPerReply, SetSteeringMode
<1>36. ASSUME NEW m \in Modes, SetFollowUpMode(m) PROVE OneSteeringPollPerReply'
  BY <1>36 DEF TypeOK, DataOK, RunInv, OneSteeringPollPerReply, SetFollowUpMode
<1>37. CASE ClearSteering
  BY <1>37 DEF TypeOK, DataOK, RunInv, OneSteeringPollPerReply, ClearSteering
<1>38. CASE ClearFollowUp
  BY <1>38 DEF TypeOK, DataOK, RunInv, OneSteeringPollPerReply, ClearFollowUp
<1>39. CASE Abort
  BY <1>39 DEF TypeOK, DataOK, RunInv, OneSteeringPollPerReply, Abort
<1>40. CASE Reset
  BY <1>40 DEF TypeOK, DataOK, RunInv, OneSteeringPollPerReply, Reset
<1>41. ASSUME NEW new \in {<<SystemMessage>>, messages}, ReplaceMessages(new) PROVE OneSteeringPollPerReply'
  BY <1>41 DEF TypeOK, DataOK, RunInv, OneSteeringPollPerReply, ReplaceMessages
<1>42. CASE AppendBashExecution
  BY <1>42 DEF TypeOK, DataOK, RunInv, OneSteeringPollPerReply, AppendBashExecution
<1>43. CASE PopTrailingAssistant
  BY <1>43 DEF TypeOK, DataOK, RunInv, OneSteeringPollPerReply, PopTrailingAssistant
<1>44. CASE UNCHANGED vars
  BY <1>44 DEF TypeOK, DataOK, RunInv, OneSteeringPollPerReply
<1>. QED
  BY <1>1, <1>2, <1>3, <1>4, <1>5, <1>6, <1>7, <1>8, <1>9, <1>10, <1>11, <1>12, <1>13, <1>14, <1>15, <1>16, <1>17, <1>18, <1>19, <1>20, <1>21, <1>22, <1>23, <1>24, <1>25, <1>26, <1>27, <1>28, <1>29, <1>30, <1>31, <1>32, <1>33, <1>34, <1>35, <1>36, <1>37, <1>38, <1>39, <1>40, <1>41, <1>42, <1>43, <1>44
  DEF Next, RunStep, StreamEnds, CommitFailure, HostCall

(* The initial state satisfies every invariant. *)
LEMMA InitInv ==
  Init => WindowInside /\ RunInv /\ CapRespected /\ OneSteeringPollPerReply
<1>. SUFFICES ASSUME Init
     PROVE  WindowInside /\ RunInv /\ CapRespected /\ OneSteeringPollPerReply
  OBVIOUS
<1>1. reply.reason \notin HardReasons
  BY DEF Init, NoReply, HardReasons
<1>2. pc = "idle" /\ turn = 0 /\ polled = 0 /\ ~cancelTried
  BY DEF Init
<1>3. ~(turn > MaxTurns)
  BY <1>2, ConstantsAssumption
<1>. QED
  BY <1>1, <1>2, <1>3
  DEF WindowInside, RunInv, CapRespected, OneSteeringPollPerReply

(* The strengthening is an invariant. *)
THEOREM StrengtheningInvariant == Spec => [](RunInv /\ CapRespected)
<1>. QED BY InitInv, RunInvStep, CapStep, TypeCorrect, PTL DEF Spec

(* replace_messages mid-run, appends and run starts never leave the         *)
(* invocation window of AgentEnd outside the transcript.                    *)
THEOREM WindowAlwaysInside == Spec => []WindowInside
BY InitInv, WindowStep, TypeCorrect, PTL DEF Spec

(* For every cap and every provider: a run exceeds its configured cap only  *)
(* by the one turn that completes a cancellation.                           *)
THEOREM CapAlwaysRespected == Spec => []CapRespected
BY StrengtheningInvariant, PTL

(* Whatever the host queues and whenever it changes the queue mode, at most *)
(* one steering poll delivers between two replies.                          *)
THEOREM SteeringPolledOnce == Spec => []OneSteeringPollPerReply
BY InitInv, PollStep, StrengtheningInvariant, TypeCorrect, PTL DEF Spec

(* After an error or aborted reply no step takes input or starts a turn. *)
LEMMA HardReplyStep ==
  ASSUME TypeOK, RunInv, [Next]_vars
  PROVE  pc' # "idle" /\ reply.reason \in HardReasons => turn' = turn /\ pending' = <<>>
<1>. DEFINE Goal == pc' # "idle" /\ reply.reason \in HardReasons => turn' = turn /\ pending' = <<>>
<1>. SUFFICES Goal
  OBVIOUS
<1>. USE ConstantsAssumption
<1>1. CASE StartTurn
  BY <1>1 DEF TypeOK, FlagsOK, DataOK, RunInv, StartTurn
<1>2. CASE Exhausted
  BY <1>2 DEF TypeOK, FlagsOK, DataOK, RunInv, Exhausted, EmitAgentEnd
<1>3. CASE AssemblePending
  BY <1>3 DEF TypeOK, FlagsOK, DataOK, RunInv, AssemblePending
<1>4. CASE AppendPending
  BY <1>4 DEF TypeOK, FlagsOK, DataOK, RunInv, AppendPending
<1>5. CASE RequestHookFails
  BY <1>5 DEF TypeOK, FlagsOK, DataOK, RunInv, RequestHookFails, EmitAgentEnd
<1>6. CASE BeginRequest
  BY <1>6 DEF TypeOK, FlagsOK, DataOK, RunInv, BeginRequest
<1>7. CASE StreamStart
  BY <1>7 DEF TypeOK, FlagsOK, DataOK, RunInv, StreamStart
<1>8. ASSUME NEW c \in 1..MaxCalls, StreamToolCall(c) PROVE Goal
  BY <1>8 DEF TypeOK, FlagsOK, DataOK, RunInv, StreamToolCall
<1>9. CASE StreamFails
  BY <1>9 DEF TypeOK, FlagsOK, DataOK, RunInv, StreamFails, EmitAgentEnd
<1>10. ASSUME NEW reason \in Reasons, NEW n \in 0..MaxCalls, Reply(reason, n) PROVE Goal
  BY <1>10 DEF TypeOK, FlagsOK, DataOK, RunInv, Reply
<1>11. CASE HardTurnEnd
  BY <1>11 DEF TypeOK, FlagsOK, DataOK, RunInv, HardTurnEnd
<1>12. CASE HardAgentEnd
  BY <1>12 DEF TypeOK, FlagsOK, DataOK, RunInv, HardAgentEnd, EmitAgentEnd
<1>13. ASSUME NEW c \in Calls, ToolStart(c) PROVE Goal
  BY <1>13 DEF TypeOK, FlagsOK, DataOK, RunInv, ToolStart
<1>14. ASSUME NEW c \in Calls, ToolEnd(c) PROVE Goal
  BY <1>14 DEF TypeOK, FlagsOK, DataOK, RunInv, ToolEnd
<1>15. ASSUME NEW c \in Calls, ToolAborted(c) PROVE Goal
  BY <1>15 DEF TypeOK, FlagsOK, DataOK, RunInv, ToolAborted
<1>16. CASE ToolResult
  BY <1>16 DEF TypeOK, FlagsOK, DataOK, RunInv, ToolResult
<1>17. CASE BatchReturns
  BY <1>17 DEF TypeOK, FlagsOK, DataOK, RunInv, BatchReturns
<1>18. CASE BatchFails
  BY <1>18 DEF TypeOK, FlagsOK, DataOK, RunInv, BatchFails, EmitAgentEnd
<1>19. ASSUME NEW a \in Actions, FinishTurn(a) PROVE Goal
  BY <1>19 DEF TypeOK, FlagsOK, DataOK, RunInv, FinishTurn
<1>20. CASE FinishTurnFails
  BY <1>20 DEF TypeOK, FlagsOK, DataOK, RunInv, FinishTurnFails, EmitAgentEnd
<1>21. CASE EndAfterTurn
  BY <1>21 DEF TypeOK, FlagsOK, DataOK, RunInv, EndAfterTurn, EmitAgentEnd
<1>22. CASE ContinueAfterTurn
  BY <1>22 DEF TypeOK, FlagsOK, DataOK, RunInv, ContinueAfterTurn
<1>23. ASSUME NEW own \in {<<>>, <<Msg("prepared", 0, 0)>>}, PrepareNextTurn(own) PROVE Goal
  BY <1>23 DEF TypeOK, FlagsOK, DataOK, RunInv, PrepareNextTurn
<1>24. CASE PrepareNextTurnFails
  BY <1>24 DEF TypeOK, FlagsOK, DataOK, RunInv, PrepareNextTurnFails, EmitAgentEnd
<1>25. CASE FinishRun
  BY <1>25 DEF TypeOK, FlagsOK, DataOK, RunInv, FinishRun
<1>26. CASE CommitFails
  BY <1>26 DEF TypeOK, FlagsOK, DataOK, RunInv, CommitFails
<1>27. CASE BatchCommitFails
  BY <1>27 DEF TypeOK, FlagsOK, DataOK, RunInv, BatchCommitFails, EmitAgentEnd
<1>28. ASSUME NEW c \in Calls, ParallelCommitFails(c) PROVE Goal
  BY <1>28 DEF TypeOK, FlagsOK, DataOK, RunInv, ParallelCommitFails
<1>29. CASE UpdateCommitFails
  BY <1>29 DEF TypeOK, FlagsOK, DataOK, RunInv, UpdateCommitFails
<1>30. CASE Prompt
  BY <1>30 DEF TypeOK, FlagsOK, DataOK, RunInv, Prompt, RunLoop
<1>31. CASE ContinueRun
  BY <1>31 DEF TypeOK, FlagsOK, DataOK, RunInv, ContinueRun, RunLoop
<1>32. CASE ContinueWithQueueFallback
  BY <1>32 DEF TypeOK, FlagsOK, DataOK, RunInv, ContinueWithQueueFallback, RunLoop
<1>33. CASE Steer
  BY <1>33 DEF TypeOK, FlagsOK, DataOK, RunInv, Steer
<1>34. CASE FollowUp
  BY <1>34 DEF TypeOK, FlagsOK, DataOK, RunInv, FollowUp
<1>35. ASSUME NEW m \in Modes, SetSteeringMode(m) PROVE Goal
  BY <1>35 DEF TypeOK, FlagsOK, DataOK, RunInv, SetSteeringMode
<1>36. ASSUME NEW m \in Modes, SetFollowUpMode(m) PROVE Goal
  BY <1>36 DEF TypeOK, FlagsOK, DataOK, RunInv, SetFollowUpMode
<1>37. CASE ClearSteering
  BY <1>37 DEF TypeOK, FlagsOK, DataOK, RunInv, ClearSteering
<1>38. CASE ClearFollowUp
  BY <1>38 DEF TypeOK, FlagsOK, DataOK, RunInv, ClearFollowUp
<1>39. CASE Abort
  BY <1>39 DEF TypeOK, FlagsOK, DataOK, RunInv, Abort
<1>40. CASE Reset
  BY <1>40 DEF TypeOK, FlagsOK, DataOK, RunInv, Reset
<1>41. ASSUME NEW new \in {<<SystemMessage>>, messages}, ReplaceMessages(new) PROVE Goal
  BY <1>41 DEF TypeOK, FlagsOK, DataOK, RunInv, ReplaceMessages
<1>42. CASE AppendBashExecution
  BY <1>42 DEF TypeOK, FlagsOK, DataOK, RunInv, AppendBashExecution
<1>43. CASE PopTrailingAssistant
  BY <1>43 DEF TypeOK, FlagsOK, DataOK, RunInv, PopTrailingAssistant
<1>44. CASE UNCHANGED vars
  BY <1>44 DEF TypeOK, FlagsOK, DataOK, RunInv
<1>. HIDE DEF Goal
<1>. QED
  BY <1>1, <1>2, <1>3, <1>4, <1>5, <1>6, <1>7, <1>8, <1>9, <1>10, <1>11, <1>12, <1>13, <1>14, <1>15, <1>16, <1>17, <1>18, <1>19, <1>20, <1>21, <1>22, <1>23, <1>24, <1>25, <1>26, <1>27, <1>28, <1>29, <1>30, <1>31, <1>32, <1>33, <1>34, <1>35, <1>36, <1>37, <1>38, <1>39, <1>40, <1>41, <1>42, <1>43, <1>44
  DEF Next, RunStep, StreamEnds, CommitFailure, HostCall

(* Once a request was sent with the stop requested, none follows. *)
LEMMA StopRequestStep ==
  ASSUME TypeOK, RunInv, [Next]_vars
  PROVE  cancelTried /\ pc = "append" => pc' # "stream"
<1>. DEFINE Goal == cancelTried /\ pc = "append" => pc' # "stream"
<1>. SUFFICES Goal
  OBVIOUS
<1>. USE ConstantsAssumption
<1>1. CASE StartTurn
  BY <1>1 DEF RunInv, StartTurn
<1>2. CASE Exhausted
  BY <1>2 DEF RunInv, Exhausted, EmitAgentEnd
<1>3. CASE AssemblePending
  BY <1>3 DEF RunInv, AssemblePending
<1>4. CASE AppendPending
  BY <1>4 DEF RunInv, AppendPending
<1>5. CASE RequestHookFails
  BY <1>5 DEF RunInv, RequestHookFails, EmitAgentEnd
<1>6. CASE BeginRequest
  BY <1>6 DEF RunInv, BeginRequest
<1>7. CASE StreamStart
  BY <1>7 DEF RunInv, StreamStart
<1>8. ASSUME NEW c \in 1..MaxCalls, StreamToolCall(c) PROVE Goal
  BY <1>8 DEF RunInv, StreamToolCall
<1>9. CASE StreamFails
  BY <1>9 DEF RunInv, StreamFails, EmitAgentEnd
<1>10. ASSUME NEW reason \in Reasons, NEW n \in 0..MaxCalls, Reply(reason, n) PROVE Goal
  BY <1>10 DEF RunInv, Reply
<1>11. CASE HardTurnEnd
  BY <1>11 DEF RunInv, HardTurnEnd
<1>12. CASE HardAgentEnd
  BY <1>12 DEF RunInv, HardAgentEnd, EmitAgentEnd
<1>13. ASSUME NEW c \in Calls, ToolStart(c) PROVE Goal
  BY <1>13 DEF RunInv, ToolStart
<1>14. ASSUME NEW c \in Calls, ToolEnd(c) PROVE Goal
  BY <1>14 DEF RunInv, ToolEnd
<1>15. ASSUME NEW c \in Calls, ToolAborted(c) PROVE Goal
  BY <1>15 DEF RunInv, ToolAborted
<1>16. CASE ToolResult
  BY <1>16 DEF RunInv, ToolResult
<1>17. CASE BatchReturns
  BY <1>17 DEF RunInv, BatchReturns
<1>18. CASE BatchFails
  BY <1>18 DEF RunInv, BatchFails, EmitAgentEnd
<1>19. ASSUME NEW a \in Actions, FinishTurn(a) PROVE Goal
  BY <1>19 DEF RunInv, FinishTurn
<1>20. CASE FinishTurnFails
  BY <1>20 DEF RunInv, FinishTurnFails, EmitAgentEnd
<1>21. CASE EndAfterTurn
  BY <1>21 DEF RunInv, EndAfterTurn, EmitAgentEnd
<1>22. CASE ContinueAfterTurn
  BY <1>22 DEF RunInv, ContinueAfterTurn
<1>23. ASSUME NEW own \in {<<>>, <<Msg("prepared", 0, 0)>>}, PrepareNextTurn(own) PROVE Goal
  BY <1>23 DEF RunInv, PrepareNextTurn
<1>24. CASE PrepareNextTurnFails
  BY <1>24 DEF RunInv, PrepareNextTurnFails, EmitAgentEnd
<1>25. CASE FinishRun
  BY <1>25 DEF RunInv, FinishRun
<1>26. CASE CommitFails
  BY <1>26 DEF RunInv, CommitFails
<1>27. CASE BatchCommitFails
  BY <1>27 DEF RunInv, BatchCommitFails, EmitAgentEnd
<1>28. ASSUME NEW c \in Calls, ParallelCommitFails(c) PROVE Goal
  BY <1>28 DEF RunInv, ParallelCommitFails
<1>29. CASE UpdateCommitFails
  BY <1>29 DEF RunInv, UpdateCommitFails
<1>30. CASE Prompt
  BY <1>30 DEF RunInv, Prompt, RunLoop
<1>31. CASE ContinueRun
  BY <1>31 DEF RunInv, ContinueRun, RunLoop
<1>32. CASE ContinueWithQueueFallback
  BY <1>32 DEF RunInv, ContinueWithQueueFallback, RunLoop
<1>33. CASE Steer
  BY <1>33 DEF RunInv, Steer
<1>34. CASE FollowUp
  BY <1>34 DEF RunInv, FollowUp
<1>35. ASSUME NEW m \in Modes, SetSteeringMode(m) PROVE Goal
  BY <1>35 DEF RunInv, SetSteeringMode
<1>36. ASSUME NEW m \in Modes, SetFollowUpMode(m) PROVE Goal
  BY <1>36 DEF RunInv, SetFollowUpMode
<1>37. CASE ClearSteering
  BY <1>37 DEF RunInv, ClearSteering
<1>38. CASE ClearFollowUp
  BY <1>38 DEF RunInv, ClearFollowUp
<1>39. CASE Abort
  BY <1>39 DEF RunInv, Abort
<1>40. CASE Reset
  BY <1>40 DEF RunInv, Reset
<1>41. ASSUME NEW new \in {<<SystemMessage>>, messages}, ReplaceMessages(new) PROVE Goal
  BY <1>41 DEF RunInv, ReplaceMessages
<1>42. CASE AppendBashExecution
  BY <1>42 DEF RunInv, AppendBashExecution
<1>43. CASE PopTrailingAssistant
  BY <1>43 DEF RunInv, PopTrailingAssistant
<1>44. CASE UNCHANGED vars
  BY <1>44 DEF RunInv
<1>. HIDE DEF Goal
<1>. QED
  BY <1>1, <1>2, <1>3, <1>4, <1>5, <1>6, <1>7, <1>8, <1>9, <1>10, <1>11, <1>12, <1>13, <1>14, <1>15, <1>16, <1>17, <1>18, <1>19, <1>20, <1>21, <1>22, <1>23, <1>24, <1>25, <1>26, <1>27, <1>28, <1>29, <1>30, <1>31, <1>32, <1>33, <1>34, <1>35, <1>36, <1>37, <1>38, <1>39, <1>40, <1>41, <1>42, <1>43, <1>44
  DEF Next, RunStep, StreamEnds, CommitFailure, HostCall

(* ADR 0014 for every configuration: an error or aborted reply ends the run *)
(* without consuming another queue item and without another turn.           *)
THEOREM HardReplyEndsEveryRun == Spec => HardReplyEndsRun
<1>1. TypeOK /\ RunInv /\ [Next]_vars =>
        [pc' # "idle" /\ reply.reason \in HardReasons
           => turn' = turn /\ pending' = <<>>]_vars
  BY HardReplyStep
<1>. QED
  BY <1>1, StrengtheningInvariant, TypeCorrect, PTL DEF Spec, HardReplyEndsRun

(* After a stop at most one more request is sent, provided the provider     *)
(* answers a stopped request with an error or aborted reply.                *)
THEOREM AtMostOneRequestAfterStop == Spec => OneRequestAfterStop
<1>1. TypeOK /\ RunInv /\ [Next]_vars =>
        [cancelTried /\ pc = "append" => pc' # "stream"]_vars
  BY StopRequestStep
<1>. QED
  BY <1>1, StrengtheningInvariant, TypeCorrect, PTL DEF Spec, OneRequestAfterStop
=============================================================================
