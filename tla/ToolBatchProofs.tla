--------------------------- MODULE ToolBatchProofs ---------------------------
(***************************************************************************)
(* Theorems about ToolBatch, for every number of calls, every cap, every    *)
(* hook configuration and every number of nested calls and updates.         *)
(***************************************************************************)
EXTENDS ToolBatch, SequenceTheorems, FiniteSetTheorems, TLAPS

USE DEF vars, permits

(* The calls of a step are calls, and what a step appends are events. *)
LEMMA EmitsType ==
  ASSUME NEW c \in Calls, NEW e \in Events, Emits(c, e),
         trace \in [Calls -> Seq(Events)]
  PROVE  trace' \in [Calls -> Seq(Events)]
BY DEF Emits

(* A call moves to a phase of the list. *)
LEMMA GoesType ==
  ASSUME NEW c \in Calls, NEW p \in Phases, Goes(c, p), phase \in [Calls -> Phases]
  PROVE  phase' \in [Calls -> Phases]
BY DEF Goes

(* Every field keeps its type in every step.                                *)
LEMMA TypeStep == TypeOK /\ [Next]_vars => TypeOK'
<1>. SUFFICES ASSUME TypeOK, [Next]_vars PROVE TypeOK'
  OBVIOUS
<1>. USE BatchAssumption, EmitsType, GoesType DEF TypeOK
<1>1. ASSUME NEW c \in Calls, Begin(c) PROVE TypeOK'
  BY <1>1 DEF Begin, MayBegin, Phases, Events
<1>2. ASSUME NEW c \in Calls, AbortUnstarted(c) PROVE TypeOK'
  BY <1>2 DEF AbortUnstarted, Phases
<1>3. ASSUME NEW c \in Calls, Reject(c) PROVE TypeOK'
  BY <1>3 DEF Reject, SettleEarly, Phases, Events
<1>4. ASSUME NEW c \in Calls, CallBeforeHook(c) PROVE TypeOK'
  BY <1>4 DEF CallBeforeHook, Phases
<1>5. ASSUME NEW c \in Calls, Pass(c) PROVE TypeOK'
  BY <1>5 DEF Pass, SettleEarly, Prepared, ReleasePreparation, Phases, Events
<1>6. ASSUME NEW c \in Calls, Block(c) PROVE TypeOK'
  BY <1>6 DEF Block, SettleEarly, Phases, Events
<1>7. ASSUME NEW c \in Calls, EnterLane(c) PROVE TypeOK'
  <2>1. CASE stop
    BY <1>7, <2>1 DEF EnterLane, Phases, Events
  <2>2. CASE ~stop
    <3>1. lanes' \in Nat
      BY <1>7, <2>2 DEF EnterLane
    <3>. QED BY <1>7, <2>2, <3>1 DEF EnterLane, Phases
  <2>. QED BY <2>1, <2>2
<1>8. ASSUME NEW c \in Calls, Update(c) PROVE TypeOK'
  BY <1>8 DEF Update, Events
<1>9. ASSUME NEW c \in Calls, NEW v \in BOOLEAN, ToolReturns(c, v) PROVE TypeOK'
  BY <1>9 DEF ToolReturns, Phases, Events
<1>10. ASSUME NEW c \in Calls, CallAfterHook(c) PROVE TypeOK'
  BY <1>10 DEF CallAfterHook, Phases
<1>11. ASSUME NEW c \in Calls, AfterHookReturns(c) PROVE TypeOK'
  BY <1>11 DEF AfterHookReturns, Phases, Events
<1>12. ASSUME NEW c \in Calls, Close(c) PROVE TypeOK'
  BY <1>12 DEF Close, ReleasePreparation, Phases
<1>13. ASSUME NEW c \in Calls, Refused(c) PROVE TypeOK'
  BY <1>13 DEF Refused, ReleasePreparation, Phases
<1>14. ASSUME NEW c \in Calls, NEW k \in Kids, NestedStep(c, k) PROVE TypeOK'
  <2>1. NestedGoes(nested[c][k]) \subseteq NestedPhases
    BY DEF NestedGoes, AfterExec, NestedPhases
  <2>. QED BY <1>14, <2>1 DEF NestedStep
<1>15. ASSUME NEW c \in Calls, NestedRefused(c) PROVE TypeOK'
  BY <1>15 DEF NestedRefused
<1>16. CASE EmitResult
  BY <1>16 DEF EmitResult
<1>17. CASE ResultRefused
  BY <1>17 DEF ResultRefused
<1>18. CASE Return
  BY <1>18 DEF Return, TerminateBatch
<1>19. CASE Fail
  BY <1>19 DEF Fail
<1>20. CASE Abort
  BY <1>20 DEF Abort
<1>21. CASE UNCHANGED vars
  BY <1>21
<1>. QED
  BY <1>1, <1>2, <1>3, <1>4, <1>5, <1>6, <1>7, <1>8, <1>9, <1>10, <1>11, <1>12,
     <1>13, <1>14, <1>15, <1>16, <1>17, <1>18, <1>19, <1>20, <1>21
     DEF Next, BatchStep, CallStep

(* The state of the executor is well typed at every suspension point.       *)
THEOREM TypeCorrect == Spec => []TypeOK
<1>1. ASSUME Init PROVE TypeOK
  <2>. USE <1>1 DEF Init
  <2>1. mode \in {"sequential", "parallel"}
    BY DEF ModeOf
  <2>2. lanes \in Nat /\ <<>> \in Seq(Events)
    BY BatchAssumption DEF Limit
  <2>3. /\ phase \in [Calls -> Phases] /\ gate \in [Calls -> BOOLEAN]
        /\ vote \in [Calls -> BOOLEAN] /\ trace \in [Calls -> Seq(Events)]
        /\ nested \in [Calls -> [Kids -> NestedPhases]]
    BY <2>2 DEF Phases, NestedPhases
  <2>4. /\ stop \in BOOLEAN /\ prep \in Nat /\ afterFree \in Nat /\ holds \in SUBSET Calls
        /\ failure \in BOOLEAN /\ terminate \in BOOLEAN
        /\ results \in Nat /\ status \in {"running", "ok", "error"}
    OBVIOUS
  <2>. QED BY <2>1, <2>2, <2>3, <2>4 DEF TypeOK
<1>. QED BY <1>1, TypeStep, PTL DEF Spec

(* Only a tool that executes has an open update gate or nested calls under  *)
(* way: it closes the one and settles the others before it returns.         *)
LEMMA InsideStep == TypeOK /\ InsideTool /\ [Next]_vars => InsideTool'
<1>. SUFFICES ASSUME TypeOK, InsideTool, [Next]_vars PROVE InsideTool'
  OBVIOUS
<1>. USE DEF TypeOK, InsideTool
<1>1. ASSUME NEW c \in Calls, Begin(c) PROVE InsideTool'
  BY <1>1 DEF Begin, MayBegin, Goes, Emits
<1>2. ASSUME NEW c \in Calls, AbortUnstarted(c) PROVE InsideTool'
  BY <1>2 DEF AbortUnstarted, MayBegin, Goes
<1>3. ASSUME NEW c \in Calls, Reject(c) PROVE InsideTool'
  BY <1>3 DEF Reject, SettleEarly, Goes, Emits
<1>4. ASSUME NEW c \in Calls, CallBeforeHook(c) PROVE InsideTool'
  BY <1>4 DEF CallBeforeHook, Goes
<1>5. ASSUME NEW c \in Calls, Pass(c) PROVE InsideTool'
  BY <1>5 DEF Pass, SettleEarly, Prepared, ReleasePreparation, Goes, Emits
<1>6. ASSUME NEW c \in Calls, Block(c) PROVE InsideTool'
  BY <1>6 DEF Block, SettleEarly, Goes, Emits
<1>7. ASSUME NEW c \in Calls, EnterLane(c) PROVE InsideTool'
  BY <1>7 DEF EnterLane, Goes, Emits
<1>8. ASSUME NEW c \in Calls, Update(c) PROVE InsideTool'
  BY <1>8 DEF Update, Emits
<1>9. ASSUME NEW c \in Calls, NEW v \in BOOLEAN, ToolReturns(c, v) PROVE InsideTool'
  BY <1>9 DEF ToolReturns, Goes, Emits
<1>10. ASSUME NEW c \in Calls, CallAfterHook(c) PROVE InsideTool'
  BY <1>10 DEF CallAfterHook, Goes
<1>11. ASSUME NEW c \in Calls, AfterHookReturns(c) PROVE InsideTool'
  BY <1>11 DEF AfterHookReturns, Goes, Emits
<1>12. ASSUME NEW c \in Calls, Close(c) PROVE InsideTool'
  BY <1>12 DEF Close, ReleasePreparation, Goes
<1>13. ASSUME NEW c \in Calls, Refused(c) PROVE InsideTool'
  BY <1>13 DEF Refused, ReleasePreparation, Goes
<1>14. ASSUME NEW c \in Calls, NEW k \in Kids, NestedStep(c, k) PROVE InsideTool'
  BY <1>14 DEF NestedStep
<1>15. ASSUME NEW c \in Calls, NestedRefused(c) PROVE InsideTool'
  BY <1>15 DEF NestedRefused
<1>16. CASE EmitResult
  BY <1>16 DEF EmitResult
<1>17. CASE ResultRefused
  BY <1>17 DEF ResultRefused
<1>18. CASE Return
  BY <1>18 DEF Return
<1>19. CASE Fail
  BY <1>19 DEF Fail
<1>20. CASE Abort
  BY <1>20 DEF Abort
<1>21. CASE UNCHANGED vars
  BY <1>21
<1>. QED
  BY <1>1, <1>2, <1>3, <1>4, <1>5, <1>6, <1>7, <1>8, <1>9, <1>10, <1>11, <1>12,
     <1>13, <1>14, <1>15, <1>16, <1>17, <1>18, <1>19, <1>20, <1>21
     DEF Next, BatchStep, CallStep

(* The empty vector is paired, and so is the first start event. *)
LEMMA StartPaired ==
  Paired(<<"start">>) /\ <<"start">> # <<>> /\ <<"start">>[Len(<<"start">>)] # "end"
BY DEF Paired

(* Appending leaves no empty sequence. *)
LEMMA AppendNonEmpty == ASSUME NEW S, NEW t \in Seq(S), NEW e PROVE Append(t, e) # <<>>
<1>1. Len(Append(t, e)) = Len(t) + 1 /\ Len(t) \in Nat
  OBVIOUS
<1>. QED BY <1>1

(* An update or an end after a start that has no end yet keeps the events   *)
(* of a call paired.                                                        *)
LEMMA AppendPaired ==
  ASSUME NEW t \in Seq(Events), Paired(t), t # <<>>, t[Len(t)] # "end",
         NEW e \in {"update", "end"}
  PROVE  /\ Paired(Append(t, e)) /\ Append(t, e) # <<>>
         /\ Append(t, e)[Len(Append(t, e))] = e
<1>. DEFINE u == Append(t, e)
<1>1. /\ Len(t) \in Nat /\ Len(t) > 0 /\ Len(u) = Len(t) + 1
      /\ DOMAIN t = 1..Len(t) /\ DOMAIN u = 1..Len(u)
      /\ \A i \in 1..Len(t) : u[i] = t[i]
      /\ u[Len(u)] = e
  BY AppendProperties, LenProperties, EmptySeq DEF Events
<1>2. Paired(u)
  <2>. SUFFICES ASSUME NEW i \in 1..Len(u)
                PROVE  (u[i] = "start" <=> i = 1) /\ (u[i] = "end" => i = Len(u))
    BY <1>1 DEF Paired
  <2>1. CASE i = Len(u)
    BY <1>1, <2>1
  <2>2. CASE i # Len(u)
    <3>1. i \in 1..Len(t) /\ u[i] = t[i]
      BY <1>1, <2>2
    <3>. QED BY <1>1, <3>1 DEF Paired
  <2>. QED BY <2>1, <2>2
<1>. QED BY <1>1, <1>2

(* The events of a call that a step leaves where it is still fit.           *)
LEMMA TraceFrame ==
  ASSUME NEW d \in Calls, TraceFits(d), phase'[d] = phase[d], trace'[d] = trace[d],
         failure => failure', status = "error" => status' = "error"
  PROVE  TraceFits(d)'
BY DEF TraceFits

(* A call that delivers its first event, its last one or an update.         *)
LEMMA TraceEmit ==
  ASSUME TypeOK, NEW c \in Calls, TraceFits(c), NEW e \in Events, Emits(c, e),
         \/ phase[c] = "wait" /\ e = "start" /\ phase'[c] = "opening"
         \/ phase[c] \notin {"wait", "closing", "over"} /\ e = "end" /\ phase'[c] = "closing"
         \/ phase[c] = "exec" /\ e = "update" /\ phase'[c] = "exec"
  PROVE  TraceFits(c)'
<1>1. trace[c] \in Seq(Events) /\ trace'[c] = Append(trace[c], e)
  BY DEF TypeOK, Emits
<1>2. CASE phase[c] = "wait" /\ e = "start" /\ phase'[c] = "opening"
  <2>1. trace'[c] = <<"start">>
    <3>1. trace[c] = <<>>
      BY <1>2 DEF TraceFits
    <3>. QED BY <1>1, <1>2, <3>1
  <2>. QED BY <1>2, <2>1, StartPaired DEF TraceFits
<1>3. CASE phase[c] \notin {"wait", "closing", "over"} /\ e = "end" /\ phase'[c] = "closing"
  BY <1>1, <1>3, AppendPaired DEF TraceFits
<1>4. CASE phase[c] = "exec" /\ e = "update" /\ phase'[c] = "exec"
  BY <1>1, <1>4, AppendPaired DEF TraceFits
<1>. QED BY <1>2, <1>3, <1>4

(* Every step keeps the events of every call in step with its phase. *)
LEMMA TraceStep == TypeOK /\ InsideTool /\ TraceInv /\ [Next]_vars => TraceInv'
<1>. SUFFICES ASSUME TypeOK, InsideTool, TraceInv, [Next]_vars PROVE TraceInv'
  OBVIOUS
<1>. USE DEF TypeOK, TraceInv
<1>1. ASSUME NEW c \in Calls, Begin(c) PROVE TraceInv'
  <2>1. TraceFits(c)'
    BY <1>1, TraceEmit DEF Begin, MayBegin, Goes, Events
  <2>2. \A d \in Calls \ {c} : TraceFits(d)'
    BY <1>1, TraceFrame DEF Emits, Begin, MayBegin, Goes
  <2>. QED BY <2>1, <2>2
<1>2. ASSUME NEW c \in Calls, AbortUnstarted(c) PROVE TraceInv'
  <2>1. TraceFits(c)'
    BY <1>2 DEF AbortUnstarted, MayBegin, Goes, TraceFits
  <2>2. \A d \in Calls \ {c} : TraceFits(d)'
    BY <1>2, TraceFrame DEF AbortUnstarted, MayBegin, Goes
  <2>. QED BY <2>1, <2>2
<1>3. ASSUME NEW c \in Calls, Reject(c) PROVE TraceInv'
  <2>1. TraceFits(c)'
    BY <1>3, TraceEmit DEF Reject, SettleEarly, Goes, Events
  <2>2. \A d \in Calls \ {c} : TraceFits(d)'
    BY <1>3, TraceFrame DEF Emits, Reject, SettleEarly, Goes
  <2>. QED BY <2>1, <2>2
<1>4. ASSUME NEW c \in Calls, CallBeforeHook(c) PROVE TraceInv'
  <2>1. TraceFits(c)'
    BY <1>4 DEF CallBeforeHook, Goes, TraceFits
  <2>2. \A d \in Calls \ {c} : TraceFits(d)'
    BY <1>4, TraceFrame DEF CallBeforeHook, Goes
  <2>. QED BY <2>1, <2>2
<1>5. ASSUME NEW c \in Calls, Pass(c) PROVE TraceInv'
  <2>1. CASE stop
    <3>1. TraceFits(c)'
      BY <1>5, <2>1, TraceEmit DEF Pass, SettleEarly, Goes, Events
    <3>2. \A d \in Calls \ {c} : TraceFits(d)'
      BY <1>5, <2>1, TraceFrame DEF Pass, SettleEarly, Goes, Emits
    <3>. QED BY <3>1, <3>2
  <2>2. CASE ~stop
    <3>1. TraceFits(c)'
      BY <1>5, <2>2 DEF Pass, Prepared, Goes, TraceFits
    <3>2. \A d \in Calls \ {c} : TraceFits(d)'
      BY <1>5, <2>2, TraceFrame DEF Pass, Prepared, Goes
    <3>. QED BY <3>1, <3>2
  <2>. QED BY <2>1, <2>2
<1>6. ASSUME NEW c \in Calls, Block(c) PROVE TraceInv'
  <2>1. TraceFits(c)'
    BY <1>6, TraceEmit DEF Block, SettleEarly, Goes, Events
  <2>2. \A d \in Calls \ {c} : TraceFits(d)'
    BY <1>6, TraceFrame DEF Emits, Block, SettleEarly, Goes
  <2>. QED BY <2>1, <2>2
<1>7. ASSUME NEW c \in Calls, EnterLane(c) PROVE TraceInv'
  <2>1. CASE stop
    <3>1. TraceFits(c)'
      BY <1>7, <2>1, TraceEmit DEF EnterLane, Goes, Events
    <3>2. \A d \in Calls \ {c} : TraceFits(d)'
      BY <1>7, <2>1, TraceFrame DEF EnterLane, Goes, Emits
    <3>. QED BY <3>1, <3>2
  <2>2. CASE ~stop
    <3>1. TraceFits(c)'
      BY <1>7, <2>2 DEF EnterLane, Goes, TraceFits
    <3>2. \A d \in Calls \ {c} : TraceFits(d)'
      BY <1>7, <2>2, TraceFrame DEF EnterLane, Goes
    <3>. QED BY <3>1, <3>2
  <2>. QED BY <2>1, <2>2
<1>8. ASSUME NEW c \in Calls, Update(c) PROVE TraceInv'
  <2>1. TraceFits(c)'
    BY <1>8, TraceEmit DEF Update, InsideTool, Events
  <2>2. \A d \in Calls \ {c} : TraceFits(d)'
    BY <1>8, TraceFrame DEF Emits, Update, InsideTool
  <2>. QED BY <2>1, <2>2
<1>9. ASSUME NEW c \in Calls, NEW v \in BOOLEAN, ToolReturns(c, v) PROVE TraceInv'
  <2>1. CASE ~HasAfter
    <3>1. TraceFits(c)'
      BY <1>9, <2>1, TraceEmit DEF ToolReturns, Goes, Events
    <3>2. \A d \in Calls \ {c} : TraceFits(d)'
      BY <1>9, <2>1, TraceFrame DEF ToolReturns, Goes, Emits
    <3>. QED BY <3>1, <3>2
  <2>2. CASE ~~HasAfter
    <3>1. TraceFits(c)'
      BY <1>9, <2>2 DEF ToolReturns, Goes, TraceFits
    <3>2. \A d \in Calls \ {c} : TraceFits(d)'
      BY <1>9, <2>2, TraceFrame DEF ToolReturns, Goes
    <3>. QED BY <3>1, <3>2
  <2>. QED BY <2>1, <2>2
<1>10. ASSUME NEW c \in Calls, CallAfterHook(c) PROVE TraceInv'
  <2>1. TraceFits(c)'
    BY <1>10 DEF CallAfterHook, Goes, TraceFits
  <2>2. \A d \in Calls \ {c} : TraceFits(d)'
    BY <1>10, TraceFrame DEF CallAfterHook, Goes
  <2>. QED BY <2>1, <2>2
<1>11. ASSUME NEW c \in Calls, AfterHookReturns(c) PROVE TraceInv'
  <2>1. TraceFits(c)'
    BY <1>11, TraceEmit DEF AfterHookReturns, Goes, Events
  <2>2. \A d \in Calls \ {c} : TraceFits(d)'
    BY <1>11, TraceFrame DEF Emits, AfterHookReturns, Goes
  <2>. QED BY <2>1, <2>2
<1>12. ASSUME NEW c \in Calls, Close(c) PROVE TraceInv'
  <2>1. TraceFits(c)'
    BY <1>12 DEF Close, Goes, TraceFits
  <2>2. \A d \in Calls \ {c} : TraceFits(d)'
    BY <1>12, TraceFrame DEF Close, Goes
  <2>. QED BY <2>1, <2>2
<1>13. ASSUME NEW c \in Calls, Refused(c) PROVE TraceInv'
  <2>1. TraceFits(c)'
    BY <1>13 DEF Refused, Goes, TraceFits
  <2>2. \A d \in Calls \ {c} : TraceFits(d)'
    BY <1>13, TraceFrame DEF Refused, Goes
  <2>. QED BY <2>1, <2>2
<1>14. ASSUME NEW c \in Calls, NEW k \in Kids, NestedStep(c, k) PROVE TraceInv'
  BY <1>14, TraceFrame DEF NestedStep
<1>15. ASSUME NEW c \in Calls, NestedRefused(c) PROVE TraceInv'
  BY <1>15, TraceFrame DEF NestedRefused
<1>16. CASE EmitResult
  BY <1>16, TraceFrame DEF EmitResult
<1>17. CASE ResultRefused
  BY <1>17, TraceFrame DEF ResultRefused
<1>18. CASE Return
  BY <1>18, TraceFrame DEF Return
<1>19. CASE Fail
  BY <1>19, TraceFrame DEF Fail
<1>20. CASE Abort
  BY <1>20, TraceFrame DEF Abort
<1>21. CASE UNCHANGED vars
  BY <1>21, TraceFrame
<1>. QED
  BY <1>1, <1>2, <1>3, <1>4, <1>5, <1>6, <1>7, <1>8, <1>9, <1>10, <1>11, <1>12,
     <1>13, <1>14, <1>15, <1>16, <1>17, <1>18, <1>19, <1>20, <1>21
     DEF Next, BatchStep, CallStep

(* Results are delivered in call order, and a sequential batch has not      *)
(* touched the calls after the next one.                                    *)
LEMMA OrderStep == TypeOK /\ TraceInv /\ OrderInv /\ [Next]_vars => OrderInv'
<1>. SUFFICES ASSUME TypeOK, TraceInv, OrderInv, [Next]_vars PROVE OrderInv'
  OBVIOUS
<1>. USE BatchAssumption DEF TypeOK, OrderInv, Calls, Parallel, AllOver
<1>1. ASSUME NEW c \in Calls, Begin(c) PROVE OrderInv'
  BY <1>1 DEF Begin, MayBegin, Goes, Emits
<1>2. ASSUME NEW c \in Calls, AbortUnstarted(c) PROVE OrderInv'
  BY <1>2 DEF AbortUnstarted, MayBegin, Goes
<1>3. ASSUME NEW c \in Calls, Reject(c) PROVE OrderInv'
  BY <1>3 DEF Reject, SettleEarly, Goes, Emits
<1>4. ASSUME NEW c \in Calls, CallBeforeHook(c) PROVE OrderInv'
  BY <1>4 DEF CallBeforeHook, Goes
<1>5. ASSUME NEW c \in Calls, Pass(c) PROVE OrderInv'
  BY <1>5, SMTT(60) DEF Pass, SettleEarly, Prepared, ReleasePreparation, Goes, Emits
<1>6. ASSUME NEW c \in Calls, Block(c) PROVE OrderInv'
  BY <1>6 DEF Block, SettleEarly, Goes, Emits
<1>7. ASSUME NEW c \in Calls, EnterLane(c) PROVE OrderInv'
  BY <1>7 DEF EnterLane, Goes, Emits
<1>8. ASSUME NEW c \in Calls, Update(c) PROVE OrderInv'
  <2>1. trace[c] \in Seq(Events) /\ trace'[c] = Append(trace[c], "update")
    BY <1>8 DEF Update, Emits
  <2>2. trace'[c] # <<>>
    BY <2>1, AppendNonEmpty
  <2>. QED BY <1>8, <2>2 DEF Update, Emits
<1>9. ASSUME NEW c \in Calls, NEW v \in BOOLEAN, ToolReturns(c, v) PROVE OrderInv'
  BY <1>9 DEF ToolReturns, Goes, Emits
<1>10. ASSUME NEW c \in Calls, CallAfterHook(c) PROVE OrderInv'
  BY <1>10 DEF CallAfterHook, Goes
<1>11. ASSUME NEW c \in Calls, AfterHookReturns(c) PROVE OrderInv'
  BY <1>11 DEF AfterHookReturns, Goes, Emits
<1>12. ASSUME NEW c \in Calls, Close(c) PROVE OrderInv'
  BY <1>12 DEF Close, ReleasePreparation, Goes, TraceInv, TraceFits
<1>13. ASSUME NEW c \in Calls, Refused(c) PROVE OrderInv'
  BY <1>13 DEF Refused, ReleasePreparation, Goes, TraceInv, TraceFits
<1>14. ASSUME NEW c \in Calls, NEW k \in Kids, NestedStep(c, k) PROVE OrderInv'
  BY <1>14 DEF NestedStep
<1>15. ASSUME NEW c \in Calls, NestedRefused(c) PROVE OrderInv'
  BY <1>15 DEF NestedRefused
<1>16. CASE EmitResult
  BY <1>16 DEF EmitResult, ResultDue
<1>17. CASE ResultRefused
  <2>1. CASE results' = results
    BY <1>17, <2>1 DEF ResultRefused
  <2>2. CASE results' = results + 1
    BY <1>17, <2>2 DEF ResultRefused, ResultDue
  <2>. QED BY <1>17, <2>1, <2>2 DEF ResultRefused
<1>18. CASE Return
  BY <1>18 DEF Return
<1>19. CASE Fail
  BY <1>19 DEF Fail
<1>20. CASE Abort
  BY <1>20 DEF Abort
<1>21. CASE UNCHANGED vars
  BY <1>21
<1>. QED
  BY <1>1, <1>2, <1>3, <1>4, <1>5, <1>6, <1>7, <1>8, <1>9, <1>10, <1>11, <1>12,
     <1>13, <1>14, <1>15, <1>16, <1>17, <1>18, <1>19, <1>20, <1>21
     DEF Next, BatchStep, CallStep

(* The batch returns only when every call is over or never began.           *)
LEMMA OutlivesStep ==
  TypeOK /\ InsideTool /\ OrderInv /\ NothingOutlivesBatch /\ [Next]_vars
    => NothingOutlivesBatch'
<1>. SUFFICES ASSUME TypeOK, InsideTool, OrderInv, NothingOutlivesBatch, [Next]_vars
              PROVE  NothingOutlivesBatch'
  OBVIOUS
<1>. USE BatchAssumption DEF TypeOK, NothingOutlivesBatch
<1>1. ASSUME NEW c \in Calls, Begin(c) PROVE NothingOutlivesBatch'
  BY <1>1 DEF Begin, MayBegin, Goes, Emits
<1>2. ASSUME NEW c \in Calls, AbortUnstarted(c) PROVE NothingOutlivesBatch'
  BY <1>2 DEF AbortUnstarted, MayBegin, Goes
<1>3. ASSUME NEW c \in Calls, Reject(c) PROVE NothingOutlivesBatch'
  BY <1>3 DEF Reject, SettleEarly, Goes, Emits
<1>4. ASSUME NEW c \in Calls, CallBeforeHook(c) PROVE NothingOutlivesBatch'
  BY <1>4 DEF CallBeforeHook, Goes
<1>5. ASSUME NEW c \in Calls, Pass(c) PROVE NothingOutlivesBatch'
  BY <1>5 DEF Pass, SettleEarly, Prepared, ReleasePreparation, Goes, Emits
<1>6. ASSUME NEW c \in Calls, Block(c) PROVE NothingOutlivesBatch'
  BY <1>6 DEF Block, SettleEarly, Goes, Emits
<1>7. ASSUME NEW c \in Calls, EnterLane(c) PROVE NothingOutlivesBatch'
  BY <1>7 DEF EnterLane, Goes, Emits
<1>8. ASSUME NEW c \in Calls, Update(c) PROVE NothingOutlivesBatch'
  BY <1>8 DEF Update, Emits
<1>9. ASSUME NEW c \in Calls, NEW v \in BOOLEAN, ToolReturns(c, v) PROVE NothingOutlivesBatch'
  BY <1>9 DEF ToolReturns, Goes, Emits
<1>10. ASSUME NEW c \in Calls, CallAfterHook(c) PROVE NothingOutlivesBatch'
  BY <1>10 DEF CallAfterHook, Goes
<1>11. ASSUME NEW c \in Calls, AfterHookReturns(c) PROVE NothingOutlivesBatch'
  BY <1>11 DEF AfterHookReturns, Goes, Emits
<1>12. ASSUME NEW c \in Calls, Close(c) PROVE NothingOutlivesBatch'
  BY <1>12 DEF Close, ReleasePreparation, Goes
<1>13. ASSUME NEW c \in Calls, Refused(c) PROVE NothingOutlivesBatch'
  <2>1. CASE Parallel
    BY <1>13, <2>1 DEF Refused, Goes
  <2>2. CASE ~Parallel
    <3>1. c = results + 1
      BY <1>13, <2>2 DEF Refused, OrderInv, Calls
    <3>2. \A d \in Calls : phase'[d] \in {"wait", "over"}
      BY <1>13, <2>2, <3>1 DEF Refused, Goes, OrderInv, Calls
    <3>3. \A d \in Calls : phase[d] # "exec"
      BY <1>13, <3>2 DEF Refused, Goes
    <3>. QED BY <1>13, <3>2, <3>3 DEF Refused, InsideTool
  <2>. QED BY <2>1, <2>2
<1>14. ASSUME NEW c \in Calls, NEW k \in Kids, NestedStep(c, k) PROVE NothingOutlivesBatch'
  BY <1>14 DEF NestedStep
<1>15. ASSUME NEW c \in Calls, NestedRefused(c) PROVE NothingOutlivesBatch'
  BY <1>15 DEF NestedRefused
<1>16. CASE EmitResult
  BY <1>16 DEF EmitResult
<1>17. CASE ResultRefused
  <2>1. \A d \in Calls : phase[d] \in {"wait", "over"}
    BY <1>17 DEF ResultRefused, ResultDue, OrderInv, Calls, AllOver
  <2>. QED BY <1>17, <2>1 DEF ResultRefused, InsideTool
<1>18. CASE Return
  <2>1. \A d \in Calls : phase[d] \in {"wait", "over"}
    BY <1>18 DEF Return, Complete, OrderInv, Calls
  <2>. QED BY <1>18, <2>1 DEF Return, InsideTool
<1>19. CASE Fail
  BY <1>19 DEF Fail, AllOver, InsideTool
<1>20. CASE Abort
  BY <1>20 DEF Abort
<1>21. CASE UNCHANGED vars
  BY <1>21
<1>. QED
  BY <1>1, <1>2, <1>3, <1>4, <1>5, <1>6, <1>7, <1>8, <1>9, <1>10, <1>11, <1>12,
     <1>13, <1>14, <1>15, <1>16, <1>17, <1>18, <1>19, <1>20, <1>21
     DEF Next, BatchStep, CallStep

(* A batch returns without a refusal, with every result or because of the   *)
(* stop, and its terminate hint is the vote of every result.                *)
LEMMA ReturnStep ==
  TypeOK /\ NothingOutlivesBatch /\ OrderInv /\ ReturnInv /\ [Next]_vars => ReturnInv'
<1>. SUFFICES ASSUME TypeOK, NothingOutlivesBatch, OrderInv, ReturnInv, [Next]_vars
              PROVE  ReturnInv'
  OBVIOUS
<1>. USE BatchAssumption DEF TypeOK, ReturnInv, Parallel, NothingOutlivesBatch, OrderInv, Calls
<1>1. ASSUME NEW c \in Calls, Begin(c) PROVE ReturnInv'
  BY <1>1 DEF Begin, MayBegin, Goes, Emits
<1>2. ASSUME NEW c \in Calls, AbortUnstarted(c) PROVE ReturnInv'
  BY <1>2 DEF AbortUnstarted, MayBegin, Goes
<1>3. ASSUME NEW c \in Calls, Reject(c) PROVE ReturnInv'
  BY <1>3 DEF Reject, SettleEarly, Goes, Emits
<1>4. ASSUME NEW c \in Calls, CallBeforeHook(c) PROVE ReturnInv'
  BY <1>4 DEF CallBeforeHook, Goes
<1>5. ASSUME NEW c \in Calls, Pass(c) PROVE ReturnInv'
  BY <1>5 DEF Pass, SettleEarly, Prepared, ReleasePreparation, Goes, Emits
<1>6. ASSUME NEW c \in Calls, Block(c) PROVE ReturnInv'
  BY <1>6 DEF Block, SettleEarly, Goes, Emits
<1>7. ASSUME NEW c \in Calls, EnterLane(c) PROVE ReturnInv'
  BY <1>7 DEF EnterLane, Goes, Emits
<1>8. ASSUME NEW c \in Calls, Update(c) PROVE ReturnInv'
  BY <1>8 DEF Update, Emits
<1>9. ASSUME NEW c \in Calls, NEW v \in BOOLEAN, ToolReturns(c, v) PROVE ReturnInv'
  BY <1>9 DEF ToolReturns, Goes, Emits
<1>10. ASSUME NEW c \in Calls, CallAfterHook(c) PROVE ReturnInv'
  BY <1>10 DEF CallAfterHook, Goes
<1>11. ASSUME NEW c \in Calls, AfterHookReturns(c) PROVE ReturnInv'
  BY <1>11 DEF AfterHookReturns, Goes, Emits
<1>12. ASSUME NEW c \in Calls, Close(c) PROVE ReturnInv'
  BY <1>12 DEF Close, ReleasePreparation, Goes
<1>13. ASSUME NEW c \in Calls, Refused(c) PROVE ReturnInv'
  BY <1>13 DEF Refused, ReleasePreparation, Goes
<1>14. ASSUME NEW c \in Calls, NEW k \in Kids, NestedStep(c, k) PROVE ReturnInv'
  BY <1>14 DEF NestedStep
<1>15. ASSUME NEW c \in Calls, NestedRefused(c) PROVE ReturnInv'
  BY <1>15 DEF NestedRefused
<1>16. CASE EmitResult
  BY <1>16 DEF EmitResult
<1>17. CASE ResultRefused
  BY <1>17 DEF ResultRefused
<1>18. CASE Return
  <2>1. status' = "ok" => ~failure' /\ (results' = N \/ (stop' /\ ~Parallel'))
    BY <1>18 DEF Return, Complete
  <2>2. terminate' => status' = "ok" /\ results' > 0 /\ \A c \in 1..results' : vote'[c]
    BY <1>18 DEF Return, TerminateBatch
  <2>. QED BY <2>1, <2>2
<1>19. CASE Fail
  BY <1>19 DEF Fail
<1>20. CASE Abort
  BY <1>20 DEF Abort
<1>21. CASE UNCHANGED vars
  BY <1>21
<1>. QED
  BY <1>1, <1>2, <1>3, <1>4, <1>5, <1>6, <1>7, <1>8, <1>9, <1>10, <1>11, <1>12,
     <1>13, <1>14, <1>15, <1>16, <1>17, <1>18, <1>19, <1>20, <1>21
     DEF Next, BatchStep, CallStep

(* The inductive invariant of the executor: what the suspension points      *)
(* imply about gates, nested calls, events and results.                     *)
THEOREM BatchCorrect == Spec => [](TypeOK /\ BatchInv /\ ReturnInv)
<1>1. Init => BatchInv /\ ReturnInv
  <2>. SUFFICES ASSUME Init PROVE BatchInv /\ ReturnInv
    OBVIOUS
  <2>1. InsideTool /\ NothingOutlivesBatch
    BY DEF Init, InsideTool, NothingOutlivesBatch
  <2>2. TraceInv
    BY DEF Init, TraceInv, TraceFits, Paired
  <2>3. OrderInv
    BY BatchAssumption DEF Init, OrderInv, Calls
  <2>. QED BY <2>1, <2>2, <2>3 DEF BatchInv, ReturnInv, Init
<1>2. TypeOK /\ BatchInv /\ ReturnInv /\ [Next]_vars => BatchInv' /\ ReturnInv'
  BY InsideStep, TraceStep, OrderStep, OutlivesStep, ReturnStep DEF BatchInv
<1>. QED BY <1>1, <1>2, TypeCorrect, PTL DEF Spec

(* Nothing of a batch is left running when it returns: the update gates are *)
(* closed and the nested calls are settled on every path out of a call.     *)
THEOREM OutlivesNothing == Spec => []NothingOutlivesBatch
<1>1. BatchInv => NothingOutlivesBatch
  BY DEF BatchInv
<1>. QED BY <1>1, BatchCorrect, PTL

(* ToolExecutionStart and ToolExecutionEnd stay strictly paired, whatever   *)
(* is rejected, blocked, stopped or refused and however late an update is.  *)
THEOREM EventsStayPaired == Spec => []EventsPaired
<1>1. BatchInv /\ ReturnInv => EventsPaired
  <2>. SUFFICES ASSUME BatchInv, ReturnInv, NEW c \in Calls
                PROVE  /\ Paired(trace[c])
                       /\ status = "ok" /\ trace[c] # <<>> => trace[c][Len(trace[c])] = "end"
    BY DEF EventsPaired
  <2>1. TraceFits(c)
    BY DEF BatchInv, TraceInv
  <2>2. status = "ok" => phase[c] \in {"wait", "over"}
    BY DEF BatchInv, NothingOutlivesBatch
  <2>. QED BY <2>1, <2>2 DEF TraceFits, ReturnInv
<1>. QED BY <1>1, BatchCorrect, PTL

(* Transcript results retain source order in both execution modes. *)
THEOREM ResultsInOrder == Spec => []ResultsRetainOrder
<1>1. BatchInv /\ ReturnInv => ResultsRetainOrder
  BY DEF BatchInv, OrderInv, ReturnInv, ResultsRetainOrder
<1>. QED BY <1>1, BatchCorrect, PTL

(* A batch that was not stopped ends the run only by the vote of every call *)
(* of the reply.                                                            *)
THEOREM TerminateNeedsAll == Spec => []TerminateUnanimous
<1>1. ReturnInv => TerminateUnanimous
  BY DEF ReturnInv, TerminateUnanimous, Calls
<1>. QED BY <1>1, BatchCorrect, PTL

(* The calls in a phase, and the permit holders, are finitely many. *)
LEMMA FinitelyMany ==
  ASSUME TypeOK, NEW p
  PROVE  /\ IsFiniteSet(In(p)) /\ Cardinality(In(p)) \in Nat
         /\ IsFiniteSet(holds) /\ Cardinality(holds) \in Nat
<1>1. IsFiniteSet(Calls)
  BY BatchAssumption, FS_Interval DEF Calls
<1>2. In(p) \subseteq Calls /\ holds \subseteq Calls
  BY DEF In, TypeOK
<1>. QED BY <1>1, <1>2, FS_Subset, FS_CardinalityType

(* How a call that moves changes the number of calls in a phase. *)
LEMMA InMoves ==
  ASSUME TypeOK, NEW c \in Calls, NEW q, Goes(c, q), NEW p
  PROVE  /\ phase[c] # p /\ q # p => Cardinality(In(p))' = Cardinality(In(p))
         /\ q = p => Cardinality(In(p))' = Cardinality(In(p)) + 1
         /\ phase[c] = p => Cardinality(In(p))' = Cardinality(In(p)) - 1
<1>1. ASSUME phase[c] # p, q # p PROVE In(p)' = In(p)
  BY <1>1 DEF In, Goes, TypeOK
<1>2. ASSUME q = p PROVE In(p)' = In(p) \cup {c} /\ c \notin In(p)
  BY <1>2 DEF In, Goes, TypeOK
<1>3. ASSUME phase[c] = p PROVE In(p)' = In(p) \ {c} /\ c \in In(p)
  BY <1>3 DEF In, Goes, TypeOK
<1>4. ASSUME q = p PROVE Cardinality(In(p) \cup {c}) = Cardinality(In(p)) + 1
  BY <1>2, <1>4, FinitelyMany, FS_AddElement
<1>5. ASSUME phase[c] = p PROVE Cardinality(In(p) \ {c}) = Cardinality(In(p)) - 1
  BY <1>3, <1>5, FinitelyMany, FS_RemoveElement
<1>. QED BY <1>1, <1>2, <1>3, <1>4, <1>5

(* Handing the preparation permit out and taking it back. *)
LEMMA HoldsMoves ==
  ASSUME TypeOK, NEW c \in Calls
  PROVE  /\ c \notin holds => Cardinality(holds \cup {c}) = Cardinality(holds) + 1
         /\ c \in holds => Cardinality(holds \ {c}) = Cardinality(holds) - 1
         /\ c \notin holds => holds \ {c} = holds
BY FinitelyMany, FS_AddElement, FS_RemoveElement

(* ReleasePreparation gives a permit back exactly when the call holds one.  *)
LEMMA ReleaseKeeps ==
  ASSUME TypeOK, NEW c \in Calls, ReleasePreparation(c), prep + Cardinality(holds) = 1
  PROVE  prep' + Cardinality(holds') = 1
<1>1. CASE c \in holds
  <2>1. prep' = prep + 1 /\ holds' = holds \ {c} /\ prep \in Nat
    BY <1>1 DEF ReleasePreparation, TypeOK
  <2>2. Cardinality(holds \ {c}) = Cardinality(holds) - 1 /\ Cardinality(holds) \in Nat
    BY <1>1, HoldsMoves, FinitelyMany
  <2>. QED BY <2>1, <2>2
<1>2. CASE c \notin holds
  BY <1>2, HoldsMoves DEF ReleasePreparation
<1>. QED BY <1>1, <1>2

(* The preparation permit is with a call that prepares or closes. *)
LEMMA HoldersStep == TypeOK /\ PermitHolders /\ [Next]_vars => PermitHolders'
<1>. SUFFICES ASSUME TypeOK, PermitHolders, [Next]_vars PROVE PermitHolders'
  OBVIOUS
<1>. USE DEF TypeOK, PermitHolders
<1>1. ASSUME NEW c \in Calls, Begin(c) PROVE PermitHolders'
  BY <1>1 DEF Begin, MayBegin, Goes, Emits
<1>2. ASSUME NEW c \in Calls, AbortUnstarted(c) PROVE PermitHolders'
  BY <1>2 DEF AbortUnstarted, MayBegin, Goes
<1>3. ASSUME NEW c \in Calls, Reject(c) PROVE PermitHolders'
  BY <1>3 DEF Reject, SettleEarly, Goes, Emits
<1>4. ASSUME NEW c \in Calls, CallBeforeHook(c) PROVE PermitHolders'
  BY <1>4 DEF CallBeforeHook, Goes
<1>5. ASSUME NEW c \in Calls, Pass(c) PROVE PermitHolders'
  BY <1>5 DEF Pass, SettleEarly, Prepared, ReleasePreparation, Goes, Emits
<1>6. ASSUME NEW c \in Calls, Block(c) PROVE PermitHolders'
  BY <1>6 DEF Block, SettleEarly, Goes, Emits
<1>7. ASSUME NEW c \in Calls, EnterLane(c) PROVE PermitHolders'
  BY <1>7 DEF EnterLane, Goes, Emits
<1>8. ASSUME NEW c \in Calls, Update(c) PROVE PermitHolders'
  BY <1>8 DEF Update, Emits
<1>9. ASSUME NEW c \in Calls, NEW v \in BOOLEAN, ToolReturns(c, v) PROVE PermitHolders'
  BY <1>9 DEF ToolReturns, Goes, Emits
<1>10. ASSUME NEW c \in Calls, CallAfterHook(c) PROVE PermitHolders'
  BY <1>10 DEF CallAfterHook, Goes
<1>11. ASSUME NEW c \in Calls, AfterHookReturns(c) PROVE PermitHolders'
  BY <1>11 DEF AfterHookReturns, Goes, Emits
<1>12. ASSUME NEW c \in Calls, Close(c) PROVE PermitHolders'
  BY <1>12 DEF Close, ReleasePreparation, Goes
<1>13. ASSUME NEW c \in Calls, Refused(c) PROVE PermitHolders'
  BY <1>13 DEF Refused, ReleasePreparation, Goes
<1>14. ASSUME NEW c \in Calls, NEW k \in Kids, NestedStep(c, k) PROVE PermitHolders'
  BY <1>14 DEF NestedStep
<1>15. ASSUME NEW c \in Calls, NestedRefused(c) PROVE PermitHolders'
  BY <1>15 DEF NestedRefused
<1>16. CASE EmitResult
  BY <1>16 DEF EmitResult
<1>17. CASE ResultRefused
  BY <1>17 DEF ResultRefused
<1>18. CASE Return
  BY <1>18 DEF Return
<1>19. CASE Fail
  BY <1>19 DEF Fail
<1>20. CASE Abort
  BY <1>20 DEF Abort
<1>21. CASE UNCHANGED vars
  BY <1>21
<1>. QED
  BY <1>1, <1>2, <1>3, <1>4, <1>5, <1>6, <1>7, <1>8, <1>9, <1>10, <1>11, <1>12,
     <1>13, <1>14, <1>15, <1>16, <1>17, <1>18, <1>19, <1>20, <1>21
     DEF Next, BatchStep, CallStep

(* Every step of a parallel batch hands out and takes back the permits it   *)
(* moves between calls.                                                     *)
LEMMA PermitStep ==
  TypeOK /\ PermitHolders /\ PermitsConserved /\ [Next]_vars => PermitsConserved'
<1>. SUFFICES ASSUME TypeOK, PermitHolders, PermitsConserved, [Next]_vars
              PROVE  PermitsConserved'
  OBVIOUS
<1>. DEFINE execs == Cardinality(In("exec"))
            afters == Cardinality(In("after"))
<1>0. /\ prep \in Nat /\ lanes \in Nat /\ afterFree \in Nat /\ Limit \in Nat
      /\ execs \in Nat /\ afters \in Nat /\ Cardinality(holds) \in Nat
  BY BatchAssumption, FinitelyMany DEF TypeOK, Limit
<1>. USE <1>0 DEF PermitsConserved, Parallel
<1>1. ASSUME NEW c \in Calls, Begin(c) PROVE PermitsConserved'
  <2>1. Goes(c, "opening") /\ phase[c] = "wait" /\ c \notin holds
    BY <1>1 DEF Begin, MayBegin, PermitHolders
  <2>2. execs' = execs /\ afters' = afters
    BY <2>1, InMoves
  <2>3. Cardinality(holds \cup {c}) = Cardinality(holds) + 1
    BY <2>1, HoldsMoves
  <2>4. UNCHANGED <<mode, lanes, afterFree>>
    BY <1>1 DEF Begin
  <2>5. CASE Parallel
    <3>1. prep' = prep - 1 /\ holds' = holds \cup {c}
      BY <1>1, <2>5 DEF Begin
    <3>. QED BY <2>2, <2>3, <2>4, <3>1
  <2>. QED BY <2>4, <2>5
<1>2. ASSUME NEW c \in Calls, AbortUnstarted(c) PROVE PermitsConserved'
  <2>1. Goes(c, "over") /\ phase[c] = "wait" /\ UNCHANGED <<mode, permits>>
    BY <1>2 DEF AbortUnstarted, MayBegin
  <2>2. execs' = execs /\ afters' = afters
    BY <2>1, InMoves
  <2>. QED BY <2>1, <2>2
<1>3. ASSUME NEW c \in Calls, Reject(c) PROVE PermitsConserved'
  <2>1. Goes(c, "closing") /\ phase[c] = "opening" /\ UNCHANGED <<mode, permits>>
    BY <1>3 DEF Reject, SettleEarly
  <2>2. execs' = execs /\ afters' = afters
    BY <2>1, InMoves
  <2>. QED BY <2>1, <2>2
<1>4. ASSUME NEW c \in Calls, CallBeforeHook(c) PROVE PermitsConserved'
  <2>1. Goes(c, "before") /\ phase[c] = "opening" /\ UNCHANGED <<mode, permits>>
    BY <1>4 DEF CallBeforeHook
  <2>2. execs' = execs /\ afters' = afters
    BY <2>1, InMoves
  <2>. QED BY <2>1, <2>2
<1>5. ASSUME NEW c \in Calls, Pass(c) PROVE PermitsConserved'
  <2>1. phase[c] \in {"opening", "before"} /\ mode' = mode
    BY <1>5 DEF Pass
  <2>2. CASE stop
    <3>1. Goes(c, "closing") /\ UNCHANGED permits
      BY <1>5, <2>2 DEF Pass, SettleEarly
    <3>2. execs' = execs /\ afters' = afters
      BY <2>1, <3>1, InMoves
    <3>. QED BY <2>1, <3>1, <3>2
  <2>3. CASE ~stop
    <3>1. Goes(c, "lane") /\ ReleasePreparation(c) /\ UNCHANGED <<lanes, afterFree>>
      BY <1>5, <2>3 DEF Pass, Prepared
    <3>2. execs' = execs /\ afters' = afters
      BY <2>1, <3>1, InMoves
    <3>. QED BY <2>1, <3>1, <3>2, ReleaseKeeps
  <2>. QED BY <2>2, <2>3
<1>6. ASSUME NEW c \in Calls, Block(c) PROVE PermitsConserved'
  <2>1. Goes(c, "closing") /\ phase[c] = "before" /\ UNCHANGED <<mode, permits>>
    BY <1>6 DEF Block, SettleEarly
  <2>2. execs' = execs /\ afters' = afters
    BY <2>1, InMoves
  <2>. QED BY <2>1, <2>2
<1>7. ASSUME NEW c \in Calls, EnterLane(c) PROVE PermitsConserved'
  <2>1. phase[c] = "lane" /\ UNCHANGED <<mode, prep, holds, afterFree>>
    BY <1>7 DEF EnterLane
  <2>2. CASE stop
    <3>1. Goes(c, "closing") /\ UNCHANGED lanes
      BY <1>7, <2>2 DEF EnterLane
    <3>2. execs' = execs /\ afters' = afters
      BY <2>1, <3>1, InMoves
    <3>. QED BY <2>1, <3>1, <3>2
  <2>3. CASE ~stop
    <3>1. Goes(c, "exec") /\ (Parallel => lanes' = lanes - 1)
      BY <1>7, <2>3 DEF EnterLane
    <3>2. execs' = execs + 1 /\ afters' = afters
      BY <2>1, <3>1, InMoves
    <3>. QED BY <2>1, <3>1, <3>2
  <2>. QED BY <2>2, <2>3
<1>8. ASSUME NEW c \in Calls, Update(c) PROVE PermitsConserved'
  BY <1>8 DEF Update, In
<1>9. ASSUME NEW c \in Calls, NEW v \in BOOLEAN, ToolReturns(c, v) PROVE PermitsConserved'
  <2>1. /\ phase[c] = "exec" /\ UNCHANGED <<mode, prep, holds, afterFree>>
        /\ Parallel => lanes' = lanes + 1
        /\ Goes(c, "afterWait") \/ Goes(c, "closing")
    BY <1>9 DEF ToolReturns
  <2>2. execs' = execs - 1 /\ afters' = afters
    BY <2>1, InMoves
  <2>. QED BY <2>1, <2>2
<1>10. ASSUME NEW c \in Calls, CallAfterHook(c) PROVE PermitsConserved'
  <2>1. /\ phase[c] = "afterWait" /\ UNCHANGED <<mode, prep, holds, lanes>>
        /\ Parallel => afterFree' = afterFree - 1
        /\ Goes(c, "after")
    BY <1>10 DEF CallAfterHook
  <2>2. execs' = execs /\ afters' = afters + 1
    BY <2>1, InMoves
  <2>. QED BY <2>1, <2>2
<1>11. ASSUME NEW c \in Calls, AfterHookReturns(c) PROVE PermitsConserved'
  <2>1. /\ phase[c] = "after" /\ UNCHANGED <<mode, prep, holds, lanes>>
        /\ Parallel => afterFree' = afterFree + 1
        /\ Goes(c, "closing")
    BY <1>11 DEF AfterHookReturns
  <2>2. execs' = execs /\ afters' = afters - 1
    BY <2>1, InMoves
  <2>. QED BY <2>1, <2>2
<1>12. ASSUME NEW c \in Calls, Close(c) PROVE PermitsConserved'
  <2>1. /\ phase[c] \in {"opening", "closing"} /\ UNCHANGED <<mode, lanes, afterFree>>
        /\ Goes(c, "over") /\ ReleasePreparation(c)
    BY <1>12 DEF Close
  <2>2. execs' = execs /\ afters' = afters
    BY <2>1, InMoves
  <2>. QED BY <2>1, <2>2, ReleaseKeeps
<1>13. ASSUME NEW c \in Calls, Refused(c) PROVE PermitsConserved'
  <2>1. /\ phase[c] \in {"opening", "closing"} /\ UNCHANGED <<mode, lanes, afterFree>>
        /\ Goes(c, "over") /\ ReleasePreparation(c)
    BY <1>13 DEF Refused
  <2>2. execs' = execs /\ afters' = afters
    BY <2>1, InMoves
  <2>. QED BY <2>1, <2>2, ReleaseKeeps
<1>14. ASSUME NEW c \in Calls, NEW k \in Kids, NestedStep(c, k) PROVE PermitsConserved'
  BY <1>14 DEF NestedStep, In
<1>15. ASSUME NEW c \in Calls, NestedRefused(c) PROVE PermitsConserved'
  BY <1>15 DEF NestedRefused, In
<1>16. CASE EmitResult
  BY <1>16 DEF EmitResult, In
<1>17. CASE ResultRefused
  BY <1>17 DEF ResultRefused, In
<1>18. CASE Return
  BY <1>18 DEF Return, In
<1>19. CASE Fail
  BY <1>19 DEF Fail, In
<1>20. CASE Abort
  BY <1>20 DEF Abort, In
<1>21. CASE UNCHANGED vars
  BY <1>21 DEF In
<1>. QED
  BY <1>1, <1>2, <1>3, <1>4, <1>5, <1>6, <1>7, <1>8, <1>9, <1>10, <1>11, <1>12,
     <1>13, <1>14, <1>15, <1>16, <1>17, <1>18, <1>19, <1>20, <1>21
     DEF Next, BatchStep, CallStep

(* No permit is lost or made up on any path out of a call, so the cap on    *)
(* tools in flight holds and no call waits for a permit that is gone.       *)
THEOREM PermitsNeverLost == Spec => []PermitsConserved
<1>1. Init => PermitHolders /\ PermitsConserved
  <2>. SUFFICES ASSUME Init PROVE PermitHolders /\ PermitsConserved
    OBVIOUS
  <2>1. In("exec") = {} /\ In("after") = {} /\ holds = {}
    BY DEF Init, In
  <2>2. Cardinality({}) = 0
    BY FS_EmptySet
  <2>3. Limit \in Nat
    BY BatchAssumption DEF Limit
  <2>4. prep = 1 /\ lanes = Limit /\ afterFree = 1
    BY DEF Init
  <2>. QED BY <2>1, <2>2, <2>3, <2>4 DEF PermitHolders, PermitsConserved
<1>. QED BY <1>1, HoldersStep, PermitStep, TypeCorrect, PTL DEF Spec

(* A call that moves to its end is settled from then on, one that moves     *)
(* anywhere else is not, and no other call is concerned.                    *)
LEMMA SettledMoves ==
  ASSUME TypeOK, NEW c \in Calls, NEW q, Goes(c, q)
  PROVE  /\ q \in {"closing", "over"} => SettledCalls' = SettledCalls \cup {c}
         /\ phase[c] \notin {"closing", "over"} /\ q \notin {"closing", "over"}
              => SettledCalls' = SettledCalls
BY DEF TypeOK, Goes, SettledCalls

(* A call that delivers an event is started from then on. *)
LEMMA StartedMoves ==
  ASSUME TypeOK, NEW c \in Calls, NEW e \in Events, Emits(c, e)
  PROVE  StartedCalls' = StartedCalls \cup {c}
<1>1. trace[c] \in Seq(Events) /\ trace'[c] = Append(trace[c], e)
  BY DEF TypeOK, Emits
<1>2. trace'[c] # <<>>
  BY <1>1, AppendNonEmpty
<1>. QED BY <1>2 DEF TypeOK, Emits, StartedCalls

(* A call between its first event and its last is started, is not settled,  *)
(* and its batch runs; in a sequential one it is the next to be answered.   *)
LEMMA UnderWay ==
  ASSUME TypeOK, BatchInv, NEW c \in Calls, phase[c] \notin {"wait", "over"}
  PROVE  /\ status = "running" /\ c \in StartedCalls
         /\ phase[c] # "closing" => c \notin SettledCalls
         /\ Parallel => results = 0
         /\ ~Parallel => c = results + 1 /\ StartedCalls \subseteq SettledCalls \cup {c}
<1>1. status = "running" /\ c \in StartedCalls /\ (phase[c] # "closing" => c \notin SettledCalls)
  BY DEF TypeOK, BatchInv, NothingOutlivesBatch, TraceInv, TraceFits, StartedCalls, SettledCalls
<1>2. Parallel => results = 0
  BY DEF TypeOK, BatchInv, OrderInv, AllOver
<1>3. ASSUME ~Parallel
      PROVE  c = results + 1 /\ StartedCalls \subseteq SettledCalls \cup {c}
  <2>1. c = results + 1
    BY <1>3 DEF TypeOK, BatchInv, OrderInv, Calls
  <2>2. ASSUME NEW d \in StartedCalls PROVE d \in SettledCalls \cup {c}
    <3>1. d \in Calls /\ phase[d] # "wait"
      BY <2>2 DEF StartedCalls, BatchInv, TraceInv, TraceFits
    <3>2. d \in 1..results \/ d = c
      BY <1>3, <2>1, <3>1 DEF TypeOK, BatchInv, OrderInv, Calls
    <3>. QED BY <3>1, <3>2 DEF BatchInv, OrderInv, SettledCalls
  <2>. QED BY <2>1, <2>2
<1>. QED BY <1>1, <1>2, <1>3

(* A call that waits is neither started nor settled. *)
LEMMA NotBegun ==
  ASSUME BatchInv, NEW c \in Calls, phase[c] = "wait"
  PROVE  c \in Calls \ (StartedCalls \cup SettledCalls)
BY DEF BatchInv, TraceInv, TraceFits, StartedCalls, SettledCalls

(* A call under way settles: the contract's End. *)
LEMMA SettlesIsEnd ==
  ASSUME TypeOK, BatchInv, NEW c \in Calls, phase[c] \notin {"wait", "closing", "over"},
         Goes(c, "closing"), Emits(c, "end"),
         UNCHANGED <<mode, stop, failure, results, status>>
  PROVE  Contract!End(c)
<1>1. SettledCalls' = SettledCalls \cup {c}
  BY SettledMoves
<1>2. StartedCalls' = StartedCalls \cup {c}
  BY StartedMoves DEF Events
<1>. QED BY <1>1, <1>2, UnderWay DEF Contract!End

(* A call under way goes on: the contract does not see it. *)
LEMMA GoesOnIsStutter ==
  ASSUME TypeOK, NEW c \in Calls, NEW q, phase[c] \notin {"closing", "over"},
         q \notin {"closing", "over"}, Goes(c, q),
         UNCHANGED <<mode, stop, trace, failure, results, status>>
  PROVE  UNCHANGED Contract!vars
BY SettledMoves DEF Contract!vars, StartedCalls

(* A result that is due is due in the contract. *)
LEMMA DueInContract ==
  ASSUME TypeOK, BatchInv, ResultDue
  PROVE  /\ mode = "sequential" => results + 1 \in SettledCalls /\ StartedCalls # {}
         /\ mode = "parallel" => SettledCalls = Contract!Calls /\ ~failure
<1>0. results + 1 \in Calls
  BY BatchAssumption DEF ResultDue, TypeOK, Calls
<1>1. ASSUME mode = "sequential" PROVE results + 1 \in SettledCalls /\ StartedCalls # {}
  <2>1. phase[results + 1] = "over"
    BY <1>1 DEF ResultDue, Parallel
  <2>2. trace[results + 1] # <<>>
    BY <1>0, <1>1, <2>1 DEF BatchInv, OrderInv, Parallel
  <2>. QED BY <1>0, <2>1, <2>2 DEF SettledCalls, StartedCalls
<1>2. ASSUME mode = "parallel" PROVE SettledCalls = Contract!Calls /\ ~failure
  BY <1>2 DEF ResultDue, Parallel, AllOver, SettledCalls, Contract!Calls, Calls
<1>. QED BY <1>1, <1>2

(* Every step of the executor is a step of the contract or leaves what the  *)
(* contract speaks of alone.                                                *)
LEMMA ContractStep ==
  TypeOK /\ BatchInv /\ [Next]_vars => [Contract!Next]_(Contract!vars)
<1>. SUFFICES ASSUME TypeOK, BatchInv, [Next]_vars PROVE [Contract!Next]_(Contract!vars)
  OBVIOUS
<1>. USE DEF Contract!Next, Contract!Calls, Calls
<1>1. ASSUME NEW c \in Calls, Begin(c) PROVE [Contract!Next]_(Contract!vars)
  <2>1. StartedCalls' = StartedCalls \cup {c} /\ SettledCalls' = SettledCalls
    BY <1>1, StartedMoves, SettledMoves DEF Begin, MayBegin, Events
  <2>2. /\ status = "running" /\ ~stop /\ phase[c] = "wait"
        /\ mode = "sequential" => c = results + 1
        /\ UNCHANGED <<mode, stop, failure, results, status>>
    BY <1>1 DEF Begin, MayBegin, Parallel
  <2>3. Contract!Start(c)
    BY <2>1, <2>2, NotBegun DEF Contract!Start
  <2>. QED BY <2>3
<1>2. ASSUME NEW c \in Calls, AbortUnstarted(c) PROVE [Contract!Next]_(Contract!vars)
  <2>1. StartedCalls' = StartedCalls /\ SettledCalls' = SettledCalls \cup {c}
    BY <1>2, SettledMoves DEF AbortUnstarted, StartedCalls
  <2>2. /\ status = "running" /\ stop /\ phase[c] = "wait" /\ mode = "parallel"
        /\ UNCHANGED <<mode, stop, failure, results, status>>
    BY <1>2 DEF AbortUnstarted, MayBegin, Parallel
  <2>3. Contract!Aborted(c)
    BY <2>1, <2>2, NotBegun DEF Contract!Aborted
  <2>. QED BY <2>3
<1>3. ASSUME NEW c \in Calls, Reject(c) PROVE [Contract!Next]_(Contract!vars)
  <2>1. Contract!End(c)
    BY <1>3, SettlesIsEnd DEF Reject, SettleEarly
  <2>. QED BY <2>1
<1>4. ASSUME NEW c \in Calls, CallBeforeHook(c) PROVE [Contract!Next]_(Contract!vars)
  BY <1>4, GoesOnIsStutter DEF CallBeforeHook
<1>5. ASSUME NEW c \in Calls, Pass(c) PROVE [Contract!Next]_(Contract!vars)
  <2>1. CASE stop
    <3>1. Contract!End(c)
      BY <1>5, <2>1, SettlesIsEnd DEF Pass, SettleEarly
    <3>. QED BY <3>1
  <2>2. CASE ~stop
    BY <1>5, <2>2, GoesOnIsStutter DEF Pass, Prepared
  <2>. QED BY <2>1, <2>2
<1>6. ASSUME NEW c \in Calls, Block(c) PROVE [Contract!Next]_(Contract!vars)
  <2>1. Contract!End(c)
    BY <1>6, SettlesIsEnd DEF Block, SettleEarly
  <2>. QED BY <2>1
<1>7. ASSUME NEW c \in Calls, EnterLane(c) PROVE [Contract!Next]_(Contract!vars)
  <2>1. CASE stop
    <3>1. Contract!End(c)
      BY <1>7, <2>1, SettlesIsEnd DEF EnterLane
    <3>. QED BY <3>1
  <2>2. CASE ~stop
    BY <1>7, <2>2, GoesOnIsStutter DEF EnterLane
  <2>. QED BY <2>1, <2>2
<1>8. ASSUME NEW c \in Calls, Update(c) PROVE [Contract!Next]_(Contract!vars)
  <2>1. phase[c] = "exec"
    BY <1>8 DEF Update, BatchInv, InsideTool
  <2>2. StartedCalls' = StartedCalls
    BY <1>8, <2>1, StartedMoves, UnderWay DEF Update, Events
  <2>. QED BY <1>8, <2>2 DEF Update, Contract!vars, SettledCalls
<1>9. ASSUME NEW c \in Calls, NEW v \in BOOLEAN, ToolReturns(c, v) PROVE [Contract!Next]_(Contract!vars)
  <2>1. CASE ~HasAfter
    <3>1. Contract!End(c)
      BY <1>9, <2>1, SettlesIsEnd DEF ToolReturns
    <3>. QED BY <3>1
  <2>2. CASE HasAfter
    BY <1>9, <2>2, GoesOnIsStutter DEF ToolReturns
  <2>. QED BY <2>1, <2>2
<1>10. ASSUME NEW c \in Calls, CallAfterHook(c) PROVE [Contract!Next]_(Contract!vars)
  BY <1>10, GoesOnIsStutter DEF CallAfterHook
<1>11. ASSUME NEW c \in Calls, AfterHookReturns(c) PROVE [Contract!Next]_(Contract!vars)
  <2>1. Contract!End(c)
    BY <1>11, SettlesIsEnd DEF AfterHookReturns
  <2>. QED BY <2>1
<1>12. ASSUME NEW c \in Calls, Close(c) PROVE [Contract!Next]_(Contract!vars)
  <2>1. SettledCalls' = SettledCalls
    BY <1>12, SettledMoves DEF Close, SettledCalls
  <2>. QED BY <1>12, <2>1 DEF Close, Contract!vars, StartedCalls
<1>13. ASSUME NEW c \in Calls, Refused(c) PROVE [Contract!Next]_(Contract!vars)
  <2>1. /\ phase[c] \in {"opening", "closing"} /\ Goes(c, "over")
        /\ UNCHANGED <<mode, stop, results, trace>>
    BY <1>13 DEF Refused
  <2>2. SettledCalls' = SettledCalls \cup {c} /\ StartedCalls' = StartedCalls
    BY <2>1, SettledMoves DEF StartedCalls
  <2>3. CASE Parallel
    <3>1. Contract!RefusedInParallel(c)
      BY <1>13, <2>1, <2>2, <2>3, UnderWay DEF Refused, Parallel, Contract!RefusedInParallel
    <3>. QED BY <3>1
  <2>4. CASE ~Parallel
    <3>1. SettledCalls' \in {SettledCalls, SettledCalls \cup StartedCalls}
      BY <2>1, <2>2, <2>4, UnderWay
    <3>2. mode = "sequential" /\ UNCHANGED failure /\ status' = "error"
      BY <1>13, <2>4 DEF Refused, TypeOK, Parallel
    <3>3. results' = results /\ results' <= N /\ StartedCalls # {} /\ status = "running"
      BY <2>1, UnderWay DEF TypeOK, BatchInv, OrderInv
    <3>4. Contract!FailAtOnce
      BY <2>1, <2>2, <3>1, <3>2, <3>3 DEF Contract!FailAtOnce
    <3>. QED BY <3>4
  <2>. QED BY <2>3, <2>4
<1>14. ASSUME NEW c \in Calls, NEW k \in Kids, NestedStep(c, k) PROVE [Contract!Next]_(Contract!vars)
  BY <1>14 DEF NestedStep, Contract!vars, StartedCalls, SettledCalls
<1>15. ASSUME NEW c \in Calls, NestedRefused(c) PROVE [Contract!Next]_(Contract!vars)
  <2>1. SettledCalls' = SettledCalls /\ StartedCalls' = StartedCalls
    BY <1>15 DEF NestedRefused, SettledCalls, StartedCalls
  <2>2. Contract!RefusedInParallel(c)
    BY <1>15, <2>1, UnderWay DEF NestedRefused, Parallel, Contract!RefusedInParallel
  <2>. QED BY <2>2
<1>16. CASE EmitResult
  <2>1. SettledCalls' = SettledCalls /\ StartedCalls' = StartedCalls
    BY <1>16 DEF EmitResult, SettledCalls, StartedCalls
  <2>2. Contract!Result
    BY <1>16, <2>1, DueInContract DEF EmitResult, ResultDue, TypeOK, Contract!Result
  <2>. QED BY <2>2
<1>17. CASE ResultRefused
  <2>1. SettledCalls' = SettledCalls /\ StartedCalls' = StartedCalls
    BY <1>17 DEF ResultRefused, SettledCalls, StartedCalls
  <2>2. results' <= N
    BY <1>17, BatchAssumption DEF ResultRefused, ResultDue, TypeOK
  <2>3. Contract!FailAtOnce
    BY <1>17, <2>1, <2>2, DueInContract DEF ResultRefused, TypeOK, Contract!FailAtOnce
  <2>. QED BY <2>3
<1>18. CASE Return
  <2>1. SettledCalls' = SettledCalls /\ StartedCalls' = StartedCalls
    BY <1>18 DEF Return, SettledCalls, StartedCalls
  <2>2. results # N => mode = "sequential" /\ stop /\ phase[results + 1] = "wait" /\ results < N
    BY <1>18 DEF Return, Complete, TypeOK, Parallel
  <2>3. results # N => StartedCalls = 1..results
    <3>. SUFFICES ASSUME results # N PROVE StartedCalls = 1..results
      OBVIOUS
    <3>1. ASSUME NEW d \in Calls PROVE d \in StartedCalls <=> d \in 1..results
      <4>1. d \in 1..results => phase[d] = "over" /\ trace[d] # <<>>
        BY <2>2 DEF BatchInv, OrderInv, Parallel, TypeOK, Calls
      <4>2. d \notin 1..results => phase[d] = "wait"
        BY <2>2 DEF BatchInv, OrderInv, Parallel, TypeOK, Calls
      <4>. QED BY <4>1, <4>2 DEF BatchInv, TraceInv, TraceFits, StartedCalls
    <3>2. StartedCalls \subseteq Calls /\ 1..results \subseteq Calls
      BY BatchAssumption DEF StartedCalls, Calls, TypeOK, BatchInv, OrderInv
    <3>. QED BY <3>1, <3>2
  <2>4. Contract!Return
    BY <1>18, <2>1, <2>2, <2>3 DEF Return, Contract!Return
  <2>. QED BY <2>4
<1>19. CASE Fail
  <2>1. SettledCalls' = SettledCalls /\ StartedCalls' = StartedCalls /\ SettledCalls = Calls
    BY <1>19 DEF Fail, AllOver, SettledCalls, StartedCalls
  <2>2. Contract!FailAfterAll
    BY <1>19, <2>1 DEF Fail, Contract!FailAfterAll, Contract!Calls, Calls
  <2>. QED BY <2>2
<1>20. CASE Abort
  <2>1. SettledCalls' = SettledCalls /\ StartedCalls' = StartedCalls
    BY <1>20 DEF Abort, SettledCalls, StartedCalls
  <2>2. Contract!Abort
    BY <1>20, <2>1 DEF Abort, Contract!Abort
  <2>. QED BY <2>2
<1>21. CASE UNCHANGED vars
  BY <1>21 DEF Contract!vars, StartedCalls, SettledCalls
<1>. QED
  BY <1>1, <1>2, <1>3, <1>4, <1>5, <1>6, <1>7, <1>8, <1>9, <1>10, <1>11, <1>12,
     <1>13, <1>14, <1>15, <1>16, <1>17, <1>18, <1>19, <1>20, <1>21
     DEF Next, BatchStep, CallStep

(* The executor keeps the contract the turn machine is modelled against, in *)
(* both modes, with every hook, permit and nested call underneath.          *)
THEOREM ExecutorImplementsContract == Spec => ImplementsContract
<1>1. Init => Contract!Init
  <2>. SUFFICES ASSUME Init PROVE Contract!Init
    OBVIOUS
  <2>1. mode \in {"sequential", "parallel"}
    BY DEF Init, ModeOf
  <2>2. StartedCalls = {} /\ SettledCalls = {}
    BY DEF Init, StartedCalls, SettledCalls
  <2>. QED BY <2>1, <2>2 DEF Init, Contract!Init
<1>. QED BY <1>1, ContractStep, BatchCorrect, PTL DEF Spec, ImplementsContract, Contract!Spec
=============================================================================
