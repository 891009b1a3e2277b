------------------------- MODULE DagWorkflow_proofs -------------------------
(***************************************************************************)
(* Theorems about DagWorkflow, for every set of steps, every definition    *)
(* and every number of lost writes.                                        *)
(*                                                                         *)
(* TypeOK is not inductive alone (FinalizeAction copies results[s] into a  *)
(* row), so typing is proved together with the result of a goroutine that  *)
(* is about to finalize; everything else follows from IInv.                *)
(***************************************************************************)
EXTENDS DagWorkflow, TLAPS

-----------------------------------------------------------------------------
(* Typing.                                                                 *)

\* A goroutine in front of finalizeStep has an outcome to write.
FinalizingHasResult ==
  \A s \in Steps : thread[s] = "finalizing" => results[s] \in {"complete", "failed"}

TypeInv == TypeOK /\ FinalizingHasResult

\* Every variable has its type before the first step.
LEMMA TypeInit == Init => TypeInv
<1> SUFFICES ASSUME Init PROVE TypeInv
  OBVIOUS
<1>1. outputs \in [Steps -> StepOutcome \cup {"none"}] /\ results \in [Steps -> StepOutcome \cup {"none"}]
  BY DEF Init
<1>2. thread \in [Steps -> ThreadState] /\ child \in [Steps -> ChildState]
  BY DEF Init, ThreadState, ChildState
<1>3. sandboxes \in [Groups -> {"none", "live", "killed", "orphaned"}]
  BY DEF Init
<1>4. stepRun \in [Steps -> {"absent", "complete", "failed"} \cup Unfinished]
  BY DEF Init
<1>5. lost \in 0..MaxLostWrites
  BY FiniteAssumption DEF Init
<1>6. QED
  BY <1>1, <1>2, <1>3, <1>4, <1>5 DEF Init, TypeInv, TypeOK, FinalizingHasResult

\* The actions of the scheduling loop keep the types.
LEMMA TypeEngine == ASSUME TypeInv, Engine PROVE TypeInv'
<1> USE FiniteAssumption, StepsAssumption
    DEF TypeInv, TypeOK, FinalizingHasResult, StepOutcome, ThreadState,
        ChildState, Unfinished, RunTerminal, locals, rows, Return, LoseWrite
<1>1. CASE MarkRunning
  BY <1>1 DEF MarkRunning
<1>2. CASE MarkRunningFails
  BY <1>2 DEF MarkRunningFails
<1>3. CASE Preflight
  BY <1>3 DEF Preflight
<1>4. CASE Schedule
  BY <1>4 DEF Schedule, FindReady
<1>5. ASSUME NEW s \in Steps, ProvisionGroup(s) PROVE TypeInv'
  BY <1>5 DEF ProvisionGroup
<1>6. CASE Launch
  BY <1>6 DEF Launch
<1>7. CASE StepsJoin
  BY <1>7 DEF StepsJoin
<1>8. ASSUME NEW s \in Steps, CollectResult(s) PROVE TypeInv'
  <2>1. pending' \in SUBSET Steps /\ collect' \in SUBSET Steps
    BY <1>8 DEF CollectResult
  <2>2. outputs' \in [Steps -> StepOutcome \cup {"none"}]
    BY <1>8 DEF CollectResult
  <2>3. inbox' \in SUBSET (({"step_failed"} \X Steps) \cup {<<"output_ready">>})
    BY <1>8 DEF CollectResult
  <2>4. stepFailed' \in BOOLEAN /\ sentStepFailedNotification' \in BOOLEAN
    BY <1>8 DEF CollectResult, FailsRun
  <2>5. lost' \in 0..MaxLostWrites
    BY <1>8 DEF CollectResult
  <2>6. QED
    BY <1>8, <2>1, <2>2, <2>3, <2>4, <2>5 DEF CollectResult
<1>9. CASE EndOfBatch
  BY <1>9 DEF EndOfBatch
<1>10. ASSUME NEW g \in Groups, CleanupGroup(g) PROVE TypeInv'
  BY <1>10 DEF CleanupGroup
<1>11. CASE FinishRun
  BY <1>11 DEF FinishRun, FinalStatus
<1>12. CASE CloseRun
  BY <1>12 DEF CloseRun, Open, Step!Open
<1>13. QED
  BY <1>1, <1>2, <1>3, <1>4, <1>5, <1>6, <1>7, <1>8, <1>9, <1>10, <1>11, <1>12 DEF Engine

\* The actions of a step's goroutine keep the types.
LEMMA TypeThread ==
  ASSUME TypeInv, NEW s \in Steps, StepGoroutine(s) PROVE TypeInv'
<1> USE FiniteAssumption
    DEF TypeInv, TypeOK, FinalizingHasResult, StepOutcome, ThreadState,
        ChildState, Unfinished, RunTerminal, StepFrame, Finish, Moves, LoseWrite
<1>1. CASE BeginStep(s)
  BY <1>1 DEF BeginStep
<1>2. CASE CreateStepRun(s)
  BY <1>2 DEF CreateStepRun
<1>3. CASE ExecuteAction(s)
  BY <1>3 DEF ExecuteAction
<1>4. CASE FinalizeAction(s)
  BY <1>4 DEF FinalizeAction
<1>5. CASE ChildReturns(s)
  BY <1>5 DEF ChildReturns
<1>6. CASE ThreadCancelled(s)
  BY <1>6 DEF ThreadCancelled
<1>7. QED
  BY <1>1, <1>2, <1>3, <1>4, <1>5, <1>6 DEF StepGoroutine

\* What a child may do to its own row, outcome and writes.
ChildEffect(s) ==
  \/ /\ child[s] \in {"running", "cancelling"} /\ stepRun[s] \in Unfinished
     /\ stepRun'[s] \in {"running", "awaiting_input"} /\ child'[s] = child[s] /\ lost' = lost
  \/ stepRun'[s] = stepRun[s] /\ child'[s] = child[s] /\ lost' = lost + 1
  \/ /\ child[s] \in {"running", "cancelling"} /\ stepRun[s] \in Unfinished
     /\ \/ child'[s] \in {"complete", "failed"} /\ stepRun'[s] = child'[s] /\ lost' = lost
        \/ child'[s] = "failed" /\ stepRun'[s] = stepRun[s] /\ lost' = lost + 1
  \/ /\ child[s] = "cancelling" /\ child'[s] = "cancelled"
     /\ \/ stepRun'[s] \in {stepRun[s], "complete", "failed"} /\ lost' = lost
        \/ stepRun'[s] = stepRun[s] /\ lost' = lost + 1
  \/ /\ child[s] \in {"cancelling", "cancelled", "terminated"}
     /\ stepRun'[s] = "running" /\ child'[s] = child[s] /\ lost' = lost

\* The steps of a child, by what they change.
LEMMA ChildFacts ==
  ASSUME TypeOK, NEW s \in Steps, ChildWorks(s) \/ ChildEnds(s) \/ ChildAnswered(s) \/ ChildCancelled(s)
  PROVE  /\ UNCHANGED <<def, pc, cancelled, retErr, locals, sandboxes, thread, run, overwritten, inbox,
                        sentStepFailedNotification>>
         /\ stepRun' \in [Steps -> {"absent", "complete", "failed"} \cup Unfinished]
         /\ child' \in [Steps -> ChildState] /\ lost' \in 0..MaxLostWrites
         /\ \A t \in Steps \ {s} : stepRun'[t] = stepRun[t] /\ child'[t] = child[t]
         /\ child[s] # "none" /\ ChildEffect(s)
<1>1. ChildFrame(s) /\ child[s] # "none"
  BY DEF ChildWorks, ChildEnds, ChildAnswered, ChildCancelled, Open, Step!Open
<1>2. /\ \E status \in {"complete", "failed"} \cup Unfinished : stepRun' = [stepRun EXCEPT ![s] = status]
      /\ \E outcome \in {child[s], "complete", "failed", "cancelled"} : child' = [child EXCEPT ![s] = outcome]
      /\ lost' \in 0..MaxLostWrites
  BY <1>1 DEF ChildFrame, Step!Unfinished, Unfinished, Open
<1>3. ChildEffect(s)
  BY DEF ChildWorks, ChildEnds, ChildAnswered, ChildCancelled, ChildEffect, Unfinished,
     Step!Work, Step!Lose, Step!Complete, Step!Fail, Step!Cancelled, Step!Straggle, Step!Open, Step!Unfinished, Step!LosesWrite
<1>4. stepRun \in [Steps -> {"absent", "complete", "failed"} \cup Unfinished] /\ child \in [Steps -> ChildState]
  BY DEF TypeOK
<1>5. stepRun' \in [Steps -> {"absent", "complete", "failed"} \cup Unfinished] /\ child' \in [Steps -> ChildState]
  BY <1>2, <1>4 DEF ChildState
<1>6. \A t \in Steps \ {s} : stepRun'[t] = stepRun[t] /\ child'[t] = child[t]
  BY <1>2, <1>4
<1> QED
  BY <1>1, <1>2, <1>3, <1>5, <1>6 DEF ChildFrame

\* A request that lands late, by what it changes.
LEMMA RequestFacts ==
  ASSUME TypeOK, NEW s \in Steps, RequestLands(s)
  PROVE  /\ UNCHANGED <<def, pc, cancelled, retErr, locals, sandboxes, thread, child, run, inbox,
                        sentStepFailedNotification, lost>>
         /\ stepRun' \in [Steps -> {"absent", "complete", "failed"} \cup Unfinished]
         /\ stepRun[s] # "absent" /\ stepRun'[s] = "awaiting_input"
         /\ \A t \in Steps \ {s} : stepRun'[t] = stepRun[t]
         /\ overwritten' \in SUBSET Steps /\ overwritten \subseteq overwritten'
         /\ (stepRun[s] \in {"complete", "failed"} => s \in overwritten')
<1>1. stepRun' = [stepRun EXCEPT ![s] = "awaiting_input"] /\ stepRun \in [Steps -> {"absent", "complete", "failed"} \cup Unfinished]
  BY DEF RequestLands, TypeOK
<1>2. /\ stepRun' \in [Steps -> {"absent", "complete", "failed"} \cup Unfinished] /\ stepRun'[s] = "awaiting_input"
      /\ \A t \in Steps \ {s} : stepRun'[t] = stepRun[t]
  BY <1>1 DEF Unfinished
<1> QED
  BY <1>2 DEF RequestLands, TypeOK

\* The actions of a child workflow keep the types.
LEMMA TypeChild ==
  ASSUME TypeInv, NEW s \in Steps, ChildWorkflow(s) PROVE TypeInv'
<1> USE DEF TypeInv, TypeOK, FinalizingHasResult, locals
<1>1. CASE ChildWorks(s) \/ ChildEnds(s) \/ ChildAnswered(s) \/ ChildCancelled(s)
  BY <1>1, ChildFacts
<1>2. CASE RequestLands(s)
  BY <1>2, RequestFacts
<1>3. QED
  BY <1>1, <1>2 DEF ChildWorkflow

\* Cancelling the run keeps the types.
LEMMA TypeCancel == ASSUME TypeInv, Cancel PROVE TypeInv'
  BY DEF TypeInv, TypeOK, FinalizingHasResult, Cancel, locals, rows

\* Every step of the engine, of its goroutines and children keeps the types.
LEMMA TypeStep == TypeInv /\ [Next]_vars => TypeInv'
<1>1. ASSUME TypeInv, UNCHANGED vars PROVE TypeInv'
  BY <1>1 DEF TypeInv, TypeOK, FinalizingHasResult, vars, locals, rows
<1>2. QED
  BY <1>1, TypeEngine, TypeThread, TypeChild, TypeCancel DEF Next

\* TypeOK holds in every reachable state, whatever fails on the way.
THEOREM TypeCorrect == Spec => []TypeOK
<1>1. TypeInv => TypeOK
  BY DEF TypeInv
<1>2. QED
  BY <1>1, TypeInit, TypeStep, PTL DEF Spec

-----------------------------------------------------------------------------
(* skipDownstream.                                                         *)

\* Downstream takes nothing that need not be taken: it lies within every set
\* of open steps that is closed under depending on s or on its members.
LEMMA DownstreamIsLeast ==
  ASSUME NEW s, NEW open, NEW X \in SUBSET open,
         \A t \in open : def.dependsOn[t] \cap (X \cup {s}) # {} => t \in X
  PROVE  Downstream(s, open) \subseteq X
  BY DEF Downstream

\* A step is only taken because it depends on s or on another step taken.
LEMMA DownstreamHasReason ==
  ASSUME NEW s, NEW open, NEW t \in Downstream(s, open)
  PROVE  def.dependsOn[t] \cap (Downstream(s, open) \cup {s}) # {}
<1> DEFINE D == Downstream(s, open)
           Y == D \ {t}
<1>1. D \subseteq open
  BY DEF Downstream
<1>2. ASSUME NEW u \in open, def.dependsOn[u] \cap (D \cup {s}) # {} PROVE u \in D
  <2>1. SUFFICES ASSUME NEW X \in SUBSET open,
                        \A v \in open : def.dependsOn[v] \cap (X \cup {s}) # {} => v \in X
                 PROVE  u \in X
    BY DEF Downstream
  <2>2. D \subseteq X
    BY <2>1, DownstreamIsLeast
  <2>3. QED
    BY <1>2, <2>1, <2>2
<1>3. SUFFICES ASSUME def.dependsOn[t] \cap (D \cup {s}) = {} PROVE FALSE
  OBVIOUS
<1>4. ASSUME NEW u \in open, def.dependsOn[u] \cap (Y \cup {s}) # {} PROVE u \in Y
  BY <1>2, <1>3, <1>4
<1>5. D \subseteq Y
  <2>1. Y \in SUBSET open
    BY <1>1
  <2> HIDE DEF Y
  <2>2. QED
    BY <1>4, <2>1, DownstreamIsLeast
<1>6. QED
  BY <1>5

\* Steps whose dependencies are all decided are never taken.
LEMMA DownstreamSparesReady ==
  ASSUME NEW s, NEW open, NEW B \in SUBSET open,
         \A t \in B : def.dependsOn[t] \cap (open \cup {s}) = {}
  PROVE  Downstream(s, open) \cap B = {}
<1> DEFINE X == open \ B
<1>1. ASSUME NEW t \in open, def.dependsOn[t] \cap (X \cup {s}) # {} PROVE t \in X
  BY <1>1
<1>2. Downstream(s, open) \subseteq X
  BY <1>1, DownstreamIsLeast
<1>3. QED
  BY <1>2

-----------------------------------------------------------------------------
(* The inductive invariant.                                                *)

\* The inductive invariant contains the type invariant.
LEMMA InvType == IInv => TypeInv
  BY DEF IInv, WorkIsJustified, TypeInv, FinalizingHasResult

\* The parts of IInv besides typing.
Parts ==
  /\ PendingIsUndecided /\ BatchIsReady /\ ThreadsBelongToBatch
  /\ WorkIsJustified /\ FailuresAreCounted /\ StatusFollows /\ SandboxesFollow
  /\ InboxFollows /\ RowsFollow

\* The inductive invariant holds before the run is marked running.
LEMMA InvInit == Init => IInv
<1> SUFFICES ASSUME Init PROVE IInv
  OBVIOUS
<1>1. TypeOK
  BY TypeInit DEF TypeInv
<1>2. Parts
  BY DEF Init, Parts, PendingIsUndecided, BatchIsReady, ThreadsBelongToBatch,
         WorkIsJustified, FailuresAreCounted, StatusFollows, SandboxesFollow, InboxFollows,
         RowsFollow, Running, InBatch, Working, MayStart, StepFailedItems
<1>3. QED
  BY <1>1, <1>2 DEF IInv, Parts

\* What CollectResult leaves alone, it leaves alone for a reason: the outcome
\* of a decided step, and the rest of the batch.
LEMMA CollectFacts ==
  ASSUME IInv, NEW s \in Steps, CollectResult(s)
  PROVE  /\ s \in pending /\ s \in ready /\ thread[s] = "done"
         /\ outputs'[s] = results[s] /\ results[s] # "none"
         /\ pending' \subseteq pending \ {s}
         /\ \A t \in Steps : outputs[t] # "none" => outputs'[t] = outputs[t]
         /\ \A t \in collect \ {s} : t \in pending' /\ outputs'[t] = "none"
         /\ \A t \in Steps : t \in pending' <=> outputs'[t] = "none"
         /\ \A t \in Steps : outputs'[t] # outputs[t] => t = s \/ outputs'[t] = "skipped"
<1> DEFINE open    == pending \ {s}
           skipped == IF FailsRun(s) THEN Downstream(s, open) ELSE {}
<1>1. s \in ready /\ s \in pending /\ outputs[s] = "none" /\ thread[s] = "done"
  BY DEF CollectResult, IInv, BatchIsReady, PendingIsUndecided
<1>2. results[s] \in StepOutcome
  BY <1>1 DEF IInv, WorkIsJustified, StepOutcome
<1>3. skipped \subseteq open
  BY DEF Downstream
<1>4. skipped \cap collect = {}
  <2> DEFINE B == collect \cap open
  <2>1. \A t \in B : def.dependsOn[t] \cap (open \cup {s}) = {}
    BY <1>1 DEF CollectResult, IInv, BatchIsReady, InBatch, PendingIsUndecided, TypeOK
  <2>2. B \in SUBSET open
    OBVIOUS
  <2> HIDE DEF B, open
  <2>3. Downstream(s, open) \cap B = {}
    BY <2>1, <2>2, DownstreamSparesReady
  <2>4. QED
    BY <1>3, <2>3 DEF B
<1>5. pending' = pending \ ({s} \cup skipped)
  BY DEF CollectResult
<1>6. \A t \in Steps : outputs'[t] = IF t \in skipped THEN "skipped"
                                     ELSE IF t = s THEN results[s] ELSE outputs[t]
  BY DEF CollectResult
<1>7. collect \subseteq pending /\ collect \subseteq Steps
  BY DEF CollectResult, IInv, BatchIsReady, TypeOK
<1>8. \A t \in Steps : t \in pending <=> outputs[t] = "none"
  BY DEF IInv, PendingIsUndecided
<1> HIDE DEF skipped
<1>9. QED
  BY <1>1, <1>2, <1>3, <1>4, <1>5, <1>6, <1>7, <1>8 DEF StepOutcome

\* A step depends only on steps of its definition (depends_on names known ids).
LEMMA DependenciesAreSteps ==
  ASSUME TypeOK, NEW t \in Steps PROVE def.dependsOn[t] \subseteq Steps
  BY DefinitionsAssumption DEF TypeOK

\* Collecting a result, with the skips of skipDownstream, keeps the invariant.
LEMMA InvCollect ==
  ASSUME IInv, NEW s \in Steps, CollectResult(s) PROVE Parts'
<1> DEFINE frame == /\ UNCHANGED <<def, pc, retErr, ready, results, sandboxes, thread,
                                   child, run, stepRun, overwritten, cancelled>>
                    /\ pc = "collecting" /\ collect' = collect \ {s}
                    /\ stepFailed' = (stepFailed \/ FailsRun(s))
<1>1. frame
  BY DEF CollectResult
<1>2. /\ TypeOK
      /\ \A t \in Steps : def.dependsOn[t] \subseteq Steps
  BY DependenciesAreSteps DEF IInv
<1>3. \A t \in Steps : outputs[t] # "none" => outputs'[t] = outputs[t]
  BY CollectFacts
<1>4. PendingIsUndecided'
  BY CollectFacts DEF PendingIsUndecided
<1>5. BatchIsReady'
  <2>1. collect' = ready' \cap pending'
    BY <1>1, CollectFacts DEF IInv, BatchIsReady
  <2>2. \A t \in ready : \A d \in def.dependsOn[t] : outputs'[d] # "none"
    BY <1>1, <1>2, <1>3 DEF IInv, BatchIsReady, InBatch, TypeOK
  <2>3. QED
    BY <1>1, <2>1, <2>2 DEF IInv, BatchIsReady
<1>6. ThreadsBelongToBatch'
  BY <1>1, CollectFacts DEF IInv, ThreadsBelongToBatch, Working
<1>7. WorkIsJustified'
  <2>1. \A t \in Steps : MayStart(t) => MayStart(t)'
    BY <1>1, <1>2, <1>3 DEF MayStart
  <2>2. \A t \in Steps : DependencyUnsuccessful(t) => DependencyUnsuccessful(t)'
    BY <1>1, <1>2, <1>3 DEF DependencyUnsuccessful
  <2>3. QED
    BY <1>1, <2>1, <2>2 DEF IInv, WorkIsJustified
<1>8. FailuresAreCounted'
  <2>1. ASSUME NEW t \in Steps, outputs'[t] = "failed", t \notin def.optional
        PROVE  stepFailed'
    <3>1. CASE outputs[t] = "failed"
      BY <1>1, <2>1, <3>1 DEF IInv, FailuresAreCounted
    <3>2. CASE outputs[t] # "failed"
      BY <1>1, <2>1, <3>2, CollectFacts DEF FailsRun
    <3>3. QED
      BY <3>1, <3>2
  <2>2. QED
    BY <1>1, <2>1 DEF IInv, FailuresAreCounted, Running
<1>9. StatusFollows' /\ SandboxesFollow'
  BY <1>1 DEF IInv, StatusFollows, SandboxesFollow, Running
<1>10. InboxFollows'
  <2> DEFINE item == <<"step_failed", s>>
  <2>1. item[1] = "step_failed" /\ <<"output_ready">>[1] = "output_ready"
    OBVIOUS
  <2>2. item # <<"output_ready">>
    BY <2>1
  <2>3. \/ /\ inbox' = inbox \cup {item} /\ sentStepFailedNotification' = TRUE
           /\ FailsRun(s) /\ lost' = lost
        \/ /\ UNCHANGED <<inbox, sentStepFailedNotification>> /\ FailsRun(s)
           /\ lost' = lost + 1 /\ lost \in Nat
        \/ UNCHANGED <<inbox, sentStepFailedNotification, lost>> /\ ~FailsRun(s)
    BY FiniteAssumption DEF CollectResult, LoseWrite, IInv, TypeOK
  <2> HIDE DEF item
  <2>4. item \in inbox' => StepFailedItems' # {}
    BY <2>1 DEF StepFailedItems
  <2>5. \A i \in inbox' : i \in inbox \/ i = item
    BY <2>3
  <2>6. inbox \subseteq inbox' /\ (StepFailedItems # {} => StepFailedItems' # {})
    BY <2>3 DEF StepFailedItems
  <2>7. ~(lost' = 0 /\ lost' = lost + 1 /\ lost \in Nat)
    OBVIOUS
  <2>8. (sentStepFailedNotification <=> StepFailedItems # {})'
    <3>1. CASE UNCHANGED <<inbox, sentStepFailedNotification>>
      BY <3>1 DEF IInv, InboxFollows, StepFailedItems
    <3>2. CASE inbox' = inbox \cup {item} /\ sentStepFailedNotification' = TRUE
      BY <3>2, <2>4
    <3>3. QED
      BY <2>3, <3>1, <3>2
  <2>9. (sentStepFailedNotification => stepFailed)'
    BY <1>1, <2>3 DEF IInv, InboxFollows
  <2>10. (lost = 0 /\ stepFailed => sentStepFailedNotification)'
    BY <1>1, <2>3, <2>7 DEF IInv, InboxFollows
  <2>11. (pc # "closed" => <<"output_ready">> \notin inbox)'
    BY <1>1, <2>2, <2>5 DEF IInv, InboxFollows
  <2>12. (pc = "closed" /\ lost = 0 => (<<"output_ready">> \in inbox <=> NotifiesRun))'
    BY <1>1
  <2>13. QED
    BY <2>8, <2>9, <2>10, <2>11, <2>12 DEF InboxFollows
<1>11. RowsFollow'
  <2>1. \A t \in Steps : outputs'[t] # outputs[t] => t = s \/ outputs'[t] = "skipped"
    BY CollectFacts
  <2>2. ASSUME NEW t \in Steps, outputs'[t] = "skipped", outputs[t] # "skipped", t # s
        PROVE  thread[t] = "idle"
    <3>1. outputs[t] = "none" /\ t \in pending
      BY <1>3, <2>2 DEF IInv, PendingIsUndecided
    <3>2. t \notin collect
      BY <2>2, CollectFacts
    <3>3. QED
      BY <1>1, <3>1, <3>2 DEF IInv, ThreadsBelongToBatch, BatchIsReady
  <2>3. lost' = 0 => lost = 0
    BY FiniteAssumption DEF CollectResult, LoseWrite, IInv, TypeOK
  <2>4. QED
    BY <1>1, <2>1, <2>2, <2>3, CollectFacts DEF IInv, RowsFollow, Shows, ThreadsBelongToBatch
<1>12. QED
  BY <1>4, <1>5, <1>6, <1>7, <1>8, <1>9, <1>10, <1>11 DEF Parts

\* The actions of the scheduling loop and the deferred functions keep the invariant.
LEMMA InvEngine == ASSUME IInv, Engine PROVE Parts'
<1> USE DEF IInv, Parts, PendingIsUndecided, BatchIsReady, ThreadsBelongToBatch,
         WorkIsJustified, FailuresAreCounted, StatusFollows, SandboxesFollow, InboxFollows,
         RowsFollow, Running, InBatch, Working, MayStart, DependencyUnsuccessful, StepFailedItems, FinalStatus, NotifiesRun,
         NeedsSandbox, TypeOK, Shows, Unfinished, locals, rows, Return, LoseWrite
<1>1. CASE MarkRunning
  BY <1>1 DEF MarkRunning
<1>2. CASE MarkRunningFails
  BY <1>2, FiniteAssumption DEF MarkRunningFails, FinalStatus
<1>3. CASE Preflight
  BY <1>3 DEF Preflight
<1>4. CASE Schedule
  BY <1>4 DEF Schedule, FindReady
<1>5. ASSUME NEW s \in Steps, ProvisionGroup(s) PROVE Parts'
  BY <1>5, DefinitionsAssumption DEF ProvisionGroup, FirstNeedingSandbox
<1>6. CASE Launch
  BY <1>6 DEF Launch
<1>7. CASE StepsJoin
  BY <1>7 DEF StepsJoin
<1>8. ASSUME NEW s \in Steps, CollectResult(s) PROVE Parts'
  BY <1>8, InvCollect
<1>9. CASE EndOfBatch
  BY <1>9 DEF EndOfBatch
<1>10. ASSUME NEW g \in Groups, CleanupGroup(g) PROVE Parts'
  BY <1>10 DEF CleanupGroup
<1>11. CASE FinishRun
  BY <1>11 DEF FinishRun
<1>12. CASE CloseRun
  BY <1>12 DEF CloseRun, Open, Step!Open
<1>13. QED
  BY <1>1, <1>2, <1>3, <1>4, <1>5, <1>6, <1>7, <1>8, <1>9, <1>10, <1>11, <1>12 DEF Engine

\* The actions of a step's goroutine keep the invariant.
LEMMA InvThread ==
  ASSUME IInv, NEW s \in Steps, StepGoroutine(s) PROVE Parts'
<1> USE DEF IInv, Parts, PendingIsUndecided, BatchIsReady, ThreadsBelongToBatch,
         WorkIsJustified, FailuresAreCounted, StatusFollows, SandboxesFollow, InboxFollows,
         RowsFollow, Running, InBatch, Working, MayStart, StepFailedItems, FinalStatus, NotifiesRun,
         NeedsSandbox, TypeOK, Shows, Unfinished, locals, rows, LoseWrite, StepFrame, Finish, Moves,
         DependencyUnsuccessful
<1>1. CASE BeginStep(s)
  BY <1>1, DependenciesAreSteps DEF BeginStep, StepOutcome
<1>2. CASE CreateStepRun(s)
  BY <1>2 DEF CreateStepRun
<1>3. CASE ExecuteAction(s)
  BY <1>3 DEF ExecuteAction
<1>4. CASE FinalizeAction(s)
  BY <1>4 DEF FinalizeAction
<1>5. CASE ChildReturns(s)
  BY <1>5 DEF ChildReturns
<1>6. CASE ThreadCancelled(s)
  BY <1>6 DEF ThreadCancelled
<1>7. QED
  BY <1>1, <1>2, <1>3, <1>4, <1>5, <1>6 DEF StepGoroutine

\* A child's writes and its end keep the invariant.
LEMMA InvChild ==
  ASSUME IInv, NEW s \in Steps, ChildWorkflow(s) PROVE Parts'
<1> USE DEF IInv, Parts, PendingIsUndecided, BatchIsReady, ThreadsBelongToBatch,
         WorkIsJustified, FailuresAreCounted, StatusFollows, SandboxesFollow, InboxFollows,
         RowsFollow, Running, InBatch, Working, MayStart, DependencyUnsuccessful, StepFailedItems, FinalStatus, NotifiesRun,
         NeedsSandbox, TypeOK, locals, Shows, Unfinished
<1>1. CASE ChildWorks(s) \/ ChildEnds(s) \/ ChildAnswered(s) \/ ChildCancelled(s)
  <2>1. TypeOK
    OBVIOUS
  <2>2. ChildEffect(s)
    BY <1>1, <2>1, ChildFacts
  <2> QED
    BY <1>1, <2>1, <2>2, ChildFacts DEF ChildEffect
<1>2. CASE RequestLands(s)
  BY <1>2, RequestFacts
<1>3. QED
  BY <1>1, <1>2 DEF ChildWorkflow

\* A cancellation, and a step that changes nothing, keep the invariant.
LEMMA InvFrame == ASSUME IInv, Cancel \/ UNCHANGED vars PROVE Parts'
  BY DEF IInv, Parts, PendingIsUndecided, BatchIsReady, ThreadsBelongToBatch,
         WorkIsJustified, FailuresAreCounted, StatusFollows, SandboxesFollow, InboxFollows,
         RowsFollow, Running, InBatch, Working, MayStart, DependencyUnsuccessful, StepFailedItems, FinalStatus, NotifiesRun,
         NeedsSandbox, Shows, Unfinished, Cancel, vars, locals, rows

\* The invariant is inductive.
LEMMA InvStep == IInv /\ [Next]_vars => IInv'
<1>1. IInv /\ [Next]_vars => TypeOK'
  BY InvType, TypeStep DEF TypeInv
<1>2. IInv /\ [Next]_vars => Parts'
  BY InvEngine, InvThread, InvChild, InvFrame DEF Next
<1>3. QED
  BY <1>1, <1>2 DEF IInv, Parts

\* It therefore holds in every reachable state.
LEMMA Invariance == Spec => []IInv
  BY InvInit, InvStep, PTL DEF Spec

-----------------------------------------------------------------------------
(* What follows.                                                           *)

\* No step starts before its dependencies are settled, nor, unless it is
\* optional, after one of them failed or was skipped.
THEOREM NoStepStartsEarly == Spec => []DependenciesRespected
<1>1. IInv => DependenciesRespected
  BY DEF IInv, WorkIsJustified, DependenciesRespected, MayStart
<1>2. QED
  BY <1>1, Invariance, PTL

\* A run that is marked complete has an outcome for every step, and no step
\* that is not optional failed.
THEOREM CompleteMeansWhole == Spec => []CompleteRunIsWhole
<1>1. IInv => CompleteRunIsWhole
  BY DEF IInv, PendingIsUndecided, FailuresAreCounted, StatusFollows, FinalStatus,
         CompleteRunIsWhole, Running, TypeOK
<1>2. QED
  BY <1>1, Invariance, PTL

\* skipDownstream never takes a step whose result is still to be collected.
THEOREM SkipSparesTheBatch == Spec => []BatchIsNotSkipped
<1>1. IInv => BatchIsNotSkipped
  BY DEF IInv, PendingIsUndecided, BatchIsReady, BatchIsNotSkipped, TypeOK
<1>2. QED
  BY <1>1, Invariance, PTL

\* A closed run has a terminal status, unless a write was lost or it was
\* cancelled before any of its steps began.
THEOREM ClosedMeansTerminal == Spec => []ClosedRunIsTerminal
<1>1. IInv => ClosedRunIsTerminal
  BY DEF IInv, StatusFollows, ThreadsBelongToBatch, FinalStatus, ClosedRunIsTerminal,
         RunTerminal, TypeOK
<1>2. QED
  BY <1>1, Invariance, PTL

\* The sandbox of a group is there as long as a child works in it, and no exit
\* path leaves it running.
THEOREM SandboxesLastAndLeave == Spec => [](SandboxOutlivesItsSteps /\ NoGroupSandboxLeft)
<1>1. IInv => NoGroupSandboxLeft
  BY DEF IInv, SandboxesFollow, NoGroupSandboxLeft
<1>2. IInv => SandboxOutlivesItsSteps
  BY DefinitionsAssumption DEF IInv, ThreadsBelongToBatch, SandboxesFollow, NeedsSandbox,
         SandboxOutlivesItsSteps, Working, Running, TypeOK
<1>3. QED
  BY <1>1, <1>2, Invariance, PTL

\* While no write is lost, a person hears of the end of a run once.
THEOREM NotifiedExactlyOnce == Spec => []NotifiedOnce
<1>1. ASSUME IInv, pc = "closed", lost = 0 PROVE NotifiedOnce
  <2>1. /\ <<"output_ready">> \in inbox <=> NotifiesRun
        /\ StepFailedItems # {} <=> sentStepFailedNotification
        /\ sentStepFailedNotification <=> stepFailed
        /\ retErr = "none" => ~stepFailed
        /\ run \in RunTerminal => run = FinalStatus
    BY <1>1 DEF IInv, InboxFollows, FailuresAreCounted, StatusFollows, RunTerminal, Running
  <2>2. StepFailedItems = {} => inbox \subseteq {<<"output_ready">>}
    BY <1>1 DEF IInv, TypeOK, StepFailedItems
  <2>3. CASE run = "complete"
    <3>1. retErr = "none"
      BY <2>1, <2>3, <1>1 DEF RunTerminal, FinalStatus, IInv, TypeOK
    <3>2. QED
      BY <2>1, <2>2, <2>3, <3>1 DEF NotifiedOnce, NotifiesRun, FinalStatus
  <2>4. CASE run = "failed"
    BY <2>1, <2>4 DEF NotifiedOnce, NotifiesRun, RunTerminal
  <2>5. CASE run = "cancelled"
    BY <2>1, <2>5 DEF NotifiedOnce, NotifiesRun, RunTerminal
  <2>6. QED
    BY <2>3, <2>4, <2>5 DEF NotifiedOnce
<1>2. IInv => NotifiedOnce
  BY <1>1 DEF NotifiedOnce
<1>3. QED
  BY <1>2, Invariance, PTL

\* While no write is lost, the outcome the run counts is the one in the row.
THEOREM OutcomesMatchRows == Spec => []RowsAgreeWithOutcomes
<1>1. IInv => RowsAgreeWithOutcomes
  BY DEF IInv, RowsFollow, RowsAgreeWithOutcomes, Shows, TypeOK
<1>2. QED
  BY <1>1, Invariance, PTL

\* The outcome of a step is recorded once.
THEOREM OutcomesStay == Spec => OutcomesAreFinal
<1>1. ASSUME IInv, [Next]_vars, NEW s \in Steps, outputs[s] # "none"
      PROVE  outputs'[s] = outputs[s]
  <2>1. ASSUME NEW t \in Steps, CollectResult(t) PROVE outputs'[s] = outputs[s]
    BY <1>1, <2>1, CollectFacts
  <2>2. CASE Engine
    BY <1>1, <2>1, <2>2
       DEF Engine, MarkRunning, MarkRunningFails, Preflight, Schedule, ProvisionGroup, Launch,
           StepsJoin, EndOfBatch, CleanupGroup, FinishRun, CloseRun, locals
  <2>3. ASSUME NEW t \in Steps, StepGoroutine(t) \/ ChildWorkflow(t) PROVE UNCHANGED outputs
    BY <2>3 DEF StepGoroutine, BeginStep, CreateStepRun, ExecuteAction, FinalizeAction,
                ChildReturns, ThreadCancelled, StepFrame, ChildWorkflow, ChildWorks,
                ChildAnswered, ChildEnds, ChildCancelled, RequestLands, ChildFrame,
                locals
  <2>4. CASE Cancel \/ UNCHANGED vars
    BY <2>4 DEF Cancel, vars, locals
  <2>5. QED
    BY <1>1, <2>2, <2>3, <2>4 DEF Next
<1>2. IInv /\ [Next]_vars => [\A s \in Steps : outputs[s] # "none" => outputs'[s] = outputs[s]]_vars
  BY <1>1
<1>3. QED
  BY <1>2, Invariance, PTL DEF Spec, OutcomesAreFinal

-----------------------------------------------------------------------------
(* DagWorkflow implements WorkflowRun.                                     *)

\* The initial states of the engine are initial states of WorkflowRun.
LEMMA PromiseInit == Init => Promise!Init
  BY DEF Init, Promise!Init

\* Only two kinds of step are not stutters: the row of the run moves, or a
\* result is collected.
LEMMA CollectSettles ==
  ASSUME IInv, NEW s \in Steps, CollectResult(s) PROVE Promise!Settle
<1>1. run = "running" /\ UNCHANGED <<def, run>>
  BY DEF CollectResult, IInv, StatusFollows, Running
<1>2. \A t \in Steps : outputs[t] # "none" => outputs'[t] = outputs[t]
  BY CollectFacts
<1>3. s \in pending /\ thread[s] = "done" /\ outputs'[s] = results[s] /\ results[s] # "none"
  BY CollectFacts
<1>4. ASSUME NEW t \in Steps, outputs[t] = "none"
      PROVE  \/ outputs'[t] = "none"
             \/ outputs'[t] \in {"complete", "failed"} /\ Promise!MayAttempt(t)
             \/ outputs'[t] = "skipped" /\ Promise!MayPassOver(t, outputs')
  <2>1. CASE t = s /\ results[s] \in {"complete", "failed"}
    BY <1>3, <2>1 DEF IInv, WorkIsJustified, MayStart, Promise!MayAttempt, Promise!Settled
  <2>2. CASE t = s /\ results[s] = "skipped"
    <3>1. s \in def.conditional \/ DependencyUnsuccessful(s)
      BY <1>3, <2>2 DEF IInv, WorkIsJustified
    <3>2. def.dependsOn[s] \subseteq Steps
      BY DependenciesAreSteps DEF IInv
    <3>3. DependencyUnsuccessful(s) =>
            \E d \in def.dependsOn[s] : outputs'[d] \in {"failed", "skipped"}
      BY <1>2, <3>2 DEF DependencyUnsuccessful
    <3>4. QED
      BY <1>3, <2>2, <3>1, <3>3 DEF Promise!MayPassOver
  <2>3. CASE t # s
    <3> DEFINE skipped == IF FailsRun(s) THEN Downstream(s, pending \ {s}) ELSE {}
    <3>1. \A u \in Steps : outputs'[u] = IF u \in skipped THEN "skipped"
                                         ELSE IF u = s THEN results[s] ELSE outputs[u]
      BY DEF CollectResult
    <3>2. CASE t \notin skipped
      BY <1>4, <2>3, <3>1, <3>2
    <3>3. CASE t \in skipped
      <4>1. FailsRun(s) /\ t \in Downstream(s, pending \ {s})
        BY <3>3
      <4>2. PICK d \in def.dependsOn[t] : d \in Downstream(s, pending \ {s}) \cup {s}
        BY <4>1, DownstreamHasReason
      <4>3. d \in Steps
        BY <4>2, DependenciesAreSteps DEF IInv
      <4>4. outputs'[d] \in {"failed", "skipped"}
        BY <1>3, <3>1, <4>1, <4>2, <4>3 DEF FailsRun
      <4>5. outputs'[t] = "skipped"
        BY <3>1, <3>3
      <4>6. QED
        BY <4>2, <4>4, <4>5 DEF Promise!MayPassOver
    <3>4. QED
      BY <3>2, <3>3
  <2>4. results[s] \in {"complete", "failed", "skipped"}
    BY <1>3 DEF IInv, WorkIsJustified
  <2>5. QED
    BY <2>1, <2>2, <2>3, <2>4
<1>5. QED
  BY <1>1, <1>2, <1>4 DEF Promise!Settle, Promise!Settled

\* The deferred write of the final status is one of WorkflowRun's Finish actions,
\* or a stutter when the write is lost.
LEMMA FinishKeepsPromise ==
  ASSUME IInv, FinishRun PROVE Promise!Next \/ UNCHANGED Promise!vars
<1>1. run = "running" /\ retErr \in {"none", "failed", "cancelled"} /\ pc = "cleanup"
  BY DEF IInv, FinishRun, StatusFollows, TypeOK
<1>2. UNCHANGED <<def, outputs>>
  BY DEF FinishRun, locals
<1>3. CASE run' = run
  BY <1>2, <1>3 DEF Promise!vars
<1>4. CASE run' = FinalStatus /\ retErr = "none"
  <2>1. \A s \in Steps : outputs[s] # "none" /\ (outputs[s] = "failed" => s \in def.optional)
    BY <1>1, <1>4 DEF IInv, PendingIsUndecided, FailuresAreCounted, Running
  <2>2. QED
    BY <1>1, <1>2, <1>4, <2>1
       DEF FinalStatus, Promise!Next, Promise!FinishComplete, Promise!Settled
<1>5. CASE run' = FinalStatus /\ retErr # "none"
  BY <1>1, <1>2, <1>5 DEF FinalStatus, Promise!Next, Promise!FinishShort
<1>6. QED
  BY <1>3, <1>4, <1>5 DEF FinishRun

\* Every step of the engine is a step of WorkflowRun or a stutter.
LEMMA PromiseStep == IInv /\ [Next]_vars => [Promise!Next]_(Promise!vars)
<1> SUFFICES ASSUME IInv, [Next]_vars PROVE Promise!Next \/ UNCHANGED Promise!vars
  OBVIOUS
<1>1. ASSUME NEW s \in Steps, CollectResult(s) PROVE Promise!Next
  BY <1>1, CollectSettles DEF Promise!Next
<1>2. CASE MarkRunning
  BY <1>2 DEF IInv, StatusFollows, MarkRunning, locals, Promise!Next, Promise!Start
<1>3. CASE MarkRunningFails
  BY <1>3 DEF IInv, StatusFollows, MarkRunningFails, locals, Promise!Next, Promise!Start,
              Promise!vars
<1>4. CASE Preflight \/ Schedule \/ Launch \/ StepsJoin \/ EndOfBatch \/ CloseRun
  BY <1>4 DEF Preflight, Schedule, Launch, StepsJoin, EndOfBatch, CloseRun,
              Return, locals, rows, Promise!vars
<1>5. ASSUME NEW s \in Steps, ProvisionGroup(s) PROVE UNCHANGED Promise!vars
  BY <1>5 DEF ProvisionGroup, locals, rows, Promise!vars
<1>6. ASSUME NEW g \in Groups, CleanupGroup(g) PROVE UNCHANGED Promise!vars
  BY <1>6 DEF CleanupGroup, locals, rows, Promise!vars
<1>7. CASE FinishRun
  BY <1>7, FinishKeepsPromise
<1>8. ASSUME NEW s \in Steps, StepGoroutine(s) \/ ChildWorkflow(s) PROVE UNCHANGED Promise!vars
  BY <1>8 DEF StepGoroutine, BeginStep, CreateStepRun, ExecuteAction, FinalizeAction,
              ChildReturns, ThreadCancelled, StepFrame, ChildWorkflow, ChildWorks,
              ChildAnswered, ChildEnds, ChildCancelled, RequestLands, ChildFrame,
              locals, Promise!vars
<1>9. CASE Cancel \/ UNCHANGED vars
  BY <1>9 DEF Cancel, vars, locals, rows, Promise!vars
<1>10. QED
  BY <1>1, <1>2, <1>3, <1>4, <1>5, <1>6, <1>7, <1>8, <1>9 DEF Next, Engine

\* The run implements its promise: every step of the workflow, its goroutines
\* and its children is a step of WorkflowRun or changes nothing it speaks of.
THEOREM RunKeepsPromise == Spec => KeepsPromise
  BY PromiseInit, PromiseStep, InvInit, Invariance, PTL DEF Spec, KeepsPromise, Promise!Spec

-----------------------------------------------------------------------------
(* What StepWorkflow may do, a child of DagWorkflow may do.                *)

\* Whatever StepContract lets a child do by itself to its row, its outcome and
\* the count of lost writes, while it leaves the rest of the run alone, is a step
\* of the child here.  StepWorkflow implements StepContract, so nothing it does
\* is missing from the engine's properties but a loss beyond MaxLostWrites.
THEOREM ContractIsAllowed ==
  ASSUME IInv, NEW s \in Steps, child[s] # "none",
         \/ Step(s)!Work \/ Step(s)!Lose \/ Step(s)!Complete \/ Step(s)!Fail
         \/ Step(s)!Cancelled \/ Step(s)!Straggle \/ Step(s)!LateRequest,
         stepRun' = [stepRun EXCEPT ![s] = stepRun'[s]],
         child' = [child EXCEPT ![s] = child'[s]],
         lost' \in 0..MaxLostWrites,
         overwritten' = IF Step(s)!LateRequest /\ stepRun[s] \in {"complete", "failed"}
                        THEN overwritten \cup {s} ELSE overwritten,
         UNCHANGED <<def, pc, cancelled, retErr, locals, sandboxes, thread, run, inbox,
                     sentStepFailedNotification>>
  PROVE  ChildWorkflow(s)
<1> USE DEF Step!Work, Step!Lose, Step!Complete, Step!Fail, Step!Cancelled, Step!Straggle, Step!LateRequest,
            Step!Open, Step!Unfinished, Step!LosesWrite
<1>1. /\ stepRun[s] \in Unfinished \cup {"complete", "failed"}
      /\ child[s] \in ChildState /\ lost \in Nat
  BY FiniteAssumption DEF IInv, TypeOK, WorkIsJustified
<1>2. CASE Step(s)!LateRequest
  <2>1. UNCHANGED <<child, lost>>
    BY <1>1, <1>2 DEF IInv, TypeOK
  <2> QED
    BY <1>1, <1>2, <2>1 DEF ChildWorkflow, RequestLands, Unfinished
<1>3. CASE ~Step(s)!LateRequest
  <2>1. stepRun'[s] \in Unfinished \cup {"complete", "failed"}
    BY <1>1, <1>3 DEF Unfinished
  <2>2. child'[s] \in {child[s]} \cup IF Open(s) THEN {"complete", "failed", "cancelled"} ELSE {}
    BY <1>1, <1>3 DEF Open
  <2>3. lost' = lost \/ lost' = lost + 1
    BY <1>3
  <2>4. ChildFrame(s)
    BY <1>3, <2>1, <2>2, <2>3 DEF ChildFrame, Unfinished
  <2>5. CASE Step(s)!Work \/ Step(s)!Lose
    BY <2>4, <2>5 DEF ChildWorkflow, ChildWorks
  <2>6. CASE Step(s)!Complete \/ Step(s)!Fail
    BY <2>4, <2>6 DEF ChildWorkflow, ChildEnds, ChildAnswered, Open
  <2>7. CASE Step(s)!Cancelled \/ Step(s)!Straggle
    BY <2>4, <2>7 DEF ChildWorkflow, ChildCancelled
  <2> QED
    BY <1>3, <2>5, <2>6, <2>7
<1> QED
  BY <1>2, <1>3
=============================================================================
