------------------------- MODULE StepWorkflow_proofs -------------------------
(***************************************************************************)
(* Theorems about StepWorkflow, for every step definition and every number *)
(* of executions, signals, questions and lost writes: it implements        *)
(* StepContract, on which the engine relies, and what it puts into a pull  *)
(* request was reviewed, by people who could see it.                       *)
(***************************************************************************)
EXTENDS StepWorkflow, TLAPS

\* Outputs of an execution have the type of the local variable.
LEMMA OutputsTyped ==
  ASSUME execution \in Nat, NEW S, NEW o \in Outputs(S)
  PROVE  o.status \in S /\ o.review \in BOOLEAN /\ o.of = execution
         /\ o = [status |-> o.status, review |-> o.review, of |-> o.of]
  BY DEF Outputs

\* No step is done, no row is final, at first.
LEMMA InitContractInv == Init => ContractInv
<1> SUFFICES ASSUME Init PROVE ContractInv
  OBVIOUS
<1>1. ControlTyped
  BY DEF Init, ControlTyped, NoOutput
<1>2. RowFollowsControl /\ OutputIsFinal /\ StragglersAreCancelled
  BY DEF Init, RowFollowsControl, OutputIsFinal, StragglersAreCancelled
<1> QED
  BY <1>1, <1>2 DEF ContractInv

-----------------------------------------------------------------------------
(* The steps of the workflow.                                              *)

\* Before the execution, nothing is returned but an error.
LEMMA StartKeepsContractInv ==
  ASSUME ContractInv, Provision \/ Preflight \/ ExecuteCancelled
  PROVE  ContractInv' /\ UNCHANGED <<row, cancelled, result>>
<1> USE DEF ContractInv, ControlTyped, RowFollowsControl, OutputIsFinal, StragglersAreCancelled, exec, ReturnError
<1>1. CASE Provision
  BY <1>1 DEF Provision
<1>2. CASE Preflight
  BY <1>2 DEF Preflight, Execute
<1>3. CASE ExecuteCancelled
  BY <1>3 DEF ExecuteCancelled
<1> QED
  BY <1>1, <1>2, <1>3

\* The attempts of ExecuteStep write running, the handler of the agent's
\* question awaiting input, whatever the row has become.
LEMMA ActivityKeepsContractInv ==
  ASSUME ContractInv, Activity \/ Handler \/ Straggle
  PROVE  /\ ContractInv' /\ UNCHANGED <<cancelled, result>>
         /\ \/ row' = row
            \/ row' = "running" /\ (result = "open" \/ cancelled)
            \/ row' = "awaiting_input"
<1> USE DEF ContractInv, ControlTyped, RowFollowsControl, OutputIsFinal, StragglersAreCancelled, ReturnError
<1>1. CASE AgentStarts
  BY <1>1 DEF AgentStarts
<1>2. CASE AgentEnds
  <2>1. /\ UNCHANGED <<cancelled, result, row, execution>> /\ act' = "idle" /\ pc = "execute"
        /\ \/ output' \in Outputs({"awaiting_input"}) /\ pc' = "await_answer"
           \/ output' \in Outputs({"complete", "failed"}) /\ pc' = "verify"
    BY <1>2 DEF AgentEnds
  <2> QED
    BY <2>1, OutputsTyped
<1>3. CASE AttemptFails
  BY <1>3 DEF AttemptFails
<1>4. CASE Handler
  BY <1>4 DEF Handler, RequestInput, FileQuestion, MarkAwaiting, StoreCheckpoint, exec
<1>5. CASE Straggle
  BY <1>5 DEF Straggle
<1> QED
  BY <1>1, <1>2, <1>3, <1>4, <1>5 DEF Activity

\* The continuation works on rows of its own.
LEMMA ContinuationKeepsContractInv ==
  ASSUME ContractInv,
         ReceiveAnswer \/ CreateContinuation \/ ProvisionContinuation \/ ExecuteContinuation \/ CleanupContinuation
  PROVE  ContractInv' /\ UNCHANGED <<row, cancelled, result>>
<1> USE DEF ContractInv, ControlTyped, RowFollowsControl, OutputIsFinal, StragglersAreCancelled, exec, ReturnError
<1>1. CASE ReceiveAnswer
  BY <1>1 DEF ReceiveAnswer
<1>2. CASE CreateContinuation
  BY <1>2 DEF CreateContinuation
<1>3. CASE ProvisionContinuation
  BY <1>3 DEF ProvisionContinuation
<1>4. CASE ExecuteContinuation
  <2>1. /\ UNCHANGED <<cancelled, result, row, execution, act>> /\ pc' = "continue_cleanup"
        /\ pc = "continue_execute"
        /\ output' \in Outputs({"complete", "failed"}) \/ output' \in Outputs({"awaiting_input"}) \/ output' = NoOutput
    BY <1>4 DEF ExecuteContinuation
  <2>2. output' \in [status : {"none", "complete", "failed", "awaiting_input"}, review : BOOLEAN, of : Nat]
    <3>1. CASE output' = NoOutput
      BY <3>1 DEF NoOutput
    <3>2. CASE output' \in Outputs({"complete", "failed"}) \/ output' \in Outputs({"awaiting_input"})
      BY <3>2, OutputsTyped
    <3> QED
      BY <2>1, <3>1, <3>2
  <2> QED
    BY <2>1, <2>2
<1>5. CASE CleanupContinuation
  BY <1>5 DEF CleanupContinuation
<1> QED
  BY <1>1, <1>2, <1>3, <1>4, <1>5

\* Between execution and pull request the row shows the verifiers and the pause.
LEMMA ReviewKeepsContractInv ==
  ASSUME ContractInv, Verify \/ Pause \/ (\E kind \in Decisions : Decide(kind)) \/ CreatePR \/ Cleanup
  PROVE  /\ ContractInv' /\ UNCHANGED <<cancelled, result>>
         /\ row' = row \/ row' \in {"running", "awaiting_input"}
<1> USE DEF ContractInv, ControlTyped, RowFollowsControl, OutputIsFinal, StragglersAreCancelled, exec, ReturnError
<1>1. CASE Verify
  BY <1>1 DEF Verify, AfterVerify
<1>2. CASE Pause
  BY <1>2 DEF Pause
<1>3. ASSUME NEW kind \in Decisions, Decide(kind)
      PROVE  ContractInv' /\ UNCHANGED <<row, cancelled, result>>
  <2>1. /\ UNCHANGED <<row, cancelled, result>> /\ pc = "await_decision"
        /\ \/ pc' = "create_pr" /\ UNCHANGED <<output, act, execution>>
           \/ pc' = "finalize" /\ output' = [output EXCEPT !.status = "failed"] /\ UNCHANGED <<act, execution>>
           \/ pc' = "execute" /\ act' = "setup" /\ execution' = execution + 1 /\ UNCHANGED output
    BY <1>3 DEF Decide, Execute
  <2> QED
    BY <2>1
<1>4. CASE CreatePR
  BY <1>4 DEF CreatePR
<1>5. CASE Cleanup
  BY <1>5 DEF Cleanup
<1> QED
  BY <1>1, <1>2, <1>3, <1>4, <1>5

\* How the workflow closes.
LEMMA CloseKeepsContractInv ==
  ASSUME ContractInv, Finalize \/ Defer \/ ParentCloses
  PROVE  /\ ContractInv' /\ UNCHANGED cancelled /\ result = "open" /\ row \in {"pending", "running", "awaiting_input"}
         /\ \/ ~cancelled /\ result' = "complete" /\ row' = "complete"
            \/ ~cancelled /\ result' = "failed" /\ row' = "failed"
            \/ ~cancelled /\ result' = "error" /\ (row' = "failed" \/ (row' = row /\ lost' = lost + 1))
            \/ cancelled /\ result' = "error" /\ row' \in {row, "complete", "failed"}
            \/ cancelled /\ result' = "terminated" /\ row' = row
<1> USE DEF ContractInv, ControlTyped, RowFollowsControl, OutputIsFinal, StragglersAreCancelled, exec, Close, LoseWrite
<1>1. CASE Finalize
  BY <1>1 DEF Finalize
<1>2. CASE Defer
  BY <1>2 DEF Defer
<1>3. CASE ParentCloses
  BY <1>3 DEF ParentCloses
<1> QED
  BY <1>1, <1>2, <1>3

\* People and their signals leave the workflow's own state alone.
LEMMA PeopleKeepContractInv ==
  ASSUME ContractInv,
         \/ \E kind \in Decisions : SignalRun(kind)
         \/ \E q \in 1..question : Respond(q)
         \/ \E m \in inTransit : Deliver(m)
         \/ UNCHANGED vars
  PROVE  ContractInv' /\ UNCHANGED <<row, cancelled, result>>
<1>1. UNCHANGED <<pc, cancelled, result, row, act, execution, output>>
  BY DEF SignalRun, Respond, Deliver, vars, exec
<1> QED
  BY <1>1 DEF ContractInv, ControlTyped, RowFollowsControl, OutputIsFinal, StragglersAreCancelled

\* A cancellation by the parent is only noticed later.
LEMMA CancelKeepsContractInv ==
  ASSUME ContractInv, ParentCancels
  PROVE  ContractInv' /\ UNCHANGED <<row, result>> /\ result = "open" /\ ~cancelled /\ cancelled'
  BY DEF ParentCancels, exec, ContractInv, ControlTyped, RowFollowsControl, OutputIsFinal, StragglersAreCancelled

-----------------------------------------------------------------------------
(* StepWorkflow implements StepContract.                                   *)

\* A write that is lost is counted, and leaves the row as it is.
LEMMA LossLeavesTheRow == [Next]_vars => lost' = lost \/ (lost' = lost + 1 /\ row' = row)
  BY DEF Next, Workflow, Provision, Preflight, ExecuteCancelled, ReceiveAnswer, CreateContinuation,
     ProvisionContinuation, ExecuteContinuation, CleanupContinuation, Verify, Pause, Decide, CreatePR, Cleanup,
     Finalize, Defer, Activity, AgentStarts, AgentEnds, AttemptFails, Straggle, Handler, RequestInput, FileQuestion, MarkAwaiting, StoreCheckpoint, SignalRun,
     Respond, Deliver, ParentCancels, ParentCloses, vars, LoseWrite

\* A step that leaves row and outcome as they are loses a write, or stutters.
LEMMA QuietStep ==
  ASSUME [Next]_vars, UNCHANGED <<row, cancelled, result>>
  PROVE  [Contract!Next]_(Contract!vars)
<1>1. lost' = lost \/ lost' = lost + 1
  BY LossLeavesTheRow
<1> QED
  BY <1>1 DEF Contract!Next, Contract!Lose, Contract!LosesWrite, Contract!vars, ChildOutcome

\* Every step of the workflow is a step of the contract, or leaves row and
\* outcome as they are.
LEMMA ContractStep ==
  ASSUME ContractInv, [Next]_vars
  PROVE  ContractInv' /\ [Contract!Next]_(Contract!vars)
<1> USE DEF Contract!Next, Contract!Open, Contract!Unfinished, Contract!LosesWrite, ChildOutcome
<1>1. CASE \/ Provision \/ Preflight \/ ExecuteCancelled
           \/ ReceiveAnswer \/ CreateContinuation \/ ProvisionContinuation \/ ExecuteContinuation \/ CleanupContinuation
           \/ \E kind \in Decisions : SignalRun(kind)
           \/ \E q \in 1..question : Respond(q)
           \/ \E m \in inTransit : Deliver(m)
           \/ UNCHANGED vars
  <2>1. ContractInv' /\ UNCHANGED <<row, cancelled, result>>
    BY <1>1, StartKeepsContractInv, ContinuationKeepsContractInv, PeopleKeepContractInv
  <2> QED
    BY <2>1, QuietStep
<1>2. CASE Activity \/ Handler \/ Straggle
  <2>1. /\ ContractInv' /\ UNCHANGED <<cancelled, result>>
        /\ \/ row' = row
           \/ row' = "running" /\ (result = "open" \/ cancelled)
           \/ row' = "awaiting_input"
    BY <1>2, ActivityKeepsContractInv
  <2>2. CASE row' = row
    BY <2>1, <2>2, QuietStep
  <2>3. CASE row' # row
    <3>1. lost' = lost
      BY <2>3, LossLeavesTheRow
    <3>2. CASE row' = "awaiting_input"
      <4>1. Contract!LateRequest
        BY <2>1, <3>1, <3>2 DEF Contract!LateRequest
      <4> QED
        BY <2>1, <4>1
    <3>3. CASE row' = "running" /\ result = "open"
      <4>1. Contract!Work
        BY <2>1, <3>1, <3>3 DEF ContractInv, RowFollowsControl, Contract!Work
      <4> QED
        BY <2>1, <4>1
    <3>4. CASE row' = "running" /\ result # "open" /\ cancelled
      <4>1. Contract!Straggle
        BY <2>1, <3>1, <3>4 DEF ContractInv, RowFollowsControl, Contract!Straggle
      <4> QED
        BY <2>1, <4>1
    <3> QED
      BY <2>1, <2>3, <3>2, <3>3, <3>4
  <2> QED
    BY <2>2, <2>3
<1>3. CASE Verify \/ Pause \/ (\E kind \in Decisions : Decide(kind)) \/ CreatePR \/ Cleanup
  <2>1. /\ ContractInv' /\ UNCHANGED <<cancelled, result>>
        /\ row' = row \/ row' \in {"running", "awaiting_input"}
    BY <1>3, ReviewKeepsContractInv
  <2>2. result = "open"
    BY <1>3 DEF Verify, Pause, Decide, CreatePR, Cleanup, ContractInv, RowFollowsControl
  <2>3. CASE row' # row
    <3>1. Contract!Work
      BY <2>1, <2>2, <2>3, LossLeavesTheRow DEF ContractInv, RowFollowsControl, Contract!Work
    <3> QED
      BY <2>1, <3>1
  <2> QED
    BY <2>1, <2>3, QuietStep
<1>4. CASE Finalize \/ Defer \/ ParentCloses
  <2>1. /\ ContractInv' /\ UNCHANGED cancelled /\ result = "open" /\ row \in {"pending", "running", "awaiting_input"}
        /\ \/ ~cancelled /\ result' = "complete" /\ row' = "complete"
           \/ ~cancelled /\ result' = "failed" /\ row' = "failed"
           \/ ~cancelled /\ result' = "error" /\ (row' = "failed" \/ (row' = row /\ lost' = lost + 1))
           \/ cancelled /\ result' = "error" /\ row' \in {row, "complete", "failed"}
           \/ cancelled /\ result' = "terminated" /\ row' = row
    BY <1>4, CloseKeepsContractInv
  <2>2. lost' = lost \/ (lost' = lost + 1 /\ row' = row)
    BY LossLeavesTheRow
  <2>3. cancelled /\ result' = "terminated" => lost' = lost
    BY <1>4, <2>1 DEF Finalize, Defer, ParentCloses, Close
  <2>4. Contract!Complete \/ Contract!Fail \/ Contract!Cancelled \/ Contract!Terminate
    BY <2>1, <2>2, <2>3 DEF Contract!Complete, Contract!Fail, Contract!Cancelled, Contract!Terminate
  <2> QED
    BY <2>1, <2>4
<1>5. CASE ParentCancels
  <2>1. ContractInv' /\ UNCHANGED <<row, result>> /\ result = "open" /\ ~cancelled /\ cancelled'
    BY <1>5, CancelKeepsContractInv
  <2>2. Contract!Cancel
    BY <1>5, <2>1 DEF Contract!Cancel, ParentCancels
  <2> QED
    BY <2>1, <2>2
<1> QED
  BY <1>1, <1>2, <1>3, <1>4, <1>5 DEF Next, Workflow

\* The workflow of a step, with its attempts, handlers and the people it waits
\* for, changes its row, closes and loses writes only as the children of the engine
\* may (StepWorkflow, finalizeStep and the deferred function, behind dag.go's child
\* futures; mcp.go:566, which writes a row that may be final).
THEOREM StepKeepsContract == Spec => KeepsContract
<1>1. Init => Contract!Init
  BY DEF Init, Contract!Init, ChildOutcome
<1>2. ContractInv /\ [Next]_vars => ContractInv' /\ [Contract!Next]_(Contract!vars)
  BY ContractStep
<1> QED
  BY <1>1, <1>2, InitContractInv, PTL DEF Spec, KeepsContract, Contract!Spec

-----------------------------------------------------------------------------
(* What is put into a pull request was reviewed.                           *)

PRInv == ContractInv /\ SignalsTyped /\ ContinuationHasAnswer /\ ReviewInv /\ OnlyReviewedChangesInPR

\* At first there is no answer, no decision and no pull request.
LEMMA InitPRInv == Init => PRInv
<1> SUFFICES ASSUME Init PROVE PRInv
  OBVIOUS
<1>1. SignalsTyped
  BY DEF Init, SignalsTyped, Kinds, Decisions
<1>2. ContinuationHasAnswer /\ ReviewInv /\ OnlyReviewedChangesInPR
  BY DEF Init, ContinuationHasAnswer, ReviewInv, OnlyReviewedChangesInPR, NoDecision
<1> QED
  BY <1>1, <1>2, InitContractInv DEF PRInv

\* Signals stay typed while the channels, and what people have sent, do.
LEMMA SignalsTypedStay ==
  ASSUME SignalsTyped, UNCHANGED <<channels, inTransit, sent, question, answer, asking>>
  PROVE  SignalsTyped'
  BY DEF SignalsTyped

\* Messages and questions.
LEMMA SignalsStep ==
  ASSUME SignalsTyped, ContractInv, [Next]_vars
  PROVE  SignalsTyped'
<1>1. CASE UNCHANGED people /\ UNCHANGED answer
  BY <1>1, SignalsTypedStay DEF people
<1>2. CASE Handler
  BY <1>2 DEF Handler, RequestInput, FileQuestion, MarkAwaiting, StoreCheckpoint, SignalsTyped, facts
<1>3. CASE ReceiveAnswer
  <2>1. /\ channels["respond"] \in Seq(Nat) /\ channels["respond"] # <<>>
        /\ answer' = Head(channels["respond"])
        /\ channels' = [channels EXCEPT !["respond"] = Tail(@)]
        /\ UNCHANGED <<inTransit, sent, question, asking>>
    BY <1>3 DEF ReceiveAnswer, SignalsTyped, Kinds
  <2>2. answer' \in Nat /\ channels' \in [Kinds -> Seq(Nat)] /\ channels'["respond"] = Tail(channels["respond"])
    BY <2>1 DEF SignalsTyped, Kinds
  <2>3. \A i \in DOMAIN channels'["respond"] :
          i + 1 \in DOMAIN channels["respond"] /\ channels'["respond"][i] = channels["respond"][i + 1]
    BY <2>1, <2>2
  <2> QED
    BY <2>1, <2>2, <2>3 DEF SignalsTyped
<1>4. ASSUME NEW kind \in Decisions, Decide(kind) PROVE SignalsTyped'
  <2>1. /\ channels[kind] \in Seq(Nat) /\ channels[kind] # <<>> /\ kind # "respond" /\ kind \in Kinds
        /\ channels' = [channels EXCEPT ![kind] = Tail(@)]
        /\ UNCHANGED <<inTransit, sent, question, answer, asking>>
    BY <1>4 DEF Decide, SignalsTyped, Kinds, Decisions
  <2>2. channels' \in [Kinds -> Seq(Nat)] /\ channels'["respond"] = channels["respond"]
    BY <2>1 DEF SignalsTyped, Kinds
  <2> QED
    BY <2>1, <2>2 DEF SignalsTyped
<1>5. ASSUME NEW kind \in Decisions, SignalRun(kind) PROVE SignalsTyped'
  BY <1>5 DEF SignalRun, Post, SignalsTyped, Kinds, Decisions, facts, ContractInv, ControlTyped
<1>6. ASSUME NEW q \in 1..question, Respond(q) PROVE SignalsTyped'
  BY <1>6 DEF Respond, Post, SignalsTyped, Kinds, Decisions, facts
<1>7. ASSUME NEW m \in inTransit, Deliver(m) PROVE SignalsTyped'
  <2>1. m.kind \in Kinds /\ m.saw \in Nat /\ (m.kind = "respond" => m.saw # 0)
    BY DEF SignalsTyped
  <2>2. /\ inTransit' = inTransit \ {m} /\ UNCHANGED <<sent, question, answer, asking>>
        /\ channels' = channels \/ channels' = [channels EXCEPT ![m.kind] = Append(@, m.saw)]
    BY <1>7 DEF Deliver, facts
  <2>3. CASE channels' = channels
    BY <2>2, <2>3 DEF SignalsTyped
  <2>4. CASE channels' = [channels EXCEPT ![m.kind] = Append(@, m.saw)]
    <3> DEFINE q == channels["respond"]
    <3>1. channels' \in [Kinds -> Seq(Nat)] /\ q \in Seq(Nat)
      BY <2>1, <2>4 DEF SignalsTyped, Kinds
    <3>2. channels'["respond"] = IF m.kind = "respond" THEN Append(q, m.saw) ELSE q
      BY <2>1, <2>4 DEF SignalsTyped, Kinds
    <3>3. \A i \in DOMAIN channels'["respond"] : channels'["respond"][i] # 0
      <4>1. \A i \in DOMAIN q : q[i] # 0
        BY DEF SignalsTyped
      <4> HIDE DEF q
      <4>2. CASE m.kind = "respond"
        BY <2>1, <3>1, <3>2, <4>1, <4>2
      <4>3. CASE m.kind # "respond"
        BY <3>2, <4>1, <4>3
      <4> QED
        BY <4>2, <4>3
    <3> QED
      BY <2>2, <3>1, <3>3 DEF SignalsTyped
  <2> QED
    BY <2>2, <2>3, <2>4
<1> QED
  <2>1. CASE \/ Provision \/ Preflight \/ ExecuteCancelled \/ CreateContinuation \/ ProvisionContinuation
             \/ ExecuteContinuation \/ CleanupContinuation \/ Verify \/ Pause \/ CreatePR \/ Cleanup
             \/ Finalize \/ Defer \/ Activity \/ Straggle \/ ParentCancels \/ ParentCloses \/ UNCHANGED vars
    <3>1. UNCHANGED people /\ UNCHANGED answer
      BY <2>1 DEF Provision, Preflight, ExecuteCancelled, CreateContinuation, ProvisionContinuation,
         ExecuteContinuation, CleanupContinuation, Verify, Pause, CreatePR, Cleanup, Finalize, Defer,
         Activity, AgentStarts, AgentEnds, AttemptFails, Straggle, ParentCancels, ParentCloses, vars, facts
    <3> QED
      BY <1>1, <3>1
  <2> QED
    BY <1>2, <1>3, <1>4, <1>5, <1>6, <1>7, <2>1 DEF Next, Workflow

\* An answer is to a question, and questions start at 1.
LEMMA ContinuationStep ==
  ASSUME SignalsTyped, ContinuationHasAnswer, [Next]_vars
  PROVE  ContinuationHasAnswer'
<1> USE DEF ContinuationHasAnswer
<1>1. CASE ReceiveAnswer
  <2>1. channels["respond"] \in Seq(Nat) /\ channels["respond"] # <<>> /\ answer' = Head(channels["respond"])
    BY <1>1 DEF ReceiveAnswer, SignalsTyped, Kinds
  <2>2. 1 \in DOMAIN channels["respond"] /\ answer' = channels["respond"][1]
    BY <2>1
  <2> QED
    BY <2>2 DEF SignalsTyped
<1>2. CASE ~ReceiveAnswer
  <2>1. answer' = answer
    BY <1>2 DEF Next, Workflow, Provision, Preflight, ExecuteCancelled, CreateContinuation, ProvisionContinuation,
         ExecuteContinuation, CleanupContinuation, Verify, Pause, Decide, CreatePR, Cleanup, Finalize, Defer,
         Activity, AgentStarts, AgentEnds, AttemptFails, Straggle, Handler, RequestInput, FileQuestion, MarkAwaiting, StoreCheckpoint, SignalRun, Respond, Deliver,
         ParentCancels, ParentCloses, vars, facts
  <2>2. pc' \in {"continue_create", "continue_provision", "continue_execute", "continue_cleanup"} =>
          pc \in {"continue_create", "continue_provision", "continue_execute", "continue_cleanup"}
    BY <1>2 DEF Next, Workflow, Provision, Preflight, Execute, ExecuteCancelled, CreateContinuation, ProvisionContinuation,
         ExecuteContinuation, CleanupContinuation, Verify, AfterVerify, Pause, Decide, CreatePR, Cleanup, Finalize, Defer,
         Activity, AgentStarts, AgentEnds, AttemptFails, Straggle, Handler, RequestInput, FileQuestion, MarkAwaiting, StoreCheckpoint, SignalRun, Respond, Deliver,
         ParentCancels, ParentCloses, vars, facts, ReturnError, Close
  <2> QED
    BY <2>1, <2>2
<1> QED
  BY <1>1, <1>2

\* The review invariant stays as long as the control leaves the review alone.
LEMMA ReviewStays ==
  ASSUME ReviewInv, OnlyReviewedChangesInPR,
         UNCHANGED <<step, answer, verified, decision, pr, output, result>>,
         row' # row => row' # "complete",
         \/ pc' = pc
         \/ pc' \notin {"pause", "await_decision", "create_pr"} /\ pc \notin {"cleanup", "finalize", "closed"}
  PROVE  ReviewInv' /\ OnlyReviewedChangesInPR'
  BY DEF ReviewInv, OnlyReviewedChangesInPR

\* Every step keeps what is on its way to a pull request reviewed.
LEMMA ReviewStep ==
  ASSUME PRInv, [Next]_vars
  PROVE  ReviewInv' /\ OnlyReviewedChangesInPR'
<1> USE DEF PRInv, ReturnError
<1>1. CASE \/ Provision \/ Preflight \/ ExecuteCancelled \/ CreateContinuation \/ ProvisionContinuation
           \/ AgentStarts \/ AttemptFails \/ Handler \/ Straggle \/ Pause \/ ParentCancels
           \/ (\E kind \in Decisions : SignalRun(kind)) \/ (\E q \in 1..question : Respond(q))
           \/ (\E m \in inTransit : Deliver(m)) \/ UNCHANGED vars
  <2>1. UNCHANGED <<step, answer, verified, decision, pr, output, result>> /\ (row' # row => row' # "complete")
    BY <1>1 DEF Provision, Preflight, ExecuteCancelled, CreateContinuation, ProvisionContinuation,
       AgentStarts, AttemptFails, Handler, RequestInput, FileQuestion, MarkAwaiting, StoreCheckpoint, Straggle, Pause, ParentCancels, SignalRun, Respond, Deliver, vars, facts
  <2>2. CASE Pause
    <3>1. pc = "pause" /\ pc' \in {"await_decision", "defer"}
      BY <2>2 DEF Pause
    <3> QED
      BY <2>1, <3>1 DEF ReviewInv, OnlyReviewedChangesInPR
  <2>3. CASE ~Pause
    <3>1. \/ pc' = pc
          \/ pc' \notin {"pause", "await_decision", "create_pr"} /\ pc \notin {"cleanup", "finalize", "closed"}
      BY <1>1, <2>3 DEF Provision, Preflight, Execute, ExecuteCancelled, CreateContinuation, ProvisionContinuation,
         AgentStarts, AttemptFails, Handler, RequestInput, FileQuestion, MarkAwaiting, StoreCheckpoint, Straggle, ParentCancels, SignalRun, Respond, Deliver, vars
    <3> QED
      BY <2>1, <3>1, ReviewStays
  <2> QED
    BY <2>2, <2>3
<1>2. CASE AgentEnds \/ ExecuteContinuation
  <2>1. /\ UNCHANGED <<step, answer, verified, decision, pr, result, row>>
        /\ pc \in {"execute", "continue_execute"} /\ pc' \in {"await_answer", "verify", "continue_cleanup"}
    BY <1>2 DEF AgentEnds, ExecuteContinuation, facts
  <2> QED
    BY <2>1 DEF ReviewInv, OnlyReviewedChangesInPR
<1>3. CASE ReceiveAnswer
  <2>1. /\ UNCHANGED <<step, verified, decision, pr, result, row, output>>
        /\ pc = "await_answer" /\ pc' = "continue_create"
    BY <1>3 DEF ReceiveAnswer
  <2> QED
    BY <2>1 DEF ReviewInv, OnlyReviewedChangesInPR
<1>4. CASE CleanupContinuation
  <2>1. /\ UNCHANGED <<step, answer, verified, decision, pr, result, row, output>>
        /\ pc = "continue_cleanup" /\ pc' \in {"create_pr", "defer"} /\ answer # 0
    BY <1>4 DEF CleanupContinuation, facts, ContinuationHasAnswer
  <2> QED
    BY <2>1 DEF ReviewInv, OnlyReviewedChangesInPR
<1>5. CASE Verify
  <2>1. /\ UNCHANGED <<step, answer, decision, pr, result>> /\ (row' # row => row' # "complete")
        /\ pc = "verify" /\ pc' \in {"pause", "create_pr", "finalize"} /\ output'.of = output.of
        /\ pc' # "finalize" /\ step.verifiers => verified' = output.of
        /\ pc' = "create_pr" => step.policy # "always"
    BY <1>5 DEF Verify, AfterVerify, ShouldPause, ContractInv, ControlTyped
  <2> QED
    BY <2>1 DEF ReviewInv, OnlyReviewedChangesInPR
<1>6. ASSUME NEW kind \in Decisions, Decide(kind) PROVE ReviewInv' /\ OnlyReviewedChangesInPR'
  <2>1. /\ UNCHANGED <<step, answer, verified, pr, result, row>> /\ pc = "await_decision"
        /\ decision'.kind = kind /\ decision'.of = output.of /\ output'.of = output.of
        /\ \/ kind = "approve" /\ pc' = "create_pr"
           \/ kind \in {"reject", "cancel"} /\ pc' = "finalize" /\ output'.status = "failed"
           \/ kind = "steer" /\ pc' = "execute"
    BY <1>6 DEF Decide, Execute, ContractInv, ControlTyped
  <2>2. pr = 0 /\ result = "open" /\ row # "complete"
    BY <2>1 DEF ReviewInv, ContractInv, RowFollowsControl
  <2> QED
    BY <2>1, <2>2 DEF ReviewInv, OnlyReviewedChangesInPR
<1>7. CASE CreatePR
  <2>1. /\ UNCHANGED <<step, answer, verified, decision, result, row, output>>
        /\ pc = "create_pr" /\ pc' = "cleanup" /\ pr' \in {output.of, pr}
    BY <1>7 DEF CreatePR
  <2>2. pr = 0
    BY <2>1 DEF ReviewInv
  <2> QED
    BY <2>1, <2>2 DEF ReviewInv, OnlyReviewedChangesInPR
<1>8. CASE Cleanup
  <2>1. UNCHANGED <<step, answer, verified, decision, pr, result, row, output>> /\ pc = "cleanup" /\ pc' = "finalize"
    BY <1>8 DEF Cleanup, facts
  <2> QED
    BY <2>1 DEF ReviewInv, OnlyReviewedChangesInPR
<1>9. CASE Finalize \/ Defer \/ ParentCloses
  <2>1. UNCHANGED <<step, answer, verified, decision, pr, output>> /\ pc' = "closed"
    BY <1>9 DEF Finalize, Defer, ParentCloses, Close, facts
  <2>2. CASE Finalize
    <3>1. pc = "finalize" /\ row' \in {row, output.status} /\ result' \in {output.status, "error"}
      BY <2>2 DEF Finalize, Close
    <3> QED
      BY <2>1, <3>1 DEF ReviewInv, OnlyReviewedChangesInPR
  <2>3. CASE Defer \/ ParentCloses
    <3>1. row' \in {row, "failed"} /\ result' \in {"error", "terminated"} /\ result = "open" /\ pc # "closed"
      BY <2>3 DEF Defer, ParentCloses, Close, ContractInv, RowFollowsControl
    <3> QED
      BY <2>1, <3>1 DEF ReviewInv, OnlyReviewedChangesInPR
  <2> QED
    BY <1>9, <2>2, <2>3
<1> QED
  BY <1>1, <1>2, <1>3, <1>4, <1>5, <1>6, <1>7, <1>8, <1>9 DEF Next, Workflow, Activity

\* Unless the step was resumed after a question, what its pull request holds was
\* verified, and approved where the policy says so, and a rejected step neither
\* gets a pull request nor counts as complete (the review loop of StepWorkflow).
THEOREM ReviewedOnly == Spec => []OnlyReviewedChangesInPR
<1>1. PRInv /\ [Next]_vars => PRInv'
  BY ContractStep, SignalsStep, ContinuationStep, ReviewStep DEF PRInv
<1>2. PRInv => OnlyReviewedChangesInPR
  BY DEF PRInv
<1> QED
  BY <1>1, <1>2, InitPRInv, PTL DEF Spec

-----------------------------------------------------------------------------
(* A step that waits can be reached.                                       *)

\* An answer that is outstanding stays so until the workflow receives one.
LEMMA AnswerStaysOutstanding ==
  ASSUME SignalsTyped, AnswerOutstanding, [Next]_vars, ~ReceiveAnswer, lost' = lost, result = "open"
  PROVE  AnswerOutstanding'
<1>1. CASE Handler
  BY <1>1 DEF Handler, RequestInput, FileQuestion, MarkAwaiting, StoreCheckpoint, AnswerOutstanding
<1>2. ASSUME NEW kind \in Decisions, Decide(kind) PROVE AnswerOutstanding'
  <2>1. UNCHANGED <<unanswered, inTransit>> /\ channels'["respond"] = channels["respond"]
    BY <1>2 DEF Decide, SignalsTyped, Kinds, Decisions
  <2> QED
    BY <2>1 DEF AnswerOutstanding
<1>3. ASSUME NEW kind \in Decisions, SignalRun(kind) PROVE AnswerOutstanding'
  BY <1>3 DEF SignalRun, Post, AnswerOutstanding
<1>4. ASSUME NEW q \in 1..question, Respond(q) PROVE AnswerOutstanding'
  <2>1. Post("respond", q) \/ LoseWrite
    BY <1>4 DEF Respond
  <2>2. CASE LoseWrite
    BY <2>2, MaxLostWrites \in Nat DEF LoseWrite
  <2>3. CASE Post("respond", q)
    <3> DEFINE m == [id |-> sent, kind |-> "respond", saw |-> q]
    <3>1. m \in inTransit' /\ m.kind = "respond"
      BY <2>3 DEF Post
    <3> HIDE DEF m
    <3> QED
      BY <3>1 DEF AnswerOutstanding
  <2> QED
    BY <2>1, <2>2, <2>3
<1>5. ASSUME NEW m \in inTransit, Deliver(m) PROVE AnswerOutstanding'
  <2>1. UNCHANGED unanswered /\ inTransit' = inTransit \ {m}
        /\ channels' = [channels EXCEPT ![m.kind] = Append(@, m.saw)]
        /\ m.kind \in Kinds /\ m.saw \in Nat /\ channels \in [Kinds -> Seq(Nat)]
    BY <1>5 DEF Deliver, SignalsTyped
  <2>2. CASE m.kind = "respond"
    <3>1. channels'["respond"] = Append(channels["respond"], m.saw) /\ channels["respond"] \in Seq(Nat)
      BY <2>1, <2>2 DEF Kinds
    <3> QED
      BY <2>1, <3>1 DEF AnswerOutstanding
  <2>3. CASE m.kind # "respond"
    <3>1. channels'["respond"] = channels["respond"]
      BY <2>1, <2>3 DEF Kinds
    <3> QED
      BY <2>1, <2>3, <3>1 DEF AnswerOutstanding
  <2> QED
    BY <2>2, <2>3
<1>6. CASE UNCHANGED people
  BY <1>6 DEF people, AnswerOutstanding
<1> QED
  <2>1. CASE \/ Provision \/ Preflight \/ ExecuteCancelled \/ CreateContinuation \/ ProvisionContinuation
             \/ ExecuteContinuation \/ CleanupContinuation \/ Verify \/ Pause \/ CreatePR \/ Cleanup
             \/ Finalize \/ Defer \/ Activity \/ Straggle \/ ParentCancels \/ ParentCloses \/ UNCHANGED vars
    <3>1. UNCHANGED people
      BY <2>1 DEF Provision, Preflight, ExecuteCancelled, CreateContinuation, ProvisionContinuation,
         ExecuteContinuation, CleanupContinuation, Verify, Pause, CreatePR, Cleanup, Finalize, Defer,
         Activity, AgentStarts, AgentEnds, AttemptFails, Straggle, ParentCancels, ParentCloses, vars
    <3> QED
      BY <1>6, <3>1
  <2> QED
    BY <1>1, <1>2, <1>3, <1>4, <1>5, <2>1 DEF Next, Workflow

\* What the other parts need to know of lost writes, closing and answers.
LEMMA LostGrows ==
  ASSUME lost \in Nat, [Next]_vars
  PROVE  lost' \in Nat /\ (lost' = 0 => lost = 0 /\ lost' = lost)
<1>1. lost' = lost \/ lost' = lost + 1
  BY DEF Next, Workflow, Provision, Preflight, ExecuteCancelled, ReceiveAnswer, CreateContinuation,
     ProvisionContinuation, ExecuteContinuation, CleanupContinuation, Verify, Pause, Decide, CreatePR, Cleanup,
     Finalize, Defer, Activity, AgentStarts, AgentEnds, AttemptFails, Straggle, Handler, RequestInput, FileQuestion, MarkAwaiting, StoreCheckpoint, SignalRun,
     Respond, Deliver, ParentCancels, ParentCloses, vars, LoseWrite
<1> QED
  BY <1>1

\* Every step keeps a waiting step reachable.
LEMMA WaitStep ==
  ASSUME ContractInv, SignalsTyped, ContinuationHasAnswer, ContinuationHasAnswer', WaitInv, [Next]_vars
  PROVE  WaitInv'
<1> DEFINE late == {"continue_create", "continue_provision", "continue_execute", "continue_cleanup",
                    "create_pr", "cleanup", "finalize", "defer", "closed"}
<1>1. lost' \in Nat /\ (lost' = 0 => lost = 0 /\ lost' = lost)
  BY LostGrows DEF WaitInv
<1>2. answer' # 0 => pc' \in late
  <2>1. CASE ReceiveAnswer
    BY <2>1 DEF ReceiveAnswer
  <2>2. CASE ~ReceiveAnswer
    <3>1. answer' = answer
      BY <2>2 DEF Next, Workflow, Provision, Preflight, ExecuteCancelled, CreateContinuation, ProvisionContinuation,
         ExecuteContinuation, CleanupContinuation, Verify, Pause, Decide, CreatePR, Cleanup, Finalize, Defer,
         Activity, AgentStarts, AgentEnds, AttemptFails, Straggle, Handler, RequestInput, FileQuestion, MarkAwaiting, StoreCheckpoint, SignalRun, Respond, Deliver,
         ParentCancels, ParentCloses, vars, facts
    <3>2. pc \in late => pc' \in late
      BY <2>2 DEF Next, Workflow, Provision, Preflight, Execute, ExecuteCancelled, CreateContinuation,
         ProvisionContinuation, ExecuteContinuation, CleanupContinuation, Verify, AfterVerify, Pause, Decide, CreatePR,
         Cleanup, Finalize, Defer, Activity, AgentStarts, AgentEnds, AttemptFails, Straggle, Handler, RequestInput, FileQuestion, MarkAwaiting, StoreCheckpoint, SignalRun,
         Respond, Deliver, ParentCancels, ParentCloses, vars, ReturnError, Close
    <3> QED
      BY <3>1, <3>2 DEF WaitInv
  <2> QED
    BY <2>1, <2>2
<1>3. pc' # "execute" /\ act' # "idle" => pc' \in {"finalize", "defer", "closed"}
  <2>1. /\ \/ act' = act /\ (pc' = pc \/ pc \notin {"execute", "finalize", "defer", "closed"})
           \/ act' = "idle"
           \/ pc' \in {"execute", "finalize", "defer", "closed"}
    BY DEF Next, Workflow, Provision, Preflight, Execute, ExecuteCancelled, ReceiveAnswer, CreateContinuation,
       ProvisionContinuation, ExecuteContinuation, CleanupContinuation, Verify, AfterVerify, Pause, Decide, CreatePR,
       Cleanup, Finalize, Defer, Activity, AgentStarts, AgentEnds, AttemptFails, Straggle, Handler, RequestInput, FileQuestion, MarkAwaiting, StoreCheckpoint, SignalRun,
       Respond, Deliver, ParentCancels, ParentCloses, vars, exec, ReturnError, Close
  <2> QED
    BY <2>1 DEF WaitInv
<1>4. pc' = "await_decision" => row' = "awaiting_input"
  <2>1. CASE Pause
    BY <2>1 DEF Pause, ReturnError
  <2>2. CASE ~Pause
    <3>1. pc' = "await_decision" => pc = "await_decision" /\ (row' \in {row, "awaiting_input"} \/ act # "idle")
      BY <2>2 DEF Next, Workflow, Provision, Preflight, Execute, ExecuteCancelled, ReceiveAnswer, CreateContinuation,
         ProvisionContinuation, ExecuteContinuation, CleanupContinuation, Verify, AfterVerify, ShouldPause, Decide, CreatePR,
         Cleanup, Finalize, Defer, Activity, AgentStarts, AgentEnds, AttemptFails, Straggle, Handler, RequestInput, FileQuestion, MarkAwaiting, StoreCheckpoint, SignalRun,
         Respond, Deliver, ParentCancels, ParentCloses, vars, ReturnError, Close
    <3> QED
      BY <3>1 DEF WaitInv
  <2> QED
    BY <2>1, <2>2
<1>5. ASSUME lost' = 0
      PROVE  /\ pc' = "execute" /\ act' = "agent" /\ row' = "awaiting_input" => question' # 0
             /\ pc' = "await_answer" => question' # 0
  <2>1. CASE AgentStarts
    BY <1>1, <1>5, <2>1 DEF AgentStarts, LoseWrite
  <2>2. CASE FileQuestion
    <3>1. question \in Nat /\ (question' = question + 1 \/ lost' = lost + 1)
      BY <2>2 DEF FileQuestion, LoseWrite, SignalsTyped
    <3> QED
      BY <1>1, <1>5, <3>1 DEF WaitInv
  <2>3. CASE AgentEnds
    BY <1>1, <1>5, <2>3 DEF AgentEnds, people, WaitInv
  <2>4. CASE MarkAwaiting
    BY <2>4 DEF MarkAwaiting, SignalsTyped, SignalsTyped, exec
  <2>5. CASE ~AgentStarts /\ ~FileQuestion /\ ~MarkAwaiting /\ ~AgentEnds
    <3>1. /\ question' = question
          /\ pc' = "await_answer" => pc = "await_answer"
          /\ pc' = "execute" /\ act' = "agent" => pc = "execute" /\ act = "agent" /\ row' = row
      BY <2>5 DEF Next, Workflow, Provision, Preflight, Execute, ExecuteCancelled, ReceiveAnswer, CreateContinuation,
         ProvisionContinuation, ExecuteContinuation, CleanupContinuation, Verify, AfterVerify, ShouldPause, Pause, Decide, CreatePR,
         Cleanup, Finalize, Defer, Activity, AttemptFails, Straggle, Handler, RequestInput, StoreCheckpoint, SignalRun,
         Respond, Deliver, ParentCancels, ParentCloses, vars, exec, people, ReturnError, Close
    <3> QED
      BY <1>1, <1>5, <3>1 DEF WaitInv
  <2> QED
    BY <2>1, <2>2, <2>3, <2>4, <2>5
<1>6. ASSUME lost' = 0, answer' = 0, question' # 0, result' = "open" PROVE AnswerOutstanding'
  <2>1. lost = 0 /\ lost' = lost
    BY <1>1, <1>6
  <2>2. CASE ReceiveAnswer
    BY <1>6, <2>2 DEF ReceiveAnswer, ContinuationHasAnswer
  <2>3. CASE FileQuestion
    <3>1. \/ question + 1 \in unanswered'
          \/ UNCHANGED <<question, unanswered, channels, inTransit>>
      BY <2>3 DEF FileQuestion
    <3> QED
      BY <1>6, <2>1, <2>3, <3>1 DEF FileQuestion, facts, LoseWrite, WaitInv, AnswerOutstanding
  <2>4. CASE ~ReceiveAnswer /\ ~FileQuestion
    <3>1. answer' = answer /\ question' = question /\ (result' = "open" => result = "open")
      BY <2>4 DEF Next, Workflow, Provision, Preflight, Execute, ExecuteCancelled, CreateContinuation,
         ProvisionContinuation, ExecuteContinuation, CleanupContinuation, Verify, Pause, Decide, CreatePR,
         Cleanup, Finalize, Defer, Activity, AgentStarts, AgentEnds, AttemptFails, Straggle, Handler, RequestInput, MarkAwaiting,
         StoreCheckpoint, SignalRun, Respond, Deliver, ParentCancels, ParentCloses, vars, facts, people, Close, ContractInv, RowFollowsControl
    <3> QED
      BY <1>6, <2>1, <2>4, <3>1, AnswerStaysOutstanding DEF WaitInv
  <2> QED
    BY <2>2, <2>3, <2>4
<1> QED
  BY <1>1, <1>2, <1>3, <1>4, <1>5, <1>6 DEF WaitInv

\* The workflow's invariants, in every reachable state.
LEMMA WaitInvariance == Spec => [](ContractInv /\ WaitInv)
<1>1. Init => WaitInv
  BY DEF Init, WaitInv
<1>2. PRInv /\ WaitInv /\ [Next]_vars => PRInv' /\ WaitInv'
  BY ContractStep, SignalsStep, ContinuationStep, ReviewStep, WaitStep DEF PRInv
<1>3. PRInv => ContractInv
  BY DEF PRInv
<1> QED
  BY <1>1, <1>2, <1>3, InitPRInv, PTL DEF Spec

\* Whatever was sent, retried, steered or cancelled, a step that waits for a
\* decision is the one signalRun finds, and one that waits for an answer has an
\* open question or an answer under way, unless a write was lost (StepWorkflow, signalRun, Respond).
THEOREM WaitingIsReachable == Spec => []WaitingStepIsReachable
<1>1. ContractInv /\ WaitInv => WaitingStepIsReachable
  BY DEF ContractInv, RowFollowsControl, WaitInv, WaitingStepIsReachable, AnswerOutstanding
<1> QED
  BY <1>1, WaitInvariance, PTL

\* A workflow that waits for an answer has an agent that asked, although the row
\* awaits input for a pause as well (execute.go:190).
THEOREM WaitingMeansAsked == Spec => []AwaitingMeansAsked
<1>1. WaitInv => AwaitingMeansAsked
  BY DEF WaitInv, AwaitingMeansAsked
<1> QED
  BY <1>1, WaitInvariance, PTL

-----------------------------------------------------------------------------
(* A completed step leaves nothing behind.                                 *)

Released == ReleaseInv /\ CompletionReleasesEverything

\* What is released stays so, and a cancelled step does not complete.
LEMMA ReleaseStep ==
  ASSUME ContractInv, ContractInv', SignalsTyped, WaitInv, WaitInv', ContinuationHasAnswer, ContinuationHasAnswer',
         Released, [Next]_vars
  PROVE  Released'
<1> USE DEF Released, ReleaseInv, CompletionReleasesEverything
<1>1. lost' \in Nat /\ (lost' = 0 => lost = 0 /\ lost' = lost) /\ (cancelled => cancelled')
      /\ (result = "open" <=> pc # "closed") /\ step' = step
  <2>1. cancelled' = cancelled \/ cancelled'
    BY DEF Next, Workflow, Provision, Preflight, ExecuteCancelled, ReceiveAnswer, CreateContinuation,
       ProvisionContinuation, ExecuteContinuation, CleanupContinuation, Verify, Pause, Decide, CreatePR, Cleanup,
       Finalize, Defer, Activity, AgentStarts, AgentEnds, AttemptFails, Straggle, Handler, RequestInput, FileQuestion, MarkAwaiting, StoreCheckpoint, SignalRun,
       Respond, Deliver, ParentCancels, ParentCloses, vars
  <2>2. step' = step
    BY DEF Next, Workflow, Provision, Preflight, ExecuteCancelled, ReceiveAnswer, CreateContinuation,
       ProvisionContinuation, ExecuteContinuation, CleanupContinuation, Verify, Pause, Decide, CreatePR, Cleanup,
       Finalize, Defer, Activity, AgentStarts, AgentEnds, AttemptFails, Straggle, Handler, RequestInput, FileQuestion, MarkAwaiting, StoreCheckpoint, SignalRun,
       Respond, Deliver, ParentCancels, ParentCloses, vars
  <2> QED
    BY <2>1, <2>2, LostGrows DEF WaitInv, ContractInv, RowFollowsControl
<1>2. CASE Provision
  <2>1. /\ UNCHANGED <<result, contSandbox, answer>> /\ pc = "provision" /\ pc' \in {"preflight", "defer"}
        /\ pc' = "preflight" => sandbox' \in {"live", "shared"}
    BY <1>2 DEF Provision, facts, ReturnError
  <2> QED
    BY <1>1, <2>1 DEF ContractInv, RowFollowsControl
<1>3. CASE \/ Preflight \/ ExecuteCancelled \/ AgentStarts \/ AgentEnds \/ AttemptFails
           \/ CreateContinuation \/ Verify \/ Pause \/ (\E kind \in Decisions : Decide(kind)) \/ ReceiveAnswer
           \/ ExecuteContinuation
  <2>1. /\ UNCHANGED <<result, sandbox, contSandbox>> /\ pc \notin {"provision", "create_pr", "cleanup", "finalize", "defer", "closed"}
        /\ pc' \notin {"provision", "cleanup", "closed"}
    BY <1>3 DEF Preflight, Execute, ExecuteCancelled, AgentStarts, AgentEnds, AttemptFails, CreateContinuation,
       Verify, AfterVerify, Pause, Decide, ReceiveAnswer, ExecuteContinuation, boxes, ReturnError
  <2>2. pc' \in {"create_pr", "finalize"} => pc \in {"verify", "await_decision"} /\ answer = 0 /\ answer' = answer
    BY <1>3 DEF Preflight, Execute, ExecuteCancelled, AgentStarts, AgentEnds, AttemptFails, CreateContinuation,
       Verify, AfterVerify, Pause, Decide, ReceiveAnswer, ExecuteContinuation, facts, ReturnError, WaitInv
  <2>3. pc' = "finalize" => output'.status = "failed"
    BY <1>3 DEF Preflight, Execute, ExecuteCancelled, AgentStarts, AgentEnds, AttemptFails, CreateContinuation,
       Verify, AfterVerify, Pause, Decide, ReceiveAnswer, ExecuteContinuation, ReturnError, ContractInv, ControlTyped
  <2>4. answer' = 0 => answer = 0
    <3>1. CASE ReceiveAnswer
      BY <3>1 DEF ReceiveAnswer, ContinuationHasAnswer
    <3>2. CASE ~ReceiveAnswer
      BY <1>3, <3>2 DEF Preflight, ExecuteCancelled, AgentStarts, AgentEnds, AttemptFails, CreateContinuation,
         Verify, Pause, Decide, ExecuteContinuation, facts
    <3> QED
      BY <3>1, <3>2
  <2>5. result = "open"
    BY <2>1, <1>1
  <2> QED
    BY <2>1, <2>2, <2>3, <2>4, <2>5
<1>4. CASE ProvisionContinuation
  <2>1. /\ UNCHANGED <<result, sandbox, answer>> /\ pc = "continue_provision"
        /\ pc' \in {"continue_execute", "defer"} /\ answer # 0
    BY <1>4 DEF ProvisionContinuation, facts, ReturnError, ContinuationHasAnswer
  <2> QED
    BY <1>1, <2>1
<1>5. CASE CleanupContinuation
  <2>1. /\ UNCHANGED <<result, sandbox, answer, cancelled>> /\ pc = "continue_cleanup"
        /\ pc' \in {"create_pr", "defer"} /\ answer # 0
        /\ ~cancelled /\ step.repository => checkpoint' # "known"
        /\ \/ ~cancelled /\ contSandbox' = "killed"
           \/ lost' = lost + 1
           \/ cancelled
    BY <1>5 DEF CleanupContinuation, DeleteCheckpoint, LoseWrite, facts, ReturnError, ContinuationHasAnswer
  <2>2. lost' = 0 /\ ~cancelled => contSandbox' = "killed" /\ (step.repository => checkpoint' # "known")
    BY <1>1, <2>1
  <2> QED
    BY <1>1, <2>1, <2>2
<1>6. CASE CreatePR
  <2>1. UNCHANGED <<result, boxes, answer, cancelled, lost, sandbox, contSandbox, checkpoint>> /\ pc = "create_pr" /\ pc' = "cleanup"
    BY <1>6 DEF CreatePR, boxes
  <2> QED
    BY <1>1, <2>1
<1>7. CASE Cleanup
  <2>1. /\ UNCHANGED <<result, answer, cancelled, contSandbox, checkpoint, output>> /\ pc = "cleanup" /\ pc' = "finalize"
        /\ \/ ~cancelled /\ sandbox' = "killed"
           \/ lost' = lost + 1
           \/ cancelled
           \/ sandbox # "live" /\ sandbox' = sandbox
    BY <1>7 DEF Cleanup, LoseWrite, facts
  <2>2. lost' = 0 /\ ~cancelled => sandbox' \in {"killed", "shared"}
    BY <1>1, <2>1
  <2> QED
    BY <1>1, <2>1, <2>2
<1>8. CASE Finalize \/ Defer \/ ParentCloses
  <2>1. UNCHANGED <<answer, sandbox, contSandbox, checkpoint, cancelled>> /\ pc' = "closed"
    BY <1>8 DEF Finalize, Defer, ParentCloses, Close, boxes, facts
  <2>2. result' = "complete" => pc = "finalize" /\ ~cancelled /\ output.status = "complete"
    BY <1>8 DEF Finalize, Defer, ParentCloses, Close
  <2> QED
    BY <1>1, <2>1, <2>2
<1>9. CASE \/ Straggle \/ ParentCancels \/ (\E kind \in Decisions : SignalRun(kind))
           \/ (\E q \in 1..question : Respond(q)) \/ (\E m \in inTransit : Deliver(m)) \/ Handler \/ UNCHANGED vars
  <2>1. /\ UNCHANGED <<step, pc, answer, result, sandbox, contSandbox, output>>
        /\ checkpoint' = "known" => checkpoint = "known"
    BY <1>9 DEF Straggle, ParentCancels, SignalRun, Respond, Deliver, Handler, RequestInput, FileQuestion, MarkAwaiting, StoreCheckpoint, vars, boxes, facts
  <2> QED
    BY <1>1, <2>1
<1> QED
  BY <1>2, <1>3, <1>4, <1>5, <1>6, <1>7, <1>8, <1>9 DEF Next, Workflow, Activity

\* A step that completed without a lost write has killed its own sandbox and that
\* of its continuation, and tried to delete the branch the continuation started from,
\* if the step names a repository and the name of the branch was read (step.go:316).
THEOREM CompletionLeavesNothing == Spec => []CompletionReleasesEverything
<1>1. Init => Released
  BY DEF Init, Released, ReleaseInv, CompletionReleasesEverything
<1>2. PRInv /\ WaitInv /\ Released /\ [Next]_vars => PRInv' /\ WaitInv' /\ Released'
  BY ContractStep, SignalsStep, ContinuationStep, ReviewStep, WaitStep, ReleaseStep DEF PRInv
<1>3. Released => CompletionReleasesEverything
  BY DEF Released
<1>4. Init => WaitInv
  BY DEF Init, WaitInv
<1> QED
  BY <1>1, <1>2, <1>3, <1>4, InitPRInv, PTL DEF Spec

-----------------------------------------------------------------------------
(* Types and bounds, and what an approval has seen.                        *)

\* The variables of the workflow itself.
WorkTyped ==
  /\ step \in StepDefs
  /\ result \in {"open", "complete", "failed", "error", "terminated"}
  /\ row \in {"pending", "running", "awaiting_input", "complete", "failed"}
  /\ contRow \in {"absent", "pending", "running", "awaiting_input"}
  /\ sandbox \in {"none", "shared", "live", "killed", "orphaned"}
  /\ contSandbox \in {"none", "live", "killed", "orphaned"}
  /\ checkpoint \in {"none", "pushed", "stored", "known", "deleted", "undeleted"}
  /\ asking \in {"idle", "found", "filed", "marked"}
  /\ lost \in 0..MaxLostWrites

\* What is counted, and what is taken over from a counter.
NumbersTyped ==
  /\ attempt \in 0..2 /\ execution \in 0..MaxExecutions
  /\ output.of \in 0..MaxExecutions /\ output.of <= execution
  /\ verified \in 0..MaxExecutions /\ pr \in 0..MaxExecutions
  /\ decision \in [kind : Decisions \cup {"none"}, saw : 0..MaxExecutions, of : 0..MaxExecutions]
  /\ answer \in 0..question
  /\ pc \in {"provision", "preflight"} => execution = 0
  /\ pc = "execute" => execution # 0

\* What people have sent.
SentTyped ==
  /\ channels \in [Kinds -> Seq(Nat)]
  /\ inTransit \subseteq [id : 0..MaxSignals, kind : Kinds, saw : Nat]
  /\ sent \in 0..MaxSignals
  /\ question \in 0..MaxQuestions /\ unanswered \subseteq 1..question

\* A lost write is counted.
LEMMA LostIsCounted == ASSUME lost \in 0..MaxLostWrites, LoseWrite \/ UNCHANGED lost PROVE lost' \in 0..MaxLostWrites
  BY BoundsAssumption DEF LoseWrite

\* The workflow's own variables.
LEMMA WorkTypedStays ==
  ASSUME ContractInv, WorkTyped, [Next]_vars
  PROVE  WorkTyped'
<1> USE DEF WorkTyped
<1>1. lost' \in 0..MaxLostWrites
  <2>1. LoseWrite \/ UNCHANGED lost
    BY DEF Next, Workflow, Provision, Preflight, ExecuteCancelled, ReceiveAnswer, CreateContinuation,
       ProvisionContinuation, ExecuteContinuation, CleanupContinuation, Verify, Pause, Decide, CreatePR, Cleanup,
       Finalize, Defer, Activity, AgentStarts, AgentEnds, AttemptFails, Straggle, Handler, RequestInput, FileQuestion, MarkAwaiting, StoreCheckpoint, SignalRun,
       Respond, Deliver, ParentCancels, ParentCloses, vars
  <2> QED
    BY <2>1, LostIsCounted
<1>2. step' = step
  BY DEF Next, Workflow, Provision, Preflight, ExecuteCancelled, ReceiveAnswer, CreateContinuation,
     ProvisionContinuation, ExecuteContinuation, CleanupContinuation, Verify, Pause, Decide, CreatePR, Cleanup,
     Finalize, Defer, Activity, AgentStarts, AgentEnds, AttemptFails, Straggle, Handler, RequestInput, FileQuestion, MarkAwaiting, StoreCheckpoint, SignalRun,
     Respond, Deliver, ParentCancels, ParentCloses, vars
<1>3. contRow' \in {"absent", "pending", "running", "awaiting_input"}
  BY DEF Next, Workflow, Provision, Preflight, ExecuteCancelled, ReceiveAnswer, CreateContinuation,
     ProvisionContinuation, ExecuteContinuation, CleanupContinuation, Verify, Pause, Decide, CreatePR, Cleanup,
     Finalize, Defer, Activity, AgentStarts, AgentEnds, AttemptFails, Straggle, Handler, RequestInput, FileQuestion, MarkAwaiting, StoreCheckpoint, SignalRun,
     Respond, Deliver, ParentCancels, ParentCloses, vars
<1>4. /\ sandbox' \in {"none", "shared", "live", "killed", "orphaned"}
      /\ contSandbox' \in {"none", "live", "killed", "orphaned"}
      /\ checkpoint' \in {"none", "pushed", "stored", "known", "deleted", "undeleted"}
      /\ asking' \in {"idle", "found", "filed", "marked"}
  BY DEF Next, Workflow, Provision, Preflight, ExecuteCancelled, ReceiveAnswer, CreateContinuation,
     ProvisionContinuation, ExecuteContinuation, CleanupContinuation, Verify, Pause, Decide, CreatePR, Cleanup,
     Finalize, Defer, Activity, AgentStarts, AgentEnds, AttemptFails, Straggle, Handler, RequestInput, FileQuestion, MarkAwaiting, StoreCheckpoint, SignalRun,
     Respond, Deliver, ParentCancels, ParentCloses, vars, boxes, people, DeleteCheckpoint
<1>5. row' \in {"pending", "running", "awaiting_input", "complete", "failed"}
  BY DEF Next, Workflow, Provision, Preflight, ExecuteCancelled, ReceiveAnswer, CreateContinuation,
     ProvisionContinuation, ExecuteContinuation, CleanupContinuation, Verify, Pause, Decide, CreatePR, Cleanup,
     Finalize, Defer, Activity, AgentStarts, AgentEnds, AttemptFails, Straggle, Handler, RequestInput, FileQuestion, MarkAwaiting, StoreCheckpoint, SignalRun,
     Respond, Deliver, ParentCancels, ParentCloses, vars, ContractInv, OutputIsFinal
<1>6. result' \in {"open", "complete", "failed", "error", "terminated"}
  <2>1. ContractInv'
    BY ContractStep
  <2> QED
    BY <2>1 DEF ContractInv, RowFollowsControl
<1> QED
  BY <1>1, <1>2, <1>3, <1>4, <1>5, <1>6

\* All of it, with the signals and what was seen.
SeenParts == WorkTyped /\ NumbersTyped /\ SentTyped /\ SignalsFit /\ SeenInv

\* Numbers, one by one.
LEMMA Numbers ==
  ASSUME NumbersTyped, SentTyped
  PROVE  /\ execution \in Nat /\ output.of \in Nat /\ output.of <= execution /\ execution <= MaxExecutions /\ MaxExecutions \in Nat
         /\ question \in Nat /\ MaxQuestions \in Nat /\ MaxSignals \in Nat /\ answer \in Nat /\ (question = 0 => answer = 0)
  BY BoundsAssumption DEF NumbersTyped, SentTyped

\* An output is only replaced by that of a later execution, until the agent
\* has asked.
LEMMA OutputGrows ==
  ASSUME ContractInv, NumbersTyped, SentTyped, ContinuationHasAnswer, [Next]_vars
  PROVE  /\ question' \in Nat /\ question <= question' /\ question' <= MaxQuestions /\ (question' # question => FileQuestion)
         /\ output'.of \in Nat /\ (question = 0 => output.of <= output'.of)
         /\ output'.of <= execution'
         /\ execution' \in Nat /\ execution' <= MaxExecutions
<1>1. question' = question \/ (FileQuestion /\ question' = question + 1 /\ question < MaxQuestions)
  BY DEF Next, Workflow, Provision, Preflight, ExecuteCancelled, ReceiveAnswer, CreateContinuation,
     ProvisionContinuation, ExecuteContinuation, CleanupContinuation, Verify, Pause, Decide, CreatePR, Cleanup,
     Finalize, Defer, Activity, AgentStarts, AgentEnds, AttemptFails, Straggle, Handler, RequestInput, FileQuestion, MarkAwaiting, StoreCheckpoint, SignalRun,
     Respond, Deliver, ParentCancels, ParentCloses, vars, people
<1>2. \/ execution' = execution
      \/ Preflight /\ execution' = execution + 1
      \/ execution < MaxExecutions /\ execution' = execution + 1
  BY DEF Next, Workflow, Provision, Preflight, Execute, ExecuteCancelled, ReceiveAnswer, CreateContinuation,
     ProvisionContinuation, ExecuteContinuation, CleanupContinuation, Verify, Pause, Decide, CreatePR, Cleanup,
     Finalize, Defer, Activity, AgentStarts, AgentEnds, AttemptFails, Straggle, Handler, RequestInput, FileQuestion, MarkAwaiting, StoreCheckpoint, SignalRun,
     Respond, Deliver, ParentCancels, ParentCloses, vars, exec
<1>3. Preflight => execution = 0
  BY DEF Preflight, NumbersTyped
<1>4. execution' \in Nat /\ execution' <= MaxExecutions /\ execution <= execution'
  BY <1>2, <1>3, Numbers, BoundsAssumption
<1>5. \/ output'.of = output.of
      \/ output'.of = execution
      \/ pc = "continue_execute" /\ output'.of = 0
  <2>1. CASE AgentEnds
    <3>1. output' \in Outputs({"awaiting_input"}) \/ output' \in Outputs({"complete", "failed"})
      BY <2>1 DEF AgentEnds
    <3> QED
      BY <3>1, OutputsTyped, Numbers
  <2>2. CASE ExecuteContinuation
    <3>1. /\ pc = "continue_execute"
          /\ output' \in Outputs({"awaiting_input"}) \/ output' \in Outputs({"complete", "failed"}) \/ output' = NoOutput
      BY <2>2 DEF ExecuteContinuation
    <3>2. NoOutput.of = 0
      BY DEF NoOutput
    <3> QED
      BY <3>1, <3>2, OutputsTyped, Numbers
  <2>3. CASE ~AgentEnds /\ ~ExecuteContinuation
    <3>1. output' = output \/ output' = [output EXCEPT !.status = "failed"]
      BY <2>3 DEF Next, Workflow, Provision, Preflight, Execute, ExecuteCancelled, ReceiveAnswer, CreateContinuation,
         ProvisionContinuation, CleanupContinuation, Verify, Pause, Decide, CreatePR, Cleanup,
         Finalize, Defer, Activity, AgentStarts, AttemptFails, Straggle, Handler, RequestInput, FileQuestion, MarkAwaiting, StoreCheckpoint, SignalRun,
         Respond, Deliver, ParentCancels, ParentCloses, vars
    <3>2. output'.of = output.of
      BY <3>1 DEF ContractInv, ControlTyped
    <3> QED
      BY <3>2
  <2> QED
    BY <2>1, <2>2, <2>3
<1>6. pc = "continue_execute" => question # 0
  <2>1. pc = "continue_execute" => answer # 0
    BY DEF ContinuationHasAnswer
  <2> QED
    BY <2>1, Numbers
<1>7. question' \in Nat /\ question <= question' /\ question' <= MaxQuestions /\ (question' # question => FileQuestion)
  <2>1. question \in Nat /\ question <= MaxQuestions /\ MaxQuestions \in Nat
    BY BoundsAssumption DEF SentTyped
  <2> QED
    BY <1>1, <2>1
<1> QED
  BY <1>4, <1>5, <1>6, <1>7, Numbers

\* What signals may carry, they may carry after a step.
LEMMA CarriedGrows ==
  ASSUME ContractInv, NumbersTyped, SentTyped, ContinuationHasAnswer, [Next]_vars, NEW kind
  PROVE  Carried(kind) \subseteq Carried(kind)'
<1>1. /\ question' \in Nat /\ question \in Nat /\ question <= question'
      /\ output.of \in Nat /\ output'.of \in Nat /\ output.of <= MaxExecutions /\ MaxExecutions \in Nat
      /\ (question = 0 => output.of <= output'.of)
  BY OutputGrows, Numbers
<1> QED
  BY <1>1 DEF Carried

\* A sequence of what may be carried stays one.
LEMMA SeqGrows == ASSUME NEW S, NEW T, S \subseteq T, NEW q \in Seq(S) PROVE q \in Seq(T)
  OBVIOUS

\* A signal that is taken from its channel.
LEMMA TakenFits ==
  ASSUME SentTyped, SignalsFit, NEW kind \in Kinds, channels[kind] # <<>>,
         channels' = [channels EXCEPT ![kind] = Tail(@)], \A k \in Kinds : Carried(k) \subseteq Carried(k)'
  PROVE  /\ Head(channels[kind]) \in Carried(kind)
         /\ \A k \in Kinds : channels'[k] \in Seq(Carried(k)')
<1>1. channels[kind] \in Seq(Carried(kind)) /\ channels \in [Kinds -> Seq(Nat)]
  BY DEF SignalsFit, SentTyped
<1>2. Head(channels[kind]) \in Carried(kind) /\ Tail(channels[kind]) \in Seq(Carried(kind))
  BY <1>1
<1>3. \A k \in Kinds : channels'[k] \in Seq(Carried(k))
  <2> SUFFICES ASSUME NEW k \in Kinds PROVE channels'[k] \in Seq(Carried(k))
    OBVIOUS
  <2>1. channels'[k] = IF k = kind THEN Tail(channels[kind]) ELSE channels[k]
    BY <1>1
  <2> QED
    BY <1>2, <2>1 DEF SignalsFit
<1> QED
  BY <1>2, <1>3, SeqGrows

\* What is sent carries what its sender saw.
LEMMA PostFits ==
  ASSUME SentTyped, SignalsFit, NEW kind \in Kinds, NEW saw \in Nat, saw \in Carried(kind), Post(kind, saw),
         UNCHANGED channels, \A k \in Kinds : Carried(k) \subseteq Carried(k)'
  PROVE  /\ SignalsFit' /\ sent' \in 0..MaxSignals
         /\ inTransit' \subseteq [id : 0..MaxSignals, kind : Kinds, saw : Nat]
<1> DEFINE m == [id |-> sent, kind |-> kind, saw |-> saw]
<1>1. /\ sent \in 0..MaxSignals /\ sent < MaxSignals /\ sent' = sent + 1 /\ inTransit' = inTransit \cup {m}
      /\ inTransit \subseteq [id : 0..MaxSignals, kind : Kinds, saw : Nat] /\ MaxSignals \in Nat
  BY BoundsAssumption DEF Post, SentTyped
<1>2. m \in [id : 0..MaxSignals, kind : Kinds, saw : Nat] /\ m.kind = kind /\ m.saw = saw
  BY <1>1
<1>3. sent' \in 0..MaxSignals
  BY <1>1
<1> HIDE DEF m
<1>4. inTransit' \subseteq [id : 0..MaxSignals, kind : Kinds, saw : Nat]
  BY <1>1, <1>2
<1>5. \A n \in inTransit' : n.saw \in Carried(n.kind)'
  <2> SUFFICES ASSUME NEW n \in inTransit' PROVE n.saw \in Carried(n.kind)'
    OBVIOUS
  <2>1. n.kind \in Kinds /\ n.saw \in Carried(n.kind)
    BY <1>1, <1>2 DEF SignalsFit
  <2> QED
    BY <2>1
<1>6. \A k \in Kinds : channels'[k] \in Seq(Carried(k)')
  BY SeqGrows DEF SignalsFit
<1> QED
  BY <1>3, <1>4, <1>5, <1>6 DEF SignalsFit

\* No signal is sent, delivered or taken.
LEMMA FitStays ==
  ASSUME SentTyped, SignalsFit, UNCHANGED <<channels, inTransit>>, \A k \in Kinds : Carried(k) \subseteq Carried(k)'
  PROVE  SignalsFit'
<1>1. \A n \in inTransit : n.kind \in Kinds /\ n.saw \in Carried(n.kind)
  BY DEF SentTyped, SignalsFit
<1>2. \A k \in Kinds : channels'[k] \in Seq(Carried(k)')
  BY SeqGrows DEF SignalsFit
<1> QED
  BY <1>1, <1>2 DEF SignalsFit

\* Signals keep to what their senders could look at.
LEMMA SentStep ==
  ASSUME ContractInv, ContinuationHasAnswer, SignalsTyped', SeenParts, [Next]_vars
  PROVE  SentTyped' /\ SignalsFit'
<1>1. /\ \A k \in Kinds : Carried(k) \subseteq Carried(k)'
      /\ question \in Nat /\ question' \in Nat /\ question <= question' /\ question' <= MaxQuestions
      /\ (question' # question => FileQuestion) /\ channels' \in [Kinds -> Seq(Nat)]
  BY CarriedGrows, OutputGrows, Numbers DEF SignalsTyped, SeenParts
<1>2. SentTyped /\ SignalsFit /\ unanswered \subseteq 1..question
  BY DEF SeenParts, SentTyped
<1>3. unanswered' \subseteq 1..question'
  <2>1. \/ UNCHANGED unanswered
        \/ FileQuestion
        \/ \E q \in 1..question : Respond(q)
    BY DEF Next, Workflow, Provision, Preflight, ExecuteCancelled, ReceiveAnswer, CreateContinuation,
       ProvisionContinuation, ExecuteContinuation, CleanupContinuation, Verify, Pause, Decide, CreatePR, Cleanup,
       Finalize, Defer, Activity, AgentStarts, AgentEnds, AttemptFails, Straggle, Handler, RequestInput, MarkAwaiting,
       StoreCheckpoint, SignalRun, Deliver, ParentCancels, ParentCloses, vars, people
  <2>2. CASE FileQuestion
    <3>1. \/ unanswered' = unanswered \cup {question + 1} /\ question' = question + 1
          \/ unanswered' = unanswered
      BY <2>2 DEF FileQuestion
    <3>2. 1..question \subseteq 1..question'
      BY <1>1
    <3>3. question' = question + 1 => question + 1 \in 1..question'
      BY <1>1
    <3> QED
      BY <1>2, <3>1, <3>2, <3>3
  <2>3. CASE \E q \in 1..question : Respond(q)
    <3>1. unanswered' \subseteq unanswered
      BY <2>3 DEF Respond
    <3> QED
      BY <1>1, <1>2, <3>1
  <2> QED
    BY <1>1, <1>2, <2>1, <2>2, <2>3
<1>4. SignalsFit' /\ sent' \in 0..MaxSignals /\ inTransit' \subseteq [id : 0..MaxSignals, kind : Kinds, saw : Nat]
  <2>1. CASE UNCHANGED <<channels, inTransit, sent>>
    BY <1>1, <1>2, <2>1, FitStays DEF SentTyped
  <2>2. ASSUME NEW kind \in Kinds, channels[kind] # <<>>, channels' = [channels EXCEPT ![kind] = Tail(@)], UNCHANGED <<inTransit, sent>>
        PROVE  SignalsFit' /\ sent' \in 0..MaxSignals /\ inTransit' \subseteq [id : 0..MaxSignals, kind : Kinds, saw : Nat]
    <3>1. \A k \in Kinds : channels'[k] \in Seq(Carried(k)')
      BY <1>1, <1>2, <2>2, TakenFits
    <3>2. \A n \in inTransit : n.kind \in Kinds /\ n.saw \in Carried(n.kind)
      BY <1>2 DEF SentTyped, SignalsFit
    <3> QED
      BY <1>1, <1>2, <2>2, <3>1, <3>2 DEF SignalsFit, SentTyped
  <2>3. CASE ReceiveAnswer
    BY <2>2, <2>3 DEF ReceiveAnswer, Kinds
  <2>4. ASSUME NEW kind \in Decisions, Decide(kind)
        PROVE  SignalsFit' /\ sent' \in 0..MaxSignals /\ inTransit' \subseteq [id : 0..MaxSignals, kind : Kinds, saw : Nat]
    BY <2>2, <2>4 DEF Decide, Kinds
  <2>5. ASSUME NEW kind \in Decisions, SignalRun(kind)
        PROVE  SignalsFit' /\ sent' \in 0..MaxSignals /\ inTransit' \subseteq [id : 0..MaxSignals, kind : Kinds, saw : Nat]
    <3>1. Post(kind, output.of) /\ UNCHANGED channels /\ row = "awaiting_input" /\ kind \in Kinds /\ kind # "respond"
      BY <2>5 DEF SignalRun, Kinds, Decisions
    <3>2. output.of \in Nat /\ output.of <= MaxExecutions /\ MaxExecutions \in Nat
      BY Numbers DEF SeenParts
    <3>3. question = 0 => output.of # 0
      BY <3>1 DEF SeenParts, SeenInv
    <3>4. output.of \in Carried(kind)
      BY <3>1, <3>2, <3>3 DEF Carried
    <3> QED
      BY <1>1, <1>2, <3>1, <3>2, <3>4, PostFits
  <2>6. ASSUME NEW q \in 1..question, Respond(q)
        PROVE  SignalsFit' /\ sent' \in 0..MaxSignals /\ inTransit' \subseteq [id : 0..MaxSignals, kind : Kinds, saw : Nat]
    <3>1. CASE Post("respond", q)
      <4>1. q \in Carried("respond") /\ q \in Nat /\ "respond" \in Kinds /\ UNCHANGED channels
        BY <2>6 DEF Carried, Respond, Kinds
      <4> QED
        BY <1>1, <1>2, <3>1, <4>1, PostFits
    <3>2. CASE UNCHANGED <<sent, inTransit>>
      BY <2>1, <2>6, <3>2 DEF Respond
    <3> QED
      BY <2>6, <3>1, <3>2 DEF Respond
  <2>7. ASSUME NEW m \in inTransit, Deliver(m)
        PROVE  SignalsFit' /\ sent' \in 0..MaxSignals /\ inTransit' \subseteq [id : 0..MaxSignals, kind : Kinds, saw : Nat]
    <3>1. /\ inTransit' = inTransit \ {m} /\ UNCHANGED sent
          /\ channels' = channels \/ channels' = [channels EXCEPT ![m.kind] = Append(@, m.saw)]
      BY <2>7 DEF Deliver
    <3>2. m.kind \in Kinds /\ m.saw \in Carried(m.kind) /\ channels \in [Kinds -> Seq(Nat)]
      BY <1>2 DEF SentTyped, SignalsFit
    <3>3. \A k \in Kinds : channels'[k] \in Seq(Carried(k))
      <4> SUFFICES ASSUME NEW k \in Kinds PROVE channels'[k] \in Seq(Carried(k))
        OBVIOUS
      <4>1. channels[k] \in Seq(Carried(k))
        BY <1>2 DEF SignalsFit
      <4>2. channels'[k] = channels[k] \/ (k = m.kind /\ channels'[k] = Append(channels[k], m.saw))
        BY <3>1, <3>2
      <4>3. CASE k = m.kind /\ channels'[k] = Append(channels[k], m.saw)
        <5> DEFINE S == Carried(k)
        <5>1. m.saw \in S /\ channels[k] \in Seq(S)
          BY <3>2, <4>1, <4>3
        <5> HIDE DEF S
        <5>2. Append(channels[k], m.saw) \in Seq(S)
          BY <5>1
        <5> QED
          BY <4>3, <5>2 DEF S
      <4> QED
        BY <4>1, <4>2, <4>3
    <3>4. \A k \in Kinds : channels'[k] \in Seq(Carried(k)')
      BY <1>1, <3>3, SeqGrows
    <3>5. \A n \in inTransit : n.kind \in Kinds /\ n.saw \in Carried(n.kind)
      BY <1>2 DEF SentTyped, SignalsFit
    <3> QED
      BY <1>1, <1>2, <3>1, <3>4, <3>5 DEF SignalsFit, SentTyped
  <2>8. CASE ~ReceiveAnswer /\ (\A kind \in Decisions : ~Decide(kind) /\ ~SignalRun(kind))
             /\ (\A q \in 1..question : ~Respond(q)) /\ (\A m \in inTransit : ~Deliver(m))
    <3>1. UNCHANGED <<channels, inTransit, sent>>
      BY <2>8 DEF Next, Workflow, Provision, Preflight, ExecuteCancelled, CreateContinuation,
         ProvisionContinuation, ExecuteContinuation, CleanupContinuation, Verify, Pause, CreatePR, Cleanup,
         Finalize, Defer, Activity, AgentStarts, AgentEnds, AttemptFails, Straggle, Handler, RequestInput, FileQuestion, MarkAwaiting, StoreCheckpoint,
         ParentCancels, ParentCloses, vars, people
    <3> QED
      BY <2>1, <3>1
  <2> QED
    BY <2>3, <2>4, <2>5, <2>6, <2>7, <2>8
<1> QED
  BY <1>1, <1>3, <1>4, BoundsAssumption DEF SentTyped

\* The execution's number, and those that are taken over from it.
LEMMA NumbersStep ==
  ASSUME ContractInv, ContinuationHasAnswer, SeenParts, [Next]_vars
  PROVE  NumbersTyped'
<1>1. /\ NumbersTyped /\ SentTyped /\ SignalsFit
      /\ output'.of \in Nat /\ output'.of <= execution' /\ execution' \in Nat /\ execution' <= MaxExecutions
      /\ question \in Nat /\ question' \in Nat /\ question <= question' /\ MaxExecutions \in Nat
      /\ output.of \in 0..MaxExecutions
  BY OutputGrows, Numbers DEF SeenParts, NumbersTyped
<1>2. attempt' \in 0..2
  <2>1. \/ attempt' = attempt \/ attempt' = 1
        \/ attempt < 2 /\ attempt' = attempt + 1
    BY DEF Next, Workflow, Provision, Preflight, Execute, ExecuteCancelled, ReceiveAnswer, CreateContinuation,
       ProvisionContinuation, ExecuteContinuation, CleanupContinuation, Verify, Pause, Decide, CreatePR, Cleanup,
       Finalize, Defer, Activity, AgentStarts, AgentEnds, AttemptFails, Straggle, Handler, RequestInput, FileQuestion, MarkAwaiting, StoreCheckpoint, SignalRun,
       Respond, Deliver, ParentCancels, ParentCloses, vars, exec
  <2> QED
    BY <1>1, <2>1 DEF NumbersTyped
<1>3. verified' \in 0..MaxExecutions /\ pr' \in 0..MaxExecutions
  <2>1. (verified' = verified \/ verified' = output.of) /\ (pr' = pr \/ pr' = output.of)
    BY DEF Next, Workflow, Provision, Preflight, ExecuteCancelled, ReceiveAnswer, CreateContinuation,
       ProvisionContinuation, ExecuteContinuation, CleanupContinuation, Verify, Pause, Decide, CreatePR, Cleanup,
       Finalize, Defer, Activity, AgentStarts, AgentEnds, AttemptFails, Straggle, Handler, RequestInput, FileQuestion, MarkAwaiting, StoreCheckpoint, SignalRun,
       Respond, Deliver, ParentCancels, ParentCloses, vars, facts
  <2> QED
    BY <1>1, <2>1 DEF NumbersTyped
<1>4. decision' \in [kind : Decisions \cup {"none"}, saw : 0..MaxExecutions, of : 0..MaxExecutions]
  <2>1. CASE UNCHANGED decision
    BY <1>1, <2>1 DEF NumbersTyped
  <2>2. ASSUME NEW kind \in Decisions, Decide(kind)
        PROVE  decision' \in [kind : Decisions \cup {"none"}, saw : 0..MaxExecutions, of : 0..MaxExecutions]
    <3>1. channels[kind] # <<>> /\ decision' = [kind |-> kind, saw |-> Head(channels[kind]), of |-> output.of]
      BY <2>2 DEF Decide
    <3>2. channels[kind] \in Seq(Carried(kind)) /\ kind # "respond"
      BY <1>1 DEF SignalsFit, Kinds, Decisions
    <3>3. Head(channels[kind]) \in Carried(kind)
      BY <3>1, <3>2
    <3>4. Head(channels[kind]) \in 0..MaxExecutions
      BY <1>1, <3>2, <3>3 DEF Carried
    <3> QED
      BY <1>1, <3>1, <3>4
  <2>3. UNCHANGED decision \/ \E kind \in Decisions : Decide(kind)
    BY DEF Next, Workflow, Provision, Preflight, ExecuteCancelled, ReceiveAnswer, CreateContinuation,
       ProvisionContinuation, ExecuteContinuation, CleanupContinuation, Verify, Pause, CreatePR, Cleanup,
       Finalize, Defer, Activity, AgentStarts, AgentEnds, AttemptFails, Straggle, Handler, RequestInput, FileQuestion, MarkAwaiting, StoreCheckpoint, SignalRun,
       Respond, Deliver, ParentCancels, ParentCloses, vars, facts
  <2> QED
    BY <2>1, <2>2, <2>3
<1>5. answer' \in 0..question'
  <2>1. CASE UNCHANGED answer
    BY <1>1, <2>1 DEF NumbersTyped
  <2>2. CASE ReceiveAnswer
    <3>1. channels["respond"] # <<>> /\ answer' = Head(channels["respond"])
      BY <2>2 DEF ReceiveAnswer
    <3>2. channels["respond"] \in Seq(Carried("respond"))
      BY <1>1 DEF SignalsFit, Kinds
    <3>3. answer' \in 1..question
      <4>1. Head(channels["respond"]) \in Carried("respond")
        BY <3>1, <3>2
      <4>2. Carried("respond") = 1..question
        BY DEF Carried
      <4> QED
        BY <3>1, <4>1, <4>2
    <3> QED
      BY <1>1, <3>3
  <2>3. UNCHANGED answer \/ ReceiveAnswer
    BY DEF Next, Workflow, Provision, Preflight, ExecuteCancelled, CreateContinuation,
       ProvisionContinuation, ExecuteContinuation, CleanupContinuation, Verify, Pause, Decide, CreatePR, Cleanup,
       Finalize, Defer, Activity, AgentStarts, AgentEnds, AttemptFails, Straggle, Handler, RequestInput, FileQuestion, MarkAwaiting, StoreCheckpoint, SignalRun,
       Respond, Deliver, ParentCancels, ParentCloses, vars, facts
  <2> QED
    BY <2>1, <2>2, <2>3
<1>6. (pc' \in {"provision", "preflight"} => execution' = 0) /\ (pc' = "execute" => execution' # 0)
  <2>1. /\ pc' \in {"provision", "preflight"} => pc \in {"provision", "preflight"} /\ execution' = execution
        /\ pc' = "execute" => (pc = "execute" /\ execution' = execution) \/ execution' = execution + 1
    BY DEF Next, Workflow, Provision, Preflight, Execute, ExecuteCancelled, ReceiveAnswer, CreateContinuation,
       ProvisionContinuation, ExecuteContinuation, CleanupContinuation, Verify, AfterVerify, ShouldPause, Pause, Decide, CreatePR, Cleanup,
       Finalize, Defer, Activity, AgentStarts, AgentEnds, AttemptFails, Straggle, Handler, RequestInput, FileQuestion, MarkAwaiting, StoreCheckpoint, SignalRun,
       Respond, Deliver, ParentCancels, ParentCloses, vars, exec, ReturnError, Close
  <2>2. execution \in Nat
    BY <1>1, Numbers
  <2> QED
    BY <1>1, <2>1, <2>2 DEF NumbersTyped
<1>7. execution' \in 0..MaxExecutions /\ output'.of \in 0..MaxExecutions
  BY <1>1
<1> QED
  BY <1>1, <1>2, <1>3, <1>4, <1>5, <1>6, <1>7 DEF NumbersTyped

\* What is approved was seen, as long as the agent has not asked.
LEMMA SeenStep ==
  ASSUME ContractInv, SignalsTyped, ContinuationHasAnswer, SeenParts, NumbersTyped', [Next]_vars
  PROVE  SeenInv'
<1> SUFFICES ASSUME question' = 0
             PROVE  /\ answer' = 0
                    /\ row' = "awaiting_input" \/ pc' \in {"verify", "pause", "await_decision"} => output'.of # 0
                    /\ decision'.kind # "none" => 1 <= decision'.saw /\ decision'.saw <= decision'.of
  BY DEF SeenInv
<1>1. /\ question = 0 /\ output.of \in Nat /\ output'.of \in Nat /\ output.of <= output'.of
      /\ answer = 0 /\ answer' = 0 /\ SignalsFit /\ NumbersTyped
      /\ row = "awaiting_input" \/ pc \in {"verify", "pause", "await_decision"} => output.of # 0
      /\ decision.kind # "none" => 1 <= decision.saw /\ decision.saw <= decision.of
  BY OutputGrows, Numbers DEF SeenParts, SeenInv, NumbersTyped
<1>2. row' = "awaiting_input" \/ pc' \in {"verify", "pause", "await_decision"} => output'.of # 0
  <2>1. CASE AgentEnds
    <3>1. output' \in Outputs({"awaiting_input"}) \/ output' \in Outputs({"complete", "failed"})
      BY <2>1 DEF AgentEnds
    <3>2. output'.of = execution
      BY <3>1, OutputsTyped, Numbers DEF SeenParts
    <3>3. execution # 0
      BY <1>1, <2>1 DEF AgentEnds, NumbersTyped
    <3> QED
      BY <3>2, <3>3
  <2>2. CASE Handler
    BY <1>1, <2>2 DEF Handler, RequestInput, FileQuestion, MarkAwaiting, StoreCheckpoint, SignalsTyped
  <2>3. CASE ~AgentEnds /\ ~Handler
    <3>1. /\ row' = "awaiting_input" => row = "awaiting_input" \/ pc = "pause"
          /\ pc' \in {"verify", "pause", "await_decision"} => pc \in {"verify", "pause", "await_decision"}
      BY <2>3 DEF Next, Workflow, Provision, Preflight, Execute, ExecuteCancelled, ReceiveAnswer, CreateContinuation,
         ProvisionContinuation, ExecuteContinuation, CleanupContinuation, Verify, AfterVerify, ShouldPause, Pause, Decide, CreatePR,
         Cleanup, Finalize, Defer, Activity, AgentStarts, AttemptFails, Straggle, SignalRun, Respond, Deliver,
         ParentCancels, ParentCloses, vars, ReturnError, Close, ContractInv, OutputIsFinal
    <3> QED
      BY <1>1, <3>1
  <2> QED
    BY <2>1, <2>2, <2>3
<1>3. decision'.kind # "none" => 1 <= decision'.saw /\ decision'.saw <= decision'.of
  <2>1. CASE UNCHANGED decision
    BY <1>1, <2>1
  <2>2. ASSUME NEW kind \in Decisions, Decide(kind) PROVE 1 <= decision'.saw /\ decision'.saw <= decision'.of
    <3>1. channels[kind] # <<>> /\ decision' = [kind |-> kind, saw |-> Head(channels[kind]), of |-> output.of]
      BY <2>2 DEF Decide
    <3>2. channels[kind] \in Seq(Carried(kind)) /\ kind # "respond"
      BY <1>1 DEF SignalsFit, Kinds, Decisions
    <3>3. Head(channels[kind]) \in Carried(kind)
      BY <3>1, <3>2
    <3>4. Head(channels[kind]) \in 1..output.of
      BY <1>1, <3>2, <3>3 DEF Carried
    <3> QED
      BY <1>1, <3>1, <3>4
  <2>3. UNCHANGED decision \/ \E kind \in Decisions : Decide(kind)
    BY DEF Next, Workflow, Provision, Preflight, ExecuteCancelled, ReceiveAnswer, CreateContinuation,
       ProvisionContinuation, ExecuteContinuation, CleanupContinuation, Verify, Pause, CreatePR, Cleanup,
       Finalize, Defer, Activity, AgentStarts, AgentEnds, AttemptFails, Straggle, Handler, RequestInput, FileQuestion, MarkAwaiting, StoreCheckpoint, SignalRun,
       Respond, Deliver, ParentCancels, ParentCloses, vars, facts
  <2> QED
    BY <2>1, <2>2, <2>3
<1> QED
  BY <1>1, <1>2, <1>3

\* At first nothing has been counted.
LEMMA InitSeen == Init => SeenParts
<1> SUFFICES ASSUME Init PROVE SeenParts
  OBVIOUS
<1>1. WorkTyped
  BY BoundsAssumption DEF Init, WorkTyped
<1>2. NumbersTyped
  BY BoundsAssumption DEF Init, NumbersTyped, NoDecision, NoOutput
<1>3. SentTyped
  BY BoundsAssumption DEF Init, SentTyped
<1>4. SignalsFit
  BY DEF Init, SignalsFit
<1>5. SeenInv
  BY DEF Init, SeenInv, NoDecision
<1> QED
  BY <1>1, <1>2, <1>3, <1>4, <1>5 DEF SeenParts

\* In every reachable state.
LEMMA SeenInvariance == Spec => [](ContractInv /\ SeenParts)
<1>1. PRInv /\ SeenParts /\ [Next]_vars => PRInv' /\ SeenParts'
  <2> SUFFICES ASSUME PRInv, SeenParts, [Next]_vars PROVE PRInv' /\ SeenParts'
    OBVIOUS
  <2>1. PRInv'
    BY ContractStep, SignalsStep, ContinuationStep, ReviewStep DEF PRInv
  <2>2. WorkTyped'
    BY WorkTypedStays DEF PRInv, SeenParts
  <2>3. NumbersTyped'
    BY NumbersStep DEF PRInv
  <2>4. SentTyped' /\ SignalsFit'
    BY <2>1, SentStep DEF PRInv
  <2>5. SeenInv'
    BY <2>3, SeenStep DEF PRInv
  <2> QED
    BY <2>1, <2>2, <2>3, <2>4, <2>5 DEF SeenParts
<1>2. PRInv => ContractInv
  BY DEF PRInv
<1> QED
  BY <1>1, <1>2, InitSeen, InitPRInv, PTL DEF Spec

\* Counters keep within their bounds, and every variable its type, for all
\* step definitions and bounds.
THEOREM TypesHold == Spec => []TypeOK
<1>1. ASSUME ContractInv, SeenParts PROVE TypeOK
  <2>1. WorkTyped /\ NumbersTyped /\ SentTyped
    BY <1>1 DEF SeenParts
  <2>2. /\ ControlTyped /\ RowFollowsControl
        /\ output.of \in 0..MaxExecutions
    BY <1>1, <2>1 DEF ContractInv, NumbersTyped
  <2>3. output \in [status : {"none", "complete", "failed", "awaiting_input"}, review : BOOLEAN, of : 0..MaxExecutions]
    BY <2>2 DEF ControlTyped
  <2>4. /\ question \in 0..MaxQuestions /\ answer \in 0..MaxQuestions /\ unanswered \subseteq 1..MaxQuestions
    BY <2>1, BoundsAssumption DEF SentTyped, NumbersTyped
  <2> QED
    BY <2>1, <2>2, <2>3, <2>4 DEF TypeOK, WorkTyped, NumbersTyped, SentTyped, ControlTyped
<1> QED
  BY <1>1, SeenInvariance, PTL

\* An approval of the first execution was given by somebody who could see it,
\* unless the agent has asked (StepWorkflow's selector, signalRun in runs.go).
THEOREM ApprovalsSaw == Spec => []UnsteeredApprovalSawTheChanges
<1>1. ASSUME SeenParts PROVE UnsteeredApprovalSawTheChanges
  <2> SUFFICES ASSUME decision.kind = "approve", decision.of = 1, question = 0 PROVE decision.saw = 1
    BY DEF UnsteeredApprovalSawTheChanges
  <2>1. 1 <= decision.saw /\ decision.saw <= 1 /\ decision.saw \in Nat
    BY <1>1, BoundsAssumption DEF SeenParts, SeenInv, NumbersTyped
  <2> QED
    BY <2>1
<1> QED
  BY <1>1, SeenInvariance, PTL
=============================================================================
