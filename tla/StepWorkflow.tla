---------------------------- MODULE StepWorkflow ----------------------------
(***************************************************************************)
(* StepWorkflow (internal/workflow/step.go) with the parts of ExecuteStep  *)
(* (internal/activity/execute.go), of the request_input handler and of the *)
(* signal handlers it meets: one agent step, from the provisioning of its  *)
(* sandbox to the final write of its step_runs row.                        *)
(*                                                                         *)
(* `pc' is the workflow goroutine.  While it waits for ExecuteStep, `act'  *)
(* is the activity attempt and the agent in the sandbox.  People act       *)
(* through two handlers that first read the row and then send a signal;    *)
(* a signal on its way is in `inTransit', a delivered one waits in its     *)
(* channel, as Temporal buffers it, until the workflow receives.  A signal *)
(* carries, for the properties only, the number of the execution its       *)
(* sender could look at (a question's number for an answer).               *)
(*                                                                         *)
(* The statuses `cloning' and `verifying' are counted as running.  An       *)
(* attempt that times out is taken to be dead, except after a cancellation *)
(* (Straggle).                                                             *)
(***************************************************************************)
EXTENDS Naturals, Sequences, FiniteSets

CONSTANTS StepDefs,       \* the step definitions to run
          MaxExecutions,  \* bound: executions of the agent, 1 + steers
          MaxSignals,     \* bound: signals people send
          MaxQuestions,   \* bound: request_input calls
          AnswersOverlap, \* TRUE: two people may answer a question at the same time
          MaxLostWrites   \* bound: calls of the database that fail on every attempt

Policy == {"never", "always", "agent"}   \* on_changes, like agent, looks at the output

ASSUME StepDefsAssumption ==
  StepDefs \subseteq [policy : Policy, verifiers : BOOLEAN, pullRequest : BOOLEAN,
                      preflight : BOOLEAN, shared : BOOLEAN, repository : BOOLEAN]

ASSUME BoundsAssumption ==
  /\ MaxExecutions \in Nat \ {0} /\ MaxSignals \in Nat
  /\ MaxQuestions \in Nat /\ MaxLostWrites \in Nat /\ AnswersOverlap \in BOOLEAN

VARIABLES
  step,        \* the step's definition; shared: the parent passed a SandboxID;
               \* repository: ResolvedOpts names one
  pc,          \* where the workflow goroutine is
  cancelled,   \* ctx.Err() # nil: the parent was cancelled
  result,      \* how the workflow closed: "open", an output's status, "error", "terminated"
  row,         \* step_runs.status of the step
  contRow,     \* and of its continuation
  sandbox, contSandbox, checkpoint,
  act,         \* the ExecuteStep attempt: "idle", "setup", "agent"
  attempt,     \* ActivityInfo.Attempt
  execution,   \* calls of ExecuteStep so far, not counting the continuation's
  output,      \* the local of the same name
  verified,    \* the execution the verifiers last accepted
  decision,    \* the signal that ended the last pause
  channels,    \* the buffered signals
  inTransit,   \* signals sent and not delivered
  sent,        \* how many were sent
  question,    \* the newest question, 0 for none
  unanswered,  \* questions whose inbox item has no answer
  asking,      \* the request_input call the server handles
  answer,      \* the question the received answer was given to
  pr,          \* the execution whose changes are in the pull request, 0 for none
  lost

Decisions == {"approve", "reject", "steer", "cancel"}
Kinds     == Decisions \cup {"respond"}

exec   == <<act, attempt, execution>>
people == <<channels, inTransit, sent, question, unanswered, asking>>
boxes  == <<sandbox, contSandbox, checkpoint>>
facts  == <<verified, decision, answer, pr>>
vars   == <<step, pc, cancelled, result, row, contRow, boxes, exec, output, people, facts, lost>>

NoDecision == [kind |-> "none", saw |-> 0, of |-> 0]

NoOutput == [status |-> "none", review |-> FALSE, of |-> 0]

Outputs(status) == [status : status, review : BOOLEAN, of : {execution}]

LoseWrite == lost < MaxLostWrites /\ lost' = lost + 1

Init ==
  /\ step \in StepDefs
  /\ pc = "provision" /\ cancelled = FALSE /\ result = "open"
  /\ row = "pending" /\ contRow = "absent"
  /\ sandbox = (IF step.shared THEN "shared" ELSE "none")
  /\ contSandbox = "none" /\ checkpoint = "none"
  /\ act = "idle" /\ attempt = 0 /\ execution = 0
  /\ output = NoOutput
  /\ verified = 0 /\ decision = NoDecision /\ answer = 0 /\ pr = 0
  /\ channels = [k \in Kinds |-> <<>>] /\ inTransit = {} /\ sent = 0
  /\ question = 0 /\ unanswered = {} /\ asking = "idle"
  /\ lost = 0

\* Return an error from the body: the deferred function is next.
ReturnError == pc' = "defer"

-----------------------------------------------------------------------------
(* Provisioning and pre-flight.                                            *)

Provision ==
  /\ pc = "provision"
  /\ \/ step.shared /\ pc' = "preflight" /\ UNCHANGED sandbox
     \/ ~step.shared /\ ~cancelled /\ sandbox' = "live" /\ pc' = "preflight"
     \/ ~step.shared /\ sandbox' \in {"none", "orphaned"} /\ ReturnError
  /\ UNCHANGED <<step, cancelled, result, row, contRow, contSandbox, checkpoint, exec,
                 output, people, facts, lost>>

\* Call ExecuteStep.
Execute ==
  /\ pc' = "execute" /\ act' = "setup" /\ attempt' = 1 /\ execution' = execution + 1

Preflight ==
  /\ pc = "preflight"
  /\ \/ (~step.preflight \/ ~cancelled) /\ Execute
     \/ step.preflight /\ ReturnError /\ UNCHANGED exec
  /\ UNCHANGED <<step, cancelled, result, row, contRow, boxes, output, people, facts, lost>>

-----------------------------------------------------------------------------
(* ExecuteStep, and the agent's request_input call.                        *)

\* Mutant of AgentStarts.
AgentStartsOnce ==
  /\ pc = "execute" /\ act = "setup" /\ ~cancelled
  /\ row' = IF row = "pending" THEN "running" ELSE row
  /\ act' = "agent"
  /\ UNCHANGED <<step, pc, cancelled, result, contRow, boxes, attempt, execution, output,
                 people, facts, lost>>

\* updateStepStatus(running): its error is only heart-beaten.
AgentStarts ==
  /\ pc = "execute" /\ act = "setup" /\ ~cancelled
  /\ \/ row' = "running" /\ UNCHANGED lost
     \/ LoseWrite /\ UNCHANGED row
  /\ act' = "agent"
  /\ UNCHANGED <<step, pc, cancelled, result, contRow, boxes, attempt, execution, output,
                 people, facts>>

\* HandleInboxRequestInput, one call at a time: statements without a
\* transaction, which go on when the agent, the step or its workflow is done.
\* It finds a step_run that is neither finished nor awaiting input; the agent
\* may have pushed a checkpoint branch before it calls, ...
RequestInput ==
  /\ act = "agent" /\ asking = "idle" /\ question < MaxQuestions
  /\ row \in {"pending", "running"}
  /\ asking' = "found"
  /\ checkpoint' \in {checkpoint, IF checkpoint = "none" THEN "pushed" ELSE checkpoint}
  /\ UNCHANGED <<step, pc, cancelled, result, row, contRow, sandbox, contSandbox, exec, output,
                 channels, inTransit, sent, question, unanswered, facts, lost>>

\* ... makes the item, ...
FileQuestion ==
  /\ asking = "found"
  /\ \/ /\ question < MaxQuestions /\ question' = question + 1
        /\ unanswered' = unanswered \cup {question + 1} /\ asking' = "filed" /\ UNCHANGED lost
     \/ LoseWrite /\ asking' = "idle" /\ UNCHANGED <<question, unanswered>>
  /\ UNCHANGED <<step, pc, cancelled, result, row, contRow, boxes, exec, output,
                 channels, inTransit, sent, facts>>

\* ... writes the row, whatever it has become since, ...
MarkAwaiting ==
  /\ asking = "filed"
  /\ \/ /\ row' = "awaiting_input" /\ UNCHANGED lost
        /\ asking' = IF checkpoint = "pushed" THEN "marked" ELSE "idle"
     \/ LoseWrite /\ asking' = "idle" /\ UNCHANGED row
  /\ UNCHANGED <<step, pc, cancelled, result, contRow, boxes, exec, output,
                 channels, inTransit, sent, question, unanswered, facts>>

\* ... and stores the name of the checkpoint branch, if it was given one.
StoreCheckpoint ==
  /\ asking = "marked" /\ asking' = "idle"
  /\ \/ checkpoint' = "stored" /\ UNCHANGED lost
     \/ LoseWrite /\ UNCHANGED checkpoint
  /\ UNCHANGED <<step, pc, cancelled, result, row, contRow, sandbox, contSandbox, exec, output,
                 channels, inTransit, sent, question, unanswered, facts>>

\* Mutant of AgentEnds.
AgentEndsUnverified ==
  /\ pc = "execute" /\ act = "agent" /\ ~cancelled /\ act' = "idle"
  /\ IF row = "awaiting_input"
     THEN output' \in Outputs({"awaiting_input"}) /\ pc' = "await_answer"
     ELSE /\ output' \in Outputs({"complete", "failed"})
          /\ pc' = IF execution > 1 THEN "pause" ELSE "verify"
  /\ UNCHANGED <<step, cancelled, result, row, contRow, boxes, attempt, execution, people,
                 facts, lost>>

\* The agent is done.  The status of the row, if it can be read, decides what
\* is returned; with a question comes the name of the branch, if it is stored
\* by now and can be read.
AgentEnds ==
  /\ pc = "execute" /\ act = "agent" /\ ~cancelled
  /\ \/ /\ row = "awaiting_input" /\ UNCHANGED lost
        /\ output' \in Outputs({"awaiting_input"}) /\ pc' = "await_answer"
        /\ checkpoint' \in {checkpoint, IF checkpoint = "stored" THEN "known" ELSE checkpoint}
     \/ /\ IF row = "awaiting_input" THEN LoseWrite ELSE UNCHANGED lost
        /\ output' \in Outputs({"complete", "failed"}) /\ pc' = "verify"
        /\ UNCHANGED checkpoint
  /\ act' = "idle"
  /\ UNCHANGED <<step, cancelled, result, row, contRow, sandbox, contSandbox, attempt, execution,
                 people, facts>>

\* Mutants of AttemptFails.
AttemptFailsThrice ==
  /\ pc = "execute" /\ ~cancelled
  /\ IF attempt <= 2 THEN act' = "setup" /\ attempt' = attempt + 1 /\ UNCHANGED pc
     ELSE act' = "idle" /\ ReturnError /\ UNCHANGED attempt
  /\ UNCHANGED <<step, cancelled, result, row, contRow, boxes, execution, output, people,
                 facts, lost>>

AttemptRetriedForEver ==
  /\ pc = "execute" /\ ~cancelled /\ act' = "setup" /\ attempt' = 2
  /\ UNCHANGED <<step, pc, cancelled, result, row, contRow, boxes, execution, output, people,
                 facts, lost>>

\* An error or a timeout: there are two attempts.
AttemptFails ==
  /\ pc = "execute" /\ ~cancelled
  /\ IF attempt < 2 THEN act' = "setup" /\ attempt' = attempt + 1 /\ UNCHANGED pc
     ELSE act' = "idle" /\ ReturnError /\ UNCHANGED attempt
  /\ UNCHANGED <<step, cancelled, result, row, contRow, boxes, execution, output, people,
                 facts, lost>>

\* The call returns at once; the attempt runs on until its heartbeat tells it.
ExecuteCancelled ==
  /\ pc = "execute" /\ cancelled /\ ReturnError
  /\ UNCHANGED <<step, cancelled, result, row, contRow, boxes, exec, output, people, facts, lost>>

\* ... and may write running before it hears of it, or stop.
Straggle ==
  /\ pc # "execute" /\ act # "idle" /\ act' = "idle"
  /\ \/ act = "setup" /\ row' = "running"
     \/ UNCHANGED row
  /\ UNCHANGED <<step, pc, cancelled, result, contRow, boxes, attempt, execution, output,
                 people, facts, lost>>

-----------------------------------------------------------------------------
(* The continuation of a step that asked for input.                        *)

\* respondCh.Receive: a cancellation does not wake it.
ReceiveAnswer ==
  /\ pc = "await_answer" /\ channels["respond"] # <<>>
  /\ answer' = Head(channels["respond"])
  /\ channels' = [channels EXCEPT !["respond"] = Tail(@)]
  /\ pc' = "continue_create"
  /\ UNCHANGED <<step, cancelled, result, row, contRow, boxes, exec, output, inTransit, sent,
                 question, unanswered, asking, verified, decision, pr, lost>>

CreateContinuation ==
  /\ pc = "continue_create"
  /\ \/ ~cancelled /\ contRow' = "pending" /\ pc' = "continue_provision" /\ UNCHANGED lost
     \/ cancelled /\ contRow' \in {"absent", "pending"} /\ ReturnError /\ UNCHANGED lost
     \/ ~cancelled /\ LoseWrite /\ ReturnError /\ UNCHANGED contRow
  /\ UNCHANGED <<step, cancelled, result, row, boxes, exec, output, people, facts>>

ProvisionContinuation ==
  /\ pc = "continue_provision"
  /\ \/ ~cancelled /\ contSandbox' = "live" /\ pc' = "continue_execute"
     \/ contSandbox' \in {"none", "orphaned"} /\ ReturnError
  /\ UNCHANGED <<step, cancelled, result, row, contRow, sandbox, checkpoint, exec, output,
                 people, facts, lost>>

\* ExecuteStep once more, in the fresh sandbox; the agent may ask again, in time
\* for the step to notice or not, or the call fails.  The new output replaces the old one at the end of the clean-up.
ExecuteContinuation ==
  /\ pc = "continue_execute"
  /\ \/ /\ ~cancelled /\ contRow' \in {"running", "awaiting_input"} /\ UNCHANGED lost
        /\ output' \in Outputs({"complete", "failed"})
     \/ /\ ~cancelled /\ contRow' = "awaiting_input" /\ UNCHANGED lost
        /\ output' \in Outputs({"awaiting_input"})
     \/ /\ ~cancelled /\ contRow' \in {"pending", "awaiting_input"} /\ LoseWrite
        /\ output' \in Outputs({"complete", "failed"})
     \/ contRow' \in {contRow, "running"} /\ output' = NoOutput /\ UNCHANGED lost
  /\ pc' = "continue_cleanup"
  /\ UNCHANGED <<step, cancelled, result, row, boxes, exec, people, facts>>

\* Mutant of CleanupContinuation.
CleanupContinuationLeaks ==
  /\ pc = "continue_cleanup"
  /\ checkpoint' = IF checkpoint = "known" /\ ~cancelled THEN "deleted" ELSE checkpoint
  /\ IF output.status \in {"complete", "failed"} THEN pc' = "create_pr" ELSE ReturnError
  /\ UNCHANGED <<step, cancelled, result, row, contRow, sandbox, contSandbox, exec, output,
                 people, facts, lost>>

\* CleanupCheckpointBranch, called when a branch and a repository are known:
\* it fails without a credential or when the push fails, and its error is dropped.
DeleteCheckpoint ==
  checkpoint' \in IF checkpoint = "known" /\ step.repository /\ ~cancelled
                 THEN {"deleted", "undeleted"} ELSE {checkpoint}

\* Kill the fresh sandbox, delete the checkpoint branch (neither with a live
\* ctx once it is cancelled); then an error, or a second request for input,
\* fails the step, and any other output skips the rest of the loop.
CleanupContinuation ==
  /\ pc = "continue_cleanup"
  /\ \/ ~cancelled /\ contSandbox' = "killed" /\ UNCHANGED lost
     \/ ~cancelled /\ contSandbox' = "orphaned" /\ LoseWrite
     \/ cancelled /\ contSandbox' = "orphaned" /\ UNCHANGED lost
  /\ DeleteCheckpoint
  /\ IF output.status \in {"complete", "failed"} THEN pc' = "create_pr" ELSE ReturnError
  /\ UNCHANGED <<step, cancelled, result, row, contRow, sandbox, exec, output, people, facts>>

-----------------------------------------------------------------------------
(* Verifiers, the approval pause, and the decision.                        *)

ShouldPause ==
  \/ step.policy = "always"
  \/ step.policy = "agent" /\ output.review

AfterVerify == pc' = IF ShouldPause THEN "pause" ELSE "create_pr"

\* VerifyStep writes verifying first, as ExecuteStep writes running.
Verify ==
  /\ pc = "verify"
  /\ \/ ~step.verifiers /\ AfterVerify /\ UNCHANGED <<verified, output, row, act, lost>>
     \/ /\ step.verifiers /\ ~cancelled /\ AfterVerify
        /\ \/ row' = "running" /\ UNCHANGED lost
           \/ LoseWrite /\ UNCHANGED row
        /\ verified' = output.of /\ UNCHANGED <<output, act>>
     \/ /\ step.verifiers /\ pc' = "finalize"
        /\ output' = [output EXCEPT !.status = "failed"] /\ row' \in {row, "running"}
        /\ act' = IF cancelled THEN "setup" ELSE act
        /\ UNCHANGED <<verified, lost>>
  /\ UNCHANGED <<step, cancelled, result, contRow, boxes, attempt, execution, people,
                 decision, answer, pr>>

\* Mutant of Pause.
PauseUnseen ==
  /\ pc = "pause"
  /\ IF cancelled THEN ReturnError ELSE pc' = "await_decision"
  /\ UNCHANGED <<step, cancelled, result, row, contRow, boxes, exec, output, people, facts, lost>>

Pause ==
  /\ pc = "pause"
  /\ \/ ~cancelled /\ row' = "awaiting_input" /\ pc' = "await_decision" /\ UNCHANGED lost
     \/ ~cancelled /\ LoseWrite /\ ReturnError /\ UNCHANGED row
     \/ cancelled /\ ReturnError /\ row' \in {row, "awaiting_input"} /\ UNCHANGED lost
  /\ UNCHANGED <<step, cancelled, result, contRow, boxes, exec, output, people, facts>>

\* The selector takes the first case that is ready, in the order they were
\* added; a cancellation is not one of them.
Precedes == [approve |-> {}, reject |-> {"approve"}, steer |-> {"approve", "reject"},
             cancel |-> {"approve", "reject", "steer"}]

Decide(kind) ==
  /\ pc = "await_decision" /\ channels[kind] # <<>>
  /\ \A earlier \in Precedes[kind] : channels[earlier] = <<>>
  /\ channels' = [channels EXCEPT ![kind] = Tail(@)]
  /\ decision' = [kind |-> kind, saw |-> Head(channels[kind]), of |-> output.of]
  /\ \/ kind = "approve" /\ pc' = "create_pr" /\ UNCHANGED <<output, exec>>
     \/ kind \in {"reject", "cancel"} /\ pc' = "finalize"
        /\ output' = [output EXCEPT !.status = "failed"] /\ UNCHANGED exec
     \/ kind = "steer" /\ execution < MaxExecutions /\ Execute /\ UNCHANGED output
  /\ UNCHANGED <<step, cancelled, result, row, contRow, boxes, inTransit, sent, question,
                 unanswered, asking, verified, answer, pr, lost>>

-----------------------------------------------------------------------------
(* The pull request, the clean-up and the last write.                      *)

\* CreatePullRequest gets the sandbox of the first execution, whichever
\* execution the output came from; its error goes into the output.
CreatePR ==
  /\ pc = "create_pr"
  /\ \/ step.pullRequest /\ pr' \in {output.of, pr}
     \/ ~step.pullRequest /\ UNCHANGED pr
  /\ pc' = "cleanup"
  /\ UNCHANGED <<step, cancelled, result, row, contRow, boxes, exec, output, people,
                 verified, decision, answer, lost>>

Cleanup ==
  /\ pc = "cleanup" /\ pc' = "finalize"
  /\ \/ sandbox = "live" /\ ~cancelled /\ sandbox' = "killed" /\ UNCHANGED lost
     \/ sandbox = "live" /\ ~cancelled /\ sandbox' = "orphaned" /\ LoseWrite
     \/ sandbox = "live" /\ cancelled /\ sandbox' = "orphaned" /\ UNCHANGED lost
     \/ sandbox # "live" /\ UNCHANGED <<sandbox, lost>>
  /\ UNCHANGED <<step, cancelled, result, row, contRow, contSandbox, checkpoint, exec, output,
                 people, facts>>

Close(how) == pc' = "closed" /\ result' = how

\* Mutant of Finalize.
FinalizeIgnoresError ==
  /\ pc = "finalize" /\ Close(output.status)
  /\ \/ row' = output.status /\ UNCHANGED lost
     \/ LoseWrite /\ UNCHANGED row
  /\ UNCHANGED <<step, cancelled, contRow, boxes, exec, output, people, facts>>

\* finalizeStep; when it fails the deferred function keeps off the row.
Finalize ==
  /\ pc = "finalize"
  /\ \/ ~cancelled /\ row' = output.status /\ Close(output.status) /\ UNCHANGED lost
     \/ ~cancelled /\ LoseWrite /\ Close("error") /\ UNCHANGED row
     \/ cancelled /\ row' \in {row, output.status} /\ Close("error") /\ UNCHANGED lost
  /\ UNCHANGED <<step, cancelled, contRow, boxes, exec, output, people, facts>>

\* The deferred function, on a disconnected context.
Defer ==
  /\ pc = "defer"
  /\ \/ row' = "failed" /\ UNCHANGED lost
     \/ LoseWrite /\ UNCHANGED row
  /\ Close("error")
  /\ UNCHANGED <<step, cancelled, contRow, boxes, exec, output, people, facts>>

-----------------------------------------------------------------------------
(* People and the parent.                                                  *)

Post(kind, saw) ==
  /\ sent < MaxSignals /\ sent' = sent + 1
  /\ inTransit' = inTransit \cup {[id |-> sent, kind |-> kind, saw |-> saw]}

SteersOnTheirWay == Len(channels["steer"]) + Cardinality({m \in inTransit : m.kind = "steer"})

\* Mutant of SignalRun.
SignalAnyRun(kind) ==
  /\ row # "pending" /\ contRow # "awaiting_input"
  /\ kind = "steer" => execution + SteersOnTheirWay < MaxExecutions
  /\ Post(kind, output.of)
  /\ UNCHANGED <<step, pc, cancelled, result, row, contRow, boxes, exec, output, channels,
                 question, unanswered, asking, facts, lost>>

\* signalRun: the newest step_run that awaits input gets the signal, when it
\* arrives; with none, the signal goes to the parent, which never reads it.
SignalRun(kind) ==
  /\ row = "awaiting_input" /\ contRow # "awaiting_input"
  /\ kind = "steer" => execution + SteersOnTheirWay < MaxExecutions
  /\ Post(kind, output.of)
  /\ UNCHANGED <<step, pc, cancelled, result, row, contRow, boxes, exec, output, channels,
                 question, unanswered, asking, facts, lost>>

\* InboxHandler.Respond: the item becomes answered, then the signal is sent; an
\* error of the signal is logged.  Whether the item has an answer is checked
\* when it is read, so a second person who read it in time answers it again.
Respond(q) ==
  /\ q \in unanswered \/ AnswersOverlap
  /\ unanswered' = unanswered \ {q}
  /\ \/ Post("respond", q) /\ UNCHANGED lost
     \/ LoseWrite /\ UNCHANGED <<sent, inTransit>>
  /\ UNCHANGED <<step, pc, cancelled, result, row, contRow, boxes, exec, output, channels,
                 question, asking, facts>>

\* Temporal buffers the signal, or refuses it when the workflow has closed.
Deliver(m) ==
  /\ m \in inTransit /\ inTransit' = inTransit \ {m}
  /\ channels' = IF result = "open" THEN [channels EXCEPT ![m.kind] = Append(@, m.saw)] ELSE channels
  /\ UNCHANGED <<step, pc, cancelled, result, row, contRow, boxes, exec, output, sent,
                 question, unanswered, asking, facts, lost>>

\* The parent's ctx is cancelled; when it has closed, this workflow is terminated.
ParentCancels ==
  /\ result = "open" /\ ~cancelled /\ cancelled' = TRUE
  /\ UNCHANGED <<step, pc, result, row, contRow, boxes, exec, output, people, facts, lost>>

ParentCloses ==
  /\ result = "open" /\ cancelled /\ Close("terminated")
  /\ UNCHANGED <<step, cancelled, row, contRow, boxes, exec, output, people, facts, lost>>

Workflow ==
  \/ Provision \/ Preflight \/ ExecuteCancelled
  \/ ReceiveAnswer \/ CreateContinuation \/ ProvisionContinuation
  \/ ExecuteContinuation \/ CleanupContinuation
  \/ Verify \/ Pause \/ (\E kind \in Decisions : Decide(kind))
  \/ CreatePR \/ Cleanup \/ Finalize \/ Defer

Activity == AgentStarts \/ AgentEnds \/ AttemptFails

Handler == RequestInput \/ FileQuestion \/ MarkAwaiting \/ StoreCheckpoint

Next ==
  \/ Workflow \/ Activity \/ Handler \/ Straggle
  \/ \E kind \in Decisions : SignalRun(kind)
  \/ \E q \in 1..question : Respond(q)
  \/ \E m \in inTransit : Deliver(m)
  \/ ParentCancels \/ ParentCloses

Spec == Init /\ [][Next]_vars

\* Temporal runs the workflow and its activities, whose attempts end or time
\* out, and delivers signals.  Nothing is asked of people.
Fairness ==
  /\ WF_vars(Workflow) /\ WF_vars(Activity)
  /\ WF_vars(\E m \in inTransit : Deliver(m))

FairSpec == Spec /\ Fairness

-----------------------------------------------------------------------------
(* Properties.                                                             *)

\* The type invariant.
TypeOK ==
  /\ step \in StepDefs
  /\ pc \in {"provision", "preflight", "execute", "await_answer", "continue_create",
             "continue_provision", "continue_execute", "continue_cleanup", "verify", "pause",
             "await_decision", "create_pr", "cleanup", "finalize", "defer", "closed"}
  /\ cancelled \in BOOLEAN
  /\ result \in {"open", "complete", "failed", "error", "terminated"}
  /\ row \in {"pending", "running", "awaiting_input", "complete", "failed"}
  /\ contRow \in {"absent", "pending", "running", "awaiting_input"}
  /\ sandbox \in {"none", "shared", "live", "killed", "orphaned"}
  /\ contSandbox \in {"none", "live", "killed", "orphaned"}
  /\ checkpoint \in {"none", "pushed", "stored", "known", "deleted", "undeleted"}
  /\ asking \in {"idle", "found", "filed", "marked"}
  /\ act \in {"idle", "setup", "agent"} /\ attempt \in 0..2 /\ execution \in 0..MaxExecutions
  /\ output \in [status : {"none", "complete", "failed", "awaiting_input"}, review : BOOLEAN,
                 of : 0..MaxExecutions]
  /\ verified \in 0..MaxExecutions /\ pr \in 0..MaxExecutions
  /\ decision \in [kind : Decisions \cup {"none"}, saw : 0..MaxExecutions, of : 0..MaxExecutions]
  /\ answer \in 0..MaxQuestions
  /\ channels \in [Kinds -> Seq(Nat)]
  /\ inTransit \subseteq [id : 0..MaxSignals, kind : Kinds, saw : Nat]
  /\ sent \in 0..MaxSignals
  /\ question \in 0..MaxQuestions /\ unanswered \subseteq 1..MaxQuestions
  /\ lost \in 0..MaxLostWrites

\* Unless the step was resumed after a question, a pull request holds an
\* execution that the verifiers accepted (a steer re-runs them) and that, with
\* the policy always, was approved after it ended: no approval of an earlier
\* execution carries over by itself.  A rejected step never gets one and never
\* counts as complete.
OnlyReviewedChangesInPR ==
  /\ answer = 0 /\ pr # 0 =>
       /\ step.verifiers => verified = pr
       /\ step.policy = "always" => decision.kind = "approve" /\ decision.of = pr
  /\ decision.kind \in {"reject", "cancel"} => pr = 0 /\ result # "complete" /\ row # "complete"

\* Without a steer or a question, the approval a step goes on with was given by
\* somebody who could see what it lets through.  (An approval that is late for
\* its pause stays in the channel, and counts for the execution a steer started;
\* one that is sent while the agent's own question has the row awaiting input
\* counts for what a second attempt makes.)
UnsteeredApprovalSawTheChanges ==
  decision.kind = "approve" /\ decision.of = 1 /\ question = 0 => decision.saw = 1

\* The workflow waits for an answer only if its agent asked, although the row
\* may still say awaiting_input from a pause when a steered execution starts
\* (no lost write: with one, the old status is taken for a question).
AwaitingMeansAsked == pc = "await_answer" /\ lost = 0 => question # 0

\* Whatever a step waits for, a person can still give: while it waits for a
\* decision its row says awaiting_input (signalRun finds the step by that
\* status), and while it waits for an answer there is a question that is open,
\* or an answer on its way (no lost write).
WaitingStepIsReachable ==
  /\ pc = "await_decision" => row = "awaiting_input"
  /\ pc = "await_answer" /\ lost = 0 =>
       unanswered # {} \/ channels["respond"] # <<>> \/ \E m \in inTransit : m.kind = "respond"

\* A completed step leaves nothing behind that it knows of: its own sandbox and
\* that of its continuation are killed, and the deletion of the branch the
\* continuation started from has been tried, if the step names a repository.
\* (The deletion may fail, which nobody hears of; a branch whose name was stored
\* after the agent had ended, or could not be read, stays.)
CompletionReleasesEverything ==
  result = "complete" /\ lost = 0 =>
    /\ sandbox \in {"killed", "shared"}
    /\ contSandbox \in {"none", "killed"}
    /\ answer # 0 /\ step.repository => checkpoint # "known"

\* The step is what DAGWorkflow takes it for.
ChildOutcome ==
  IF result = "open" THEN IF cancelled THEN "cancelling" ELSE "running"
  ELSE IF result # "error" THEN result
  ELSE IF cancelled THEN "cancelled" ELSE "failed"
Contract == INSTANCE StepContract WITH child <- ChildOutcome
KeepsContract == Contract!Spec

\* A step ends, unless it waits for a person for ever.
StepCloses == <>(result # "open") \/ <>[](pc \in {"await_decision", "await_answer"})

-----------------------------------------------------------------------------
(* A statement of the docs that the code does not keep.                    *)

\* WORKFLOW_REFERENCE.md:47: approval_policy says "When to pause for human
\* approval": with always, no pull request goes without an approval.
AlwaysMeansApproved == step.policy = "always" /\ pr # 0 => decision.kind = "approve"

-----------------------------------------------------------------------------
(***************************************************************************)
(* The inductive invariants that the theorems of StepWorkflow_proofs rest  *)
(* on.                                                                     *)
(***************************************************************************)

ControlTyped ==
  /\ pc \in {"provision", "preflight", "execute", "await_answer", "continue_create",
             "continue_provision", "continue_execute", "continue_cleanup", "verify", "pause",
             "await_decision", "create_pr", "cleanup", "finalize", "defer", "closed"}
  /\ cancelled \in BOOLEAN /\ execution \in Nat /\ act \in {"idle", "setup", "agent"}
  /\ output \in [status : {"none", "complete", "failed", "awaiting_input"}, review : BOOLEAN, of : Nat]

\* The row has a final status only once the workflow has closed; a cancelled
\* one closes with an error or is terminated.
RowFollowsControl ==
  /\ result \in {"open", "complete", "failed", "error", "terminated"}
  /\ result = "open" <=> pc # "closed"
  /\ result = "open" => row \in {"pending", "running", "awaiting_input"}
  /\ cancelled => result \in {"open", "error", "terminated"}
  /\ result = "terminated" => cancelled

\* Past its execution a step has an output that is complete or failed.
OutputIsFinal ==
  pc \in {"verify", "pause", "await_decision", "create_pr", "cleanup", "finalize"}
    => output.status \in {"complete", "failed"}

\* An attempt outlives its call only after a cancellation.
StragglersAreCancelled == pc # "execute" /\ act # "idle" => cancelled

ContractInv == ControlTyped /\ RowFollowsControl /\ OutputIsFinal /\ StragglersAreCancelled

\* What people have sent: the answers are to questions, and questions start at 1.
SignalsTyped ==
  /\ channels \in [Kinds -> Seq(Nat)]
  /\ inTransit \subseteq [id : Nat, kind : Kinds, saw : Nat]
  /\ sent \in Nat /\ question \in Nat /\ answer \in Nat
  /\ \A i \in DOMAIN channels["respond"] : channels["respond"][i] # 0
  /\ \A m \in inTransit : m.kind = "respond" => m.saw # 0
  /\ asking = "filed" => question # 0

\* What comes after an answer has one.
ContinuationHasAnswer ==
  pc \in {"continue_create", "continue_provision", "continue_execute", "continue_cleanup"}
    => answer # 0

\* What is on its way to a pull request has been reviewed, and is the newest output.
ReviewInv ==
  /\ pr # 0 => pc \in {"cleanup", "finalize", "closed"}
  /\ answer = 0 =>
       /\ pc \in {"pause", "await_decision", "create_pr"} /\ step.verifiers => verified = output.of
       /\ pc = "create_pr" /\ step.policy = "always" => decision.kind = "approve" /\ decision.of = output.of
  /\ decision.kind \in {"reject", "cancel"} =>
       pc \in {"finalize", "closed"} /\ output.status = "failed"

AnswerOutstanding ==
  unanswered # {} \/ channels["respond"] # <<>> \/ \E m \in inTransit : m.kind = "respond"

\* While no write is lost the row awaits input only for a question or a pause,
\* and a question has not lost its answer.
WaitInv ==
  /\ lost \in Nat
  /\ answer # 0 => pc \in {"continue_create", "continue_provision", "continue_execute", "continue_cleanup",
                          "create_pr", "cleanup", "finalize", "defer", "closed"}
  /\ pc # "execute" /\ act # "idle" => pc \in {"finalize", "defer", "closed"}
  /\ pc = "await_decision" => row = "awaiting_input"
  /\ lost = 0 =>
       /\ pc = "execute" /\ act = "agent" /\ row = "awaiting_input" => question # 0
       /\ pc = "await_answer" => question # 0
       /\ answer = 0 /\ question # 0 /\ result = "open" => AnswerOutstanding

\* Sandboxes and checkpoint on the way to a completion without lost writes.
ReleaseInv ==
  /\ answer = 0 => contSandbox = "none"
  /\ pc = "provision" => sandbox = (IF step.shared THEN "shared" ELSE "none")
  /\ pc \notin {"provision", "finalize", "defer", "closed"} => sandbox \in {"live", "shared"}
  /\ lost = 0 /\ ~cancelled =>
       /\ pc = "finalize" /\ output.status = "complete" => sandbox \in {"killed", "shared"}
       /\ pc \in {"create_pr", "cleanup", "finalize"} =>
            /\ contSandbox \in {"none", "killed"}
            /\ answer # 0 /\ step.repository => checkpoint # "known"

\* What a signal may carry: a question of the agent, or the execution its
\* sender could look at.  Before any question is asked only a pause shows the
\* row as awaiting input, and then there is an execution to look at.
Carried(kind) ==
  IF kind = "respond" THEN 1..question ELSE IF question = 0 THEN 1..output.of ELSE 0..MaxExecutions

SignalsFit ==
  /\ \A kind \in Kinds : channels[kind] \in Seq(Carried(kind))
  /\ \A m \in inTransit : m.saw \in Carried(m.kind)

\* As long as the agent has not asked, a pause shows an output of an execution,
\* and a decision is about one its sender could look at.
SeenInv ==
  question = 0 =>
    /\ answer = 0
    /\ row = "awaiting_input" \/ pc \in {"verify", "pause", "await_decision"} => output.of # 0
    /\ decision.kind # "none" => 1 <= decision.saw /\ decision.saw <= decision.of
=============================================================================
