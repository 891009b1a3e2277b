----------------------------- MODULE DagWorkflow -----------------------------
(***************************************************************************)
(* DAGWorkflow (internal/workflow/dag.go): one workflow run, from the      *)
(* first status write to the deferred final one.                           *)
(*                                                                         *)
(* The workflow goroutine is `pc', the goroutine of a step is thread[s],   *)
(* the child StepWorkflow of an agent step is child[s].  Rows of the       *)
(* database are run, stepRun and inbox.  A goroutine only yields inside a  *)
(* call to an activity or a child, so the code between two such calls is   *)
(* one action.  An activity call is abstracted to its outcomes: success,   *)
(* failure after the last attempt, or cancellation, where the effect of an *)
(* attempt in flight may or may not land although its result is dropped.   *)
(*                                                                         *)
(* Left to other modules: what happens inside a child (StepWorkflow, of    *)
(* which a child here does whatever StepContract allows) and the fan-out   *)
(* of one step to several children (FanOut).  A template, a condition or   *)
(* an agent may come out either way.                                       *)
(***************************************************************************)
EXTENDS Naturals, FiniteSets

CONSTANTS Steps,         \* step ids, numbered in the order sort.Slice gives them
          Groups,        \* sandbox groups, numbered in the order sort.Strings gives them
          NoGroup,       \* sandbox_group == ""
          Definitions,   \* the workflow definitions a run may be started with
          MaxLostWrites  \* bound: writes (or kills of a sandbox) that fail on every attempt

ASSUME StepsAssumption == Steps \subseteq Nat /\ Groups \subseteq Nat /\ NoGroup \notin Groups

ASSUME FiniteAssumption == IsFiniteSet(Steps) /\ MaxLostWrites \in Nat

ASSUME DefinitionsAssumption ==
  Definitions \subseteq [dependsOn   : [Steps -> SUBSET Steps],
                         optional    : SUBSET Steps,
                         action      : SUBSET Steps,
                         conditional : SUBSET Steps,
                         group       : [Steps -> Groups \cup {NoGroup}]]

VARIABLES
  def,        \* DAGInput.WorkflowDef, of which the steps are all that matters here
  pc,         \* where the workflow goroutine is
  cancelled,  \* ctx.Err() # nil
  retErr,     \* the named result the deferred functions read
  pending, outputs, ready, results, sandboxes,     \* locals of DAGWorkflow
  collect,    \* the part of ready the result loop has yet to visit
  stepFailed, \* len(stepErrors) > 0
  sentStepFailedNotification,
  thread,     \* the goroutine launched for each step
  child,      \* the child workflow of each step
  run,        \* runs.status
  stepRun,    \* step_runs.status of the row made for each step, "absent" before
  overwritten, \* for the properties: the steps whose final row a late request overwrote
  inbox,      \* inbox_items of this run
  lost        \* how many writes have been lost so far

locals == <<pending, outputs, ready, results, collect, stepFailed>>
rows   == <<run, stepRun, overwritten, inbox, sentStepFailedNotification>>
vars   == <<def, pc, cancelled, retErr, locals, sandboxes, thread, child, rows, lost>>

StepOutcome  == {"complete", "failed", "skipped"}
Unfinished   == {"pending", "running", "awaiting_input"}
RunTerminal  == {"complete", "failed", "cancelled"}
ThreadState  == {"idle", "launched", "creating", "acting", "finalizing", "child", "done"}
ChildState   == {"none", "running", "cancelling", "complete", "failed", "cancelled",
                  "terminated"}

\* A write that may fail on all of its attempts.
LoseWrite == lost < MaxLostWrites /\ lost' = lost + 1

Init ==
  /\ def \in Definitions
  /\ pc = "starting" /\ cancelled = FALSE /\ retErr = "none"
  /\ pending = Steps
  /\ outputs = [s \in Steps |-> "none"]
  /\ results = [s \in Steps |-> "none"]
  /\ ready = {} /\ collect = {}
  /\ stepFailed = FALSE /\ sentStepFailedNotification = FALSE
  /\ sandboxes = [g \in Groups |-> "none"]
  /\ thread = [s \in Steps |-> "idle"]
  /\ child = [s \in Steps |-> "none"]
  /\ run = "pending"
  /\ stepRun = [s \in Steps |-> "absent"] /\ overwritten = {}
  /\ inbox = {}
  /\ lost = 0

\* Leave the body of the workflow with an error: the deferred functions run.
Return(err) == retErr' = err /\ pc' = "cleanup"

-----------------------------------------------------------------------------
(* Before the loop.                                                        *)

MarkRunning ==
  /\ pc = "starting" /\ ~cancelled
  /\ run' = "running" /\ pc' = "preflight"
  /\ UNCHANGED <<def, cancelled, retErr, locals, sandboxes, thread, child,
                 stepRun, overwritten, inbox, sentStepFailedNotification, lost>>

\* The first status write fails, or is cancelled: the deferred functions are
\* not installed yet, so the workflow closes with the row as it is.
MarkRunningFails ==
  /\ pc = "starting"
  /\ \/ cancelled /\ run' \in {"pending", "running"} /\ retErr' = "cancelled" /\ UNCHANGED lost
     \/ ~cancelled /\ LoseWrite /\ retErr' = "failed" /\ UNCHANGED run
  /\ pc' = "closed"
  /\ UNCHANGED <<def, cancelled, locals, sandboxes, thread, child,
                 stepRun, overwritten, inbox, sentStepFailedNotification>>

\* Resolve the agent profile and validate the credentials.
Preflight ==
  /\ pc = "preflight"
  /\ \/ ~cancelled /\ pc' = "scheduling" /\ UNCHANGED retErr
     \/ ~cancelled /\ Return("failed")
     \/ cancelled /\ Return("cancelled")
  /\ UNCHANGED <<def, cancelled, locals, sandboxes, thread, child, rows, lost>>

-----------------------------------------------------------------------------
(* The scheduling loop: cancellation check, findReady, group sandboxes,    *)
(* launch.                                                                 *)

FindReady == {s \in pending : \A d \in def.dependsOn[s] : outputs[d] # "none"}

\* Mutant of Schedule.
ScheduleWaits ==
  /\ pc = "scheduling"
  /\ \/ /\ pending # {} /\ ~cancelled /\ FindReady # {}
        /\ ready' = FindReady /\ pc' = "provisioning" /\ UNCHANGED retErr
     \/ pending # {} /\ cancelled /\ Return("cancelled") /\ UNCHANGED ready
     \/ pending = {} /\ Return("none") /\ UNCHANGED ready
  /\ UNCHANGED <<def, cancelled, pending, outputs, results, collect, stepFailed,
                 sandboxes, thread, child, rows, lost>>

Schedule ==
  /\ pc = "scheduling"
  /\ \/ /\ pending # {} /\ ~cancelled /\ FindReady # {}
        /\ ready' = FindReady /\ pc' = "provisioning" /\ UNCHANGED retErr
     \/ /\ pending # {} /\ cancelled
        /\ Return("cancelled") /\ UNCHANGED ready
     \/ /\ pending # {} /\ ~cancelled /\ FindReady = {}      \* "DAG deadlock"
        /\ Return("failed") /\ UNCHANGED ready
     \/ /\ pending = {}
        /\ Return("none") /\ UNCHANGED ready
  /\ UNCHANGED <<def, cancelled, pending, outputs, results, collect, stepFailed,
                 sandboxes, thread, child, rows, lost>>

NeedsSandbox(s) == def.group[s] # NoGroup /\ sandboxes[def.group[s]] = "none"

FirstNeedingSandbox(s) ==
  /\ s \in ready /\ NeedsSandbox(s)
  /\ \A t \in ready : NeedsSandbox(t) => s <= t

\* A cancelled or failed provisioning may leave a sandbox behind that no
\* variable names.
ProvisionGroup(s) ==
  /\ pc = "provisioning" /\ FirstNeedingSandbox(s)
  /\ \/ /\ ~cancelled
        /\ sandboxes' = [sandboxes EXCEPT ![def.group[s]] = "live"]
        /\ UNCHANGED <<pc, retErr>>
     \/ /\ \E left \in {"none", "orphaned"} :
             sandboxes' = [sandboxes EXCEPT ![def.group[s]] = left]
        /\ Return(IF cancelled THEN "cancelled" ELSE "failed")
  /\ UNCHANGED <<def, cancelled, locals, thread, child, rows, lost>>

\* Mutant of Launch.
LaunchUnprovisioned ==
  /\ pc = "provisioning" /\ pc' = "waiting"
  /\ thread' = [s \in Steps |-> IF s \in ready THEN "launched" ELSE thread[s]]
  /\ UNCHANGED <<def, cancelled, retErr, locals, sandboxes, child, rows, lost>>

Launch ==
  /\ pc = "provisioning" /\ \A s \in ready : ~NeedsSandbox(s)
  /\ pc' = "waiting"
  /\ thread' = [s \in Steps |-> IF s \in ready THEN "launched" ELSE thread[s]]
  /\ UNCHANGED <<def, cancelled, retErr, locals, sandboxes, child, rows, lost>>

-----------------------------------------------------------------------------
(* The goroutine of a step.  Once ctx is cancelled every activity it calls *)
(* returns a CanceledError, so only ThreadCancelled moves it on.           *)

Finish(s, outcome) ==
  /\ thread'  = [thread EXCEPT ![s] = "done"]
  /\ results' = [results EXCEPT ![s] = outcome]

Moves(s, to) == thread' = [thread EXCEPT ![s] = to]

\* What no step of a goroutine touches.
StepFrame == UNCHANGED <<def, pc, cancelled, retErr, pending, outputs, ready, collect,
                         stepFailed, sandboxes, run, overwritten, inbox, sentStepFailedNotification>>

\* Mutant of DependencyUnsuccessful.
OnlyFailedBlocks(s) ==
  s \notin def.optional /\ \E d \in def.dependsOn[s] : outputs[d] = "failed"

DependencyUnsuccessful(s) ==
  s \notin def.optional /\ \E d \in def.dependsOn[s] : outputs[d] \in {"skipped", "failed"}

\* Up to the first activity: skip after an unsuccessful dependency, fail when
\* a template does not render, skip when the condition is not "true", or go on.
BeginStep(s) ==
  /\ thread[s] = "launched"
  /\ IF DependencyUnsuccessful(s) THEN Finish(s, "skipped")
     ELSE \/ Finish(s, "failed")
          \/ s \in def.conditional /\ Finish(s, "skipped")
          \/ Moves(s, "creating") /\ UNCHANGED results
  /\ StepFrame /\ UNCHANGED <<child, stepRun, lost>>

CreateStepRun(s) ==
  /\ thread[s] = "creating" /\ ~cancelled
  /\ \/ /\ stepRun' = [stepRun EXCEPT ![s] = "pending"]
        /\ IF s \in def.action THEN Moves(s, "acting") /\ UNCHANGED child
           ELSE Moves(s, "child") /\ child' = [child EXCEPT ![s] = "running"]
        /\ UNCHANGED <<results, lost>>
     \/ LoseWrite /\ Finish(s, "failed") /\ UNCHANGED <<stepRun, child>>
  /\ StepFrame

\* executeAction, or its config does not render: either way finalizeStep is next.
ExecuteAction(s) ==
  /\ thread[s] = "acting" /\ ~cancelled
  /\ \E outcome \in {"complete", "failed"} : results' = [results EXCEPT ![s] = outcome]
  /\ Moves(s, "finalizing")
  /\ StepFrame /\ UNCHANGED <<child, stepRun, lost>>

\* The error of finalizeStep is ignored for an action step.
FinalizeAction(s) ==
  /\ thread[s] = "finalizing" /\ ~cancelled
  /\ \/ stepRun' = [stepRun EXCEPT ![s] = results[s]] /\ UNCHANGED lost
     \/ LoseWrite /\ UNCHANGED stepRun
  /\ Moves(s, "done")
  /\ StepFrame /\ UNCHANGED <<results, child>>

\* Mutant of ChildReturns.
ChildReturnsDespiteError(s) ==
  /\ thread[s] = "child" /\ ~cancelled /\ child[s] \in {"complete", "failed"}
  /\ Finish(s, "complete")
  /\ StepFrame /\ UNCHANGED <<child, stepRun, lost>>

\* The child future is ready: its output, or its error turned into a failure.
ChildReturns(s) ==
  /\ thread[s] = "child" /\ ~cancelled /\ child[s] \in {"complete", "failed"}
  /\ Finish(s, child[s])
  /\ StepFrame /\ UNCHANGED <<child, stepRun, lost>>

\* The call the goroutine is blocked in returns CanceledError at once.  The
\* insert or the update in flight may land all the same; a child is asked to
\* cancel, not waited for.
ThreadCancelled(s) ==
  /\ cancelled /\ thread[s] \in {"creating", "acting", "finalizing", "child"}
  /\ \/ UNCHANGED stepRun
     \/ thread[s] = "creating"   /\ stepRun' = [stepRun EXCEPT ![s] = "pending"]
     \/ thread[s] = "finalizing" /\ stepRun' = [stepRun EXCEPT ![s] = results[s]]
  /\ IF thread[s] = "finalizing" THEN Moves(s, "done") /\ UNCHANGED results
     ELSE Finish(s, "failed")
  /\ child' = IF child[s] = "running" THEN [child EXCEPT ![s] = "cancelling"] ELSE child
  /\ StepFrame /\ UNCHANGED lost

-----------------------------------------------------------------------------
(* The child StepWorkflow of a step, as far as the parent and the database *)
(* can see it: it may take every step of StepContract, which StepWorkflow  *)
(* implements, and no other.  The parent's steps of the contract are       *)
(* ThreadCancelled (Cancel) and CloseRun (Terminate).                      *)

Step(s) == INSTANCE StepContract WITH row <- stepRun[s], child <- child[s]

Open(s) == Step(s)!Open

\* What a child can change: its row, its outcome, and what is lost.
ChildFrame(s) ==
  /\ \E status \in Step(s)!Unfinished \cup {"complete", "failed"} :
       stepRun' = [stepRun EXCEPT ![s] = status]
  /\ \E outcome \in {child[s]} \cup IF Open(s) THEN {"complete", "failed", "cancelled"} ELSE {} :
       child' = [child EXCEPT ![s] = outcome]
  /\ lost' \in {lost, lost + 1} \cap 0..MaxLostWrites
  /\ UNCHANGED <<def, pc, cancelled, retErr, locals, sandboxes, thread, run, overwritten, inbox,
                 sentStepFailedNotification>>

\* It works, for its own agent or for a person who steers it, or loses a write.
ChildWorks(s) == child[s] # "none" /\ ChildFrame(s) /\ (Step(s)!Work \/ Step(s)!Lose)

\* It ends: by itself, or, when its row awaits input, only for a person's
\* approval, rejection or answer.
ChildEnds(s) ==
  Open(s) /\ stepRun[s] # "awaiting_input" /\ ChildFrame(s) /\ (Step(s)!Complete \/ Step(s)!Fail)

ChildAnswered(s) ==
  Open(s) /\ stepRun[s] = "awaiting_input" /\ ChildFrame(s) /\ (Step(s)!Complete \/ Step(s)!Fail)

\* It notices the cancellation, or leaves an attempt that does not yet.
ChildCancelled(s) ==
  child[s] \notin {"none", "running"} /\ ChildFrame(s) /\ (Step(s)!Cancelled \/ Step(s)!Straggle)

\* The last statement of a request_input that an agent of the run made, on the
\* row it found unfinished: its own, or one of another step, a child's or not.
RequestLands(s) ==
  /\ stepRun[s] # "absent" /\ \E t \in Steps : child[t] # "none"
  /\ stepRun' = [stepRun EXCEPT ![s] = "awaiting_input"]
  /\ overwritten' = IF stepRun[s] \in {"complete", "failed"} THEN overwritten \cup {s} ELSE overwritten
  /\ UNCHANGED <<def, pc, cancelled, retErr, locals, sandboxes, thread, child, run, inbox,
                 sentStepFailedNotification, lost>>
  /\ Step(s)!LateRequest

-----------------------------------------------------------------------------
(* After wg.Wait: collect the results in the order of ready.               *)

StepsJoin ==
  /\ pc = "waiting" /\ \A s \in ready : thread[s] = "done"
  /\ IF cancelled THEN Return("cancelled") /\ UNCHANGED collect
     ELSE pc' = "collecting" /\ collect' = ready /\ UNCHANGED retErr
  /\ UNCHANGED <<def, cancelled, pending, outputs, ready, results, stepFailed,
                 sandboxes, thread, child, rows, lost>>

\* skipDownstream: the pending steps that depend on s, directly or through
\* other pending steps; the least set closed under that relation.
Downstream(s, open) ==
  LET ClosedUnder(X) == \A t \in open : def.dependsOn[t] \cap (X \cup {s}) # {} => t \in X
  IN  {t \in open : \A X \in SUBSET open : ClosedUnder(X) => t \in X}

FailsRun(s) == results[s] = "failed" /\ s \notin def.optional

\* outputs[r.StepID] = r; delete(pending, r.StepID); and for a failure that is
\* not optional the step_failed item, then skipDownstream.
CollectResult(s) ==
  /\ pc = "collecting" /\ s \in collect /\ \A t \in collect : s <= t
  /\ collect' = collect \ {s}
  /\ LET skipped == IF FailsRun(s) THEN Downstream(s, pending \ {s}) ELSE {}
     IN  /\ pending' = pending \ ({s} \cup skipped)
         /\ outputs' = [t \in Steps |-> IF t \in skipped THEN "skipped"
                                        ELSE IF t = s THEN results[s] ELSE outputs[t]]
  /\ stepFailed' = (stepFailed \/ FailsRun(s))
  /\ \/ /\ FailsRun(s)
        /\ inbox' = inbox \cup {<<"step_failed", s>>} /\ sentStepFailedNotification' = TRUE
        /\ UNCHANGED lost
     \/ FailsRun(s) /\ LoseWrite /\ UNCHANGED <<inbox, sentStepFailedNotification>>
     \/ ~FailsRun(s) /\ UNCHANGED <<inbox, sentStepFailedNotification, lost>>
  /\ UNCHANGED <<def, pc, cancelled, retErr, ready, results, sandboxes, thread, child, run, stepRun, overwritten>>

\* Mutant of EndOfBatch.
EndOfBatchGoesOn ==
  /\ pc = "collecting" /\ collect = {}
  /\ pc' = "scheduling"
  /\ UNCHANGED <<def, cancelled, retErr, locals, sandboxes, thread, child, rows, lost>>

EndOfBatch ==
  /\ pc = "collecting" /\ collect = {}
  /\ IF stepFailed THEN Return("failed") ELSE pc' = "scheduling" /\ UNCHANGED retErr
  /\ UNCHANGED <<def, cancelled, locals, sandboxes, thread, child, rows, lost>>

-----------------------------------------------------------------------------
(* The deferred functions, on a disconnected context.                      *)

\* One group after the other; a sandbox that cannot be killed is left.
CleanupGroup(g) ==
  /\ pc = "cleanup" /\ sandboxes[g] = "live"
  /\ \A h \in Groups : sandboxes[h] = "live" => g <= h
  /\ \/ sandboxes' = [sandboxes EXCEPT ![g] = "killed"] /\ UNCHANGED lost
     \/ sandboxes' = [sandboxes EXCEPT ![g] = "orphaned"] /\ LoseWrite
  /\ UNCHANGED <<def, pc, cancelled, retErr, locals, thread, child, rows>>

\* Mutants of FinalStatus.
FinalStatusUnmapped == retErr

FinalStatusHidesFailure == IF retErr = "cancelled" THEN "cancelled" ELSE "complete"

FinalStatus == IF retErr = "none" THEN "complete" ELSE retErr

\* UpdateRunStatus; its error is dropped.
FinishRun ==
  /\ pc = "cleanup" /\ \A g \in Groups : sandboxes[g] # "live"
  /\ pc' = "notifying"
  /\ \/ run' = FinalStatus /\ UNCHANGED lost
     \/ LoseWrite /\ UNCHANGED run
  /\ UNCHANGED <<def, cancelled, retErr, locals, sandboxes, thread, child,
                 stepRun, overwritten, inbox, sentStepFailedNotification>>

\* Mutant of NotifiesRun.
NotifiesRunAgain == FinalStatus # "cancelled"

NotifiesRun ==
  /\ FinalStatus # "cancelled"
  /\ ~(FinalStatus = "failed" /\ sentStepFailedNotification)

\* The run-level item, then the workflow closes: the server terminates the
\* children that are still open (ParentClosePolicy is the default).
CloseRun ==
  /\ pc = "notifying" /\ pc' = "closed"
  /\ \/ NotifiesRun /\ inbox' = inbox \cup {<<"output_ready">>} /\ UNCHANGED lost
     \/ NotifiesRun /\ LoseWrite /\ UNCHANGED inbox
     \/ ~NotifiesRun /\ UNCHANGED <<inbox, lost>>
  /\ child' = [s \in Steps |-> IF Open(s) THEN "terminated" ELSE child[s]]
  /\ UNCHANGED <<def, cancelled, retErr, locals, sandboxes, thread, run, stepRun,
                 overwritten, sentStepFailedNotification>>

-----------------------------------------------------------------------------
\* RunsHandler.Cancel: CancelWorkflow on the parent.
Cancel ==
  /\ pc # "closed" /\ ~cancelled /\ cancelled' = TRUE
  /\ UNCHANGED <<def, pc, retErr, locals, sandboxes, thread, child, rows, lost>>

Engine ==
  \/ MarkRunning \/ MarkRunningFails \/ Preflight \/ Schedule
  \/ \E s \in Steps : ProvisionGroup(s)
  \/ Launch \/ StepsJoin
  \/ \E s \in Steps : CollectResult(s)
  \/ EndOfBatch
  \/ \E g \in Groups : CleanupGroup(g)
  \/ FinishRun \/ CloseRun

StepGoroutine(s) ==
  \/ BeginStep(s) \/ CreateStepRun(s) \/ ExecuteAction(s) \/ FinalizeAction(s)
  \/ ChildReturns(s) \/ ThreadCancelled(s)

ChildWorkflow(s) ==
  \/ ChildWorks(s) \/ ChildAnswered(s) \/ ChildEnds(s)
  \/ ChildCancelled(s) \/ RequestLands(s)

Next ==
  \/ Engine
  \/ \E s \in Steps : StepGoroutine(s) \/ ChildWorkflow(s)
  \/ Cancel

Spec == Init /\ [][Next]_vars

\* Temporal runs what can run, and an agent's activity ends or times out.  No
\* fairness is asked of a person (ChildAnswered) or of Cancel.
Fairness ==
  /\ WF_vars(Engine)
  /\ \A s \in Steps : WF_vars(StepGoroutine(s)) /\ WF_vars(ChildEnds(s))

FairSpec == Spec /\ Fairness

-----------------------------------------------------------------------------
(* Properties.                                                             *)

\* The type invariant.
TypeOK ==
  /\ def \in Definitions
  /\ pc \in {"starting", "preflight", "scheduling", "provisioning", "waiting",
             "collecting", "cleanup", "notifying", "closed"}
  /\ cancelled \in BOOLEAN /\ stepFailed \in BOOLEAN
  /\ sentStepFailedNotification \in BOOLEAN
  /\ retErr \in {"none", "failed", "cancelled"}
  /\ pending \in SUBSET Steps /\ ready \in SUBSET Steps /\ collect \in SUBSET Steps
  /\ outputs \in [Steps -> StepOutcome \cup {"none"}]
  /\ results \in [Steps -> StepOutcome \cup {"none"}]
  /\ sandboxes \in [Groups -> {"none", "live", "killed", "orphaned"}]
  /\ thread \in [Steps -> ThreadState]
  /\ child \in [Steps -> ChildState]
  /\ run \in {"pending", "running"} \cup RunTerminal
  /\ stepRun \in [Steps -> {"absent", "complete", "failed"} \cup Unfinished]
  /\ overwritten \in SUBSET Steps
  /\ inbox \in SUBSET (({"step_failed"} \X Steps) \cup {<<"output_ready">>})
  /\ lost \in 0..MaxLostWrites

\* A step_runs row exists only for a step whose dependencies are all settled,
\* and, unless the step is optional, none of them skipped and only optional
\* ones failed (findReady, the skip check and skipDownstream): no step starts
\* early, whatever failed or was skipped in the batches before it.  (The code
\* also keeps a step from starting after an optional dependency failed; the
\* docs differ on that, WORKFLOW_REFERENCE.md:40 and :51, and this says nothing
\* of it.)
DependenciesRespected ==
  \A s \in Steps : stepRun[s] # "absent" =>
    \A d \in def.dependsOn[s] :
      /\ outputs[d] # "none"
      /\ s \notin def.optional =>
           outputs[d] = "complete" \/ (outputs[d] = "failed" /\ d \in def.optional)

\* A run is complete only if every step has an outcome and no step that is not
\* optional failed.
CompleteRunIsWhole ==
  run = "complete" =>
    \A s \in Steps : outputs[s] # "none" /\ (outputs[s] = "failed" => s \in def.optional)

\* The row of a step shows a status, unless a request that found the row
\* unfinished has overwritten it since.
Shows(s, status) == stepRun[s] = status \/ (s \in overwritten /\ stepRun[s] = "awaiting_input")

\* The outcome of an executed step agrees with its row: a row that the parent
\* counts as complete or failed says so, and a skipped step has none.  Two
\* things undo it: a write that is lost, and a request_input of which the last
\* statement comes late (mcp.go:566).
RowsAgreeWithOutcomes ==
  lost = 0 => \A s \in Steps :
    /\ outputs[s] = "complete" => Shows(s, "complete")
    /\ outputs[s] = "failed" => Shows(s, "failed") \/ stepRun[s] = "absent"
    /\ outputs[s] = "skipped" => stepRun[s] = "absent"

\* While the run is not cancelled, the sandbox of its group outlives every
\* child that works in it (ARCHITECTURE.md: a group's sandbox is shared and
\* cleaned up at the end of the run).
SandboxOutlivesItsSteps ==
  \A s \in Steps : child[s] = "running" /\ def.group[s] # NoGroup =>
                     sandboxes[def.group[s]] = "live"

\* No exit path leaves a group's sandbox running, cancellation included; what
\* is left is only what a failed kill or an unanswered provisioning left.
NoGroupSandboxLeft ==
  pc \in {"notifying", "closed"} => \A g \in Groups : sandboxes[g] # "live"

StepFailedItems == {item \in inbox : item[1] = "step_failed"}

\* A person hears of the end of a run exactly once in each way: success by
\* output_ready alone, failure by step_failed items or output_ready but not
\* both, and a cancelled run makes no run-level item (dag.go:54-56, 76-78).
NotifiedOnce ==
  pc = "closed" /\ lost = 0 =>
    /\ run = "complete"  => inbox = {<<"output_ready">>}
    /\ run = "failed"    => (StepFailedItems = {}) = (<<"output_ready">> \in inbox)
    /\ run = "cancelled" => <<"output_ready">> \notin inbox

\* The row of a closed run is terminal, unless the run was cancelled before it
\* was marked running: then no step of it was ever started.
ClosedRunIsTerminal ==
  pc = "closed" /\ lost = 0 /\ run \notin RunTerminal =>
    cancelled /\ \A s \in Steps : thread[s] = "idle" /\ stepRun[s] = "absent"

\* skipDownstream never takes a step of the batch being collected: its result
\* has yet to be recorded, and recording it would overwrite the skip.
BatchIsNotSkipped ==
  pc = "collecting" => \A s \in collect : s \in pending /\ outputs[s] = "none"

\* An outcome is recorded once.
OutcomesAreFinal ==
  [][\A s \in Steps : outputs[s] # "none" => outputs'[s] = outputs[s]]_vars

\* The run keeps what WorkflowRun promises.
Promise == INSTANCE WorkflowRun WITH status <- run, outcome <- outputs
KeepsPromise == Promise!Spec

\* A run closes, unless a step waits for a person for ever (or again and
\* again); and cancelling a run closes it even then.
RunCloses ==
  /\ <>(pc = "closed") \/ \E s \in Steps : []<>(Open(s) /\ stepRun[s] = "awaiting_input")
  /\ cancelled ~> pc = "closed"

-----------------------------------------------------------------------------
(* The inductive invariant that the theorems of DagWorkflow_proofs rest    *)
(* on, part by part.                                                       *)

Running   == {"starting", "preflight", "scheduling", "provisioning", "waiting", "collecting"}
InBatch   == {"provisioning", "waiting", "collecting"}
Working   == {"creating", "acting", "finalizing", "child"}

\* The condition under which a step may be attempted.
MayStart(s) ==
  \A d \in def.dependsOn[s] :
    /\ outputs[d] # "none"
    /\ s \notin def.optional => outputs[d] = "complete" \/ (outputs[d] = "failed" /\ d \in def.optional)

\* pending and outputs are two views of the same thing.
PendingIsUndecided == \A s \in Steps : s \in pending <=> outputs[s] = "none"

\* The batch holds undecided steps whose dependencies are decided; while it is
\* collected, the part still to be visited is the part still pending.
BatchIsReady ==
  /\ pc \in InBatch => \A s \in ready : \A d \in def.dependsOn[s] : outputs[d] # "none"
  /\ pc \in {"provisioning", "waiting"} => ready \subseteq pending
  /\ pc = "collecting" => /\ collect = ready \cap pending
                          /\ \A s \in ready : thread[s] = "done"

\* Goroutines run only between Launch and StepsJoin, each at most once.
ThreadsBelongToBatch ==
  \A s \in Steps :
    /\ thread[s] \in Working \cup {"launched"} => pc = "waiting" /\ s \in ready
    /\ thread[s] # "idle" /\ s \in pending =>
         s \in ready /\ pc \in {"waiting", "collecting", "cleanup", "notifying", "closed"}
    /\ thread[s] # "idle" => pc \notin {"starting", "preflight"}
    /\ thread[s] \in {"idle", "launched", "creating"} => stepRun[s] = "absent" /\ child[s] = "none"
    /\ thread[s] \in {"acting", "finalizing"} => child[s] = "none"
    /\ child[s] = "running" => thread[s] = "child"
    /\ thread[s] = "child" => child[s] # "none"

\* What a goroutine and its child have done, they were allowed to do.
WorkIsJustified ==
  \A s \in Steps :
    /\ child[s] # "none" => stepRun[s] # "absent"
    /\ thread[s] \in Working \/ stepRun[s] # "absent" => MayStart(s)
    /\ thread[s] = "finalizing" => results[s] \in {"complete", "failed"}
    /\ thread[s] = "done" =>
         \/ results[s] \in {"complete", "failed"} /\ MayStart(s)
         \/ results[s] = "skipped" /\ (s \in def.conditional \/ DependencyUnsuccessful(s))

\* stepFailed is what decides between a complete run and a failed one.
FailuresAreCounted ==
  /\ \A s \in Steps : outputs[s] = "failed" /\ s \notin def.optional => stepFailed
  /\ pc \in Running \ {"collecting"} => ~stepFailed
  /\ pc \in Running => retErr = "none"
  /\ pc \notin Running /\ retErr = "none" => pending = {} /\ ~stepFailed

\* The row of the run follows the workflow goroutine.
StatusFollows ==
  /\ pc = "starting" => run = "pending"
  /\ pc \in (Running \ {"starting"}) \cup {"cleanup"} => run = "running"
  /\ pc \in {"notifying", "closed"} =>
       \/ run = FinalStatus
       \/ run = "running" /\ lost > 0
       \/ /\ pc = "closed" /\ run \in {"pending", "running"} /\ retErr # "none"
          /\ cancelled \/ lost > 0
          /\ \A s \in Steps : thread[s] = "idle"

\* Group sandboxes are there from provisioning to cleanup and not longer.
SandboxesFollow ==
  /\ pc \in Running => \A g \in Groups : sandboxes[g] \in {"none", "live"}
  /\ pc = "waiting" => \A s \in ready : ~NeedsSandbox(s)
  /\ pc = "starting" => \A g \in Groups : sandboxes[g] = "none"
  /\ pc \in {"notifying", "closed"} => \A g \in Groups : sandboxes[g] # "live"

\* The inbox holds a step_failed item exactly if one was recorded as sent.
InboxFollows ==
  /\ sentStepFailedNotification <=> StepFailedItems # {}
  /\ sentStepFailedNotification => stepFailed
  /\ lost = 0 /\ stepFailed => sentStepFailedNotification
  /\ pc # "closed" => <<"output_ready">> \notin inbox
  /\ pc = "closed" /\ lost = 0 => (<<"output_ready">> \in inbox <=> NotifiesRun)

\* A result that counts agrees with the row of its step.  The results of a
\* batch that was cancelled while it ran need not, and are never collected.
RowsFollow ==
  \A s \in Steps :
    /\ outputs[s] \in {"complete", "failed"} => thread[s] = "done" /\ results[s] = outputs[s]
    /\ outputs[s] = "skipped" => child[s] = "none" /\ stepRun[s] = "absent"
                                /\ thread[s] \in {"idle", "done"}
    /\ lost = 0 /\ child[s] \in {"complete", "failed"} => Shows(s, child[s])
    /\ child[s] = "running" => stepRun[s] \in Unfinished
    /\ thread[s] \in {"acting", "finalizing"} => stepRun[s] \in Unfinished
    /\ lost = 0 /\ thread[s] = "done" /\ (~cancelled \/ pc = "collecting" \/ outputs[s] # "none") =>
         /\ child[s] \in {"none", "complete", "failed"}
         /\ results[s] = "complete" => Shows(s, "complete")
         /\ results[s] = "failed"   => Shows(s, "failed") \/ stepRun[s] = "absent"
    /\ thread[s] = "done" /\ results[s] = "skipped" => stepRun[s] = "absent" /\ child[s] = "none"

IInv ==
  /\ TypeOK /\ PendingIsUndecided /\ BatchIsReady /\ ThreadsBelongToBatch
  /\ WorkIsJustified /\ FailuresAreCounted /\ StatusFollows /\ SandboxesFollow
  /\ InboxFollows /\ RowsFollow

=============================================================================
