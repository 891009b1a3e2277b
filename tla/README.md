# Fleetlift in TLA+

Fleetlift runs workflows of coding agents: a workflow definition is a graph of
steps, a step runs an agent in a sandbox (or a built-in action), people approve,
steer and answer questions on the way, and the result of a transforming step is a
pull request. This directory holds TLA+ models of the program, TLC
configurations that check them on small instances, and proofs, checked by TLAPS,
that the safety properties and refinements those runs check hold for every instance.

Line numbers refer to the files of this repository.

## 1. The system

### Components, their state and their operations

| Component | State it keeps | Operations | Modelled in |
|---|---|---|---|
| DAG engine (`internal/workflow/dag.go`) | locals of `DAGWorkflow`: `pending`, `outputs`, `sandboxes`; rows `runs`, `inbox_items` | mark running, pre-flight, schedule a batch, provision groups, launch, collect, skip, clean up, finish, notify | `WorkflowRun`, `DagWorkflow` |
| Step workflow (`internal/workflow/step.go`) | locals of `StepWorkflow`, its row in `step_runs`, its sandbox, buffered signals | provision, pre-flight, execute, verify, pause, decide, continue after an answer, pull request, clean up, finalize | `StepContract`, `StepWorkflow` |
| Step execution (`internal/activity/execute.go`, `verify.go`) | the attempt; the sandbox | clone, run the agent, read the row, return an output | `StepWorkflow` (attempts, status writes, result), `SandboxLife` (clone), `StepRecords` (log) |
| Fan-out (`dag.go:458-588`, dispatcher `190-215`) | children per repository, resolve channels | start children, join, ask, decide, time out | `FanOut` |
| Human-in-the-loop handlers (`handlers/runs.go`, `handlers/inbox.go`) | none of their own: rows and signals | Approve, Reject, Steer, Cancel, ResolveFanOut, Respond | with the component each one talks to |
| Event stream (`notify/listener.go`, `handlers/runs.go` Stream) | subscribers per run, cursor per client | Subscribe, Unsubscribe, fanOut, streamFlush | `RunStream` |
| Run creation (`handlers/runs.go` Create) | row, workflow | fill in defaults, validate, insert, start | `RunDefinition` |
| Validation (`internal/workflow/validate.go`) | none (pure) | ids, cycles, references, parameters, actions, agents, credentials | `Validation` |
| Templates and conditions (`template/render.go`, `dag.go`) | none (pure) | render, resolve repositories, evaluate a condition | `RunDefinition` |
| Actions (`activity/actions.go`, `slack.go`, `model/action_contract.go`) | what is at GitHub or Slack | eight actions, their configuration, their retries | `ActionContracts`, `RunDefinition` |
| Sandbox (`activity/provision.go`, `sandbox/opensandbox/client.go`) | containers | create, set up in ten stages, kill, expire | `SandboxLife` |
| Profiles and pre-flight (`activity/profiles*.go`, `preflight.go`, `model/agent_profile.go`) | `agent_profiles`; plugins in the sandbox | look up, merge, install, clone evaluation plugins | `SandboxLife` |
| Pull request (`activity/pr.go`) | branch, commit, pull request | checkout, commit, push, create, record | `SandboxLife`; its place in the step in `StepWorkflow` |
| Step records and log (`activity/status.go`, `execute.go`) | `step_runs`, `step_run_logs`, line numbers, buffer | insert rows, number, flush, retry | `StepRecords` |
| MCP endpoints (`handlers/mcp.go`) | rows | request_input; artifacts, learnings and progress are not modelled | `StepWorkflow` (one step), `StepRecords` (several), `DagWorkflow` (its late write) |
| Sessions (`internal/auth/jwt.go`, `handlers/auth.go`) | `refresh_tokens`, cookies | issue, rotate, invalidate | `Sessions` |
| Presets, credentials, knowledge, reports, templates, saved repositories | one table each | CRUD | not modelled: one statement per operation |
| Agent runners | none | run a process, read its output | not modelled: their outcomes are choices of the callers |
| CLI, agent sidecar, web UI | none | clients of the API | not modelled |

### How they interact

* An HTTP handler writes the row of a run and starts `DAGWorkflow` in Temporal.
  The engine starts one child `StepWorkflow` per agent step (several for a
  fan-out) and reads its output; the child reports to the database through
  activities. The engine never reads `step_runs`.
* People act through handlers that read a row, then send a Temporal signal.
  Temporal buffers signals until the workflow receives; nothing ties a signal to
  the state its sender saw.
* The agent in the sandbox calls the MCP endpoints; `request_input` finds a row,
  files the question and then writes `awaiting_input` into that row, three statements
  with no condition on the last, and `ExecuteStep` finds out by reading
  the row when the agent has ended.
* Cancelling a run cancels the context of `DAGWorkflow`; activities and child
  futures return at once, children are asked to cancel and terminated when the
  parent closes.
* Steps of a group work in one container, one after the other or side by side: what
  a step installs, clones or leaves half done is there for the next, and for the
  retry of the step itself.
* The validator judges a definition before the run; the engine, the renderer and
  the actions meet it again later, each with its own idea of what is allowed.
* Every change of a row or log line raises a PostgreSQL notification that one
  listener fans out to the open event streams of the run.

### What is hard

Cancellation at any point between two activity calls; activities that fail after
their last attempt, or succeed although their caller no longer listens; retried
attempts that meet what the attempt before has done, in the database, in the
sandbox or at GitHub; signals buffered over a state change; check-then-act in
handlers; requests of agents whose token names a run and not a step; overlapping
transactions; two places of the code that must agree without being compared; the
collection of a batch, which decides the fate of steps later in the graph; the
lock-free walk over the subscribers. `PROJECT.json` lists each hazard at its line
with the properties that watch it.

### What makes each component correct

* Engine: no step starts before its dependencies allow it; a skip never
  overwrites an outcome; a complete run is complete; the run's row, the outcomes
  and the rows of the steps agree; a person is told once; sandboxes of groups
  outlive their steps and not the run; every run and every cancelled run closes.
* Step: row and returned result agree whichever of the two writers wrote; a waiting
  step can be reached; what is put into a pull request was verified and approved and
  not rejected; nothing is left behind.
* Fan-out: a partial failure is decided by a person's decision for that step, or
  by the timer; a decision that was sent arrives; the inbox and the steps
  tell the same story.
* Stream: the walk stays in bounds, no wake-up is lost, no line is skipped but one that
  another overtook, the stream ends with the run.
* Definition: a cycle is reported exactly when there is one; what was accepted never
  blocks the engine, resolves its references, and has what its actions ask for; an
  action returns what its contract says; what is posted twice was posted after a
  fault, and the numbers a review reports are those of the service.
* Sandbox: no container is forgotten; a sandbox that is handed over is complete;
  the second user of a sandbox finds what it needs and what the first has changed; a pull
  request holds the work.
* Records: a question pauses its step, and what a step waits for can come; an answer
  belongs to the question; a log reads in the order it was written.
* Sessions: a token is exchanged once; the reuse of a token ends every session; a
  session ends only for a reason.

## 2. Modules

| Module | Models | Composition |
|---|---|---|
| `WorkflowRun` | what a run promises: status and outcomes only | abstract specification |
| `DagWorkflow` | `DAGWorkflow` | `Promise == INSTANCE WorkflowRun`, `Step(s) == INSTANCE StepContract` |
| `DagWorkflow_proofs` | theorems about it | EXTENDS `DagWorkflow`, `TLAPS` |
| `StepContract` | how a step's row and outcome may change, as the engine relies on it | abstract specification |
| `StepWorkflow` | `StepWorkflow` with `ExecuteStep`, `request_input` and the handlers | `Contract == INSTANCE StepContract` |
| `StepWorkflow_proofs` | theorems about it | EXTENDS `StepWorkflow`, `TLAPS` |
| `FanOut` | fan-out of steps of one batch, `ResolveFanOut` | |
| `FanOut_proofs` | theorems about it | EXTENDS `FanOut`, `TLAPS` |
| `RunStream` | `Listener`, `Stream`, notify triggers | |
| `RunStream_proofs` | theorems about it | EXTENDS `RunStream`, `TLAPS` |
| `ActionContracts` | contracts of the actions; what the actions ask for and return | operators |
| `Validation` | `ValidateWorkflow` | operators, EXTENDS `ActionContracts` |
| `RunDefinition` | Create, rendering, conditions, actions with retries | EXTENDS `Validation` |
| `RunDefinition_proofs` | theorems about it and about `Validation` | EXTENDS `RunDefinition`, `TLAPS` |
| `SandboxLife` | profile, container, pre-flight, clone, pull request of the steps that share a sandbox | |
| `SandboxLife_proofs` | theorems about it | EXTENDS `SandboxLife`, `TLAPS` |
| `StepRecords` | rows, questions, answers and logs of steps that run side by side | |
| `StepRecords_proofs` | theorems about it | EXTENDS `StepRecords`, `TLAPS` |
| `Sessions` | refresh tokens in overlapping transactions | |
| `Sessions_proofs` | theorems about it | EXTENDS `Sessions`, `TLAPS` |
| `MC...` | definitions and symmetry for TLC | EXTENDS the module |

`StepContract` is the seam between the two big modules. `StepWorkflow`, in full detail,
takes no other steps than it allows (`KeepsContract`); and a child in `DagWorkflow`, which
only has a row and an outcome, is written with it and may take each of its steps that the
parent does not take itself (`ContractIsAllowed`), so that what is shown of the engine is
shown of real children. Both halves are proved, for every definition and bound.
`RunDefinition` is the other view of the engine: `DagWorkflow` leaves open whether a
template renders and a condition holds and has every interleaving of a batch;
`RunDefinition` computes what renders and runs a batch as a whole.

### Conventions

* A workflow goroutine yields only in a call to an activity, a child or a
  channel, so the code between two such calls is one action. `pc` (and `thread`,
  `phase`) says which call it is in; the other variables are named after the
  locals and rows they stand for.
* An activity call has three outcomes: it succeeds; it fails after the last of its
  attempts; or the context is cancelled, in which case the call returns at once
  and its effect may or may not land. Where attempts matter (`SandboxLife`,
  `RunDefinition`, `StepRecords`) each one is modelled, with a fourth outcome: it
  was carried out and its answer is lost. Failing database writes are counted in
  `lost`, faults in `faults`; a property that holds only without them says so.
* Data is what properties tell apart: an output is a status, whether it asks for
  review, and the number of the execution it came from; a signal carries the
  number of the execution its sender could see; a log line is its number and its
  attempt; a template is the functions it calls and the references it makes; a
  configuration value is its kind; a profile is a sequence of keyed entries; a
  token is its place in the order of commits.
* The definition of a mutated operator stands before the operator it mutates; it
  is used by no run and shows, for each property, a plausible mistake that the
  property catches.

## 3. Runs

`DagWorkflow`: `dag` goes through every upward dependency relation on three steps that
leaves none of them alone, and every choice of optional ones, with a condition and an
action, adds definitions
with shared sandboxes and a cycle that validation would reject, with one lost write,
cancellation at any point, children that do whatever `StepContract` allows, and the last
statement of a `request_input` at any time while a row is there. Under fairness it checks
that a run closes as well as all safety properties of the engine and the promise. Steps are
numbered in the order in which `findReady` sorts them.

`StepWorkflow`: `step` has a transform with everything switched on that must be approved, and
a report in a shared sandbox whose agent decides whether it is reviewed (one that does not ask
goes the way of `never`), two executions, two signals, one question whose answer may be given
twice and whose three statements may end after the step did, and one lost write.

`FanOut`: `fanout_decide` (two steps, two repositories, repeated and stray
decisions whose two halves interleave, one lost write, under fairness).

`RunStream`: `stream` (two clients that come and go, two lines that are written side by
side, a failed query, a lost connection, under fairness).

`RunDefinition`: `run_definition` (about 2800 definitions in four families: all
dependency graphs over two ids with malformed, missing and repeated ones and many over
three; a chain whose last step makes one reference in every form, to a step as a
whole included; every action with
every configuration one or two keys away from a good one; parameters, conditions,
repositories, agents and credentials; two lost answers or cut-off attempts).

`SandboxLife`: `sandbox_life` (two steps in one sandbox and one clone, two profile bodies,
one edit, two faults).

`StepRecords`: `step_records` (two steps, two attempts of two lines, two questions, one fault).

`Sessions`: `sessions` (two tabs in one browser and one in another, four tokens, one
lost answer or acknowledgement of a COMMIT; the two tabs are symmetric).

Each `*_doc_*` run takes one sentence of a document or a comment as its property
and shows a behaviour of the code that breaks it; `PROJECT.json` quotes them
under `findings`:

* `step_doc_always`: with `approval_policy: always` a step that asked a question
  goes from its answer to its pull request without an approval (`step.go:345`).
* `fanout_doc_heard`: a fan-out decision that comes too late for one step blocks
  the dispatcher, and the decision for another step never arrives (`dag.go:209`).
* `stream_doc_ends`: with three clients, one that `Unsubscribe` shifted while
  `fanOut` walked the slice is not woken for the final status, and its stream does
  not end (`listener.go:69`).
* `sandbox_doc_pr`: the commit is made, the push fails, and the retry finds a clean
  tree and reports neither a pull request nor an error (`pr.go:52`).

### What the properties leave out on purpose

Some properties have a premise because the code does less than one might expect.
The premise names the exception, and removing it makes TLC find it:

* `DependenciesRespected` says nothing of a step whose optional dependency failed. The
  code skips it (`dag.go:304`); WORKFLOW_REFERENCE.md:40 has dependencies "complete
  successfully" and :51 says that the failure of an optional step "does not block downstream
  steps", so that neither reading is asserted.
* `CompleteRunIsWhole`: a step that is not optional may be skipped in a complete run, after
  an optional dependency failed or when its condition does not hold.
* `RowsAgreeWithOutcomes`: a `request_input` that found a row unfinished writes
  `awaiting_input` into it without looking again (`mcp.go:566`), also when it is complete
  or failed by then; the property knows those rows (`overwritten`). After a cancellation the
  parent closes without waiting, and a child terminated before its deferred write leaves
  its row unfinished. A run cancelled before its first status write returns before the
  deferred write of the final status exists (`dag.go:48`), and its row stays pending or
  running. `KeepsContract` allows the late write too (`LateRequest`).
* `CompletionReleasesEverything`: the deletion of the checkpoint branch fails without a
  credential or when the push fails (`provision.go:312-334`), and its error is dropped
  (`step.go:321`); it is not tried when the branch or the repository is not known. The
  property says that where both are known it was tried, and that sandboxes were killed.
* `AwaitingMeansAsked` (`lost = 0`): when the write of `running` is lost after a
  steer, the old `awaiting_input` is taken for a question (`execute.go:190`).
* `WaitingStepIsReachable` (`lost = 0`): a stored answer whose signal failed never
  reaches the workflow, although `inbox.go:149` speaks of a next poll.
* `UnsteeredApprovalSawTheChanges`: an approval that is late for its pause stays in
  the channel over a steer and approves the next execution unseen (`step.go:393`).
* `QuestionFollowsItsStep`: the handler signals the decision and then marks the questions of
  all steps of the run as answered (`runs.go:575`), although the comment at `runs.go:572`
  speaks of "the inbox item": a decision for one step closes the question of another.
* `StreamEnds` (`drops > 0`, `unread`): the listener skips the notification that tells of a
  lost connection (`listener.go:34`), and a failed query for the status sends the stream back
  to waiting (`runs.go:347`); when the run ended meanwhile nothing wakes it again.
* `CursorSkipsNothing`: the cursor is the largest id read (`runs.go:332`), and ids are
  committed in another order than they are drawn, so a line that one with a larger id
  overtook on its way into the table is never sent; all others are. Nor does the property
  say that a stream that ended sent the last lines: they are read before the
  status (`runs.go:347`).
* `ReferencesResolve` covers the templates the validator reads: prompts and configurations
  whose references are plain fields. Pull request templates, repositories, references
  through variables or `index`, and templates with a function that the parser has no stub
  for (`default`, `validate.go:67`) are not looked into, and fail in the run. A condition
  that calls `toJSON` is accepted and never parsed at run time: the step is skipped without
  a word (`dag.go:838`). A reference to a step as a whole (`.Steps.x`) is skipped by the
  validator, which wants a field after the name (`validate.go:420`): the proof of
  `ReferencesAreThere` failed at it, and `Checked` leaves it out.
* `ContractsMatchActions`: a blank text, a zero or an empty list passes the contract
  and is sent back by the action.
* `DuplicatesNeedAFault`: nothing recognises a comment that is already there.
* `NoContainerIsForgotten` allows one container per fault: the answer to Create, the
  activity's result or the Kill may be lost, and nobody lists containers. A run that is
  cancelled while `ProvisionSandbox` is under way forgets its container as well, and counts
  as a lost result.
* `SandboxIsReady` does not count the git set-up: a failing `command -v git` counts as no git.
* `SandboxReuseIsSafe`: a clone that is there is used as it is (`execute.go:82`), whatever ref
  it is at and whatever is changed in it: after an attempt that failed between clone and
  checkout, and wherever an earlier step of the group has cloned the repository. What that step
  changed is there, unless the question for `.git/HEAD` failed, whose error is dropped
  (`execute.go:85`): then the clone is removed with the work in it, and that counts as
  a fault. A failing command of the pre-flight script does not stop it, the script has no
  `set -e`. With steps side by side (`Parallel`) one finds the other's evaluation plugin and
  clone. Agents are taken to add to a clone, not to discard what others changed in it.
* `PullRequestHoldsTheWork`: `git add -A` commits everything that is changed, and the branch
  holds every commit of the clone, so a pull request may also hold the work of an earlier
  step, one that failed included.
* `QuestionPausesItsStep`: with several agents at work a question goes to the newest
  unfinished row, whose step pauses while the one that asked does not; so the property speaks
  of an agent that is told to pause while it is the only one. The row of a continuation stays
  running for ever, so that a step that once asked counts as at work. An answer whose signal
  was lost never comes.
* `AnswerFitsTheQuestion` (`faults = 0`): an attempt that asked and is retried may ask
  again, and is handed the answer to its first question (`step.go:234`).
* `LogIsSpliced` says nothing of lines that are missing: a retry numbers from 0 again
  and loses its banner and as many lines as there were before (`status.go:263`).
* `SessionEndsForAReason`: two tabs that refresh at once with one cookie, one lost
  answer, or a COMMIT that takes effect and returns an error all the same (`jwt.go:140`: 500,
  and the browser keeps a token that is used) make the next refresh a reuse, which ends every
  session of the user. `ReuseEndsSessions` covers the tokens of the moment the reuse is
  seen: a token that a rotation inserts while the DELETE runs is in no snapshot and survives,
  although `jwt.go:80` says that all are revoked.

### Bounds, and why they are enough

* Steps: three. Batches interact through one earlier batch (outcomes)
  and one later one (skips); three steps have both, with a join of
  two branches, and `dag` leaves out no acyclic shape on them but those with a step that
  depends on nothing and that nothing depends on. The proofs remove the bound.
* `MaxLostWrites` 1: one lost write is the single fault; two would hide the
  effect of the first in most properties (they say `lost = 0`).
* `MaxExecutions` 2: one steer reaches every pc again with old signals and old row
  in place. `MaxSignals` 2: an approval that is late needs one other signal
  to be late for.
* `MaxQuestions` 1: a step asks once before its continuation.
* `MaxResolves` 2: one decision can be in front of the one that matters.
* Clients 2, and 3 where a client is missed: a client must be shifted over the
  index visited while another is behind it.
* Definitions: an error of the cycle check shows in a graph of three nodes, an error
  about upstream in a chain of three; configurations differ from a good one
  in one key because fields are checked one by one.
* `MaxFaults` 2 in `RunDefinition` and `SandboxLife`: a fault in each of the two attempts of
  an action, and one in the set-up with one in the clean-up. 1 in `StepRecords`.
* Tokens 4: a token, its successor, one more login and one more rotation;
  three requests are a reuse, an invalidation and a rotation that crosses it.
* `AnswersOverlap` and `Repeats` switch a behaviour of people on, so that the runs without
  it show what it takes to break a property.

### Fairness

Weak fairness of the workflow goroutines and of the activities they call: Temporal
schedules whatever can run, and an activity has a timeout. Of the second
half of `ResolveFanOut` and of signal delivery: the server finishes the requests it began.
Nothing is asked of the statements of `request_input`, which may never come.
Never of a person: not of an approval, an answer, a decision or a cancellation;
liveness properties have "waits for a person" as their alternative. Never of the
48 hour timer. `ChildAnswered` and `ChildWorks` are left out of the fairness of
`DagWorkflow` for the same reason: only `ChildEnds` is guaranteed.

`CHECK_DEADLOCK FALSE` is set in the runs of `DagWorkflow`, `StepWorkflow`, `FanOut` and
`RunStream`: a closed run, a closed step and a stream whose clients have gone stop, and so
does one whose bounds are used up. `RunDefinition`, `SandboxLife` and `StepRecords` have a
`Rest` step in the states where the program is at its end, and `Sessions` never stops, so
TLC checks there that nothing is stuck anywhere else.

## 4. Proofs

### The engine

`DagWorkflow_proofs` proves, for every set of steps, groups and definitions and
every bound, from `StepsAssumption`, `FiniteAssumption` and
`DefinitionsAssumption`:

| Theorem | States |
|---|---|
| `TypeCorrect` | `Spec => []TypeOK` |
| `NoStepStartsEarly` | dependencies are respected |
| `CompleteMeansWhole` | a complete run is whole |
| `SkipSparesTheBatch` | a skip never touches the batch being collected |
| `ClosedMeansTerminal` | a closed run's row is terminal, with the one exception |
| `SandboxesLastAndLeave` | group sandboxes outlive their steps, none is left |
| `NotifiedExactlyOnce` | a person is told once |
| `OutcomesMatchRows` | outcomes agree with rows, lost writes and late requests excepted |
| `OutcomesStay` | `[][...]_vars`: outcomes are final |
| `RunKeepsPromise` | `DagWorkflow` implements `WorkflowRun` |
| `ContractIsAllowed` | a child may take every step of `StepContract` that is its own |

The argument. None of these invariants is inductive: that a step which has started
was allowed to start depends on the batch having been ready when it was launched,
that a complete run is whole depends on how `stepErrors` was counted in batches
long collected, and the agreement of rows depends on which goroutine may still
write. `IInv` (end of `DagWorkflow`) makes this memory explicit in ten parts, one
idea each: pending and decided are complements; the batch is ready and its
uncollected part is its pending part; goroutines run only for the batch; work
done was justified; failures are counted; the run's row, the sandboxes and the
inbox follow the control; rows follow the outcomes. The proof that every step
keeps it is split into the engine's actions, a goroutine's, a child's and a
cancellation. The difficult action is `CollectResult`, which decides many steps at
once: the lemmas about `Downstream` say that it is contained in every set closed
under "depends on" (`DownstreamIsLeast`), that each skipped step depends on the
failed one or on a skipped one (`DownstreamHasReason`), and that no step whose
dependencies are decided is skipped (`DownstreamSparesReady`), which is what
protects the rest of the batch. `skipDownstream` is recursive in the code; here it
is the least closed set, which states the same set without recursion.

Refinement: initial states map to initial states (`PromiseInit`), every step maps
to a step of `WorkflowRun` or a stutter (`PromiseStep`), where `CollectResult` is
its `Settle` and `FinishRun` is one of the two `Finish` actions.

The seam: `ContractIsAllowed` takes any state of the invariant and any step that changes the
row, the outcome and the count of lost writes of one child as one of the actions of
`StepContract` that a step takes by itself, and shows that the child, or the request of its
agent, has that step in `DagWorkflow` too, as long as no more writes are lost than the bound.
The other actions of the contract (`Cancel`, `Terminate`) are the parent's.

### The step

`StepWorkflow_proofs` proves, for every step definition and every number of
executions, signals, questions and lost writes, from `StepDefsAssumption` and
`BoundsAssumption`:

| Theorem | States |
|---|---|
| `StepKeepsContract` | `Spec => KeepsContract`: `StepWorkflow` implements `StepContract` |
| `ReviewedOnly` | what a pull request holds was reviewed; a rejection is final |
| `WaitingIsReachable` | whatever a step waits for, a person can still give |
| `WaitingMeansAsked` | it waits for an answer only if its agent asked |
| `CompletionLeavesNothing` | a completed step has killed its sandboxes, and tried to delete its branch if it was resumed |
| `ApprovalsSaw` | without a steer or a question, an approval is by somebody who could see what it lets through |
| `TypesHold` | `Spec => []TypeOK` |

For the refinement, `ContractInv` says that the row is final only once the workflow has
closed (`RowFollowsControl`), that past an execution there is an output which is complete or
failed (`OutputIsFinal`), so that the last write is one the contract allows, and that an
attempt outlives its call only after a cancellation (`StragglersAreCancelled`), so that a
late write of `running` is the contract's `Straggle`. The last statement of a
`request_input` has no condition, in the contract (`LateRequest`) as in the code. The other
three invariants look back over several pauses and executions: `ReviewInv` says that what
waits for its pull request is the newest output and the one that the verifiers and the
person accepted; `WaitInv`, that while no write is lost the row awaits input for a reason,
and that an answered question has its answer in the item, under way or in the channel;
`ReleaseInv`, what is left to kill, and to try to delete, at each place. `SignalsTyped` and
`ContinuationHasAnswer` make an answer a thing that cannot be had without a question.
`ApprovalsSaw` needs to know what a signal may carry while it waits in a channel or is on
its way: before any question, an execution that its sender could look at (`Carried`,
`SignalsFit`), because only a pause showed the row as awaiting input (`SeenInv`). The proofs
go by groups of actions that change the same variables.

### The fan-out

`FanOut_proofs` proves, for every set of steps and repositories and every number of
decisions and lost writes, from `BoundsAssumption` and `StepsAssumption`:

| Theorem | States |
|---|---|
| `PeopleDecide` | a partial failure is decided by a person's choice for that step, or the timer |
| `QuestionsFollowSteps` | a question is open while its step waits, closed when it ends, and its answer is what the step did |

What a step receives went through one channel for all steps and the dispatcher, so
`IInv` carries the choice along: whatever is in the channel, in the dispatcher's hands
or still to be marked was chosen by a person (`SignalsWereChosen`). `PhasesFollowChildren`
fixes the children once a step has left its fan-out, so that a failure stays partial while
people decide; `ItemsHaveACause` gives every missing item a lost write and every answered
one the call that closed it (`closedBy`), and says that an open question for which somebody
has decided has a call that will still mark it. A decision is signalled before it is
marked, so that the answer in an item (that of a call for this step) and what the step did
come by two ways from the same person; they agree unless people sent both choices.

### The sessions

`Sessions_proofs` proves, for every set of browsers and tabs and every number of
tokens and lost answers, from `SessionsAssumption` (each tab has a browser, the
bounds are numbers):

| Theorem | States |
|---|---|
| `TypesAndLocks` | `Spec => []TypeOK`: types, and no answered request holds a lock |
| `ExchangedOnce` | a refresh token has at most one successor |
| `ReuseIsFinal` | when a reuse is answered, all tokens it saw are deleted |
| `SessionsEndForAReason` | without a lost answer or an overlap, a session goes on |

That a token is exchanged once is not inductive: the request that rotates read the
row in an earlier step, and another may have changed it since. What rules this out
is the lock that `SELECT ... FOR UPDATE` took, so `IInv` says what the lock
buys: a row is locked by one transaction at most (`LocksAreExclusive`), a rotation
that was decided on holds its row, which is still fresh (`RotationIsCurrent`), and a
token with a successor is no longer fresh (`SuccessorsFollowUse`). For
`ReuseIsFinal` it says of each row that an invalidation saw that it is deleted,
or locked by it, or among those it has yet to lock (`DeletionCovers`); it commits when
none is left of the last kind. `TokensAreKnown` says that whatever is in flight is
about committed tokens. Each action has one lemma that says what it does to the table and
the requests (`RotateFacts`, `DeleteRowFacts`, ...), and each part of `IInv` one
lemma that it is kept, which uses those.

That sessions go on is a statement about where tokens are. While every answer arrives, that
of the server and that of the database to its COMMIT (`lost` counts both), and no two tabs
send one token at once (`Undisturbed`), a token is the cookie of one browser with at most
one request of that browser that has sent it (`SentInTurn`), or in the one answer it was
issued to (`IssuedOnce`); a token that is not fresh can then only be a cookie whose
successor is on its way (`SuccessorArrives`), and nothing is ever deleted. A login during a
refresh, failed rotations and the other browsers do not disturb this.

### The event stream

`RunStream_proofs` proves, for every set of clients and every number of lines, lost
connections and failed queries, from `BoundsAssumption`:

| Theorem | States |
|---|---|
| `WalkStaysInBounds` | `Spec => []TypeOK`: the slice names each attached client once, and `fanOut` stays in its array |
| `CursorPassesNoLine` | `Spec => []CursorSkipsNothing`: only overtaken lines are skipped |

`fanOut` walks without the lock, so that the index it visits next is in bounds says
nothing of the one after. `IInv` adds that the length it copied fits the array it
walks (`WalkFitsTheArray`): `Unsubscribe` shifts within the array and never makes it
shorter, and `Subscribe` either writes behind the copied length or leaves the old array to
the walk. That the slice still names each client once after a shift is the longest
part: `was(j)` says from which place a client comes, and it is one-to-one and reaches
every place but the one that is freed. `NotificationsHaveACause` bounds the
notifications by what was written. The cursor needs `LinesComeInOrder`: with one
writer an uncommitted line comes after all that are in the table, so that the
largest id a client has read has no hole before it.

### The definition

`RunDefinition_proofs` proves, for every set of definitions, requests, stored
credentials and comments and every bound on faults, from `DefinitionsAssumption` (the
steps of a definition are a list, and a step has an execution and an action or has
not) and `AnnotationsFinite`:

| Theorem | States |
|---|---|
| `CyclesAreFound` | the validator reports a cycle exactly when there is one |
| `RunsNeverBlock` | a run of an accepted definition never has pending steps and none ready |
| `ReferencesAreThere` | a reference the validator looked at is there when it is rendered |
| `ContractsAreKept` | an action returns what its contract says, and accepts what the contract accepts |
| `DuplicatesAreCovered` | each copy too many of a comment is covered by a fault |
| `ReviewsAreCounted` | a review counts each comment once and reports those that are there |
| `InvariantHolds` | `Spec => []IInv` |

Two of the operators are recursive functions over numbers: `Processed`, the rounds of
Kahn's algorithm, and `UpstreamOf`, the steps before a step. Such a function is
a `CHOOSE`, so the proof first shows that one exists (`SetRecursion`), by induction from
the well-foundedness of the numbers (`LeastNumber`). For `CyclesAreFound`,
a walk that returns is never removed, since each of its nodes keeps an edge from the one before
(`WalksStay`); and when nodes are left over, each has an edge from a left-over
node, so that going back from one as many times as there are nodes must meet a node twice
(`ComesBack`, `LeftoversCycle`). For `RunsNeverBlock`, what is pending in an
accepted graph is a set of nodes without a cycle, so one of them has no pending
dependency (`OneIsReady`).

`IInv` keeps what happened in batches long collected. `RunsAccepted`: what runs
was accepted, with these parameters. `StepsAccounted` and `BatchIsPending`: a step is pending
or has an outcome, and what has an outcome has those of its dependencies, hence of all steps
upstream (`UpstreamDone`). `CopiesCovered`: the copies of a step that is still executing
are all of failed attempts, each covered by a fault; one that is done has one more.
`OutcomesFit` says of every outcome, collected or not, what it returned, what it was
refused for, what its review reports and which template it was missing a step in; the
reports are about what is at the service, and must survive what the other steps of the
batch do there (`ReportsStays`). The attempt of an inline review, which sends the whole
and then comments one by one until it is cut off, is counted in `AttemptCovers`.

### The sandbox

`SandboxLife_proofs` proves, for every order of steps, every set of profile bodies and
every number of faults and edits:

| Theorem | States |
|---|---|
| `ContainersAreKilled` | containers nobody holds are no more than the faults |
| `SandboxesAreReady` | a sandbox that is handed over has been through its stages |
| `ReuseIsSafe` | `~Parallel`: an agent finds a clean clone at its ref, or one that an earlier attempt or step has made, with what earlier steps changed, its plugin, and the last version its profile lists |
| `WorkIsNotLost` | a reported pull request is there and holds the step's work; no work is dropped without an error |
| `TypesHold`, `InvariantHolds` | `Spec => []TypeOK`, `Spec => []IInv` |

The assumptions: `BodiesAssumption`, that bodies are sequences of entries with a version,
that the keys of plugins, MCPs and skills differ, and that no body names one plugin
twice under different spellings (`BodiesAssumption` says where this abstracts from the code);
`OrderAssumption` and `BoundsAssumption`, that the steps are a sequence and the bounds numbers.

The clones belong to the sandbox: `tree` has one for each repository, with the step that made
it, the steps whose changes are uncommitted in it and those whose changes it has committed.
In `IInv`, `StagesInOrder` says that `has` is what the stages before the current one leave,
in each attempt anew; `HoldersHold`, who may have a container; `WorkInOrder`, in two parts,
who made the clone a step finds and that what an agent changed is still in it
(`CloneInOrder`), and how far a pull request has come at the command the step is at, over its
attempts (`InOrder`). A step keeps the part of another because clones only grow, except where
the question for `.git/HEAD` failed, which is a fault. `ReuseIsSafe` is
about data: what a script leaves installed is the last version that the merged
profile lists for a key (`LastVersion`), for all bodies. `MergeProfiles` and the choice
of what a script installs (`OfKind`) are folds over the entries; the lemmas about them go by
induction over the positions of a sequence, and say that the last version of a key after
a merge is the named profile's, or else the baseline's (`MergedLast`), and that choosing by
kind keeps it (`ScriptedLast`). That
the evaluation plugin is the step's own, and that only steps before it can have touched its
clone, needs `StepsTakeTurns`.

### The records

`StepRecords_proofs` proves, for every set of steps and every bound on lines, questions
and faults, without an assumption on the constants:

| Theorem | States |
|---|---|
| `QuestionsPause` | a step told to pause does not end unasked, and what a step waits for can come |
| `AnswersFit` | an answer belongs to the step and, without faults and strangers, to the question |
| `LogsAreSpliced` | a retry's lines continue those before, unless an insert failed |
| `InvariantHolds` | `Spec => []IInv` |

`IInv` has three parts, each shown inductive with the help of those before it. `Shared` is
what ties the tables together: `RowsBelong` says which row a step works on,
`AwaitingWasAsked` that a row waits only since a question about it was filed, `AnswersBelong`
follows an answer from the item over the queue to a continuation, and `AskedOnce` adds,
while nothing has failed, that the agent of a step has asked once in its own name.
`ToldSteps` is about a request of several statements, between which other steps may begin,
ask and end: what an agent found while it was the only one at work is the newest
row of its own step, or that row waits already, so that the step it is told will pause cannot
end before it was resumed (`PausesWhenTold`). `WaitingWasAsked` says that a step that waits
knows a question about its row, and that the answers given to it are in its queue unless
their signal was lost.
For the log, `Insert` is a fold over the lines of a buffer with `ON CONFLICT DO
NOTHING`; by induction over the buffer it appends exactly the part that goes beyond the
log, provided the buffer begins at or before its end, which is `LogsContinue`.

### What is only model-checked

Every safety property, action property and refinement that a passing run checks is
stated by a theorem. What stays with TLC is liveness (`RunCloses`, `StepCloses`,
`DecisionIsHeardUnlessStuck`, `StreamEnds`), and anything else that needs `ENABLED`, which
the prover cannot reason about. The `*_doc_*` runs are counterexamples, which TLC exhibits.
The prover cannot instantiate the library's induction theorems, which take an operator;
induction is done with sets of numbers (`Induction`, `InductionOnNat`) and only for
functions on numbers and folds over sequences. Modules with theorems use no
`RECURSIVE` operator. The assumptions on constants are evaluated by TLC in the passing
runs.

## 5. Not modelled, and why

Contents of prompts, outputs and diffs and the schema check of outputs; CRUD
handlers of one statement (credentials, knowledge, presets, saved repositories,
reports, templates); the protocol of the sandbox's command stream
(`client.go`: a stream that ends without `execution_complete` counts as success) and
the parsing of agent output; the login exchange with GitHub, roles and middleware; several
steps paused for approval at once (`signalRun` takes the newest); the start-up of
server and worker; the mechanics of Temporal (replay, heartbeats), which appear as
retried attempts; user interfaces and the command line, `init_local` with its
docker calls included.

## 6. Plan

In this order:

1. A lemma that ties `Below` of `RunDefinition` to `Downstream` of `DagWorkflow`, which are
   the same set said twice.
2. Several steps paused for approval at once, with `signalRun`, next to `StepRecords`.
3. A composed module of the engine with two full `StepWorkflow` instances, if it
   stays within TLC's reach; until then `StepContract` is the seam.
