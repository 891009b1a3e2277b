--------------------------- MODULE RunDefinition ---------------------------
(***************************************************************************)
(* A definition on its way through the program: RunsHandler.Create fills   *)
(* in defaults, validates and starts it (handlers/runs.go); the engine     *)
(* renders its templates against the outputs so far, evaluates conditions  *)
(* and skips (workflow/dag.go, template/render.go); action steps call      *)
(* GitHub or Slack, with a second attempt (activity/actions.go).           *)
(*                                                                         *)
(* What is fixed in DagWorkflow by a nondeterministic choice (does this    *)
(* template render? does this condition hold?) is computed here from the   *)
(* definition; the interleaving inside a batch, the rows and the sandboxes *)
(* are DagWorkflow's.                                                      *)
(***************************************************************************)
EXTENDS Validation, FiniteSetsExt

CONSTANTS Definitions,   \* the definitions a team may have saved
          Requests,      \* the parameters a request may carry (name -> kind)
          Stored,        \* names of the team's credentials
          Annotations,   \* the comments of an inline review
          SlackToken,    \* is SLACK_BOT_TOKEN set on the worker?
          MaxFaults      \* bound: answers lost or attempts cut off, per step

ASSUME AnnotationsFinite == IsFiniteSet(Annotations)

\* The steps of a definition are a list, and each may have an execution and an
\* action.
ASSUME DefinitionsAssumption ==
  \A d \in Definitions :
    /\ d.steps \in Seq({d.steps[i] : i \in DOMAIN d.steps})
    /\ \A i \in DOMAIN d.steps : {d.steps[i].execution.on, d.steps[i].action.on} \subseteq BOOLEAN

VARIABLES def,        \* the stored definition
          params,     \* the parameters of the run
          phase,      \* of the run, with its row
          pending,    \* ids of steps without an outcome
          outputs,    \* the engine's outputs map, id -> StepOutput
          results,    \* the current batch's results
          active,     \* the batch's steps that are executing -> attempts begun
          landed,     \* (step, annotation) -> copies at the service
          faults      \* step -> answers lost and attempts cut off

vars == <<def, params, phase, pending, outputs, results, active, landed, faults>>

MaxAttempts == 2

\* A StepOutput: its status, the keys of Output, why it failed or was skipped,
\* and what an inline review reports.
Out(status, keys, why) == [status |-> status, keys |-> keys, why |-> why, posted |-> 0, skipped |-> 0]
Failed(why)  == Out("failed", {}, why)
Skipped(why) == Out("skipped", {}, why)

Step(id) == StepOf(def, id)

\* New entries of a map.
With(f, new) == [x \in DOMAIN f \cup DOMAIN new |-> IF x \in DOMAIN f THEN f[x] ELSE new[x]]

-----------------------------------------------------------------------------
(* Rendering.                                                              *)

\* The functions RenderPrompt registers.
RenderFuncs == StubFuncs \cup {"default"}

OutputFields == {"StepID", "Status", "Output", "Diff", "PRUrl", "BranchName", "Outputs", "Error", "CostUSD"}

\* Why evaluating a reference fails, with missingkey=error.  `index' of a
\* missing parameter is nil; of a missing step a nil pointer, without fields.
RefFailure(r) ==
  IF r.root = "Params"
  THEN IF r.name \in DOMAIN params \/ r.form = "index" THEN "none" ELSE "no parameter"
  ELSE IF r.root # "Steps" THEN "no root"
  ELSE IF r.name \notin DOMAIN outputs THEN "no step"
  ELSE IF r.field \notin OutputFields \cup {""} THEN "no field"
  ELSE IF r.field = "Output" /\ r.key # "" /\ r.key \notin outputs[r.name].keys THEN "no output"
  ELSE "none"

\* RenderPrompt: the reasons it fails for, none when it renders.
RenderFailures(t) ==
  IF ~(t.funcs \subseteq RenderFuncs) THEN {"parse"}
  ELSE {RefFailure(r) : r \in t.refs} \ {"none"}

\* resolveRepos: what was rendered has to be JSON.
RepositoryFailures(t) ==
  IF RenderFailures(t) # {} THEN RenderFailures(t)
  ELSE IF \E r \in t.refs : /\ r.root = "Params" /\ r.place # "control" /\ ~r.toJSON
                            /\ r.name \in DOMAIN params /\ params[r.name] \in {"object", "list"}
       THEN {"not JSON"} ELSE {}

\* resolveStep and the rendering of eval_plugins, which neither look at the
\* condition nor at the configuration of an action.
ResolveFailures(step) ==
  (IF step.execution.on THEN RenderFailures(step.execution.prompt)
                               \cup RepositoryFailures(step.repositories)
                        ELSE {})
    \cup RenderFailures(step.pullRequest)

\* The rendering of an action's configuration.
ConfigFailures(step) ==
  UNION {RenderFailures(step.action.config[k].tmpl) :
           k \in {k \in DOMAIN step.action.config : step.action.config[k].kind = "template"}}

Rendered(step) ==
  [k \in DOMAIN step.action.config |->
     IF step.action.config[k].kind = "template" THEN step.action.config[k].tmpl.renders
     ELSE step.action.config[k].kind]

\* evalCondition: roots in lower case, no functions of the program's own, a
\* missing key is no value, and only the text `true' lets the step run.
ConditionValue(r) ==
  CASE r.root = "params" /\ r.name \in DOMAIN params -> "given"
    [] r.root = "steps" /\ r.field = "status" /\ r.name \in DOMAIN outputs -> outputs[r.name].status
    [] OTHER -> "no value"

Holds(c) ==
  \/ c.op = "none"
  \/ /\ c.funcs \subseteq GoFuncs
     /\ \/ c.op = "eq" /\ \A r \in c.refs : ConditionValue(r) = c.value
        \/ c.op = "ne" /\ \A r \in c.refs : ConditionValue(r) # c.value

-----------------------------------------------------------------------------
(* Create.                                                                 *)

\* An explicit null in the request is a value: only absence is filled in.
WithDefaults(d, given) ==
  LET filled == {p \in DOMAIN d.parameters \ DOMAIN given : d.parameters[p].default # "none"}
  IN [p \in DOMAIN given \cup filled |-> IF p \in DOMAIN given THEN given[p] ELSE d.parameters[p].default]

Init ==
  /\ def \in Definitions /\ params = <<>> /\ phase = "new"
  /\ pending = {} /\ outputs = <<>> /\ results = <<>> /\ active = <<>>
  /\ landed = <<>> /\ faults = <<>>

\* The row is inserted with status pending; the start may fail afterwards.
Create ==
  /\ phase = "new"
  /\ \E given \in Requests :
       LET full == WithDefaults(def, given) IN
       /\ params' = full
       /\ IF ValidateWorkflow(def, full) # {}
          THEN phase' = "rejected" /\ UNCHANGED pending
          ELSE /\ phase' \in {"pending", "running"}
               /\ pending' = Ids(def)
  /\ UNCHANGED <<def, outputs, results, active, landed, faults>>

-----------------------------------------------------------------------------
(* The engine.                                                             *)

Ready == {s \in pending : Step(s).dependsOn \subseteq DOMAIN outputs}

Unsuccessful(s) == outputs[s].status \in {"failed", "skipped"}

\* The steps of a batch whose result is known before anything is executed.
Immediate(s) ==
  LET step == Step(s) IN
  CASE ~step.optional /\ (\E d \in step.dependsOn : Unsuccessful(d)) -> Skipped({"dependency"})
    [] OTHER ->
       IF ResolveFailures(step) # {} THEN Failed(ResolveFailures(step))
       ELSE IF ~Holds(step.condition) THEN Skipped({"condition"})
       ELSE IF step.action.on /\ ConfigFailures(step) # {} THEN Failed(ConfigFailures(step))
       ELSE Out("running", {}, {})

StartBatch ==
  /\ phase = "running" /\ pending # {} /\ DOMAIN results = {} /\ DOMAIN active = {}
  /\ IF Ready = {}
     THEN phase' = "blocked" /\ UNCHANGED <<results, active, landed, faults>>
     ELSE LET run == {s \in Ready : Immediate(s).status = "running"} IN
          /\ results' = [s \in Ready \ run |-> Immediate(s)]
          /\ active' = [s \in run |-> 0]
          /\ landed' = With(landed, [x \in run \X Annotations |-> 0])
          /\ faults' = With(faults, [s \in run |-> 0])
          /\ UNCHANGED phase
  /\ UNCHANGED <<def, params, pending, outputs>>

Finish(s, out) ==
  /\ results' = With(results, [x \in {s} |-> out])
  /\ active' = [x \in DOMAIN active \ {s} |-> active[x]]

\* The child workflow of an agent step: nothing makes an agent's output match
\* the schema it was shown.
RunAgent(s) ==
  /\ s \in DOMAIN active /\ Step(s).execution.on
  /\ \/ \E keys \in {{}, Step(s).execution.schema} : Finish(s, Out("complete", keys, {}))
     \/ Finish(s, Failed({"agent"}))
  /\ UNCHANGED <<def, params, phase, pending, outputs, landed, faults>>

\* Collect: a failed mandatory step takes the pending steps below it with it.
Below(failed) ==
  LET reached[n \in Nat] ==
        IF n = 0 THEN {s \in pending : Step(s).dependsOn \cap failed # {}}
        ELSE reached[n - 1] \cup {s \in pending : Step(s).dependsOn \cap reached[n - 1] # {}}
  IN reached[Cardinality(pending)]

Collect ==
  /\ phase = "running" /\ DOMAIN results # {} /\ DOMAIN active = {}
  /\ LET broken == {s \in DOMAIN results : results[s].status = "failed" /\ ~Step(s).optional}
         below  == Below(broken) \ DOMAIN results
     IN /\ outputs' = With(With(outputs, results), [s \in below |-> Skipped({"dependency"})])
        /\ pending' = pending \ (DOMAIN results \cup below)
        /\ phase' = IF broken # {} THEN "failed" ELSE IF pending' = {} THEN "complete" ELSE "running"
  /\ results' = <<>>
  /\ UNCHANGED <<def, params, active, landed, faults>>

-----------------------------------------------------------------------------
(* ExecuteAction.                                                          *)

Token(step) == "GITHUB_TOKEN" \in step.action.credentials

\* Credentials, configuration and token are looked at before any call.
Refuses(step) ==
  \/ ~(step.action.credentials \subseteq Stored)
  \/ ~ConfigUsable(step.action.type, Rendered(step))
  \/ NeedsToken(step.action.type) /\ ~Token(step)

\* A failed attempt is tried once more.
Again(s, why) ==
  IF active[s] + 1 < MaxAttempts
  THEN active' = [active EXCEPT ![s] = @ + 1] /\ UNCHANGED results
  ELSE Finish(s, Failed(why))

Refuse(s) ==
  /\ s \in DOMAIN active /\ Step(s).action.on /\ Refuses(Step(s))
  /\ Again(s, {"refused"})
  /\ UNCHANGED <<def, params, phase, pending, outputs, landed, faults>>

\* Does this action put anything up at the service at all?
Silent(step) ==
  \/ ~Posts(step.action.type)
  \/ step.action.type = "slack_notify" /\ ~SlackToken
  \/ step.action.type = "github_pr_review"
       /\ ~Given(Rendered(step), "summary", {"text", "number"})

Add(s, copies) ==
  landed' = [x \in DOMAIN landed |-> IF x[1] = s THEN landed[x] + copies[x[2]] ELSE landed[x]]

Nothing == [a \in Annotations |-> 0]
One == LET it == CHOOSE a \in Annotations : TRUE IN [Nothing EXCEPT ![it] = 1]

Success(step) == Out("complete", Result(step.action.type, Silent(step)), {})

\* An action of one call: it is answered, refused, or carried out unanswered
\* (the connection breaks, or the worker dies before it reports).
CallOnce(s) ==
  /\ s \in DOMAIN active /\ Step(s).action.on /\ ~Refuses(Step(s))
  /\ Step(s).action.type # "github_pr_review_inline"
  /\ LET posts == IF Silent(Step(s)) THEN Nothing ELSE One IN
     \/ Add(s, posts) /\ Finish(s, Success(Step(s))) /\ UNCHANGED faults
     \/ Again(s, {"service"}) /\ UNCHANGED <<landed, faults>>
     \/ /\ faults[s] < MaxFaults
        /\ faults' = [faults EXCEPT ![s] = @ + 1]
        /\ Add(s, posts) /\ Again(s, {"service"})
  /\ UNCHANGED <<def, params, phase, pending, outputs>>

Answers == {"accepted", "rejected", "lost"}
Reached(answer) == IF answer = "rejected" THEN 0 ELSE 1

\* Mutant of AttemptFails: one rejected comment fails the attempt.
AttemptFailsOnAny(cutOff, accepted) == cutOff \/ accepted # Annotations

\* An attempt at an inline review that fell back to single comments fails when
\* it is cut off or none of them was accepted.
AttemptFails(cutOff, accepted) == cutOff \/ accepted = {}

\* Mutant of ReportedPosted: every comment that was sent is reported.
ReportedSent(tried, accepted) == Cardinality(tried)

\* The comments reported as posted are those that were accepted.
ReportedPosted(tried, accepted) == Cardinality(accepted)

\* actionGitHubPRReviewInline: one review with every comment, and when that is
\* not accepted one review per comment; only when each of these fails does the
\* attempt fail.  The attempt may be cut off after the calls in `until'.
InlineReview(s) ==
  /\ s \in DOMAIN active /\ Step(s).action.on /\ ~Refuses(Step(s))
  /\ Step(s).action.type = "github_pr_review_inline"
  /\ \E whole \in Answers, single \in [Annotations -> Answers], until \in SUBSET Annotations :
       LET tried    == IF whole = "accepted" THEN {} ELSE until
           cutOff   == whole # "accepted" /\ until # Annotations
           accepted == {a \in tried : single[a] = "accepted"}
           lost     == (IF whole = "lost" THEN 1 ELSE 0)
                         + Cardinality({a \in tried : single[a] = "lost"})
                         + (IF cutOff THEN 1 ELSE 0)
           report(n) == [Success(Step(s)) EXCEPT !.posted = n,
                                                 !.skipped = Cardinality(Annotations) - n]
       IN /\ faults[s] + lost <= MaxFaults
          /\ faults' = [faults EXCEPT ![s] = @ + lost]
          /\ Add(s, [a \in Annotations |-> Reached(whole)
                                           + (IF a \in tried THEN Reached(single[a]) ELSE 0)])
          /\ IF whole = "accepted" THEN Finish(s, report(Cardinality(Annotations)))
             ELSE IF AttemptFails(cutOff, accepted) THEN Again(s, {"service"})
             ELSE Finish(s, report(ReportedPosted(tried, accepted)))
  /\ UNCHANGED <<def, params, phase, pending, outputs>>

-----------------------------------------------------------------------------
Execute == \E s \in DOMAIN active : RunAgent(s) \/ Refuse(s) \/ CallOnce(s) \/ InlineReview(s)

\* A rejected request, a run whose workflow did not start, and a run that has
\* ended stay as they are.
Rest == phase \notin {"new", "running"} /\ UNCHANGED vars

Next == Create \/ StartBatch \/ Execute \/ Collect \/ Rest

Spec == Init /\ [][Next]_vars

-----------------------------------------------------------------------------
(* Properties.                                                             *)

\* Kahn's algorithm reports a cycle exactly when a step can reach itself over
\* depends_on edges between steps, whatever ids are unknown, malformed or
\* repeated (validateStructure).
CycleErrorIsExact ==
  LET edge == {e \in ValidIds(def) \X ValidIds(def) : e[1] \in Into(def, e[2])}
      cyclic == \E walk \in UNION {[1..n -> ValidIds(def)] : n \in 1..Cardinality(ValidIds(def))} :
                   \A i \in DOMAIN walk : <<walk[i], walk[(i % Len(walk)) + 1]>> \in edge
  IN CycleErrors(def) # {} <=> cyclic

\* A definition that was accepted never blocks the engine: the validator and
\* findReady agree on what can run (`DAG deadlock' in DAGWorkflow).
AcceptedRunsNeverBlock == phase # "blocked"

\* The templates of a step that the validator looks at and can read, without
\* references to a step as a whole (.Steps.x), which it skips.
Checked(step) ==
  {t \in Templates(step) :
     Parses(t) /\ \A r \in t.refs : r.form = "field" /\ (r.root = "Steps" => r.field # "")}
Unchecked(step) == {step.pullRequest, step.repositories} \cup (Templates(step) \ Checked(step))

\* In an accepted run, what a checked prompt or configuration refers to is
\* there when it is rendered: the parameter, unless it is optional and has no
\* default; the step's outcome, so that only a template nobody checked fails
\* for want of one; and the output, if it is one the contract of an action
\* always has, unless that action had no success and the reader is optional or
\* comes after an optional step that went on.
ReferencesResolve ==
  \A s \in DOMAIN outputs : outputs[s].status = "failed" =>
    \A r \in UNION {t.refs : t \in Checked(Step(s))} :
      LET writer == Step(r.name).action
          goesOn == \E x \in UpstreamOf(def, s) \cup {s} : Step(x).optional
      IN /\ r.root = "Params" =>
              \/ r.name \in DOMAIN params
              \/ ~def.parameters[r.name].required /\ def.parameters[r.name].default = "none"
         /\ (/\ r.root = "Steps" /\ r.field = "Output" /\ writer.on
             /\ r.key \in Contracts[writer.type].out.always \ outputs[r.name].keys)
            => outputs[r.name].status # "complete" /\ goesOn
         /\ "no step" \in outputs[s].why =>
              \E t \in Unchecked(Step(s)) : \E x \in t.refs : x.root = "Steps"

\* A configuration without templates that the validator accepts and that has
\* something in every field is never sent back by the action as incomplete;
\* what an action returns is what its contract declares (action_contract.go
\* against actions.go).
ContractsMatchActions ==
  \A s \in DOMAIN outputs :
    LET a == Step(s).action IN
    a.on => /\ outputs[s].status = "complete" =>
                 /\ outputs[s].keys \subseteq {k \in outputs[s].keys : Declares(a.type, k)}
                 /\ Contracts[a.type].out.always \subseteq outputs[s].keys
            /\ (/\ outputs[s].why = {"refused"}
                /\ a.credentials \subseteq Stored
                /\ NeedsToken(a.type) => Token(Step(s)))
               => \E k \in DOMAIN a.config :
                    a.config[k].kind \in {"template", "blank", "zero", "emptylist"}

\* A comment or message is at the service more than once only after an answer
\* was lost or an attempt cut off, once more for each of these.
DuplicatesNeedAFault ==
  \A x \in DOMAIN landed : landed[x] <= 1 + faults[x[1]]

\* The numbers an inline review reports: each comment is counted once, no more
\* are called posted than are there, and one called skipped is there only when
\* an answer was lost.
ReviewReportsWhatLanded ==
  \A s \in DOMAIN outputs :
    LET a == Step(s).action
        there == {x \in Annotations : <<s, x>> \in DOMAIN landed /\ landed[<<s, x>>] > 0}
    IN a.on /\ a.type = "github_pr_review_inline" /\ outputs[s].status = "complete" =>
         /\ outputs[s].posted + outputs[s].skipped = Cardinality(Annotations)
         /\ outputs[s].posted <= Cardinality(there)
         /\ faults[s] = 0 => outputs[s].posted = Cardinality(there)

-----------------------------------------------------------------------------
(* The inductive invariant, in parts.                                      *)

\* Whatever got past `new' was accepted, with the parameters it runs with.
RunsAccepted ==
  /\ def \in Definitions
  /\ IF phase \in {"new", "rejected"}
     THEN pending = {} /\ outputs = <<>> /\ results = <<>> /\ active = <<>> /\ landed = <<>> /\ faults = <<>>
     ELSE /\ ValidateWorkflow(def, params) = {}
          /\ \E given \in Requests : params = WithDefaults(def, given)

\* While the run goes on, each step is pending or has an outcome.
StepsAccounted ==
  /\ phase # "blocked"
  /\ (pending \cup DOMAIN outputs) \subseteq Ids(def)
  /\ phase = "running" => Ids(def) \subseteq pending \cup DOMAIN outputs

\* A batch is of pending steps, whose dependencies have their outcomes.
BatchIsPending ==
  /\ phase # "running" => DOMAIN results = {} /\ DOMAIN active = {}
  /\ (DOMAIN results \cup DOMAIN active) \subseteq pending
  /\ DOMAIN results \cap DOMAIN active = {}
  /\ pending \cap DOMAIN outputs = {}
  /\ phase = "running" =>
       \A s \in DOMAIN outputs \cup DOMAIN results \cup DOMAIN active :
         Step(s).dependsOn \subseteq DOMAIN outputs

\* The copies of a step that is executing are all of failed attempts, and each
\* is covered by a lost answer or a cut; a step that is done has one more.
CopiesCovered ==
  /\ DOMAIN faults \subseteq DOMAIN active \cup DOMAIN results \cup DOMAIN outputs
  /\ DOMAIN active \subseteq DOMAIN faults
  /\ faults \in [DOMAIN faults -> Nat]
  /\ landed \in [(DOMAIN faults) \X Annotations -> Nat]
  /\ \A s \in DOMAIN faults, a \in Annotations :
       landed[<<s, a>>] <= faults[s] + (IF s \in DOMAIN active THEN 0 ELSE 1)

\* The steps whose outcomes s needs have succeeded.
Supported(s) ==
  \/ Step(s).optional
  \/ \A d \in Step(s).dependsOn : d \in DOMAIN outputs /\ outputs[d].status = "complete"

\* An outcome: which there are; what a success of an action returns; why one
\* was refused; what a review reports; why a step is missing at a rendering.
Fits(s, out) ==
  LET a == Step(s).action IN
  /\ out.status \in {"complete", "failed", "skipped"}
  /\ out.status = "skipped" \/ Supported(s)
  /\ a.on /\ out.status = "complete" => \E silent \in BOOLEAN : out.keys = Result(a.type, silent)
  /\ a.on /\ out.why = {"refused"} => Refuses(Step(s))
  /\ out.status = "failed" => UpstreamOf(def, s) \subseteq DOMAIN outputs
  /\ "no step" \in out.why => \E t \in Unchecked(Step(s)) : \E x \in t.refs : x.root = "Steps"

There(s) == {x \in Annotations : <<s, x>> \in DOMAIN landed /\ landed[<<s, x>>] > 0}

Reports(s, out) ==
  LET a == Step(s).action IN
  a.on /\ a.type = "github_pr_review_inline" /\ out.status = "complete" =>
    /\ out.posted + out.skipped = Cardinality(Annotations)
    /\ out.posted <= Cardinality(There(s))
    /\ faults[s] = 0 => out.posted = Cardinality(There(s))
    /\ s \in DOMAIN faults

OutcomesFit ==
  /\ \A s \in DOMAIN outputs : Fits(s, outputs[s]) /\ Reports(s, outputs[s])
  /\ \A s \in DOMAIN results : Fits(s, results[s]) /\ Reports(s, results[s])
  /\ \A s \in DOMAIN active : Supported(s)

IInv == RunsAccepted /\ StepsAccounted /\ BatchIsPending /\ CopiesCovered /\ OutcomesFit
=============================================================================
