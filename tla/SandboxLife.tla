----------------------------- MODULE SandboxLife -----------------------------
(***************************************************************************)
(* The sandbox of a group from the resolution of the agent profile to the  *)
(* clean-up: ProvisionSandbox (activity/provision.go) over the client of   *)
(* the container service (sandbox/opensandbox/client.go), RunPreflight of  *)
(* each step (activity/preflight.go) with the profile that profiles.go and *)
(* model/agent_profile.go merge, the agent's work, CreatePullRequest       *)
(* (activity/pr.go) and CleanupSandbox.                                    *)
(*                                                                         *)
(* A command that fails before it had an effect costs nothing here.  What  *)
(* is carried out and not answered, a question whose answer is lost where  *)
(* the code goes on without it, a worker that dies, a failed clean-up, a   *)
(* container that expires (nothing renews it) and a command of the         *)
(* pre-flight script that fails are faults, MaxFaults of them.             *)
(***************************************************************************)
EXTENDS Naturals, Sequences, FiniteSets, SequencesExt

CONSTANTS Order,       \* the steps of the group that share the sandbox, in order
          Repository,  \* step -> the directory of its repository, /workspace/<name>
          Parallel,    \* do they run side by side?
          Bodies,      \* profile bodies: sequences of entries [key, version, kind]
          Builtin,     \* the system's baseline, a member of Bodies
          Sidecar,     \* is FLEETLIFT_MCP_BINARY_PATH set?
          MaxFaults, MaxEdits

Entries == UNION {Range(body) : body \in Bodies}
Keys == {e.key : e \in Entries}
None == "none"

\* A body lists entries with a version; plugins, MCPs and skills are told
\* apart by their keys, as they are by the lists of a profile they stand in.
\* A plugin is installed under the name it is known by in its key: no body
\* names one plugin twice, with and without @version or under two paths.
ASSUME BodiesAssumption ==
  /\ Builtin \in Bodies
  /\ \A body \in Bodies : body \in Seq(Range(body))
  /\ \A e \in Entries : e.version # None
  /\ \A d, e \in Entries : d.key = e.key => d.kind = e.kind

\* Steps that run side by side work on repositories of their own here.
ASSUME OrderAssumption ==
  /\ Order \in Seq(Range(Order))
  /\ DOMAIN Repository = Range(Order) /\ None \notin Range(Order)
  /\ Parallel => IsInjective(Repository)
ASSUME BoundsAssumption == MaxFaults \in Nat /\ MaxEdits \in Nat

VARIABLES table,      \* agent_profiles: <<scope, name>> -> the row, a set of one body or none
          edits,      \* requests that changed it
          profile,    \* what ResolveAgentProfile has read and merged
          prov,       \* ProvisionSandbox and CleanupSandbox
          live,       \* containers the service runs
          has,        \* stages known to have taken effect in the sandbox
          installed,  \* key -> version: plugins and MCPs in the sandbox
          evalDir,    \* whose plugin is in /tmp/eval-plugin-0
          step,       \* step -> its pre-flight, agent and pull request
          work,       \* step -> how its agent ended, its branch and its pull request
          tree,       \* directory -> the clone that stands there, shared by the steps
          faults

vars == <<table, edits, profile, prov, live, has, installed, evalDir, step, work, tree, faults>>

Steps == Range(Order)
Fault == faults < MaxFaults /\ faults' = faults + 1
NoFault == UNCHANGED faults

-----------------------------------------------------------------------------
(* Agent profiles.                                                         *)

\* GetProfile: the team's row before the system's.
Lookup(name) ==
  IF table[<<"team", name>>] # {} THEN table[<<"team", name>>] ELSE table[<<"system", name>>]

\* Mutant of Override: an entry with a known key is added at the end of the
\* baseline's, and the baseline's is added after it.
OverrideKeepsBaseline(body, entry) == <<entry>> \o body

\* One entry of the workflow's profile: it takes the place of the last one
\* with its key, or comes at the end.
Override(body, entry) ==
  LET same == {i \in DOMAIN body : body[i].key = entry.key} IN
  IF same = {} THEN Append(body, entry)
  ELSE [body EXCEPT ![Max(same)] = entry]

MergeProfiles(baseline, body) == FoldLeft(Override, baseline, body)

Rows == {{}} \cup {{body} : body \in Bodies}
BodyOf(row) == IF row = {} THEN <<>> ELSE CHOOSE body \in row : TRUE

\* ResolveAgentProfile reads the baseline first and then the profile the
\* workflow names, unless that is the baseline; a missing one is not retried, and a query that failed
\* repeats the activity.
ReadBaseline ==
  /\ prov.pc = "baseline"
  /\ profile' = [profile EXCEPT !.baseline = BodyOf(Lookup("baseline"))]
  /\ prov' = [prov EXCEPT !.pc = "profile"]
  /\ UNCHANGED <<table, edits, live, has, installed, evalDir, step, work, tree, faults>>

ReadProfile ==
  /\ prov.pc = "profile"
  /\ LET named == BodyOf(Lookup("named")) IN
     \/ prov' = [prov EXCEPT !.pc = "baseline"] /\ UNCHANGED profile
     \/ /\ Lookup("named") = {}
        /\ prov' = [prov EXCEPT !.pc = "failed"] /\ UNCHANGED profile
     \/ /\ profile' = [profile EXCEPT !.effective = profile.baseline]
        /\ prov' = [prov EXCEPT !.pc = "credentials"]
     \/ /\ Lookup("named") # {}
        /\ profile' = [profile EXCEPT !.named = named, !.effective = MergeProfiles(profile.baseline, named)]
        /\ prov' = [prov EXCEPT !.pc = "credentials"]
  /\ UNCHANGED <<table, edits, live, has, installed, evalDir, step, work, tree, faults>>

\* CreateProfile, UpdateProfile and DeleteProfile touch only the team's rows.
\* Once the profile is read, an edit changes nothing for this sandbox.
EditProfile ==
  /\ prov.pc \in {"baseline", "profile"} /\ edits < MaxEdits /\ edits' = edits + 1
  /\ \E name \in {"baseline", "named"}, row \in Rows :
       table' = [table EXCEPT ![<<"team", name>>] = row]
  /\ UNCHANGED <<profile, prov, live, has, installed, evalDir, step, work, tree, faults>>

-----------------------------------------------------------------------------
(* ProvisionSandbox.                                                       *)

MaxProvisions == 3
MaxKills == 3

\* The stages after Create.  Each runs commands in the sandbox.
Stages == <<"workspace", "credential helper", "git identity">>
            \o (IF Sidecar THEN <<"architecture", "binary", "secret", "install", "start", "health", "environment">>
                           ELSE <<>>)

NeedsGit(stage) == stage \in {"credential helper", "git identity"}
Permanent(stage) == stage \in {"architecture", "binary", "secret"}

\* The attempt ends with an error; a permanent one is not retried.
Retry(permanent) ==
  prov' = IF permanent \/ prov.attempt = MaxProvisions
          THEN [prov EXCEPT !.pc = "failed", !.box = 0]
          ELSE [prov EXCEPT !.pc = "credentials", !.attempt = @ + 1, !.box = 0]

\* GetBatch, before anything is created.
Credentials ==
  /\ prov.pc = "credentials"
  /\ \/ prov' = [prov EXCEPT !.pc = "create"]
     \/ Retry(FALSE)
  /\ has' = {}
  /\ UNCHANGED <<table, edits, profile, live, installed, evalDir, step, work, tree, faults>>

\* Create: the service refuses, answers, or creates what nobody hears of (the
\* answer is lost, cannot be decoded, or names no id).
CreateContainer ==
  /\ prov.pc = "create"
  /\ \/ Retry(FALSE) /\ UNCHANGED live /\ NoFault
     \/ /\ live' = live \cup {prov.attempt} /\ NoFault
        /\ prov' = [prov EXCEPT !.pc = "set up", !.stage = 1, !.box = prov.attempt]
     \/ live' = live \cup {prov.attempt} /\ Retry(FALSE) /\ Fault
  /\ UNCHANGED <<table, edits, profile, has, installed, evalDir, step, work, tree>>

\* Mutant of GiveUp: the container is left to itself.
GiveUpOnly(permanent) == Retry(permanent) /\ UNCHANGED live /\ NoFault

\* Every failure after Create kills the container and ignores what Kill says.
GiveUp(permanent) ==
  /\ Retry(permanent)
  /\ \/ live' = live \ {prov.box} /\ NoFault
     \/ UNCHANGED live /\ Fault

StageDone == prov' = [prov EXCEPT !.pc = IF prov.stage = Len(Stages) THEN "return" ELSE "set up",
                                  !.stage = @ + 1]

\* Mutant of SetUp: after ten checks the sidecar counts as healthy.
SetUpUnhealthy ==
  /\ prov.pc = "set up"
  /\ LET stage == Stages[prov.stage] IN
     \/ prov.box \in live /\ StageDone /\ has' = has \cup {stage} /\ UNCHANGED live /\ NoFault
     \/ stage = "health" /\ StageDone /\ UNCHANGED <<has, live>> /\ NoFault
     \/ NeedsGit(stage) /\ StageDone /\ UNCHANGED <<has, live>> /\ NoFault
     \/ GiveUp(Permanent(stage)) /\ UNCHANGED has
  /\ UNCHANGED <<table, edits, profile, installed, evalDir, step, work, tree>>

\* One stage.  That git is not there and that the question `command -v git'
\* failed is the same to the caller: the stage is passed over, and nobody
\* knows whether it was done.
SetUp ==
  /\ prov.pc = "set up"
  /\ LET stage == Stages[prov.stage] IN
     \/ /\ prov.box \in live /\ ~NeedsGit(stage)
        /\ StageDone /\ has' = has \cup {stage} /\ UNCHANGED live /\ NoFault
     \/ NeedsGit(stage) /\ StageDone /\ UNCHANGED <<has, live>> /\ NoFault
     \/ GiveUp(Permanent(stage)) /\ UNCHANGED has
     \/ Permanent(stage) /\ GiveUp(FALSE) /\ UNCHANGED has
  /\ UNCHANGED <<table, edits, profile, installed, evalDir, step, work, tree>>

\* The activity's result reaches the workflow, or its worker dies first and
\* the next attempt begins with a container of its own.
Return ==
  /\ prov.pc = "return"
  /\ \/ prov' = [prov EXCEPT !.pc = "ready"] /\ NoFault
     \/ Retry(FALSE) /\ Fault
  /\ UNCHANGED <<table, edits, profile, live, has, installed, evalDir, step, work, tree>>

\* The service removes a container after its 120 minutes, in use or not.
Expire ==
  /\ prov.box \in live /\ Fault
  /\ live' = live \ {prov.box}
  /\ UNCHANGED <<table, edits, profile, prov, has, installed, evalDir, step, work, tree>>

-----------------------------------------------------------------------------
(* RunPreflight.                                                           *)

MaxPreflights == 2
Working == prov.pc = "ready"
Over(s) == step[s].pc \in {"done", "failed"}

\* Steps that depend on each other run one after the other.
Turn(s) == Parallel \/ \A i \in DOMAIN Order : Order[i] = s => \A j \in 1..(i - 1) : Over(Order[j])

Go(s, pc) == step' = [step EXCEPT ![s] = [pc |-> pc, attempt |-> 1]]

\* The attempt failed: the next begins at pc, or the step has failed.
Again(s, pc, max) ==
  step' = [step EXCEPT ![s] = IF step[s].attempt < max THEN [pc |-> pc, attempt |-> step[s].attempt + 1]
                                                       ELSE [pc |-> "failed", attempt |-> 1]]

\* BuildPreflightScript: of the entries only the plugins of a marketplace and
\* then the MCPs are installed, each after it was removed.
OfKind(body, kind) ==
  FoldLeft(LAMBDA chosen, e : IF e.kind = kind THEN Append(chosen, e) ELSE chosen, <<>>, body)

Scripted(body) == OfKind(body, "plugin") \o OfKind(body, "mcp")

\* What the script leaves when the commands in `broken' fail; the removal
\* before them has been done.
After(body, broken) ==
  LET script == Scripted(body) IN
  [k \in DOMAIN installed |->
     LET mine == {i \in DOMAIN script : script[i].key = k} IN
     IF mine = {} THEN installed[k]
     ELSE IF Max(mine) \in broken THEN None ELSE script[Max(mine)].version]

\* The script is one command of the sandbox, without `set -e': its result is
\* the result of its last command.
RunScript(s) ==
  /\ Working /\ Turn(s) /\ step[s].pc = "wait"
  /\ \/ /\ prov.box \in live
        /\ \/ installed' = After(profile.effective, {}) /\ NoFault /\ step' = [step EXCEPT ![s].pc = "clone"]
           \/ \E i \in DOMAIN Scripted(profile.effective) :
                /\ installed' = After(profile.effective, {i}) /\ Fault
                /\ IF i = Len(Scripted(profile.effective))
                   THEN Again(s, "wait", MaxPreflights) ELSE step' = [step EXCEPT ![s].pc = "clone"]
     \/ Again(s, "wait", MaxPreflights) /\ UNCHANGED installed /\ NoFault
  /\ UNCHANGED <<table, edits, profile, prov, live, has, evalDir, work, tree>>

\* BuildEvalCloneCommands: the directory is named after the position of the
\* plugin in its step, and removed before the clone.
Clone(s) ==
  /\ Working /\ step[s].pc = "clone"
  /\ \/ prov.box \in live /\ Go(s, "repository") /\ evalDir' = s
     \/ Again(s, "wait", MaxPreflights) /\ evalDir' \in {evalDir, None}
  /\ UNCHANGED <<table, edits, profile, prov, live, has, installed, work, tree, faults>>

-----------------------------------------------------------------------------
(* ExecuteStep.                                                            *)

MaxExecutes == 2

\* A clone: the step that made it, at the ref it was given (whole) or cut off
\* before; whose changes are uncommitted in it; whose are in its commits.
NoClone == [by |-> None, whole |-> FALSE, dirty |-> {}, commits |-> {}]
Cloned(s, whole) == [NoClone EXCEPT !.by = s, !.whole = whole]

Tree(s) == tree[Repository[s]]
Put(s, clone) == tree' = [tree EXCEPT ![Repository[s]] = clone]

\* Clone the repository and check the ref out.  Where .git/HEAD is seen the
\* clone is taken as it is, whoever made it and left it there, an earlier step
\* or an earlier attempt that was cut off.  When the question fails, its error
\* is dropped, and the clone is removed with all that is in it.
Prepare(s) ==
  /\ Working /\ step[s].pc = "repository"
  /\ \/ /\ prov.box \in live /\ Tree(s).by # None
        /\ step' = [step EXCEPT ![s].pc = "agent"] /\ UNCHANGED tree /\ NoFault
     \/ Again(s, "repository", MaxExecutes) /\ UNCHANGED tree /\ NoFault
     \/ /\ prov.box \in live
        /\ \/ Tree(s).by = None /\ NoFault
           \/ Tree(s).by # None /\ Fault
        /\ \/ step' = [step EXCEPT ![s].pc = "agent"] /\ Put(s, Cloned(s, TRUE))
           \/ /\ Again(s, "repository", MaxExecutes)
              /\ \E clone \in {NoClone, Cloned(s, FALSE), Cloned(s, TRUE)} : Put(s, clone)
  /\ UNCHANGED <<table, edits, profile, prov, live, has, installed, evalDir, work>>

\* Mutant of Committed: the commit leaves out what is not tracked yet.
CommittedTracked(clone) == [clone EXCEPT !.dirty = {}]

\* add -A and commit: everything that is changed, by whomever.
Committed(clone) == [clone EXCEPT !.dirty = {}, !.commits = clone.commits \cup clone.dirty]

\* The agent leaves the clone as it was, changed, or commits by itself.
Left(s, end) ==
  LET changed == [Tree(s) EXCEPT !.dirty = Tree(s).dirty \cup {s}]
  IN CASE end = "clean" -> Tree(s) [] end = "dirty" -> changed [] end = "committed" -> Committed(changed)

\* An attempt that fails leaves what it has done.
RunAgent(s) ==
  /\ Working /\ step[s].pc = "agent"
  /\ \/ /\ prov.box \in live
        /\ \E end \in {"clean", "dirty", "committed"} :
             /\ Put(s, Left(s, end))
             /\ \/ work' = [work EXCEPT ![s].end = end] /\ Go(s, "checkout")
                \/ UNCHANGED work /\ Again(s, "repository", MaxExecutes)
     \/ prov.box \notin live /\ Again(s, "repository", MaxExecutes) /\ UNCHANGED <<work, tree>>
  /\ UNCHANGED <<table, edits, profile, prov, live, has, installed, evalDir, faults>>

-----------------------------------------------------------------------------
(* CreatePullRequest, retried from its beginning.                          *)

MaxPullRequests == 2

\* The attempt failed and has left `mine'.  A second failure is written into
\* the output of a step that completes.
FailPullRequest(s, mine) ==
  \/ /\ step[s].attempt < MaxPullRequests
     /\ step' = [step EXCEPT ![s] = [pc |-> "checkout", attempt |-> step[s].attempt + 1]]
     /\ work' = [work EXCEPT ![s] = mine]
  \/ /\ step[s].attempt = MaxPullRequests
     /\ Go(s, "done") /\ work' = [work EXCEPT ![s] = [mine EXCEPT !.error = TRUE]]

\* checkout -B and status --porcelain: a clean tree means nothing to do.
Checkout(s) ==
  /\ Working /\ step[s].pc = "checkout"
  /\ \/ /\ prov.box \in live /\ UNCHANGED work
        /\ step' = [step EXCEPT ![s].pc = IF Tree(s).dirty = {} THEN "done" ELSE "commit"]
     \/ FailPullRequest(s, work[s])
  /\ UNCHANGED <<table, edits, profile, prov, live, has, installed, evalDir, tree, faults>>

\* Commit, push, and the request to GitHub: what each does to the clone and
\* to the step's branch and pull request.
TreeAfter(s, pc) == IF pc = "commit" THEN Committed(Tree(s)) ELSE Tree(s)
WorkAfter(s, pc) ==
  CASE pc = "commit" -> work[s]
    [] pc = "push"   -> [work[s] EXCEPT !.pushed = Tree(s).commits]
    [] pc = "create" -> [work[s] EXCEPT !.pr = TRUE]

NextCommand(pc) == CASE pc = "commit" -> "push" [] pc = "push" -> "create" [] pc = "create" -> "record"

\* Done and answered, not done, or done and not answered.
Perform(s) ==
  /\ Working /\ step[s].pc \in {"commit", "push", "create"}
  /\ LET pc == step[s].pc
         able == IF pc = "create" THEN ~work[s].pr ELSE prov.box \in live
     IN \/ able /\ Put(s, TreeAfter(s, pc)) /\ NoFault
             /\ work' = [work EXCEPT ![s] = WorkAfter(s, pc)]
             /\ step' = [step EXCEPT ![s].pc = NextCommand(pc)]
        \/ FailPullRequest(s, work[s]) /\ UNCHANGED tree /\ NoFault
        \/ able /\ Put(s, TreeAfter(s, pc)) /\ FailPullRequest(s, WorkAfter(s, pc)) /\ Fault
  /\ UNCHANGED <<table, edits, profile, prov, live, has, installed, evalDir>>

\* Labels and the row may fail without consequence; the activity's result may
\* be lost with its worker.
Record(s) ==
  /\ Working /\ step[s].pc = "record"
  /\ \/ work' = [work EXCEPT ![s].url = TRUE] /\ Go(s, "done") /\ NoFault
     \/ FailPullRequest(s, work[s]) /\ Fault
  /\ UNCHANGED <<table, edits, profile, prov, live, has, installed, evalDir, tree>>

-----------------------------------------------------------------------------
(* CleanupSandbox: Kill, three times at most; a container that is gone is  *)
(* an error, as one that could not be killed.                              *)

Close ==
  /\ Working /\ \A s \in Steps : Over(s)
  /\ prov' = [prov EXCEPT !.pc = "closing", !.attempt = 1]
  /\ UNCHANGED <<table, edits, profile, live, has, installed, evalDir, step, work, tree, faults>>

KillAgain == prov' = IF prov.attempt = MaxKills THEN [prov EXCEPT !.pc = "closed", !.box = 0]
                                                ELSE [prov EXCEPT !.attempt = @ + 1]

Kill ==
  /\ prov.pc = "closing"
  /\ \/ prov.box \in live /\ live' = live \ {prov.box} /\ NoFault
          /\ prov' = [prov EXCEPT !.pc = "closed", !.box = 0]
     \/ prov.box \in live /\ live' = live \ {prov.box} /\ Fault /\ KillAgain
     \/ prov.box \in live /\ UNCHANGED live /\ Fault /\ KillAgain
     \/ prov.box \notin live /\ UNCHANGED live /\ NoFault /\ KillAgain
  /\ UNCHANGED <<table, edits, profile, has, installed, evalDir, step, work, tree>>

-----------------------------------------------------------------------------
Init ==
  /\ table \in [{"team", "system"} \X {"baseline", "named"} -> Rows]
  /\ table[<<"system", "baseline">>] = {Builtin} /\ table[<<"system", "named">>] = {}
  /\ table[<<"team", "baseline">>] = {}
  /\ edits = 0 /\ faults = 0
  /\ profile = [baseline |-> <<>>, named |-> <<>>, effective |-> <<>>]
  /\ prov = [pc |-> "baseline", stage |-> 0, attempt |-> 1, box |-> 0]
  /\ live = {} /\ has = {} /\ evalDir = None
  /\ installed = [k \in Keys |-> None]
  /\ step = [s \in Steps |-> [pc |-> "wait", attempt |-> 1]]
  /\ work = [s \in Steps |-> [end |-> "none", pushed |-> {}, pr |-> FALSE, url |-> FALSE, error |-> FALSE]]
  /\ tree = [d \in Range(Repository) |-> NoClone]

StepNext(s) == RunScript(s) \/ Clone(s) \/ Prepare(s) \/ RunAgent(s) \/ Checkout(s) \/ Perform(s) \/ Record(s)

Rest == prov.pc \in {"failed", "closed"} /\ UNCHANGED vars

Next ==
  \/ EditProfile \/ ReadBaseline \/ ReadProfile
  \/ Credentials \/ CreateContainer \/ SetUp \/ Return \/ Expire
  \/ \E s \in Steps : StepNext(s)
  \/ Close \/ Kill \/ Rest

Spec == Init /\ [][Next]_vars

-----------------------------------------------------------------------------
(* Properties.                                                             *)

\* A container that no activity and no workflow holds any more is dead, except
\* one for each fault: every error path of ProvisionSandbox kills what it
\* created, and the clean-up kills what it returned.
NoContainerIsForgotten == Cardinality(live \ {prov.box}) <= faults

\* What a step is given has everything a step relies on, whatever failed in
\* the attempts before: the workspace and, when it is configured, a sidecar
\* that answered its health check and left its address (git may be missing).
SandboxIsReady ==
  prov.pc = "ready" => has = {stage \in Range(Stages) : ~NeedsGit(stage)}

\* The version of a key in a body that is installed last.
LastVersion(body, k) ==
  LET mine == {i \in DOMAIN body : body[i].key = k}
  IN IF mine = {} THEN None ELSE body[Max(mine)].version

\* The steps before s in the group that work on its repository.
Before(s) ==
  {t \in Steps : Repository[t] = Repository[s] /\ \E i, j \in DOMAIN Order : i < j /\ Order[i] = t /\ Order[j] = s}

\* An agent starts in a clean clone at the ref it was given, unless an attempt
\* failed before or an earlier step of the group had cloned the repository
\* (what is there is used as it is, execute.go:82); with what the earlier steps
\* changed in it; with its own evaluation plugin; and with the plugins and MCPs
\* of its profile, the workflow's version before the baseline's
\* (AGENT_PROFILES.md, Idempotency).  The changes and the versions are there
\* also in a sandbox that was used before and after failed attempts, as long
\* as no question went unanswered and no command of the script failed.
SandboxReuseIsSafe ==
  \A s \in Steps : step[s].pc = "agent" =>
    /\ \/ Tree(s) = Cloned(s, TRUE)
       \/ step[s].attempt > 1 /\ Tree(s).by # None
       \/ Tree(s).by \in Before(s)
    /\ evalDir = s
    /\ faults = 0 =>
         /\ \A t \in Before(s) : work[t].end \in {"dirty", "committed"} => t \in Tree(s).dirty \cup Tree(s).commits
         /\ \A k \in DOMAIN installed :
              LET named == LastVersion(Scripted(profile.named), k)
              IN installed[k] = IF named # None THEN named ELSE LastVersion(Scripted(profile.baseline), k)

\* A reported pull request exists; a pull request holds what its step's agent
\* left uncommitted, and never nothing; no uncommitted work is dropped without
\* an error; and a pull request goes unreported only after a fault.  The clone
\* may be one that earlier steps have worked in.
HoldsTheWork(s) ==
  /\ work[s].url => work[s].pr
  /\ work[s].pr => work[s].pushed # {} /\ (work[s].end = "dirty" => s \in work[s].pushed)
  /\ step[s].pc = "done" =>
       /\ work[s].url \/ work[s].error \/ s \notin Tree(s).dirty
       /\ work[s].pr /\ ~work[s].url => faults > 0

PullRequestHoldsTheWork == \A s \in Steps : HoldsTheWork(s)

\* `handles Temporal activity retries where a previous attempt may have
\* already created the branch' (pr.go): a step whose agent left changes ends
\* with a pull request or with an error, also when a command was retried.
RetriedPullRequestIsMade ==
  \A s \in Steps : step[s].pc = "done" /\ work[s].end = "dirty" => work[s].url \/ work[s].error

-----------------------------------------------------------------------------
(* The inductive invariant from which SandboxLife_proofs derives the four  *)
(* invariants above.                                                       *)

Profiles == [baseline : Seq(Entries), named : Seq(Entries), effective : Seq(Entries)]
ProvStates ==
  [pc : {"baseline", "profile", "credentials", "create", "set up", "return", "ready", "closing", "closed", "failed"},
   stage : Nat, attempt : 1..MaxProvisions, box : 0..MaxProvisions]
StepStates ==
  [pc : {"wait", "clone", "repository", "agent", "checkout", "commit", "push", "create", "record", "done", "failed"},
   attempt : {1, 2}]
WorkStates ==
  [end : {"none", "clean", "dirty", "committed"}, pushed : SUBSET Steps, pr : BOOLEAN, url : BOOLEAN, error : BOOLEAN]
TreeStates == [by : Steps \cup {None}, whole : BOOLEAN, dirty : SUBSET Steps, commits : SUBSET Steps]

TypeOK ==
  /\ table \in [{"team", "system"} \X {"baseline", "named"} -> Rows]
  /\ edits \in Nat /\ faults \in Nat
  /\ profile \in Profiles /\ prov \in ProvStates
  /\ live \in SUBSET (1..MaxProvisions) /\ has \in SUBSET Range(Stages)
  /\ installed \in [Keys -> {e.version : e \in Entries} \cup {None}]
  /\ evalDir \in Steps \cup {None}
  /\ step \in [Steps -> StepStates] /\ work \in [Steps -> WorkStates]
  /\ tree \in [Range(Repository) -> TreeStates]

\* Only an attempt that has created its container, and the workflow after it,
\* hold one.
HoldersHold ==
  prov.pc \in {"baseline", "profile", "credentials", "create", "closed", "failed"} => prov.box = 0

\* What the stages before the n-th leave.
Prepared(n) == {Stages[i] : i \in {i \in 1..(n - 1) : ~NeedsGit(Stages[i])}}

\* The stages run in their order, from nothing, in every attempt.
StagesInOrder ==
  /\ prov.pc = "create" => has = {}
  /\ prov.pc = "set up" => prov.stage \in DOMAIN Stages /\ has = Prepared(prov.stage)
  /\ prov.pc \in {"return", "ready"} => has = Prepared(Len(Stages) + 1)

\* The steps begin when the sandbox is handed over, with the profile merged
\* once; no profile is read after it.
Begun == prov.pc \in {"ready", "closing", "closed"}

ProfileIsMerged ==
  /\ prov.pc \in {"baseline", "profile"} => profile.named = <<>>
  /\ prov.pc \notin {"baseline", "profile", "failed"} =>
       profile.effective = MergeProfiles(profile.baseline, profile.named)
  /\ ~Begun => (\A s \in Steps : step[s].pc = "wait") /\ (\A k \in Keys : installed[k] = None)

\* The plugins and MCPs of the profile are there once a script has run, and
\* none but those before; a fault of the script is counted.
InstalledFollowsProfile ==
  faults = 0 => \A k \in Keys :
    /\ installed[k] \in {None, LastVersion(Scripted(profile.effective), k)}
    /\ (\E s \in Steps : step[s].pc \in {"clone", "repository", "agent"}) =>
         installed[k] = LastVersion(Scripted(profile.effective), k)

\* Steps that depend on each other begin when those before them are over, so
\* that the evaluation plugin a step cloned stays until its agent runs.
StepsTakeTurns ==
  ~Parallel =>
    /\ \A i, j \in DOMAIN Order : i < j /\ step[Order[j]].pc # "wait" => Over(Order[i])
    /\ \A s \in Steps : step[s].pc \in {"repository", "agent"} => evalDir = s

\* A clone is made by a step that works on the repository, and by its first
\* attempt that gets as far unless an earlier step made it; where there is none
\* no agent has worked, or a question went unanswered.  What an agent changes
\* is in the clone.
CloneInOrder(s) ==
  /\ Tree(s).by # None => Repository[Tree(s).by] = Repository[s]
  /\ Tree(s) = NoClone \/ Tree(s).by # None
  /\ step[s].pc \in {"wait", "clone"} => Tree(s).by # s /\ work[s].end = "none"
  /\ step[s].pc = "repository" => Tree(s).by # s \/ step[s].attempt > 1
  /\ step[s].pc = "agent" => Tree(s).by # None /\ (Tree(s) = Cloned(s, TRUE) \/ Tree(s).by # s \/ step[s].attempt > 1)
  /\ faults = 0 /\ work[s].end \in {"dirty", "committed"} => s \in Tree(s).dirty \cup Tree(s).commits

\* The pull request comes as far as the command the step is at, over its attempts.
InOrder(s) ==
  /\ step[s].pc \in {"wait", "clone", "repository", "agent"} => work[s].pushed = {} /\ ~work[s].pr /\ ~work[s].url
  /\ step[s].pc \in {"checkout", "commit"} /\ work[s].end = "dirty" => s \in Tree(s).dirty \cup Tree(s).commits
  /\ step[s].pc = "commit" => Tree(s).dirty # {}
  /\ step[s].pc \in {"push", "create", "record"} =>
       Tree(s).commits # {} /\ (work[s].end = "dirty" => s \in Tree(s).commits)
  /\ step[s].pc \in {"create", "record"} =>
       work[s].pushed # {} /\ (work[s].end = "dirty" => s \in work[s].pushed)
  /\ step[s].pc = "record" => work[s].pr
  /\ work[s].pr /\ ~work[s].url /\ step[s].pc # "record" => faults > 0

WorkInOrder == \A s \in Steps : CloneInOrder(s) /\ InOrder(s)

IInv ==
  /\ TypeOK /\ HoldersHold /\ NoContainerIsForgotten /\ StagesInOrder
  /\ ProfileIsMerged /\ InstalledFollowsProfile /\ StepsTakeTurns
  /\ WorkInOrder /\ PullRequestHoldsTheWork
=============================================================================
