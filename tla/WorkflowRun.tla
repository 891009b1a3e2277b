----------------------------- MODULE WorkflowRun -----------------------------
(***************************************************************************)
(* What a workflow run promises to the people who read its rows: the run   *)
(* is pending, then running, then has one final status; the outcome of a   *)
(* step is decided once, after the outcomes it depends on, and never after *)
(* the run ended.  DagWorkflow implements this specification.              *)
(***************************************************************************)
CONSTANT Steps

VARIABLES def,      \* the workflow definition the run was started with
          status,   \* runs.status
          outcome   \* the outcome of each step, or "none"

vars == <<def, status, outcome>>

Settled(s) == outcome[s] # "none"

\* A step may be attempted once all its dependencies are settled; unless it is
\* optional, each of them must have completed, or be optional and have failed.
MayAttempt(s) ==
  \A d \in def.dependsOn[s] :
    /\ Settled(d)
    /\ s \notin def.optional => outcome[d] = "complete" \/ (outcome[d] = "failed" /\ d \in def.optional)

\* A step may be passed over for its condition, or because of a dependency
\* whose outcome (decided before, or together with it) was not success.
MayPassOver(s, outcomes) ==
  \/ s \in def.conditional
  \/ \E d \in def.dependsOn[s] : outcomes[d] \in {"failed", "skipped"}

Init ==
  /\ status = "pending"
  /\ outcome = [s \in Steps |-> "none"]

Start == status = "pending" /\ status' = "running" /\ UNCHANGED <<def, outcome>>

\* Some steps get their outcome; those settled before keep theirs.
Settle ==
  /\ status = "running"
  /\ \A s \in Steps :
       IF Settled(s) THEN outcome'[s] = outcome[s]
       ELSE \/ outcome'[s] = "none"
            \/ outcome'[s] \in {"complete", "failed"} /\ MayAttempt(s)
            \/ outcome'[s] = "skipped" /\ MayPassOver(s, outcome')
  /\ UNCHANGED <<def, status>>

FinishComplete ==
  /\ status = "running" /\ status' = "complete"
  /\ \A s \in Steps : Settled(s) /\ (outcome[s] = "failed" => s \in def.optional)
  /\ UNCHANGED <<def, outcome>>

\* A failed or cancelled run may leave steps undecided.
FinishShort ==
  /\ status = "running" /\ status' \in {"failed", "cancelled"}
  /\ UNCHANGED <<def, outcome>>

Next == Start \/ Settle \/ FinishComplete \/ FinishShort

Spec == Init /\ [][Next]_vars
=============================================================================
