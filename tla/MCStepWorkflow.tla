--------------------------- MODULE MCStepWorkflow ---------------------------
(***************************************************************************)
(* Step definitions for model checking StepWorkflow.                       *)
(***************************************************************************)
EXTENDS StepWorkflow

StepDef(policy, verifiers, pullRequest, preflight, shared) ==
  [policy |-> policy, verifiers |-> verifiers, pullRequest |-> pullRequest,
   preflight |-> preflight, shared |-> shared, repository |-> pullRequest]

\* The transform that needs an approval, alone or in a shared sandbox.
ApprovedTransforms == {StepDef("always", TRUE, TRUE, FALSE, shared) : shared \in BOOLEAN}

\* A transform with everything switched on, and a report in a shared sandbox,
\* reviewed when its agent asks for it and else, as under `never', not.
StepKinds == {StepDef("always", TRUE, TRUE, TRUE, FALSE), StepDef("agent", FALSE, FALSE, FALSE, TRUE)}
=============================================================================
