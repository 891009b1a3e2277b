----------------------------- MODULE Validation -----------------------------
(***************************************************************************)
(* ValidateWorkflow (internal/workflow/validate.go): what a definition and *)
(* the parameters of a run must satisfy before the run is created.         *)
(*                                                                         *)
(* A definition is a record of parameters (a function from names) and      *)
(* steps (a sequence, since ids may be missing or repeated).  A template   *)
(* is the set of functions it calls and the set of references it makes;    *)
(* a reference is a path from a root ("Params", "Steps" or, in conditions, *)
(* "params", "steps"), the way it is written (form: a plain field, or      *)
(* something that is no FieldNode, such as index .Params "x" or $.Params.x)*)
(* and the place of its pipe (an action of its own, the control of an if,  *)
(* range or with, or a pipe in parentheses).  A value is its kind.         *)
(***************************************************************************)
EXTENDS Naturals, Sequences, FiniteSets, ActionContracts

CONSTANTS StepIds,     \* ids that match stepIDRe
          CredNames    \* names that match credNameRe

\* templateBuiltinFuncs
GoFuncs == {"and", "call", "html", "index", "slice", "js", "len", "not", "or", "print", "printf",
            "println", "urlquery", "eq", "ge", "gt", "le", "lt", "ne"}
StubFuncs == GoFuncs \cup {"toJSON", "truncate", "join"}

Err(step, field, why) == <<step, field, why>>

Positions(def) == DOMAIN def.steps
Ids(def) == {def.steps[i].id : i \in Positions(def)}

-----------------------------------------------------------------------------
(* validateStructure.                                                      *)

\* A blank id counts as missing, and is not looked at any further.
IdErrors(def) ==
  {Err("", "id", "empty") : i \in {i \in Positions(def) : def.steps[i].id = ""}}
  \cup
  {Err(def.steps[i].id, "id", "malformed") :
     i \in {i \in Positions(def) : def.steps[i].id \notin StepIds \cup {""}}}
  \cup
  {Err(def.steps[i].id, "id", "duplicate") :
     i \in {i \in Positions(def) : /\ def.steps[i].id # ""
                                   /\ \E j \in 1..(i - 1) : def.steps[j].id = def.steps[i].id}}

ValidIds(def) == Ids(def) \cap StepIds

DependencyErrors(def) ==
  {Err(def.steps[i].id, "depends_on", "unknown") :
     i \in {i \in Positions(def) : ~(def.steps[i].dependsOn \subseteq ValidIds(def))}}

\* The edges that Kahn's algorithm counts.  Steps that share an id share a
\* node; each of them adds its edges to the in-degree and to the lists alike.
Into(def, id) ==
  UNION {def.steps[i].dependsOn \cap ValidIds(def) : i \in {i \in Positions(def) : def.steps[i].id = id}}

\* Mutant of Processed: dependencies that are not steps keep their count.
ProcessedOfKnown(def) ==
  LET into(id) == UNION {def.steps[i].dependsOn :
                           i \in {i \in Positions(def) : def.steps[i].id = id}}
      removed[n \in Nat] ==
        IF n = 0 THEN {} ELSE {id \in ValidIds(def) : into(id) \subseteq removed[n - 1]}
  IN removed[Cardinality(ValidIds(def))]

\* Mutant of Processed: one removed dependency is enough to queue a step.
ProcessedOfAny(def) ==
  LET removed[n \in Nat] ==
        IF n = 0 THEN {}
        ELSE {id \in ValidIds(def) : Into(def, id) = {} \/ Into(def, id) \cap removed[n - 1] # {}}
  IN removed[Cardinality(ValidIds(def))]

\* The nodes removed after n rounds; the queue's order does not matter.
Processed(def) ==
  LET removed[n \in Nat] ==
        IF n = 0 THEN {}
        ELSE {id \in ValidIds(def) : Into(def, id) \subseteq removed[n - 1]}
  IN removed[Cardinality(ValidIds(def))]

CycleErrors(def) ==
  IF Processed(def) # ValidIds(def) THEN {Err("", "depends_on", "cycle")} ELSE {}

KindErrors(def) ==
  {Err(def.steps[i].id, "type", "not exactly one of execution and action") :
     i \in {i \in Positions(def) : def.steps[i].execution.on = def.steps[i].action.on}}

StructureErrors(def) ==
  IdErrors(def) \cup DependencyErrors(def) \cup CycleErrors(def) \cup KindErrors(def)

-----------------------------------------------------------------------------
(* validateParameters.                                                     *)

\* checkParamType: JSON has no integers, so a whole float64 is one; a type
\* that is not in the list accepts everything, null included.
ParamTypeOK(type, kind) ==
  CASE type = "string" -> kind = "string"
    [] type = "bool"   -> kind = "bool"
    [] type = "int"    -> kind \in {"int", "whole"}
    [] type = "json"   -> kind \in {"object", "list"}
    [] OTHER           -> TRUE

ParameterErrors(def, params) ==
  {Err("", p, "missing") :
     p \in {p \in DOMAIN def.parameters : def.parameters[p].required /\ p \notin DOMAIN params}}
  \cup
  {Err("", p, "wrong type") :
     p \in {p \in DOMAIN def.parameters \cap DOMAIN params :
              ~ParamTypeOK(def.parameters[p].type, params[p])}}

-----------------------------------------------------------------------------
(* validateActionTypes, validateAgentTypes, validateSandboxGroups,         *)
(* validateCredentialNames.                                                *)

AgentTypes == {"claude-code", "codex", "shell", ""}
ReservedNames == {"PATH", "HOME", "LD_PRELOAD", "LD_LIBRARY_PATH", "USER", "SHELL"}

\* The kinds of the values of a configuration, whose templates are records.
ConfigKinds(config) == [k \in DOMAIN config |-> config[k].kind]

ActionErrors(def) ==
  UNION {LET a == def.steps[i].action IN
         IF a.type \notin ActionTypes THEN {Err(def.steps[i].id, "action.type", "unknown")}
         ELSE {Err(def.steps[i].id, "action.config", e) : e \in ConfigErrors(a.type, ConfigKinds(a.config))} :
         i \in {i \in Positions(def) : def.steps[i].action.on}}

AgentErrors(def) ==
  {Err(def.steps[i].id, "execution.agent", "unknown") :
     i \in {i \in Positions(def) : /\ def.steps[i].execution.on
                                   /\ def.steps[i].execution.agent \notin AgentTypes}}

\* That the group is declared under sandbox_groups is not checked.
SandboxGroupErrors(def) ==
  {Err(def.steps[i].id, "sandbox.image", "in a group") :
     i \in {i \in Positions(def) : def.steps[i].group /\ def.steps[i].image}}

CredentialsOf(step) ==
  (IF step.execution.on THEN step.execution.credentials ELSE {})
    \cup (IF step.action.on THEN step.action.credentials ELSE {})

CredentialErrors(def) ==
  UNION {{Err(def.steps[i].id, "credentials", IF c \in CredNames THEN "reserved" ELSE "malformed") :
            c \in {c \in CredentialsOf(def.steps[i]) : c \notin CredNames \ ReservedNames}} :
         i \in Positions(def)}

-----------------------------------------------------------------------------
(* validateTemplateRefs and validateJSONParamsInRepositories.              *)

\* extractTemplateRefs: only field nodes count, and a template that calls a
\* function the parser has no stub for makes no references at all.
Parses(t) == t.funcs \subseteq StubFuncs

RefsUnder(t, root) == {r \in t.refs : Parses(t) /\ r.form = "field" /\ r.root = root}

ParamRefs(t) == {r.name : r \in RefsUnder(t, "Params")}
StepRefs(t)  == {r \in RefsUnder(t, "Steps") : r.field # ""}

\* upstreamOf, over the last step with each id.
DependsOn(def, id) ==
  IF id \notin Ids(def) THEN {}
  ELSE LET i == CHOOSE i \in Positions(def) :
                  /\ def.steps[i].id = id
                  /\ \A j \in Positions(def) : def.steps[j].id = id => j <= i
       IN def.steps[i].dependsOn

\* Mutant of UpstreamOf: every step of the definition counts as upstream.
UpstreamOfAny(def, id) == Ids(def)

UpstreamOf(def, id) ==
  LET reached[n \in Nat] ==
        IF n = 0 THEN DependsOn(def, id)
        ELSE reached[n - 1] \cup UNION {DependsOn(def, d) : d \in reached[n - 1]}
  IN reached[Len(def.steps)]

\* The templates that are looked at: prompts and the strings of a configuration.
Templates(step) ==
  (IF step.execution.on THEN {step.execution.prompt} ELSE {})
    \cup (IF step.action.on
          THEN {step.action.config[k].tmpl :
                  k \in {k \in DOMAIN step.action.config : step.action.config[k].kind = "template"}}
          ELSE {})

StepOf(def, id) == def.steps[CHOOSE i \in Positions(def) :
                               /\ def.steps[i].id = id
                               /\ \A j \in Positions(def) : def.steps[j].id = id => j <= i]

\* An output key is checked when the step that writes it declares its outputs.
KeyDeclared(step, key) ==
  /\ step.execution.on /\ step.execution.schema # {} => key \in step.execution.schema
  /\ step.action.on /\ step.action.type \in ActionTypes => Declares(step.action.type, key)

StepRefError(def, id, r) ==
  IF r.name \notin Ids(def) THEN "unknown step"
  ELSE IF r.name \notin UpstreamOf(def, id) THEN "step is not upstream"
  ELSE IF r.field = "Output" /\ r.key # "" /\ ~KeyDeclared(StepOf(def, r.name), r.key)
       THEN "output is not declared"
  ELSE "none"

TemplateErrors(def) ==
  UNION {LET step == def.steps[i] IN
    UNION {{Err(step.id, "template", "unknown parameter") :
              p \in ParamRefs(t) \ DOMAIN def.parameters}
           \cup ({Err(step.id, "template", StepRefError(def, step.id, r)) : r \in StepRefs(t)}
                 \ {Err(step.id, "template", "none")}) : t \in Templates(step)} :
    i \in Positions(def)}

\* In a condition the roots are in lower case, and any step may be named.
ConditionErrors(def) ==
  UNION {LET step == def.steps[i] IN
    {Err(step.id, "condition", "unknown parameter") :
       p \in {r.name : r \in RefsUnder(step.condition, "params")} \ DOMAIN def.parameters}
    \cup
    {Err(step.id, "condition", "unknown step") :
       r \in {r \in RefsUnder(step.condition, "steps") : r.field # "" /\ r.name \notin Ids(def)}} :
    i \in Positions(def)}

\* checkPipe looks at the pipe of each action, not at controls or parentheses.
RepositoryErrors(def) ==
  {Err(def.steps[i].id, "repositories", "json parameter without toJSON") :
     i \in {i \in Positions(def) : \E r \in RefsUnder(def.steps[i].repositories, "Params") :
              /\ r.name \in DOMAIN def.parameters /\ def.parameters[r.name].type = "json"
              /\ r.place = "action" /\ ~r.toJSON}}

-----------------------------------------------------------------------------
ValidateWorkflow(def, params) ==
  StructureErrors(def) \cup ParameterErrors(def, params) \cup ActionErrors(def)
    \cup AgentErrors(def) \cup SandboxGroupErrors(def) \cup CredentialErrors(def)
    \cup TemplateErrors(def) \cup ConditionErrors(def) \cup RepositoryErrors(def)
=============================================================================
