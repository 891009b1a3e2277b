-------------------------- MODULE MCRunDefinition --------------------------
(***************************************************************************)
(* Definitions for TLC, in four families: every dependency graph over two  *)
(* ids and a few over three; a chain of three steps whose last one makes   *)
(* one reference; a single action with every configuration that differs    *)
(* from a good one in one or two keys; and small ones for the other checks.*)
(***************************************************************************)
EXTENDS RunDefinition, TLC

Text == [funcs |-> {}, refs |-> {}, renders |-> "text"]
Calling(fs, rs) == [funcs |-> fs, refs |-> rs, renders |-> "text"]

NoAction    == [on |-> FALSE, type |-> "", config |-> <<>>, credentials |-> {}]
NoExecution == [on |-> FALSE, agent |-> "", prompt |-> Text, credentials |-> {}, schema |-> {}]
NoCondition == [op |-> "none", funcs |-> {}, refs |-> {}, value |-> ""]

Agent(prompt, schema) ==
  [on |-> TRUE, agent |-> "", prompt |-> prompt, credentials |-> {}, schema |-> schema]
Action(type, config) ==
  [on |-> TRUE, type |-> type, config |-> config, credentials |-> {"GITHUB_TOKEN"}]

Blank == [id |-> "a", dependsOn |-> {}, optional |-> FALSE, execution |-> Agent(Text, {}),
          action |-> NoAction, condition |-> NoCondition, repositories |-> Text,
          pullRequest |-> Text, image |-> FALSE, group |-> FALSE]

At(id, deps) == [Blank EXCEPT !.id = id, !.dependsOn = deps]
Acting(id, deps, action) == [At(id, deps) EXCEPT !.execution = NoExecution, !.action = action]

Of(parameters, steps) == [parameters |-> parameters, steps |-> steps]
NoParams == <<>>

\* Every graph over a and b and a dangling name, also with an id missing,
\* malformed or given twice; every graph over a, b and c without self loops.
GraphDefs ==
  {Of(NoParams, <<At(i, d), At(j, e)>>) :
     i \in {"a", "B?"}, j \in {"a", "b", "", "B?"},
     d \in SUBSET {"a", "b", "ghost"}, e \in SUBSET {"a", "b", "B?"}}
  \cup
  {Of(NoParams, <<At("a", d), At("b", e), At("c", f)>>) :
     d \in SUBSET {"b", "c"}, e \in SUBSET {"a", "c"}, f \in SUBSET {"a", "b"}}

FetchPR == Action("github_fetch_pr",
  [repo_url |-> [kind |-> "text"], pr_number |-> [kind |-> "int"]])

Ref(name, field, key, form) ==
  [root |-> "Steps", name |-> name, field |-> field, key |-> key, form |-> form,
   place |-> "action", toJSON |-> FALSE]
ParamRef(name, form, place, toJSON) ==
  [root |-> "Params", name |-> name, field |-> "", key |-> "", form |-> form,
   place |-> place, toJSON |-> toJSON]

StepRefSet ==
  {Ref(n, f, "", "field") : n \in {"a", "c", "ghost"}, f \in {"Status", "Typo", ""}}
  \cup {Ref(n, "Output", k, form) : n \in {"a", "b"}, k \in {"title", "nothing"},
                                    form \in {"field", "variable"}}
Prompts == {Calling(fs, {r}) : fs \in {{}, {"default"}, {"eq"}, {"nosuch"}}, r \in StepRefSet}

\* a (fetches) -> b (an agent, perhaps conditional) -> c, which reads.
ChainDefs ==
  {Of(NoParams,
      <<[Acting("a", {}, FetchPR) EXCEPT !.optional = oa],
        [At("b", {"a"}) EXCEPT !.optional = ob, !.condition = c, !.execution = Agent(Text, {"title"})],
        [At("c", dc) EXCEPT !.optional = oc, !.execution = Agent(t, {})]>>) :
     oa \in BOOLEAN, ob \in BOOLEAN, oc \in BOOLEAN, t \in Prompts, dc \in {{"b"}, {"a"}},
     c \in {NoCondition,
            [op |-> "eq", funcs |-> {"eq"}, value |-> "complete",
             refs |-> {[Ref("a", "status", "", "field") EXCEPT !.root = "steps"]}]}}

Kinds == {"text", "blank", "int", "zero", "fraction", "bool", "list", "emptylist"}
Values == {[kind |-> k] : k \in Kinds}
            \cup {[kind |-> "template", tmpl |-> [Text EXCEPT !.renders = r]] :
                    r \in {"text", "blank", "number"}}

Good(f) == [kind |-> CASE f[2] = "string" -> "text" [] f[2] = "int" -> "int"
                       [] f[2] = "bool" -> "bool" [] f[2] = "array" -> "list"]
GoodConfig(type) ==
  [k \in {f[1] : f \in Contracts[type].in.required} |->
     Good(CHOOSE f \in Contracts[type].in.required : f[1] = k)]

ConfigsOf(type) ==
  LET good == GoodConfig(type) IN
  {[k \in DOMAIN good \ {x} |-> good[k]] : x \in DOMAIN good \cup {"none"}}
  \cup {[good EXCEPT ![x] = v] : x \in DOMAIN good, v \in Values}
  \cup {good @@ (x :> [kind |-> "text"]) : x \in {"labels", "summary", "extra"} \ DOMAIN good}

ActionDefs ==
  UNION {{Of(NoParams, <<Acting("a", {}, Action(type, c))>>) : c \in ConfigsOf(type)} :
         type \in ActionTypes}
  \cup {Of(NoParams, <<Acting("a", {}, [Action(type, GoodConfig(type)) EXCEPT !.credentials = cs])>>) :
          type \in ActionTypes, cs \in {{}, {"OTHER"}, {"MISSING"}}}

Parameter(type, required, default) == [type |-> type, required |-> required, default |-> default]

\* Parameters, conditions, repositories, pull requests, agents, groups.
OtherDefs ==
  {Of([p |-> Parameter(t, q, d)],
      <<[At("a", {}) EXCEPT !.execution = Agent(Calling({}, {ParamRef(n, form, "action", FALSE)}), {})]>>) :
     t \in {"string", "int", "json"}, q \in BOOLEAN, d \in {"none", "string", "whole"},
     n \in {"p", "q"}, form \in {"field", "index"}}
  \cup
  {Of([p |-> Parameter("json", TRUE, "none")],
      <<[At("a", {}) EXCEPT !.repositories = Calling({}, {ParamRef("p", "field", place, j)})]>>) :
     place \in {"action", "control", "parenthesised"}, j \in BOOLEAN}
  \cup
  {Of([p |-> Parameter("string", FALSE, "none")],
      <<At("a", {}),
        [At("b", {"a"}) EXCEPT !.condition = [op |-> o, funcs |-> fs, refs |-> {r}, value |-> "given"],
                               !.optional = q]>>) :
     o \in {"eq", "ne", "text"}, fs \in {{}, {"toJSON"}}, q \in BOOLEAN,
     r \in {[ParamRef(n, "field", "action", FALSE) EXCEPT !.root = root] :
              n \in {"p", "q"}, root \in {"params", "Params"}}}
  \cup
  {Of(NoParams, <<[At("a", {}) EXCEPT !.execution.on = e, !.image = g, !.group = g,
                                      !.execution.agent = ag, !.execution.credentials = cs,
                                      !.pullRequest = Calling({}, {Ref("ghost", "Status", "", "field")})]>>) :
     e \in BOOLEAN, g \in BOOLEAN, ag \in {"", "cobol"}, cs \in {{}, {"PATH"}, {"lower"}}}

AllDefinitions == GraphDefs \cup ChainDefs \cup ActionDefs \cup OtherDefs
AllRequests == {<<>>, [p |-> "string"], [p |-> "object"], [p |-> "null"]}
=============================================================================
