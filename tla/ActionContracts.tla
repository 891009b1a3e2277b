--------------------------- MODULE ActionContracts ---------------------------
(***************************************************************************)
(* The contracts of the built-in actions (internal/model/action_contract.go)*)
(* and what the actions themselves ask of their configuration and put into *)
(* their result (internal/activity/actions.go).  The two are written in    *)
(* different files and nothing in the program compares them.               *)
(*                                                                         *)
(* A configuration value is its kind: "text", "blank" (an empty string),   *)
(* "int", "zero", "fraction", "bool", "list" (with a string in it),        *)
(* "emptylist", or "template" (a string with an expression in it).         *)
(***************************************************************************)
EXTENDS Naturals, FiniteSets

Inputs(required, optional) == [required |-> required, optional |-> optional]
Outputs(required, optional) == [always |-> required, sometimes |-> optional]

\* DefaultActionRegistry: an input or output field is <<name, type>>.
Contracts ==
  [slack_notify |->
     [in  |-> Inputs({<<"channel", "string">>, <<"message", "string">>}, {<<"thread_ts", "string">>}),
      out |-> Outputs({"status", "channel"}, {})],
   github_pr_review |->
     [in  |-> Inputs({<<"repo_url", "string">>, <<"pr_number", "int">>, <<"summary", "string">>}, {}),
      out |-> Outputs({"status"}, {"review_id", "reason"})],
   github_label |->
     [in  |-> Inputs({<<"repo_url", "string">>, <<"issue_number", "int">>, <<"labels", "array">>}, {}),
      out |-> Outputs({"status", "labels"}, {})],
   github_comment |->
     [in  |-> Inputs({<<"repo_url", "string">>, <<"issue_number", "int">>, <<"body", "string">>}, {}),
      out |-> Outputs({"status", "comment_id"}, {})],
   create_pr |->
     [in  |-> Inputs({<<"title", "string">>}, {<<"branch_prefix", "string">>, <<"draft", "bool">>}),
      out |-> Outputs({"status"}, {})],
   github_fetch_pr |->
     [in  |-> Inputs({<<"repo_url", "string">>, <<"pr_number", "int">>}, {}),
      out |-> Outputs({"diff", "title", "base_branch", "changed_files", "additions", "deletions"}, {})],
   github_pr_review_inline |->
     [in  |-> Inputs({<<"repo_url", "string">>, <<"pr_number", "int">>, <<"annotations", "string">>},
                     {<<"commit_id", "string">>}),
      out |-> Outputs({"posted", "skipped"}, {"skipped_details"})],
   github_update_comment |->
     [in  |-> Inputs({<<"repo_url", "string">>, <<"comment_id", "int">>, <<"body", "string">>}, {}),
      out |-> Outputs({"status", "comment_id"}, {})]]

ActionTypes == DOMAIN Contracts

Known(type) == Contracts[type].in.required \cup Contracts[type].in.optional

Declares(type, key) == key \in Contracts[type].out.always \cup Contracts[type].out.sometimes

\* Mutant of FieldTypeOK: a number may be written as a string.
FieldTypeOKText(type, kind) ==
  CASE type = "string" -> kind \in {"text", "blank"}
    [] type = "int"    -> kind \in {"int", "zero", "text"}
    [] type = "bool"   -> kind = "bool"
    [] type = "array"  -> kind \in {"list", "emptylist"}

\* checkFieldType, on a value that is not a template expression.
FieldTypeOK(type, kind) ==
  CASE type = "string" -> kind \in {"text", "blank"}
    [] type = "int"    -> kind \in {"int", "zero"}
    [] type = "bool"   -> kind = "bool"
    [] type = "array"  -> kind \in {"list", "emptylist"}

\* ActionRegistry.ValidateConfig
ConfigErrors(type, config) ==
  {<<"unknown config key", k>> : k \in {k \in DOMAIN config : \A f \in Known(type) : f[1] # k}}
  \cup
  {<<"required config key is missing", f[1]>> :
     f \in {f \in Contracts[type].in.required : f[1] \notin DOMAIN config}}
  \cup
  {<<"config key of wrong type", f[1]>> :
     f \in {f \in Known(type) : /\ f[1] \in DOMAIN config
                                /\ config[f[1]] # "template"
                                /\ ~FieldTypeOK(f[2], config[f[1]])}}

-----------------------------------------------------------------------------
(* The actions.                                                            *)

\* The keys an action refuses to work without, and how it reads each.
Demands ==
  [slack_notify            |-> [text |-> {"channel", "message"}, int |-> {},              list |-> {}],
   github_pr_review        |-> [text |-> {"repo_url"},           int |-> {"pr_number"},    list |-> {}],
   github_label            |-> [text |-> {"repo_url"},           int |-> {"issue_number"}, list |-> {"labels"}],
   github_comment          |-> [text |-> {"repo_url", "body"},   int |-> {"issue_number"}, list |-> {}],
   create_pr               |-> [text |-> {},                     int |-> {},              list |-> {}],
   github_fetch_pr         |-> [text |-> {"repo_url"},           int |-> {"pr_number"},    list |-> {}],
   github_pr_review_inline |-> [text |-> {"repo_url"},           int |-> {"pr_number"},    list |-> {}],
   github_update_comment   |-> [text |-> {"repo_url", "body"},   int |-> {"comment_id"},   list |-> {}]]

Given(config, key, kinds) == key \in DOMAIN config /\ config[key] \in kinds

\* The `missing ...' checks; toInt64 reads the digits of a rendered template
\* ("number"), toStringSlice splits a string.
ConfigUsable(type, config) ==
  /\ \A k \in Demands[type].text : Given(config, k, {"text", "number"})
  /\ \A k \in Demands[type].int  : Given(config, k, {"int", "number"})
  /\ \A k \in Demands[type].list : Given(config, k, {"list", "text", "number"})

NeedsToken(type) == type \notin {"slack_notify", "create_pr"}

\* What a successful action returns; a review without a summary is not posted.
Result(type, skipped) ==
  CASE type = "slack_notify"            -> {"status", "channel"}
    [] type = "github_pr_review"        -> IF skipped THEN {"status", "reason"} ELSE {"status", "review_id"}
    [] type = "github_label"            -> {"status", "labels"}
    [] type = "github_comment"          -> {"status", "comment_id"}
    [] type = "create_pr"               -> {"status"}
    [] type = "github_fetch_pr"         -> {"diff", "title", "base_branch", "changed_files", "additions", "deletions"}
    [] type = "github_pr_review_inline" -> {"posted", "skipped", "skipped_details"}
    [] type = "github_update_comment"   -> {"status", "comment_id"}

\* The calls that leave something new behind at every repetition.
Posts(type) == type \in {"slack_notify", "github_pr_review", "github_comment", "github_pr_review_inline"}
=============================================================================
