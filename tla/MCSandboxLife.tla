---------------------------- MODULE MCSandboxLife ----------------------------
(* Two steps in one sandbox and one repository; profiles with a plugin, an  *)
(* MCP and a skill.                                                         *)
EXTENDS SandboxLife

Entry(key, version, kind) == [key |-> key, version |-> version, kind |-> kind]

TwoSteps == <<"s1", "s2">>
OneStep  == <<"s1">>

OneRepository == [s \in Steps |-> "repository"]

BuiltinBody == <<Entry("p", "v1", "plugin"), Entry("m", "v1", "mcp")>>

TwoBodies ==
  {BuiltinBody,
   <<Entry("q", "v1", "plugin"), Entry("k", "v1", "skill"), Entry("m", "v3", "mcp"), Entry("m", "v2", "mcp")>>}
=============================================================================
