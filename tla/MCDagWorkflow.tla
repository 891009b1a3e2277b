---------------------------- MODULE MCDagWorkflow ----------------------------
(***************************************************************************)
(* Workflow definitions for model checking DagWorkflow.                    *)
(***************************************************************************)
EXTENDS DagWorkflow

NoGroups     == [s \in Steps |-> NoGroup]

Workflow(dependsOn, optional, action, conditional, group) ==
  [dependsOn |-> dependsOn, optional |-> optional, action |-> action,
   conditional |-> conditional, group |-> group]

\* 1 -> 2 -> 3, and 1 -> 3
Ladder  == << {}, {1}, {1, 2} >>
Pair    == << {}, {} , {1, 2} >>

\* Two steps share a sandbox, a third has its own.
GroupDefinitions ==
  { Workflow(Ladder, optional, {}, {2}, <<1, 1, 2>>) : optional \in {{}, {2}, {3}} }
  \cup { Workflow(Pair, optional, {}, {}, <<1, 1, 2>>) : optional \in {{}, {1}} }

\* Every acyclic dependency relation on three steps whose edges go upwards and
\* leave no step alone, with every choice of the optional steps.
Upward(dep) == \A s \in Steps : \A d \in dep[s] : d < s
Connected(dep) == \A s \in Steps : dep[s] # {} \/ \E t \in Steps : s \in dep[t]
AllDefinitions ==
  { Workflow(dep, optional, {3}, {2}, NoGroups) :
      dep \in {f \in [Steps -> SUBSET Steps] : Upward(f) /\ Connected(f)},
      optional \in SUBSET Steps }

\* What ValidateWorkflow would reject: 2 and 3 wait for each other.
CyclicDefinitions == { Workflow(<< {}, {3}, {2} >>, optional, {}, {1}, NoGroups) : optional \in {{}, {1}} }

SmallDefinitions == AllDefinitions \cup GroupDefinitions \cup CyclicDefinitions
=============================================================================
