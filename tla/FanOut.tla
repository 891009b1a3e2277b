------------------------------- MODULE FanOut -------------------------------
(***************************************************************************)
(* The fan-out of steps to several repositories (internal/workflow/dag.go, *)
(* the part of a step's goroutine after the single-repository case, and    *)
(* the dispatcher of fan_out_resolve signals), with the ResolveFanOut      *)
(* handler (internal/server/handlers/runs.go).                             *)
(*                                                                         *)
(* The steps run side by side in one batch.  Each starts one child per     *)
(* repository; when some fail and some do not, it raises an inbox item and *)
(* waits for a person's decision or for 48 hours.  Signals arrive in one   *)
(* channel; a dispatcher goroutine takes them in order and hands each to   *)
(* its step's own channel, which has no buffer: the dispatcher waits until *)
(* the step receives.  The children are reduced to their outcome, and the  *)
(* cancellation of the run is in DagWorkflow.                              *)
(***************************************************************************)
EXTENDS Naturals, Sequences, FiniteSets, Functions

CONSTANTS Steps, Repos,
          OtherStep,     \* the id of a step that does not fan out
          MaxResolves,   \* bound: calls of ResolveFanOut
          Repeats,       \* TRUE: a person may resolve a step more than once
          MaxLostWrites  \* bound: inbox writes that fail on every attempt

ASSUME BoundsAssumption ==
  MaxResolves \in Nat /\ MaxLostWrites \in Nat /\ Repeats \in BOOLEAN

ASSUME StepsAssumption == OtherStep \notin Steps /\ IsFiniteSet(Repos)

VARIABLES
  phase,       \* the goroutine of each step
  children,    \* the children of each step
  outcome,     \* the result of each step
  resolveCh,   \* the signal channel of the run
  dispatching, \* what the dispatcher is sending, a sequence of at most one payload
  items,       \* the fan_out_partial_failure item of each step
  resolved,    \* for each id the actions people sent, as they sent them
  calls,       \* the calls that have signalled and not yet marked: <<s, n>> sent the n-th action for s
  closedBy,    \* the call that answered the item of each step, if one has
  timedOut,    \* steps whose timer fired
  lost

vars == <<phase, children, outcome, resolveCh, dispatching, items, calls, closedBy,
          resolved, timedOut, lost>>

Actions == {"proceed", "terminate"}

Init ==
  /\ phase = [s \in Steps |-> "fanning"]
  /\ children = [s \in Steps |-> [r \in Repos |-> "creating"]]
  /\ outcome = [s \in Steps |-> "none"]
  /\ resolveCh = <<>> /\ dispatching = <<>>
  /\ items = [s \in Steps |-> "none"]
  /\ calls = {} /\ closedBy = [s \in Steps |-> {}]
  /\ resolved = [s \in Steps \cup {OtherStep} |-> <<>>]
  /\ timedOut = {}
  /\ lost = 0

-----------------------------------------------------------------------------
(* The step's goroutine.                                                   *)

\* One goroutine per repository creates a row and starts the child; there is
\* no limit on how many do.  The row may fail to be created.
StartChild(s, r) ==
  /\ children[s][r] = "creating"
  /\ \E state \in {"running", "failed"} : children' = [children EXCEPT ![s][r] = state]
  /\ UNCHANGED <<phase, outcome, resolveCh, dispatching, items, calls, closedBy, resolved, timedOut, lost>>

EndChild(s, r) ==
  /\ children[s][r] = "running"
  /\ \E state \in {"complete", "failed"} : children' = [children EXCEPT ![s][r] = state]
  /\ UNCHANGED <<phase, outcome, resolveCh, dispatching, items, calls, closedBy, resolved, timedOut, lost>>

Some(s, state) == \E r \in Repos : children[s][r] = state

Settle(s, result) ==
  /\ phase'   = [phase EXCEPT ![s] = "done"]
  /\ outcome' = [outcome EXCEPT ![s] = result]

\* fanWg.Wait, then aggregateFanOut unless the failure is partial.
Join(s) ==
  /\ phase[s] = "fanning" /\ ~Some(s, "creating") /\ ~Some(s, "running")
  /\ IF Some(s, "complete") /\ Some(s, "failed")
     THEN phase' = [phase EXCEPT ![s] = "raising"] /\ UNCHANGED outcome
     ELSE Settle(s, IF Some(s, "failed") THEN "failed" ELSE "complete")
  /\ UNCHANGED <<children, resolveCh, dispatching, items, calls, closedBy, resolved, timedOut, lost>>

\* CreateInboxItem; its error is logged and the step waits all the same.
RaiseItem(s) ==
  /\ phase[s] = "raising" /\ phase' = [phase EXCEPT ![s] = "deciding"]
  /\ \/ items' = [items EXCEPT ![s] = "open"] /\ UNCHANGED lost
     \/ lost < MaxLostWrites /\ lost' = lost + 1 /\ UNCHANGED items
  /\ UNCHANGED <<children, outcome, resolveCh, dispatching, calls, closedBy, resolved, timedOut>>

\* Mutants of Decide.
DecideForAnyStep(s) ==
  /\ phase[s] = "deciding" /\ dispatching # <<>>
  /\ dispatching' = <<>>
  /\ Settle(s, IF Head(dispatching).action = "terminate" THEN "failed" ELSE "complete")
  /\ UNCHANGED <<children, resolveCh, items, calls, closedBy, resolved, timedOut, lost>>

DecideOnTerminate(s) ==
  /\ phase[s] = "deciding" /\ dispatching # <<>> /\ Head(dispatching).step = s
  /\ dispatching' = <<>>
  /\ IF Head(dispatching).action = "terminate" THEN Settle(s, "failed")
     ELSE UNCHANGED <<phase, outcome>>
  /\ UNCHANGED <<children, resolveCh, items, calls, closedBy, resolved, timedOut, lost>>

\* The decision: anything but terminate aggregates the repositories that did
\* not fail.
Decide(s) ==
  /\ phase[s] = "deciding" /\ dispatching # <<>> /\ Head(dispatching).step = s
  /\ dispatching' = <<>>
  /\ Settle(s, IF Head(dispatching).action = "terminate" THEN "failed" ELSE "complete")
  /\ UNCHANGED <<children, resolveCh, items, calls, closedBy, resolved, timedOut, lost>>

TimeOut(s) ==
  /\ phase[s] = "deciding" /\ Settle(s, "failed") /\ timedOut' = timedOut \cup {s}
  /\ UNCHANGED <<children, resolveCh, dispatching, items, calls, closedBy, resolved, lost>>

-----------------------------------------------------------------------------
(* The dispatcher goroutine and the handler.                               *)

\* A payload for a step that has no channel is logged and dropped.
Dispatch ==
  /\ dispatching = <<>> /\ resolveCh # <<>>
  /\ dispatching' = IF Head(resolveCh).step \in Steps THEN <<Head(resolveCh)>> ELSE <<>>
  /\ resolveCh' = Tail(resolveCh)
  /\ UNCHANGED <<phase, children, outcome, items, calls, closedBy, resolved, timedOut, lost>>

Resolves == FoldFunction(LAMBDA actions, n : Len(actions) + n, 0, resolved)

\* ResolveFanOut, first half: signal.  A person answers an item; the handler
\* itself checks neither the item nor the step.
ResolveSignal(s, action) ==
  /\ s \in Steps => items[s] # "none"
  /\ \/ Repeats
     \/ s \in Steps /\ items[s] = "open" /\ resolved[s] = <<>>
  /\ Resolves < MaxResolves
  /\ \E t \in Steps : phase[t] # "done"          \* else the signal is refused
  /\ resolveCh' = Append(resolveCh, [step |-> s, action |-> action])
  /\ calls' = calls \cup {<<s, Len(resolved[s]) + 1>>}
  /\ resolved' = [resolved EXCEPT ![s] = Append(@, action)]
  /\ UNCHANGED <<phase, children, outcome, dispatching, items, closedBy, timedOut, lost>>

\* The call answers the questions that are open, among these.
Answer(call, questions) ==
  /\ items' = [s \in Steps |-> IF items[s] = "open" /\ s \in questions THEN "answered" ELSE items[s]]
  /\ closedBy' = [s \in Steps |-> IF items[s] = "open" /\ s \in questions THEN {call} ELSE closedBy[s]]

\* Mutant of ResolveMark: it answers one item of the run.
ResolveMarkOne(call) ==
  /\ call \in calls /\ calls' = calls \ {call}
  /\ \E s \in Steps : Answer(call, {s})
  /\ UNCHANGED <<phase, children, outcome, resolveCh, dispatching, resolved, timedOut, lost>>

\* Second half: mark the items of the run that have no answer, whichever step
\* they are about; an error is logged.
ResolveMark(call) ==
  /\ call \in calls /\ calls' = calls \ {call}
  /\ \/ Answer(call, Steps) /\ UNCHANGED lost
     \/ lost < MaxLostWrites /\ lost' = lost + 1 /\ UNCHANGED <<items, closedBy>>
  /\ UNCHANGED <<phase, children, outcome, resolveCh, dispatching, resolved, timedOut>>

StepNext(s) ==
  \/ \E r \in Repos : StartChild(s, r) \/ EndChild(s, r)
  \/ Join(s) \/ RaiseItem(s) \/ Decide(s)

Next ==
  \/ \E s \in Steps : StepNext(s) \/ TimeOut(s)
  \/ Dispatch
  \/ \E s \in Steps \cup {OtherStep}, action \in Actions : ResolveSignal(s, action)
  \/ \E call \in calls : ResolveMark(call)

Spec == Init /\ [][Next]_vars

\* The engine runs the goroutines and the server its handlers.  The timer is
\* 48 hours away: nothing may depend on it.
Fairness ==
  /\ \A s \in Steps : WF_vars(StepNext(s))
  /\ WF_vars(Dispatch) /\ WF_vars(\E call \in calls : ResolveMark(call))

FairSpec == Spec /\ Fairness

-----------------------------------------------------------------------------
(* Properties.                                                             *)

Chose(s, action) == \E i \in DOMAIN resolved[s] : resolved[s][i] = action

\* A partial failure is never decided by the code alone: the step is complete
\* only if a person said proceed for that very step, and failed only if one
\* said terminate for it or nobody's decision arrived in time; while a step
\* with one kind of result never asks.
PartialFailureIsDecidedByAPerson ==
  \A s \in Steps : phase[s] = "done" =>
    IF Some(s, "complete") /\ Some(s, "failed")
    THEN \/ outcome[s] = "complete" /\ Chose(s, "proceed")
         \/ outcome[s] = "failed" /\ (Chose(s, "terminate") \/ s \in timedOut)
    ELSE items[s] = "none" /\ outcome[s] = (IF Some(s, "failed") THEN "failed" ELSE "complete")

\* What the dispatcher holds is for a step that no longer waits for it, nor ever
\* will: its timer fired, or it had no partial failure or an earlier decision.
Stuck == dispatching # <<>> /\ phase[Head(dispatching).step] = "done"

\* A decision a person sent for a waiting step reaches it, whatever else was
\* sent and however the steps' decisions interleave in the one signal channel,
\* unless the dispatcher is stuck.
DecisionIsHeardUnlessStuck ==
  \A s \in Steps : (phase[s] = "deciding" /\ resolved[s] # <<>>) ~> (phase[s] = "done" \/ Stuck)

\* The inbox and the steps tell the same story, although the handler signals
\* first and then marks the items of the whole run:
\*  - a step that waits has its question open until somebody decides for it,
\*    unless a decision for another step closed it (runs.go:575);
\*  - when a step ends by a decision its question does not stay open behind it,
\*    once the handlers for that step are through;
\*  - an answer given for the step is what the step did, unless people sent
\*    different decisions for it.
\* Writes that were lost are excepted.
QuestionFollowsItsStep ==
  lost = 0 => \A s \in Steps :
    /\ phase[s] = "deciding" /\ resolved[s] = <<>>
         => items[s] = "open" \/ \E call \in closedBy[s] : call[1] # s
    /\ phase[s] = "done" /\ items[s] = "open"
         => s \in timedOut \/ \E call \in calls : call[1] = s
    /\ phase[s] = "done" /\ s \notin timedOut /\ ~(Chose(s, "proceed") /\ Chose(s, "terminate"))
         => \A call \in closedBy[s] : call[1] = s =>
              outcome[s] = (IF resolved[s][call[2]] = "proceed" THEN "complete" ELSE "failed")

-----------------------------------------------------------------------------
(* A statement of the comments that the code does not keep.                *)

\* dag.go:190-192: concurrent steps "each receive only their own signal", and
\* runs.go:580, "signal already sent; workflow will proceed correctly": a
\* decision a person sent for a waiting step reaches it.
DecisionIsHeard ==
  \A s \in Steps : (phase[s] = "deciding" /\ resolved[s] # <<>>) ~> phase[s] = "done"

-----------------------------------------------------------------------------
(***************************************************************************)
(* The inductive invariant that the theorems of FanOut_proofs rest on.     *)
(***************************************************************************)

Ids     == Steps \cup {OtherStep}
Payload == [step : Ids, action : Actions]

TypeOK ==
  /\ phase \in [Steps -> {"fanning", "raising", "deciding", "done"}]
  /\ children \in [Steps -> [Repos -> {"creating", "running", "complete", "failed"}]]
  /\ outcome \in [Steps -> {"none", "complete", "failed"}]
  /\ resolveCh \in Seq(Payload) /\ dispatching \in Seq(Payload)
  /\ items \in [Steps -> {"none", "open", "answered"}]
  /\ calls \subseteq Ids \X Nat /\ closedBy \in [Steps -> SUBSET (Ids \X Nat)]
  /\ resolved \in [Ids -> Seq(Actions)]
  /\ timedOut \subseteq Steps /\ lost \in 0..MaxLostWrites

\* What travels to a step was chosen by a person, and so was what a handler
\* marks or has marked.
SignalsWereChosen ==
  /\ \A i \in DOMAIN resolveCh : Chose(resolveCh[i].step, resolveCh[i].action)
  /\ \A i \in DOMAIN dispatching : Chose(dispatching[i].step, dispatching[i].action)
  /\ \A call \in calls : call[2] \in DOMAIN resolved[call[1]]
  /\ \A s \in Steps : \A call \in closedBy[s] : call[2] \in DOMAIN resolved[call[1]]

Partial(s) == Some(s, "complete") /\ Some(s, "failed")

\* A step leaves its fan-out when all its children have ended, and asks only
\* about a partial failure.
PhasesFollowChildren ==
  \A s \in Steps :
    /\ phase[s] # "fanning" => ~Some(s, "creating") /\ ~Some(s, "running")
    /\ phase[s] \in {"raising", "deciding"} => Partial(s)
    /\ phase[s] \in {"fanning", "raising"} => items[s] = "none"

\* An item is missing after a lost write only; people decide for questions that
\* were raised, a decision whose question is open has still to be marked, and an
\* answered item names the call that closed it.
ItemsHaveACause ==
  \A s \in Steps :
    /\ phase[s] = "deciding" /\ lost = 0 => items[s] # "none"
    /\ items[s] = "none" => resolved[s] = <<>>
    /\ items[s] = "open" /\ resolved[s] # <<>> /\ lost = 0 => \E call \in calls : call[1] = s
    /\ items[s] = "answered" => closedBy[s] # {}

IInv ==
  /\ TypeOK /\ SignalsWereChosen /\ PhasesFollowChildren /\ ItemsHaveACause
  /\ PartialFailureIsDecidedByAPerson
=============================================================================
