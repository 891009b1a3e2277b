---------------------------- MODULE StepContract ----------------------------
(***************************************************************************)
(* What DAGWorkflow relies on about the child StepWorkflow of one step:    *)
(* how the step_runs row and the child's outcome may change, and what a    *)
(* write that is lost has to do with it.  StepWorkflow implements it, and  *)
(* the children of DagWorkflow are instances of it: whatever it allows, a  *)
(* child there may do.                                                     *)
(***************************************************************************)
EXTENDS Naturals

VARIABLES row,    \* step_runs.status
          child,  \* "running", "cancelling", and how it closed
          lost    \* how many writes have failed on all their attempts

vars == <<row, child, lost>>

Unfinished == {"pending", "running", "awaiting_input"}
Open       == child \in {"running", "cancelling"}

LosesWrite == lost' = lost + 1

Init == row = "pending" /\ child = "running" /\ lost \in Nat

Work ==
  /\ Open /\ row \in Unfinished /\ row' \in {"running", "awaiting_input"}
  /\ UNCHANGED <<child, lost>>

\* A write that is lost leaves the row as it was.
Lose == LosesWrite /\ UNCHANGED <<row, child>>

\* Success is only reported with the row written; a failure leaves the row as
\* it is when that write is lost.
Complete ==
  /\ Open /\ row \in Unfinished
  /\ row' = "complete" /\ child' = "complete" /\ UNCHANGED lost
Fail ==
  /\ Open /\ row \in Unfinished /\ child' = "failed"
  /\ \/ row' = "failed" /\ UNCHANGED lost
     \/ LosesWrite /\ UNCHANGED row

\* The parent asks for cancellation, and terminates what is open when it closes.
Cancel    == child = "running" /\ child' = "cancelling" /\ UNCHANGED <<row, lost>>
Terminate == Open /\ child' = "terminated" /\ UNCHANGED <<row, lost>>

\* A child that ends for the cancellation reports an error, whatever its last
\* write was; its row may be left as it is.
Cancelled ==
  /\ child = "cancelling" /\ child' = "cancelled"
  /\ \/ row' \in {row, "complete", "failed"} /\ UNCHANGED lost
     \/ LosesWrite /\ UNCHANGED row

\* The attempt a cancelled child left behind.
Straggle ==
  /\ child \in {"cancelling", "cancelled", "terminated"}
  /\ row' = "running" /\ UNCHANGED <<child, lost>>

\* A request_input that found the row unfinished writes it without looking
\* again, when the child has closed as well.
LateRequest == row' = "awaiting_input" /\ UNCHANGED <<child, lost>>

Next ==
  \/ Work \/ Lose \/ Complete \/ Fail \/ Cancel \/ Terminate
  \/ Cancelled \/ Straggle \/ LateRequest

Spec == Init /\ [][Next]_vars
=============================================================================
