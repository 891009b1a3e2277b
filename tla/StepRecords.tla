----------------------------- MODULE StepRecords -----------------------------
(***************************************************************************)
(* What the steps of one run that execute side by side write into the      *)
(* tables they share: the rows of step_runs (activity/status.go), the      *)
(* questions of their agents and people's answers (handlers/mcp.go,        *)
(* handlers/inbox.go), and the lines of their logs (activity/execute.go).  *)
(* An agent's token names the run, not the step: the server finds the row  *)
(* by its status.                                                          *)
(*                                                                         *)
(* Faults, MaxFaults of them: the acknowledgement of an insert is lost, an *)
(* attempt of ExecuteStep dies, an insert of log lines fails, a request of *)
(* an agent fails half way, the signal of an answer is lost.               *)
(***************************************************************************)
EXTENDS Naturals, Sequences, FiniteSets, SequencesExt, FiniteSetsExt

CONSTANTS Steps,
          Loud,       \* the steps whose agents write lines
          MaxLines,   \* lines of one attempt
          MaxAsked,   \* questions in the inbox
          MaxFaults

VARIABLES rows,     \* step_runs of the run and their logs, in the order of created_at
          inbox,    \* request_input items, in the order of created_at
          step,     \* step -> its workflow and its activity
          ask,      \* step -> the request of its agent that the server handles, and what the agent was told
          queue,    \* step -> answers on its respond channel
                  faults

vars == <<rows, inbox, step, ask, queue, faults>>

MaxAttempts == 2
Fault == faults < MaxFaults /\ faults' = faults + 1
NoFault == UNCHANGED faults

Terminal == {"complete", "failed", "skipped"}
Finished(r) == rows[r].status \in Terminal
SetStatus(r, status) == [rows EXCEPT ![r].status = status]
Row(s, kind) == [step |-> s, kind |-> kind, status |-> "pending", log |-> <<>>]

-----------------------------------------------------------------------------
(* The rows and the activity of a step.                                    *)

\* CreateStepRun inserts under a fresh id, so that a retry inserts again; the
\* workflow knows the row whose insert was acknowledged.
CreateStepRun(s) ==
  /\ step[s].pc = "new"
  /\ \/ rows' = Append(rows, Row(s, "own")) /\ NoFault
     \/ rows' = rows \o <<Row(s, "own"), Row(s, "own")>> /\ Fault
  /\ step' = [step EXCEPT ![s] = [@ EXCEPT !.pc = "begin", !.row = Len(rows'), !.own = Len(rows')]]
  /\ UNCHANGED <<inbox, ask, queue>>

\* Mutant of Insert: the last writer of a number wins.
InsertOver(log, lines) ==
  SelectSeq(log, LAMBDA l : \A k \in DOMAIN lines : lines[k].seq # l.seq) \o lines

\* ON CONFLICT (step_run_id, seq) DO NOTHING, line by line.
Insert(log, lines) ==
  FoldLeft(LAMBDA done, l : IF \E k \in DOMAIN done : done[k].seq = l.seq THEN done ELSE Append(done, l), log, lines)

\* An attempt starts to number its lines at 0.  A retry announces itself, and
\* the row is running again whatever it was.
BeginAttempt(s) ==
  /\ step[s].pc = "begin"
  /\ LET r == step[s].row
         banner == IF step[s].attempt = 1 THEN <<>> ELSE <<[seq |-> 0, attempt |-> step[s].attempt]>>
     IN /\ rows' = [rows EXCEPT ![r] = [@ EXCEPT !.log = Insert(rows[r].log, banner), !.status = "running"]]
        /\ step' = [step EXCEPT ![s] = [@ EXCEPT !.pc = "running", !.seq = Len(banner), !.buffer = <<>>]]
  /\ UNCHANGED <<inbox, ask, queue, faults>>

\* buf.add: a line of the agent.
Line(s) ==
  /\ s \in Loud /\ step[s].pc = "running" /\ step[s].seq < MaxLines
  /\ LET line == [seq |-> step[s].seq, attempt |-> step[s].attempt]
     IN step' = [step EXCEPT ![s] = [@ EXCEPT !.buffer = Append(step[s].buffer, line), !.seq = step[s].seq + 1]]
  /\ UNCHANGED <<rows, inbox, ask, queue, faults>>

\* buf.flush: after a second or at the threshold; what fails is dropped.
Flush(s) ==
  /\ step[s].pc = "running" /\ step[s].buffer # <<>>
  /\ \/ /\ rows' = [rows EXCEPT ![step[s].row].log = Insert(@, step[s].buffer)] /\ NoFault
        /\ step' = [step EXCEPT ![s].buffer = <<>>]
     \/ /\ UNCHANGED rows /\ Fault
        /\ step' = [step EXCEPT ![s] = [@ EXCEPT !.buffer = <<>>, !.lost = TRUE]]
  /\ UNCHANGED <<inbox, ask, queue>>

\* The items about a row; the newest is the question ExecuteStep reports.
ItemsOf(r) == {i \in DOMAIN inbox : inbox[i].row = r}

\* The agent is done, its lines are flushed, and the row's status says whether
\* the workflow has to wait.  A continuation must not.
AgentEnds(s) ==
  /\ step[s].pc = "running" /\ step[s].buffer = <<>>
  /\ LET r == step[s].row
         awaiting == rows[r].status = "awaiting_input"
     IN \/ /\ awaiting /\ rows[r].kind = "own"
           /\ LET newest == IF ItemsOf(r) = {} THEN 0 ELSE Max(ItemsOf(r))
              IN step' = [step EXCEPT ![s] = [@ EXCEPT !.pc = "waiting", !.question = newest]]
           /\ UNCHANGED rows
        \/ /\ ~awaiting \/ rows[r].kind = "continuation"
           /\ step' = [step EXCEPT ![s].pc = "closed"]
           /\ rows' = SetStatus(step[s].own, IF awaiting THEN "failed" ELSE "complete")
  /\ UNCHANGED <<inbox, ask, queue, faults>>

\* The attempt dies with its worker, and what its agent asked is history.
AttemptDies(s) ==
  /\ step[s].pc = "running" /\ Fault
  /\ \/ /\ step[s].attempt < MaxAttempts
        /\ step' = [step EXCEPT ![s] = [@ EXCEPT !.pc = "begin", !.attempt = step[s].attempt + 1]]
        /\ UNCHANGED rows
     \/ /\ step[s].attempt = MaxAttempts
        /\ step' = [step EXCEPT ![s].pc = "closed"]
        /\ rows' = SetStatus(step[s].own, "failed")
  /\ ask' = [ask EXCEPT ![s] = [@ EXCEPT !.alone = FALSE, !.told = FALSE]]
  /\ UNCHANGED <<inbox, queue>>

-----------------------------------------------------------------------------
(* HandleInboxRequestInput: three statements.                              *)

Candidates == {r \in DOMAIN rows : ~Finished(r) /\ rows[r].status # "awaiting_input"}

\* Does no other step of the run have an unfinished row?
Alone(s) == \A r \in DOMAIN rows : rows[r].step # s => Finished(r)

\* The newest candidate gets the question.
FindStep(s) ==
  /\ step[s].pc = "running" /\ ask[s].pc = "idle" /\ Len(inbox) < MaxAsked
  /\ Candidates # {}
  /\ ask' = [ask EXCEPT ![s] = [@ EXCEPT !.pc = "found", !.row = Max(Candidates), !.alone = Alone(s)]]
  /\ UNCHANGED <<rows, inbox, step, queue, faults>>

FileQuestion(s) ==
  /\ ask[s].pc = "found"
  /\ \/ /\ Len(inbox) < MaxAsked /\ NoFault
        /\ inbox' = Append(inbox, [row |-> ask[s].row, by |-> s, answered |-> FALSE, lost |-> FALSE])
        /\ ask' = [ask EXCEPT ![s].pc = "filed"]
     \/ ask' = [ask EXCEPT ![s].pc = "idle"] /\ UNCHANGED inbox /\ Fault
  /\ UNCHANGED <<rows, step, queue>>

\* Unconditional, also when the step has moved on since.  The agent, if it is
\* there to hear it, is told that its step will pause.
MarkAwaiting(s) ==
  /\ ask[s].pc = "filed"
  /\ \/ /\ rows' = SetStatus(ask[s].row, "awaiting_input") /\ NoFault
        /\ LET told == ask[s].told \/ (ask[s].alone /\ step[s].pc = "running")
           IN ask' = [ask EXCEPT ![s] = [@ EXCEPT !.pc = "idle", !.told = told]]
     \/ ask' = [ask EXCEPT ![s].pc = "idle"] /\ UNCHANGED rows /\ Fault
  /\ UNCHANGED <<inbox, step, queue>>

-----------------------------------------------------------------------------
(* Answers.                                                                *)

\* Mutant of Addressee: the newest step that waits, as signalRun finds it.
AddresseeWaiting(i) ==
  LET waiting == {r \in DOMAIN rows : rows[r].status = "awaiting_input"} \cup {inbox[i].row}
  IN rows[Max(waiting)].step

\* The workflow whose id is in the row of the item.
Addressee(i) == rows[inbox[i].row].step

\* Mutant of Reachable: the step must wait for an answer already.
ReachableWaiting(i) ==
  /\ rows[inbox[i].row].kind = "own" /\ step[Addressee(i)].pc # "closed"
  /\ rows[inbox[i].row].status = "awaiting_input"

\* A closed workflow takes no signal, and nobody runs under the id in a
\* continuation's row; the answer counts as given all the same.
Reachable(i) == rows[inbox[i].row].kind = "own" /\ step[Addressee(i)].pc # "closed"

Answered(i, lost) == inbox' = [inbox EXCEPT ![i] = [@ EXCEPT !.answered = TRUE, !.lost = lost]]

Respond ==
  \E i \in DOMAIN inbox :
    /\ ~inbox[i].answered
    /\ \/ Reachable(i) /\ queue' = [queue EXCEPT ![Addressee(i)] = Append(@, i)] /\ Answered(i, FALSE) /\ NoFault
       \/ ~Reachable(i) /\ UNCHANGED queue /\ Answered(i, FALSE) /\ NoFault
       \/ Reachable(i) /\ UNCHANGED queue /\ Answered(i, TRUE) /\ Fault
    /\ UNCHANGED <<rows, step, ask>>

\* The first answer on the channel resumes the step in a row of its own, with
\* the question of the activity that waited.
Resume(s) ==
  /\ step[s].pc = "waiting" /\ queue[s] # <<>>
  /\ rows' = Append(rows, Row(s, "continuation"))
  /\ step' = [step EXCEPT ![s] = [@ EXCEPT !.pc = "begin", !.attempt = 1, !.row = Len(rows'),
                                          !.answer = Head(queue[s])]]
  /\ queue' = [queue EXCEPT ![s] = Tail(@)]
  /\ UNCHANGED <<inbox, ask, faults>>

-----------------------------------------------------------------------------
Init ==
  /\ rows = <<>> /\ inbox = <<>> /\ faults = 0
  /\ step = [s \in Steps |-> [pc |-> "new", row |-> 0, own |-> 0, attempt |-> 1, seq |-> 0, buffer |-> <<>>, lost |-> FALSE,
                              question |-> 0, answer |-> 0]]
  /\ ask = [s \in Steps |-> [pc |-> "idle", row |-> 0, alone |-> FALSE, told |-> FALSE]]
  /\ queue = [s \in Steps |-> <<>>]

Rest == (\A s \in Steps : step[s].pc \in {"waiting", "closed"}) /\ UNCHANGED vars

Next ==
  \/ \E s \in Steps :
       \/ CreateStepRun(s) \/ BeginAttempt(s) \/ Line(s) \/ Flush(s) \/ AgentEnds(s) \/ AttemptDies(s)
       \/ FindStep(s) \/ FileQuestion(s) \/ MarkAwaiting(s) \/ Resume(s)
  \/ Respond \/ Rest

Spec == Init /\ [][Next]_vars

-----------------------------------------------------------------------------
(* Properties.                                                             *)

\* A question pauses a step and a pause has a question, although the row is
\* found by its status, and found, asked about and marked in three statements
\* (mcp.go):
\*  - a step does not end unasked when its agent, the only one of the run that
\*    was at work, was told that it will pause: somebody has answered before;
\*  - what a step waits for can come: there is a question about its row, nobody
\*    has answered it yet, or the answer is under way, or its signal was lost.
QuestionPausesItsStep ==
  \A s \in Steps :
    /\ ask[s].told /\ step[s].pc = "closed" => step[s].answer # 0
    /\ step[s].pc = "waiting" =>
         /\ step[s].question # 0
         /\ queue[s] = <<>> => ~inbox[step[s].question].answered \/ inbox[step[s].question].lost

\* A continuation is told a question and an answer: the answer was given to a
\* question about this step, and it is the answer to that very question when
\* nothing failed and no agent of another step has asked in this step's name.
AnswerFitsTheQuestion ==
  \A s \in Steps : step[s].answer # 0 =>
    /\ rows[inbox[step[s].answer].row].step = s
    /\ faults = 0 /\ (\A i \in ItemsOf(step[s].own) : inbox[i].by = s) => step[s].answer = step[s].question

\* Readers follow a log by the order of its insertions, and it is numbered by
\* the agents' attempts: the two orders agree, a retry's lines only continue
\* those of the attempt before, as long as no insert has failed (status.go).
LogIsSpliced ==
  \A r \in DOMAIN rows : ~step[rows[r].step].lost =>
    \A j, k \in DOMAIN rows[r].log : j < k =>
      rows[r].log[j].seq < rows[r].log[k].seq /\ rows[r].log[j].attempt <= rows[r].log[k].attempt

-----------------------------------------------------------------------------
(* The inductive invariant from which StepRecords_proofs derives the three *)
(* invariants above.                                                       *)

LogLines == [seq : Nat, attempt : Nat]
Records ==
  [step : Steps, kind : {"own", "continuation"}, log : Seq(LogLines),
   status : {"pending", "running", "awaiting_input", "complete", "failed", "skipped"}]
StepStates ==
  [pc : {"new", "begin", "running", "waiting", "closed"}, row : Nat, own : Nat, attempt : 1..MaxAttempts,
   seq : Nat, buffer : Seq(LogLines), lost : BOOLEAN, question : Nat, answer : Nat]

Requests == [pc : {"idle", "found", "filed"}, row : Nat, alone : BOOLEAN, told : BOOLEAN]
Items == [row : Nat, by : Steps, answered : BOOLEAN, lost : BOOLEAN]

TypeOK ==
  /\ rows \in Seq(Records) /\ faults \in Nat
  /\ inbox \in Seq(Items)
  /\ \A i \in DOMAIN inbox : inbox[i].row \in DOMAIN rows
  /\ step \in [Steps -> StepStates]
  /\ ask \in [Steps -> Requests]
  /\ \A s \in Steps : ask[s].pc # "idle" => ask[s].row \in DOMAIN rows
  /\ queue \in [Steps -> Seq(DOMAIN inbox)]

\* A step works on a row of its own, the continuation's since it was resumed.
Belongs(s) ==
  IF step[s].pc = "new" THEN ask[s].pc = "idle" /\ step[s].own = 0 /\ step[s].answer = 0 ELSE
  /\ step[s].own \in DOMAIN rows /\ rows[step[s].own].step = s /\ rows[step[s].own].kind = "own"
  /\ step[s].row \in DOMAIN rows /\ rows[step[s].row].step = s
  /\ step[s].row = step[s].own <=> step[s].answer = 0

RowsBelong == \A s \in Steps : Belongs(s)

OwnWaits(s) == rows[step[s].own].status = "awaiting_input"

\* The row that the activity of a step works on is its newest and unfinished;
\* a request that its agent sent alone is about that row, or the row waits.
PausesWhenTold(s) ==
  step[s].answer = 0 =>
    /\ \A r \in DOMAIN rows : rows[r].step = s => r <= step[s].own
    /\ step[s].pc \in {"begin", "running"} =>
         /\ ~Finished(step[s].own)
         /\ ask[s].pc # "idle" /\ ask[s].alone => step[s].pc = "running" /\ (ask[s].row = step[s].own \/ OwnWaits(s))
    /\ ask[s].told => (step[s].pc = "running" /\ OwnWaits(s)) \/ step[s].pc = "waiting"

ToldSteps == \A s \in Steps : IF step[s].pc = "new" THEN ~ask[s].told ELSE PausesWhenTold(s)

\* A row waits only since a question about it was filed.
AwaitingWasAsked ==
  /\ \A r \in DOMAIN rows : rows[r].status = "awaiting_input" => ItemsOf(r) # {}
  /\ \A s \in Steps : ask[s].pc = "filed" => ItemsOf(ask[s].row) # {}

Answers(i, s) == rows[inbox[i].row].step = s /\ rows[inbox[i].row].kind = "own"

\* An answer is on its way to the step whose row its question is about.
AnswersBelong ==
  \A s \in Steps :
    /\ \A k \in DOMAIN queue[s] : Answers(queue[s][k], s)
    /\ step[s].answer # 0 => step[s].answer \in DOMAIN inbox /\ Answers(step[s].answer, s)

\* A step that waits has a question, and keeps the answers that reached it; a
\* continuation works on a row of its kind and does not wait.
WaitsForAnAnswer(s) ==
  /\ step[s].pc = "waiting" => step[s].question \in ItemsOf(step[s].own)
  /\ step[s].answer # 0 => rows[step[s].row].kind = "continuation" /\ step[s].pc # "waiting"
  /\ step[s].answer = 0 /\ step[s].pc # "closed" /\ queue[s] = <<>> =>
       \A i \in DOMAIN inbox : Answers(i, s) /\ inbox[i].answered => inbox[i].lost

WaitingWasAsked == \A s \in Steps : WaitsForAnAnswer(s)

OwnItems(s) == {i \in ItemsOf(step[s].own) : inbox[i].by = s}

\* As long as nothing has failed a step has one row of its own, and its agent
\* asks one question in its name; the step knows it when it waits.
Once(s) ==
  /\ \A r \in DOMAIN rows : rows[r].step = s => step[s].pc # "new" /\ (rows[r].kind = "own" => r = step[s].own)
  /\ \A i, j \in OwnItems(s) : i = j
  /\ ask[s].pc = "found" /\ ask[s].row = step[s].own => OwnItems(s) = {}
  /\ step[s].pc = "begin" /\ step[s].answer = 0 => OwnItems(s) = {} /\ ask[s].pc = "idle"
  /\ OwnItems(s) # {} => \/ step[s].own \notin Candidates
                         \/ ask[s].pc = "filed" /\ ask[s].row = step[s].own
  /\ step[s].pc = "waiting" \/ step[s].answer # 0 => step[s].question \in ItemsOf(step[s].own)

AskedOnce == faults = 0 => \A s \in Steps : Once(s)

Spliced(log) ==
  /\ \A k \in DOMAIN log : log[k].seq = k - 1
  /\ \A j, k \in DOMAIN log : j < k => log[j].attempt <= log[k].attempt

Follows(s) ==
  LET log == rows[step[s].row].log
      before == step[s].seq - Len(step[s].buffer) IN
  /\ \A k \in DOMAIN log : log[k].attempt <= step[s].attempt
  /\ step[s].pc = "running" =>
       /\ 0 <= before /\ before <= Len(log)
       /\ \A k \in DOMAIN step[s].buffer : step[s].buffer[k] = [seq |-> before + k - 1, attempt |-> step[s].attempt]

\* A log is numbered without a gap, and the lines that are still to come begin
\* where it ends or before.
LogsContinue ==
  /\ \A r \in DOMAIN rows : step[rows[r].step].lost \/ Spliced(rows[r].log)
  /\ \A s \in Steps : step[s].pc # "new" /\ ~step[s].lost => Follows(s)

Shared ==
  /\ TypeOK /\ RowsBelong /\ AwaitingWasAsked /\ AnswersBelong /\ AskedOnce /\ LogsContinue

IInv == Shared /\ ToldSteps /\ WaitingWasAsked
=============================================================================
