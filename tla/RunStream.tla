------------------------------ MODULE RunStream ------------------------------
(***************************************************************************)
(* The event stream of one run: the notify Listener                        *)
(* (internal/server/notify/listener.go), the handlers Stream and           *)
(* streamFlush (internal/server/handlers/runs.go), and the rows and        *)
(* NOTIFY triggers they follow.                                            *)
(*                                                                         *)
(* The subscribers of the run are a Go slice: `slots' is the array behind  *)
(* it, `count' its length.  fanOut copies the slice header under the lock  *)
(* and walks it without: it sees what Unsubscribe shifts in the array, and *)
(* keeps the old array (`view') when Subscribe moves the slice to a larger *)
(* one.  A channel of capacity one that is never blocked on is a Boolean.  *)
(* A log line's id is drawn when its INSERT runs and seen by others, with  *)
(* its notification, when the transaction commits.                         *)
(***************************************************************************)
EXTENDS Naturals, Sequences, FiniteSets

CONSTANTS Clients,
          MaxLogs,        \* bound: log lines of the run
          MaxReconnects,  \* bound: times the LISTEN connection is lost
          MaxReadErrors   \* bound: SELECTs that fail

ASSUME BoundsAssumption ==
  /\ MaxLogs \in Nat /\ MaxReconnects \in Nat /\ MaxReadErrors \in Nat
  /\ IsFiniteSet(Clients)

VARIABLES
  drawn,    \* the last id drawn from the sequence
  open,     \* ids whose INSERT has not committed
  logs,     \* ids in the table
  overtaken,  \* those of them that were committed after a larger one
  status,   \* runs.status: "running" or "terminal"
  wire,     \* notifications on their way to the listener
  slots, count,  \* the subscribers' slice
  fan,      \* fanOut: the index it visits next and the length it copied, 0 at rest
  view,     \* the array fanOut walks, when it is no longer slots
  ch,       \* whether the channel of each client holds a signal
  pc,       \* the handler of each client
  cursor,   \* its cursor
  sent,     \* the ids it has sent
  drops, errors,
  unread    \* clients whose query for the status failed after the run had ended

db       == <<drawn, open, logs, overtaken, status>>
slice    == <<slots, count>>
listener == <<fan, view>>
handlers == <<pc, cursor, sent>>
vars     == <<db, wire, slice, listener, ch, handlers, drops, errors, unread>>

AtRest == [at |-> 0, len |-> 0]

Init ==
  /\ drawn = 0 /\ open = {} /\ logs = {} /\ overtaken = {} /\ status = "running"
  /\ wire = 0
  /\ slots = <<>> /\ count = 0 /\ fan = AtRest /\ view = <<>>
  /\ ch = [c \in Clients |-> FALSE]
  /\ pc = [c \in Clients |-> "away"]
  /\ cursor = [c \in Clients |-> 0]
  /\ sent = [c \in Clients |-> {}]
  /\ drops = 0 /\ errors = 0 /\ unread = {}

-----------------------------------------------------------------------------
(* The rows and their triggers.                                            *)

InsertLog ==
  /\ status = "running" /\ drawn < MaxLogs
  /\ drawn' = drawn + 1 /\ open' = open \cup {drawn + 1}
  /\ UNCHANGED <<logs, overtaken, status, wire, slice, listener, ch, handlers, drops, errors, unread>>

CommitLog(id) ==
  /\ id \in open /\ open' = open \ {id} /\ logs' = logs \cup {id}
  /\ overtaken' = IF \E later \in logs : id < later THEN overtaken \cup {id} ELSE overtaken
  /\ wire' = wire + 1
  /\ UNCHANGED <<drawn, status, slice, listener, ch, handlers, drops, errors, unread>>

\* The final status follows the steps, which have written their logs.
EndRun ==
  /\ status = "running" /\ open = {} /\ status' = "terminal"
  /\ wire' = wire + 1
  /\ UNCHANGED <<drawn, open, logs, overtaken, slice, listener, ch, handlers, drops, errors, unread>>

-----------------------------------------------------------------------------
(* The listener.                                                           *)

Take ==
  /\ fan = AtRest /\ wire > 0 /\ wire' = wire - 1
  /\ fan' = IF count = 0 THEN AtRest ELSE [at |-> 1, len |-> count]
  /\ UNCHANGED <<db, slice, view, ch, handlers, drops, errors, unread>>

\* The array fanOut walks.
Walked == IF view = <<>> THEN slots ELSE view

\* Mutant of Signal: a channel without a buffer, sent to with a default.
SignalUnbuffered(c) == [ch EXCEPT ![c] = @ \/ pc[c] = "waiting"]

\* A channel of capacity one: a signal that is there already is enough.
Signal(c) == [ch EXCEPT ![c] = TRUE]

Visit ==
  /\ fan # AtRest
  /\ ch' = Signal(Walked[fan.at])
  /\ IF fan.at = fan.len THEN fan' = AtRest /\ view' = <<>>
     ELSE fan' = [fan EXCEPT !.at = @ + 1] /\ UNCHANGED view
  /\ UNCHANGED <<db, wire, slice, handlers, drops, errors, unread>>

\* pq reconnects: what was notified meanwhile is gone; the nil notification
\* that says so is skipped.
Reconnect ==
  /\ drops < MaxReconnects /\ drops' = drops + 1 /\ wire' \in 0..wire
  /\ UNCHANGED <<db, slice, listener, ch, handlers, errors, unread>>

-----------------------------------------------------------------------------
(* The handler of a client.                                                *)

Goes(c, to) == pc' = [pc EXCEPT ![c] = to]

\* append: in place while the array has room, else to an array twice as long.
Subscribe(c) ==
  /\ pc[c] = "away" /\ Goes(c, "flush")
  /\ count' = count + 1
  /\ IF count < Len(slots)
     THEN slots' = [slots EXCEPT ![count + 1] = c] /\ UNCHANGED view
     ELSE /\ slots' = [i \in 1..(IF count = 0 THEN 1 ELSE 2 * count) |-> IF i <= count THEN slots[i] ELSE c]
          /\ view' = IF fan # AtRest /\ view = <<>> THEN slots ELSE view
  /\ UNCHANGED <<db, wire, fan, ch, cursor, sent, drops, errors, unread>>

\* Mutant of FlushLogs.
FlushLogsToLastDrawn(c) ==
  /\ pc[c] = "flush" /\ Goes(c, "status")
  /\ sent' = [sent EXCEPT ![c] = @ \cup {id \in logs : id > cursor[c]}]
  /\ cursor' = [cursor EXCEPT ![c] = drawn]
  /\ UNCHANGED <<db, wire, slice, listener, ch, drops, errors, unread>>

\* streamFlush, first query: the lines after the cursor.
FlushLogs(c) ==
  /\ pc[c] = "flush" /\ Goes(c, "status")
  /\ \/ LET new == {id \in logs : id > cursor[c]}
        IN  /\ sent' = [sent EXCEPT ![c] = @ \cup new]
            /\ \E last \in new \cup {cursor[c]} :
                 /\ \A id \in new : id <= last
                 /\ cursor' = [cursor EXCEPT ![c] = last]
            /\ UNCHANGED errors
     \/ errors < MaxReadErrors /\ errors' = errors + 1 /\ UNCHANGED <<cursor, sent>>
  /\ UNCHANGED <<db, wire, slice, listener, ch, drops, unread>>

\* Second query: the status.  A terminal one ends the stream; a query that
\* fails counts as one that is not.
FlushStatus(c) ==
  /\ pc[c] = "status"
  /\ \/ Goes(c, IF status = "terminal" THEN "ended" ELSE "loop") /\ UNCHANGED <<errors, unread>>
     \/ /\ errors < MaxReadErrors /\ errors' = errors + 1 /\ Goes(c, "loop")
        /\ unread' = IF status = "terminal" THEN unread \cup {c} ELSE unread
  /\ UNCHANGED <<db, wire, slice, listener, ch, cursor, sent, drops>>

\* The answer is written and the handler is back at its select.
Wait(c) ==
  /\ pc[c] = "loop" /\ Goes(c, "waiting")
  /\ UNCHANGED <<db, wire, slice, listener, ch, cursor, sent, drops, errors, unread>>

Wake(c) ==
  /\ pc[c] = "waiting" /\ ch[c] /\ Goes(c, "flush")
  /\ ch' = [ch EXCEPT ![c] = FALSE]
  /\ UNCHANGED <<db, wire, slice, listener, cursor, sent, drops, errors, unread>>

Disconnect(c) ==
  /\ pc[c] = "waiting" /\ Goes(c, "left")
  /\ UNCHANGED <<db, wire, slice, listener, ch, cursor, sent, drops, errors, unread>>

\* Mutant of Unsubscribe.
UnsubscribeLast(c) ==
  /\ pc[c] \in {"ended", "left"} /\ count' = count - 1
  /\ Goes(c, IF pc[c] = "ended" THEN "ended_gone" ELSE "left_gone")
  /\ UNCHANGED <<db, wire, slots, listener, ch, cursor, sent, drops, errors, unread>>

\* The deferred call: append(subs[:i], subs[i+1:]...) shifts the tail of the
\* same array to the left.
Unsubscribe(c) ==
  /\ pc[c] \in {"ended", "left"}
  /\ \E i \in 1..count :
       /\ slots[i] = c
       /\ slots' = [j \in 1..Len(slots) |-> IF i <= j /\ j < count THEN slots[j + 1] ELSE slots[j]]
  /\ count' = count - 1
  /\ Goes(c, IF pc[c] = "ended" THEN "ended_gone" ELSE "left_gone")
  /\ UNCHANGED <<db, wire, listener, ch, cursor, sent, drops, errors, unread>>

Handler(c) == FlushLogs(c) \/ FlushStatus(c) \/ Wait(c) \/ Wake(c) \/ Unsubscribe(c)

Writer == InsertLog \/ (\E id \in open : CommitLog(id)) \/ EndRun

Next ==
  \/ Writer \/ Take \/ Visit \/ Reconnect
  \/ \E c \in Clients : Subscribe(c) \/ Disconnect(c) \/ Handler(c)

Spec == Init /\ [][Next]_vars

\* Goroutines run, and the notifications arrive; the run itself may go on.
Fairness == WF_vars(Take \/ Visit) /\ \A c \in Clients : WF_vars(Handler(c))

FairSpec == Spec /\ Fairness

-----------------------------------------------------------------------------
(* Properties.                                                             *)

Attached(c) == pc[c] \in {"flush", "status", "loop", "waiting", "ended", "left"}

RowsTyped ==
  /\ drawn \in 0..MaxLogs /\ open \subseteq 1..drawn /\ logs \subseteq 1..drawn
  /\ overtaken \subseteq logs
  /\ status \in {"running", "terminal"} /\ wire \in 0..(MaxLogs + 1)

SliceNamesClients ==
  /\ slots \in Seq(Clients) /\ count \in 0..Len(slots)
  /\ \A c \in Clients : Attached(c) <=> \E i \in 1..count : slots[i] = c
  /\ \A i, j \in 1..count : slots[i] = slots[j] => i = j

WalkInBounds ==
  /\ fan \in [at : Nat, len : Nat] /\ fan.at <= fan.len /\ view \in Seq(Clients)
  /\ fan # AtRest => fan.at \in 1..Len(Walked)

Pcs == {"away", "flush", "status", "loop", "waiting", "ended", "left", "ended_gone", "left_gone"}

HandlersTyped ==
  /\ ch \in [Clients -> BOOLEAN] /\ pc \in [Clients -> Pcs]
  /\ cursor \in [Clients -> 0..MaxLogs] /\ sent \in [Clients -> SUBSET (1..MaxLogs)]
  /\ drops \in 0..MaxReconnects /\ errors \in 0..MaxReadErrors /\ unread \subseteq Clients

\* The type invariant, with what the slice is: its first count slots name the
\* attached clients, each once, and the index fanOut visits next is within the
\* array it walks, however the slice changed since it copied the header (no
\* panic).
TypeOK == RowsTyped /\ SliceNamesClients /\ WalkInBounds /\ HandlersTyped

\* The cursor of a stream is an id, ids are drawn in one order and committed in
\* another, and the steps of a batch write side by side (runs.go:332, 337).  A
\* line behind the cursor that was not sent is one that a line with a larger id
\* overtook on its way into the table; nothing else is ever skipped, and what is
\* sent is in the table.
CursorSkipsNothing ==
  \A c \in Clients :
    /\ sent[c] \subseteq {id \in logs : id <= cursor[c]}
    /\ {id \in logs : id <= cursor[c]} \ overtaken \subseteq sent[c]

\* ARCHITECTURE.md:197: "The stream ends when the run reaches a terminal state".
\* It does for two clients while the connection is not lost: no wake-up is lost
\* between the flush and the next wait, although signals are coalesced.  With three
\* clients, after a lost connection, or when the client's query for the terminal
\* status failed (no later change wakes it), a client may wait for ever.
StreamEnds ==
  \A c \in Clients :
    (status = "terminal" /\ Attached(c)) ~> (~Attached(c) \/ drops > 0 \/ c \in unread)

-----------------------------------------------------------------------------
(***************************************************************************)
(* The inductive invariant that the theorems of RunStream_proofs rest on.  *)
(***************************************************************************)

\* What fanOut has still to visit is there: the array it walks never becomes
\* shorter than the length it copied.
WalkFitsTheArray ==
  /\ fan = AtRest => view = <<>>
  /\ fan # AtRest => fan.at \in 1..fan.len /\ fan.len <= Len(Walked)

\* A notification comes from a line in the table or from the end of the run.
NotificationsHaveACause ==
  /\ open \cap logs = {}
  /\ wire <= Cardinality(logs) + (IF status = "terminal" THEN 1 ELSE 0)

\* A cursor stands at a line of the table or at the beginning.
CursorIsALine == \A c \in Clients : cursor[c] \in logs \cup {0}

IInv == TypeOK /\ WalkFitsTheArray /\ NotificationsHaveACause
=============================================================================
