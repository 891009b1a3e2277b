---------------------------- MODULE FanOut_proofs ----------------------------
(***************************************************************************)
(* Theorems about FanOut, for every set of steps and repositories, every   *)
(* number of decisions and lost writes: a partial failure is decided by a  *)
(* person or by the timer, and the question in the inbox follows its step.  *)
(***************************************************************************)
EXTENDS FanOut, TLAPS

\* What is appended comes last, and the rest is as it was.
LEMMA Appended ==
  ASSUME NEW S, NEW q \in Seq(S), NEW e \in S
  PROVE  /\ Append(q, e) \in Seq(S) /\ Append(q, e) # <<>>
         /\ DOMAIN Append(q, e) = DOMAIN q \cup {Len(q) + 1}
         /\ Append(q, e)[Len(q) + 1] = e
         /\ \A i \in DOMAIN q : Append(q, e)[i] = q[i]
  OBVIOUS

\* The head and the tail of a channel are what was in it.
LEMMA Taken ==
  ASSUME NEW S, NEW q \in Seq(S), q # <<>>
  PROVE  /\ Head(q) \in S /\ Tail(q) \in Seq(S) /\ 1 \in DOMAIN q /\ Head(q) = q[1]
         /\ \A i \in DOMAIN Tail(q) : i + 1 \in DOMAIN q /\ Tail(q)[i] = q[i + 1]
  OBVIOUS

\* Each part of the invariant stays as long as what it speaks of does: signals,
LEMMA SignalsStay ==
  ASSUME SignalsWereChosen, UNCHANGED <<resolveCh, dispatching, calls, closedBy, resolved>>
  PROVE  SignalsWereChosen'
  BY DEF SignalsWereChosen, Chose

\* phases,
LEMMA PhasesStay ==
  ASSUME PhasesFollowChildren, UNCHANGED <<phase, children, items>>
  PROVE  PhasesFollowChildren'
  BY DEF PhasesFollowChildren, Some, Partial

\* items,
LEMMA ItemsStay ==
  ASSUME ItemsHaveACause, UNCHANGED <<phase, items, calls, closedBy, resolved, lost>>
  PROVE  ItemsHaveACause'
  BY DEF ItemsHaveACause

\* and decisions.
LEMMA DecisionsStay ==
  ASSUME PartialFailureIsDecidedByAPerson,
         UNCHANGED <<phase, children, outcome, items, resolved, timedOut>>
  PROVE  PartialFailureIsDecidedByAPerson'
  BY DEF PartialFailureIsDecidedByAPerson, Some, Chose

-----------------------------------------------------------------------------
(* The inductive invariant.                                                *)

\* At first nothing has been asked or decided.
LEMMA InitIInv == Init => IInv
<1> SUFFICES ASSUME Init PROVE IInv
  OBVIOUS
<1>1. TypeOK
  BY BoundsAssumption DEF Init, TypeOK, Ids
<1>2. SignalsWereChosen
  BY DEF Init, SignalsWereChosen
<1>3. PhasesFollowChildren
  BY DEF Init, PhasesFollowChildren
<1>4. ItemsHaveACause
  BY DEF Init, ItemsHaveACause
<1>5. PartialFailureIsDecidedByAPerson
  BY DEF Init, PartialFailureIsDecidedByAPerson
<1> QED
  BY <1>1, <1>2, <1>3, <1>4, <1>5 DEF IInv

\* A child moves only while its step is still fanning out.
LEMMA ChildKeepsIInv ==
  ASSUME IInv, NEW s \in Steps, NEW r \in Repos, StartChild(s, r) \/ EndChild(s, r)
  PROVE  IInv'
<1> USE DEF IInv
<1>1. /\ UNCHANGED <<phase, outcome, resolveCh, dispatching, items, calls, closedBy, resolved, timedOut, lost>>
      /\ children[s][r] \in {"creating", "running"}
      /\ \E state \in {"running", "complete", "failed"} : children' = [children EXCEPT ![s][r] = state]
  BY DEF StartChild, EndChild
<1>2. children' \in [Steps -> [Repos -> {"creating", "running", "complete", "failed"}]]
      /\ \A t \in Steps \ {s} : children'[t] = children[t]
  BY <1>1 DEF TypeOK
<1>3. phase[s] = "fanning"
  BY <1>1 DEF PhasesFollowChildren, Some
<1>4. TypeOK'
  BY <1>1, <1>2 DEF TypeOK
<1>5. PhasesFollowChildren'
  BY <1>1, <1>2, <1>3 DEF PhasesFollowChildren, Some, Partial
<1>6. PartialFailureIsDecidedByAPerson'
  BY <1>1, <1>2, <1>3 DEF PartialFailureIsDecidedByAPerson, Some, Chose
<1> QED
  BY <1>1, <1>4, <1>5, <1>6, SignalsStay, ItemsStay

\* A step that settles: its outcome must be the right one.
LEMMA SettleKeepsParts ==
  ASSUME IInv, NEW s \in Steps, NEW result \in {"complete", "failed"}, Settle(s, result),
         UNCHANGED <<children, items, calls, closedBy, resolved, lost>>,
         timedOut \subseteq timedOut', timedOut' \subseteq Steps,
         ~Some(s, "creating"), ~Some(s, "running"),
         Partial(s) => \/ result = "complete" /\ Chose(s, "proceed")
                       \/ result = "failed" /\ (Chose(s, "terminate") \/ s \in timedOut'),
         ~Partial(s) => items[s] = "none" /\ result = (IF Some(s, "failed") THEN "failed" ELSE "complete")
  PROVE  /\ phase' \in [Steps -> {"fanning", "raising", "deciding", "done"}]
         /\ outcome' \in [Steps -> {"none", "complete", "failed"}]
         /\ PhasesFollowChildren' /\ ItemsHaveACause' /\ PartialFailureIsDecidedByAPerson'
<1> USE DEF IInv
<1>1. /\ phase' \in [Steps -> {"fanning", "raising", "deciding", "done"}]
      /\ outcome' \in [Steps -> {"none", "complete", "failed"}]
      /\ phase'[s] = "done" /\ outcome'[s] = result
      /\ \A t \in Steps \ {s} : phase'[t] = phase[t] /\ outcome'[t] = outcome[t]
  BY DEF Settle, TypeOK
<1>2. PhasesFollowChildren'
  BY <1>1 DEF PhasesFollowChildren, Some, Partial
<1>3. ItemsHaveACause'
  BY <1>1 DEF ItemsHaveACause
<1>4. PartialFailureIsDecidedByAPerson'
  <2> SUFFICES ASSUME NEW t \in Steps, phase'[t] = "done"
      PROVE IF Some(t, "complete") /\ Some(t, "failed")
            THEN \/ outcome'[t] = "complete" /\ Chose(t, "proceed")
                 \/ outcome'[t] = "failed" /\ (Chose(t, "terminate") \/ t \in timedOut')
            ELSE items[t] = "none" /\ outcome'[t] = (IF Some(t, "failed") THEN "failed" ELSE "complete")
    BY DEF PartialFailureIsDecidedByAPerson, Some, Chose
  <2>1. CASE t = s
    BY <1>1, <2>1 DEF Partial
  <2>2. CASE t # s
    BY <1>1, <2>2 DEF PartialFailureIsDecidedByAPerson
  <2> QED
    BY <2>1, <2>2
<1> QED
  BY <1>1, <1>2, <1>3, <1>4

\* A fan-out that ends settles the step unless its failure is partial.
LEMMA JoinKeepsIInv ==
  ASSUME IInv, NEW s \in Steps, Join(s)
  PROVE  IInv'
<1> USE DEF IInv
<1>1. /\ UNCHANGED <<children, resolveCh, dispatching, items, calls, closedBy, resolved, timedOut, lost>>
      /\ phase[s] = "fanning" /\ ~Some(s, "creating") /\ ~Some(s, "running")
  BY DEF Join
<1>2. SignalsWereChosen'
  BY <1>1, SignalsStay
<1>3. items[s] = "none"
  BY <1>1 DEF PhasesFollowChildren
<1>4. CASE Partial(s)
  <2>1. phase' = [phase EXCEPT ![s] = "raising"] /\ outcome' = outcome
    BY <1>4 DEF Join, Partial
  <2>2. TypeOK'
    BY <1>1, <2>1 DEF TypeOK
  <2>3. phase'[s] = "raising" /\ \A t \in Steps \ {s} : phase'[t] = phase[t]
    BY <2>1 DEF TypeOK
  <2>4. PhasesFollowChildren'
    BY <1>1, <1>3, <1>4, <2>3 DEF PhasesFollowChildren, Some, Partial
  <2>5. ItemsHaveACause'
    BY <1>1, <2>3 DEF ItemsHaveACause
  <2>6. PartialFailureIsDecidedByAPerson'
    BY <1>1, <2>1, <2>3 DEF PartialFailureIsDecidedByAPerson, Some, Chose
  <2> QED
    BY <1>2, <2>2, <2>4, <2>5, <2>6
<1>5. CASE ~Partial(s)
  <2> DEFINE result == IF Some(s, "failed") THEN "failed" ELSE "complete"
  <2>1. Settle(s, result) /\ result \in {"complete", "failed"}
    BY <1>5 DEF Join, Partial
  <2>2. /\ phase' \in [Steps -> {"fanning", "raising", "deciding", "done"}]
        /\ outcome' \in [Steps -> {"none", "complete", "failed"}]
        /\ PhasesFollowChildren' /\ ItemsHaveACause' /\ PartialFailureIsDecidedByAPerson'
    BY <1>1, <1>3, <1>5, <2>1, SettleKeepsParts DEF TypeOK
  <2>3. TypeOK'
    BY <1>1, <2>2 DEF TypeOK
  <2> QED
    BY <1>2, <2>2, <2>3
<1> QED
  BY <1>4, <1>5

\* The item is raised, or the write of it is lost.
LEMMA RaiseItemKeepsIInv ==
  ASSUME IInv, NEW s \in Steps, RaiseItem(s)
  PROVE  IInv'
<1> USE DEF IInv
<1>1. /\ UNCHANGED <<children, outcome, resolveCh, dispatching, calls, closedBy, resolved, timedOut>>
      /\ phase[s] = "raising" /\ phase' = [phase EXCEPT ![s] = "deciding"]
      /\ (items' = [items EXCEPT ![s] = "open"] /\ lost' = lost)
         \/ (lost < MaxLostWrites /\ lost' = lost + 1 /\ items' = items)
  BY DEF RaiseItem
<1>2. /\ phase' \in [Steps -> {"fanning", "raising", "deciding", "done"}]
      /\ items' \in [Steps -> {"none", "open", "answered"}]
      /\ phase'[s] = "deciding"
      /\ \A t \in Steps \ {s} : phase'[t] = phase[t] /\ items'[t] = items[t]
  BY <1>1 DEF TypeOK
<1>3. lost \in Nat /\ lost' \in 0..MaxLostWrites /\ (lost' = 0 => lost = 0 /\ items'[s] = "open")
      /\ (items'[s] = "open" \/ items'[s] = items[s])
  BY <1>1, BoundsAssumption DEF TypeOK
<1>4. TypeOK'
  BY <1>1, <1>2, <1>3 DEF TypeOK
<1>5. PhasesFollowChildren'
  BY <1>1, <1>2 DEF PhasesFollowChildren, Some, Partial
<1>6. ItemsHaveACause'
  <2>1. resolved[s] = <<>>
    BY <1>1 DEF PhasesFollowChildren, ItemsHaveACause
  <2> QED
    BY <1>1, <1>2, <1>3, <2>1 DEF ItemsHaveACause
<1>7. PartialFailureIsDecidedByAPerson'
  BY <1>1, <1>2 DEF PartialFailureIsDecidedByAPerson, Some, Chose
<1> QED
  BY <1>1, <1>4, <1>5, <1>6, <1>7, SignalsStay

\* What a waiting step receives was chosen for it.
LEMMA DecideKeepsIInv ==
  ASSUME IInv, NEW s \in Steps, Decide(s)
  PROVE  IInv'
<1> USE DEF IInv
<1> DEFINE result == IF Head(dispatching).action = "terminate" THEN "failed" ELSE "complete"
<1>1. /\ UNCHANGED <<children, resolveCh, items, calls, closedBy, resolved, timedOut, lost>>
      /\ phase[s] = "deciding" /\ dispatching # <<>> /\ Head(dispatching).step = s
      /\ dispatching' = <<>> /\ Settle(s, result) /\ result \in {"complete", "failed"}
  BY DEF Decide
<1>2. Partial(s) /\ ~Some(s, "creating") /\ ~Some(s, "running")
  BY <1>1 DEF PhasesFollowChildren
<1>3. Chose(s, Head(dispatching).action) /\ Head(dispatching).action \in Actions
  <2>1. Head(dispatching) \in Payload /\ 1 \in DOMAIN dispatching /\ Head(dispatching) = dispatching[1]
    BY <1>1, Taken DEF TypeOK
  <2> QED
    BY <1>1, <2>1 DEF SignalsWereChosen, Payload
<1>4. (result = "complete" => Chose(s, "proceed")) /\ (result = "failed" => Chose(s, "terminate"))
  BY <1>3 DEF Actions
<1>5. /\ phase' \in [Steps -> {"fanning", "raising", "deciding", "done"}]
      /\ outcome' \in [Steps -> {"none", "complete", "failed"}]
      /\ PhasesFollowChildren' /\ ItemsHaveACause' /\ PartialFailureIsDecidedByAPerson'
  <2> HIDE DEF result
  <2> QED
    BY <1>1, <1>2, <1>4, SettleKeepsParts DEF TypeOK
<1>6. TypeOK'
  BY <1>1, <1>5 DEF TypeOK
<1>7. SignalsWereChosen'
  BY <1>1 DEF SignalsWereChosen, Chose
<1> QED
  BY <1>5, <1>6, <1>7

\* The timer fails the step, and that is why.
LEMMA TimeOutKeepsIInv ==
  ASSUME IInv, NEW s \in Steps, TimeOut(s)
  PROVE  IInv'
<1> USE DEF IInv
<1>1. /\ UNCHANGED <<children, resolveCh, dispatching, items, calls, closedBy, resolved, lost>>
      /\ phase[s] = "deciding" /\ Settle(s, "failed")
      /\ timedOut' = timedOut \cup {s} /\ timedOut \subseteq timedOut' /\ timedOut' \subseteq Steps
  BY DEF TimeOut, TypeOK
<1>2. Partial(s) /\ ~Some(s, "creating") /\ ~Some(s, "running")
  BY <1>1 DEF PhasesFollowChildren
<1>3. /\ phase' \in [Steps -> {"fanning", "raising", "deciding", "done"}]
      /\ outcome' \in [Steps -> {"none", "complete", "failed"}]
      /\ PhasesFollowChildren' /\ ItemsHaveACause' /\ PartialFailureIsDecidedByAPerson'
  BY <1>1, <1>2, SettleKeepsParts
<1>4. TypeOK'
  BY <1>1, <1>3 DEF TypeOK
<1> QED
  BY <1>1, <1>3, <1>4, SignalsStay

\* The dispatcher takes what comes first in the channel.
LEMMA DispatchKeepsIInv ==
  ASSUME IInv, Dispatch
  PROVE  IInv'
<1> USE DEF IInv
<1>1. /\ UNCHANGED <<phase, children, outcome, items, calls, closedBy, resolved, timedOut, lost>>
      /\ resolveCh # <<>> /\ resolveCh' = Tail(resolveCh)
      /\ dispatching' = <<>> \/ dispatching' = <<Head(resolveCh)>>
  BY DEF Dispatch
<1>2. /\ Head(resolveCh) \in Payload /\ resolveCh' \in Seq(Payload)
      /\ 1 \in DOMAIN resolveCh /\ Head(resolveCh) = resolveCh[1]
      /\ \A i \in DOMAIN resolveCh' : i + 1 \in DOMAIN resolveCh /\ resolveCh'[i] = resolveCh[i + 1]
  BY <1>1, Taken DEF TypeOK
<1>3. dispatching' \in Seq(Payload) /\ \A i \in DOMAIN dispatching' : dispatching'[i] = Head(resolveCh)
  <2>1. CASE dispatching' = <<>>
    BY <2>1
  <2>2. CASE dispatching' = <<Head(resolveCh)>>
    BY <1>2, <2>2
  <2> QED
    BY <1>1, <2>1, <2>2
<1>4. TypeOK'
  BY <1>1, <1>2, <1>3 DEF TypeOK
<1>5. SignalsWereChosen'
  <2>1. \A id, action : Chose(id, action)' <=> Chose(id, action)
    BY <1>1 DEF Chose
  <2>2. \A i \in DOMAIN resolveCh : Chose(resolveCh[i].step, resolveCh[i].action)
    BY DEF SignalsWereChosen
  <2>3. \A i \in DOMAIN resolveCh' : Chose(resolveCh'[i].step, resolveCh'[i].action)
    BY <1>2, <2>2
  <2>4. \A i \in DOMAIN dispatching' : Chose(dispatching'[i].step, dispatching'[i].action)
    BY <1>2, <1>3, <2>2
  <2> QED
    BY <1>1, <2>3, <2>4 DEF SignalsWereChosen, Chose
<1> QED
  BY <1>1, <1>4, <1>5, PhasesStay, ItemsStay, DecisionsStay

\* A person's decision is recorded as it is sent; what was chosen before stays.
LEMMA ResolveSignalKeepsIInv ==
  ASSUME IInv, NEW s \in Ids, NEW action \in Actions, ResolveSignal(s, action)
  PROVE  IInv'
<1> USE DEF IInv
<1> DEFINE payload == [step |-> s, action |-> action]
<1>1. /\ UNCHANGED <<phase, children, outcome, dispatching, items, closedBy, timedOut, lost>>
      /\ resolveCh' = Append(resolveCh, payload) /\ payload \in Payload
      /\ calls' = calls \cup {<<s, Len(resolved[s]) + 1>>}
      /\ resolved' = [resolved EXCEPT ![s] = Append(@, action)]
  BY DEF ResolveSignal, Payload
<1>2. resolveCh \in Seq(Payload) /\ resolved[s] \in Seq(Actions)
  BY DEF TypeOK
<1>3. /\ resolveCh' \in Seq(Payload)
      /\ \A i \in DOMAIN resolveCh' : resolveCh'[i] = payload \/ (i \in DOMAIN resolveCh /\ resolveCh'[i] = resolveCh[i])
  BY <1>1, <1>2, Appended
<1>4. /\ resolved' \in [Ids -> Seq(Actions)] /\ resolved'[s] = Append(resolved[s], action)
      /\ \A id \in Ids \ {s} : resolved'[id] = resolved[id]
  BY <1>1, <1>2, Appended DEF TypeOK
\* Chose, in the next state.
<1> DEFINE Later(id, a) == \E i \in DOMAIN resolved'[id] : resolved'[id][i] = a
<1>5. Later(s, action) /\ resolved'[s] # <<>>
  BY <1>2, <1>4, Appended
<1>6. ASSUME NEW id \in Ids, NEW a, Chose(id, a) PROVE Later(id, a)
  <2>1. CASE id = s
    <3>1. PICK i \in DOMAIN resolved[s] : resolved[s][i] = a
      BY <1>6, <2>1 DEF Chose
    <3>2. i \in DOMAIN resolved'[s] /\ resolved'[s][i] = a
      BY <1>2, <1>4, <3>1, Appended
    <3> QED
      BY <2>1, <3>2
  <2>2. CASE id # s
    BY <1>4, <1>6, <2>2 DEF Chose
  <2> QED
    BY <2>1, <2>2
<1>7. TypeOK'
  BY <1>1, <1>3, <1>4 DEF TypeOK
<1>8. SignalsWereChosen'
  <2>1. ASSUME NEW i \in DOMAIN resolveCh' PROVE Later(resolveCh'[i].step, resolveCh'[i].action)
    <3>1. CASE resolveCh'[i] = payload
      BY <1>5, <3>1
    <3>2. CASE i \in DOMAIN resolveCh /\ resolveCh'[i] = resolveCh[i]
      <4>1. resolveCh[i] \in Payload
        BY <1>2, <3>2
      <4>2. resolveCh[i].step \in Ids /\ Chose(resolveCh[i].step, resolveCh[i].action)
        BY <4>1, <3>2 DEF SignalsWereChosen, Payload
      <4> QED
        BY <1>6, <3>2, <4>2
    <3> QED
      BY <1>3, <3>1, <3>2
  <2>2. ASSUME NEW i \in DOMAIN dispatching PROVE Later(dispatching[i].step, dispatching[i].action)
    <3>1. dispatching[i] \in Payload
      BY DEF TypeOK
    <3>2. dispatching[i].step \in Ids /\ Chose(dispatching[i].step, dispatching[i].action)
      BY <3>1 DEF SignalsWereChosen, Payload
    <3> QED
      BY <1>6, <3>2
  <2>3. ASSUME NEW id \in Ids, NEW n \in DOMAIN resolved[id] PROVE n \in DOMAIN resolved'[id]
    BY <1>2, <1>4, Appended
  <2>4. ASSUME NEW call \in calls' PROVE call[2] \in DOMAIN resolved'[call[1]]
    <3>1. CASE call \in calls
      <4>1. call[1] \in Ids /\ call[2] \in DOMAIN resolved[call[1]]
        BY <3>1 DEF SignalsWereChosen, TypeOK
      <4> QED
        BY <2>3, <4>1
    <3>2. CASE call = <<s, Len(resolved[s]) + 1>>
      BY <1>2, <1>4, <3>2, Appended
    <3> QED
      BY <1>1, <3>1, <3>2
  <2>5. ASSUME NEW t \in Steps, NEW call \in closedBy[t] PROVE call[2] \in DOMAIN resolved'[call[1]]
    <3>1. call[1] \in Ids /\ call[2] \in DOMAIN resolved[call[1]]
      BY DEF SignalsWereChosen, TypeOK
    <3> QED
      BY <2>3, <3>1
  <2>6. (\A i \in DOMAIN resolveCh : Chose(resolveCh[i].step, resolveCh[i].action))'
    BY <2>1 DEF Chose
  <2>7. (\A i \in DOMAIN dispatching : Chose(dispatching[i].step, dispatching[i].action))'
    BY <1>1, <2>2 DEF Chose
  <2> QED
    BY <1>1, <2>4, <2>5, <2>6, <2>7 DEF SignalsWereChosen
<1>9. ItemsHaveACause'
  <2>1. s \in Steps => items[s] # "none"
    BY DEF ResolveSignal
  <2>2. calls \subseteq calls' /\ \E call \in calls' : call[1] = s
    <3> DEFINE call == <<s, Len(resolved[s]) + 1>>
    <3>1. call \in calls' /\ call[1] = s /\ calls \subseteq calls'
      BY <1>1
    <3> QED
      BY <3>1
  <2> QED
    BY <1>1, <1>4, <2>1, <2>2 DEF ItemsHaveACause
<1>10. PartialFailureIsDecidedByAPerson'
  BY <1>1, <1>6, SMTT(30) DEF PartialFailureIsDecidedByAPerson, Some, Chose, Ids
<1> QED
  BY <1>1, <1>7, <1>8, <1>9, <1>10, PhasesStay

\* A handler that marks items has sent a decision before, and closes them all.
LEMMA ResolveMarkKeepsIInv ==
  ASSUME IInv, NEW call \in calls, ResolveMark(call)
  PROVE  IInv'
<1> USE DEF IInv
<1>1. /\ UNCHANGED <<phase, children, outcome, resolveCh, dispatching, resolved, timedOut>>
      /\ calls' = calls \ {call}
      /\ \/ /\ items' = [t \in Steps |-> IF items[t] = "open" THEN "answered" ELSE items[t]]
            /\ closedBy' = [t \in Steps |-> IF items[t] = "open" THEN {call} ELSE closedBy[t]]
            /\ lost' = lost
         \/ lost < MaxLostWrites /\ lost' = lost + 1 /\ items' = items /\ closedBy' = closedBy
  BY DEF ResolveMark, Answer
<1>2. call \in Ids \X Nat /\ call[2] \in DOMAIN resolved[call[1]]
  BY DEF TypeOK, SignalsWereChosen
<1>3. /\ items' \in [Steps -> {"none", "open", "answered"}]
      /\ closedBy' \in [Steps -> SUBSET (Ids \X Nat)]
      /\ \A t \in Steps :
           /\ items'[t] = "none" <=> items[t] = "none"
           /\ closedBy'[t] = {call} \/ (items'[t] = items[t] /\ closedBy'[t] = closedBy[t])
  <2>1. \A t \in Steps : items[t] \in {"none", "open", "answered"} /\ closedBy[t] \in SUBSET (Ids \X Nat)
    BY DEF TypeOK
  <2>2. \A t \in Steps : items[t] = "open" => {call} \in SUBSET (Ids \X Nat)
    BY <1>2
  <2>3. CASE items' = items /\ closedBy' = closedBy
    BY <2>3 DEF TypeOK
  <2>4. CASE /\ items' = [t \in Steps |-> IF items[t] = "open" THEN "answered" ELSE items[t]]
             /\ closedBy' = [t \in Steps |-> IF items[t] = "open" THEN {call} ELSE closedBy[t]]
    <3>1. items' \in [Steps -> {"none", "open", "answered"}]
      BY <2>1, <2>4
    <3>2. closedBy' \in [Steps -> SUBSET (Ids \X Nat)]
      BY <2>1, <2>2, <2>4
    <3>3. \A t \in Steps :
            /\ items'[t] = (IF items[t] = "open" THEN "answered" ELSE items[t])
            /\ closedBy'[t] = (IF items[t] = "open" THEN {call} ELSE closedBy[t])
      BY <2>4
    <3> QED
      BY <3>1, <3>2, <3>3
  <2> QED
    BY <1>1, <2>3, <2>4
<1>4. lost \in Nat /\ lost' \in 0..MaxLostWrites
      /\ (lost' = 0 => lost = 0 /\ \A t \in Steps : items'[t] # "open")
  BY <1>1, BoundsAssumption DEF TypeOK
<1>5. TypeOK'
  BY <1>1, <1>3, <1>4 DEF TypeOK
<1>6. SignalsWereChosen'
  BY <1>1, <1>2, <1>3 DEF SignalsWereChosen, Chose
<1>7. PhasesFollowChildren'
  BY <1>1, <1>3 DEF PhasesFollowChildren, Some, Partial
<1>8. ItemsHaveACause'
  BY <1>1, <1>3, <1>4 DEF ItemsHaveACause
<1>9. PartialFailureIsDecidedByAPerson'
  BY <1>1, <1>3 DEF PartialFailureIsDecidedByAPerson, Some, Chose
<1> QED
  BY <1>5, <1>6, <1>7, <1>8, <1>9

\* A step that changes nothing keeps the invariant.
LEMMA StutterKeepsIInv ==
  ASSUME IInv, UNCHANGED vars
  PROVE  IInv'
<1>1. TypeOK'
  BY DEF IInv, TypeOK, vars
<1> QED
  BY <1>1, SignalsStay, PhasesStay, ItemsStay, DecisionsStay DEF IInv, vars

\* The invariant holds in every reachable state.
LEMMA IInvIsInductive == Spec => []IInv
<1>1. IInv /\ [Next]_vars => IInv'
  BY ChildKeepsIInv, JoinKeepsIInv, RaiseItemKeepsIInv, DecideKeepsIInv, TimeOutKeepsIInv,
     DispatchKeepsIInv, ResolveSignalKeepsIInv, ResolveMarkKeepsIInv, StutterKeepsIInv
     DEF Next, StepNext, Ids
<1> QED
  BY <1>1, InitIInv, PTL DEF Spec

-----------------------------------------------------------------------------

\* However the decisions for several steps mix in the one signal channel, a step
\* that failed in part is complete only if a person chose to proceed for it, and
\* failed only by a person's choice or the timer (the fan-out goroutine of DAGWorkflow).
THEOREM PeopleDecide == Spec => []PartialFailureIsDecidedByAPerson
<1>1. IInv => PartialFailureIsDecidedByAPerson
  BY DEF IInv
<1> QED
  BY <1>1, IInvIsInductive, PTL

\* Although ResolveFanOut signals first and then marks the items of the whole
\* run, the inbox and the steps agree: only a decision for another step closes
\* the question of a step that waits undecided, no question outlives its step
\* once the handlers for it are through, and the answer given for a step is what
\* it did, unless people contradicted each other, or a write was lost.
THEOREM QuestionsFollowSteps == Spec => []QuestionFollowsItsStep
<1>1. ASSUME IInv, lost = 0, NEW s \in Steps
      PROVE  /\ phase[s] = "deciding" /\ resolved[s] = <<>>
                  => items[s] = "open" \/ \E call \in closedBy[s] : call[1] # s
             /\ phase[s] = "done" /\ items[s] = "open"
                  => s \in timedOut \/ \E call \in calls : call[1] = s
             /\ phase[s] = "done" /\ s \notin timedOut /\ ~(Chose(s, "proceed") /\ Chose(s, "terminate"))
                  => \A call \in closedBy[s] : call[1] = s =>
                       outcome[s] = (IF resolved[s][call[2]] = "proceed" THEN "complete" ELSE "failed")
  <2> USE <1>1 DEF IInv
  <2>1. ASSUME phase[s] = "deciding", resolved[s] = <<>>
        PROVE  items[s] = "open" \/ \E call \in closedBy[s] : call[1] # s
    <3>1. items[s] = "open" \/ items[s] = "answered"
      BY <2>1 DEF TypeOK, ItemsHaveACause
    <3>2. \A call \in closedBy[s] : call[1] # s
      BY <2>1 DEF SignalsWereChosen
    <3> QED
      BY <3>1, <3>2 DEF ItemsHaveACause
  <2>2. ASSUME phase[s] = "done", items[s] = "open", s \notin timedOut
        PROVE  \E call \in calls : call[1] = s
    <3>1. Chose(s, "proceed") \/ Chose(s, "terminate")
      BY <2>2 DEF PartialFailureIsDecidedByAPerson
    <3>2. resolved[s] # <<>>
      BY <3>1 DEF Chose
    <3> QED
      BY <2>2, <3>2 DEF ItemsHaveACause
  <2>3. ASSUME phase[s] = "done", s \notin timedOut, ~(Chose(s, "proceed") /\ Chose(s, "terminate")),
               NEW call \in closedBy[s], call[1] = s
        PROVE  outcome[s] = (IF resolved[s][call[2]] = "proceed" THEN "complete" ELSE "failed")
    <3>1. call[2] \in DOMAIN resolved[s]
      BY <2>3 DEF SignalsWereChosen
    <3>2. resolved[s][call[2]] \in Actions /\ Chose(s, resolved[s][call[2]])
      BY <3>1 DEF Chose, TypeOK, Ids
    <3>3. items[s] # "none"
      <4>1. resolved[s] # <<>>
        BY <3>1
      <4> QED
        BY <4>1 DEF ItemsHaveACause
    <3>4. \/ outcome[s] = "complete" /\ Chose(s, "proceed")
          \/ outcome[s] = "failed" /\ Chose(s, "terminate")
      BY <2>3, <3>3 DEF PartialFailureIsDecidedByAPerson
    <3> QED
      BY <2>3, <3>2, <3>4 DEF Actions
  <2> QED
    BY <2>1, <2>2, <2>3
<1>2. IInv => QuestionFollowsItsStep
  BY <1>1 DEF QuestionFollowsItsStep
<1> QED
  BY <1>2, IInvIsInductive, PTL
=============================================================================
