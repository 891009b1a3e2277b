-------------------------- MODULE StepRecords_proofs --------------------------
(***************************************************************************)
(* What StepRecords guarantees for every set of steps and every bound on   *)
(* lines, questions and faults.  Its invariant has two parts.  Shared ties *)
(* rows, questions, answers and logs to their steps and is inductive by    *)
(* itself; ToldSteps and WaitingWasAsked say what a step was told and what *)
(* it waits for, and each of their steps knows Shared of the next state.   *)
(* From the whole it follows that a question pauses its step, that an      *)
(* answer fits its question, and that a log is spliced from its attempts.  *)
(*                                                                         *)
(* Insert is a fold over the lines of a buffer, and Max takes the newest   *)
(* row: the lemmas at the beginning say what a fold is, by induction over  *)
(* the positions of a sequence.  Then comes what the actions have in       *)
(* common, one lemma for each action and part, and the theorems.           *)
(***************************************************************************)
EXTENDS StepRecords, FiniteSetTheorems, WellFoundedInduction, TLAPS

\* A nonempty set of natural numbers has a least one.
LEMMA LeastNumber ==
  ASSUME NEW T, T \subseteq Nat, T # {}
  PROVE  \E n \in T : \A m \in T : n <= m
<1>1. PICK k \in T : TRUE
  OBVIOUS
<1> DEFINE S == 0..k
           D == {0..m : m \in T \cap S}
<1>2. IsFiniteSet(S)
  BY <1>1, FS_Interval
<1>3. D \subseteq FiniteSubsetsOf(S) /\ D # {}
  <2>1. ASSUME NEW m \in T \cap S PROVE 0..m \in FiniteSubsetsOf(S)
    BY <1>1, <1>2, FS_Interval DEF FiniteSubsetsOf
  <2> QED
    BY <1>1, <2>1
<1>4. PICK x \in D : \A y \in D : ~ (<<y, x>> \in StrictSubsetOrdering(S))
  <2> HIDE DEF S, D
  <2> QED
    BY <1>3, WFMin, FS_StrictSubsetOrderingWellFounded
<1>5. PICK n \in T \cap S : x = 0..n
  BY <1>4
<1>6. ASSUME NEW m \in T, m < n PROVE FALSE
  <2>1. m \in S /\ 0..m \in D
    BY <1>1, <1>5, <1>6
  <2>2. 0..m \subseteq 0..n /\ 0..m # 0..n
    BY <1>1, <1>5, <1>6
  <2>3. 0..m \subseteq S /\ 0..n \subseteq S
    BY <2>1, <1>1, <1>5
  <2>4. <<0..m, 0..n>> \in StrictSubsetOrdering(S)
     BY <2>2, <2>3 DEF StrictSubsetOrdering
  <2> QED
    BY <1>4, <1>5, <2>1, <2>4
<1> QED
  BY <1>1, <1>5, <1>6

\* Induction up to a number, over the set of the numbers for which it holds.
LEMMA Induction ==
  ASSUME NEW n \in Nat, NEW S, 0 \in S, \A i \in 1..n : i - 1 \in S => i \in S
  PROVE  \A i \in 0..n : i \in S
<1> DEFINE T == (0..n) \ S
<1> SUFFICES ASSUME T # {} PROVE FALSE
  OBVIOUS
<1>1. PICK m \in T : \A k \in T : m <= k
  <2>1. T \subseteq Nat
    OBVIOUS
  <2> HIDE DEF T
  <2> QED
    BY <2>1, LeastNumber
<1>2. m \in 1..n /\ m - 1 \in S
  BY <1>1
<1> QED
  BY <1>1, <1>2

\* The maximum of a set of positions that holds the last.
LEMMA MaxOfPrefix ==
  ASSUME NEW i \in Nat, NEW s \in SUBSET (1..i), i \in s
  PROVE  Max(s) = i
<1>1. i \in s /\ \A y \in s : i >= y
  OBVIOUS
<1>2. \A x \in s : (\A y \in s : x >= y) => x = i
  BY <1>1
<1> QED
  BY <1>1, <1>2, Zenon DEF Max

\* The function a fold over a sequence of n elements is defined with: on every
\* set of positions the step with the last of them, on what the others give.
IsFold(g, n, X, base, F) ==
  /\ g \in [SUBSET (1..n) -> X]
  /\ \A s \in SUBSET (1..n) : g[s] = IF s = {} THEN base ELSE F[<<Max(s), g[s \ {Max(s)}]>>]

\* There is one.
LEMMA FoldExists ==
  ASSUME NEW n \in Nat, NEW X, NEW base \in X, NEW F \in [(1..n) \X X -> X]
  PROVE  \E g : IsFold(g, n, X, base, F)
<1> DEFINE Folds(g, m) == IsFold(g, m, X, base, F)
           S == {m \in 0..n : \E g : Folds(g, m)}
<1>1. 0 \in S
  <2>1. Folds([s \in SUBSET (1..0) |-> base], 0)
    BY DEF IsFold
  <2> HIDE DEF Folds
  <2> QED
    BY <2>1
<1>2. ASSUME NEW i \in 1..n, i - 1 \in S PROVE i \in S
  <2>1. PICK g : Folds(g, i - 1)
    BY <1>2
  <2> USE DEF IsFold
  <2> DEFINE h == [s \in SUBSET (1..i) |-> IF i \in s THEN F[<<i, g[s \ {i}]>>] ELSE g[s]]
  <2>2. ASSUME NEW s \in SUBSET (1..i), i \in s
        PROVE  /\ s \ {i} \in SUBSET (1..(i - 1)) /\ Max(s) = i /\ g[s \ {i}] \in X
               /\ h[s] = F[<<i, g[s \ {i}]>>] /\ h[s \ {i}] = g[s \ {i}] /\ h[s] \in X
    <3>1. s \ {i} \in SUBSET (1..(i - 1)) /\ s \ {i} \in SUBSET (1..i)
      BY <2>2
    <3>2. g[s \ {i}] \in X
      BY <2>1, <3>1
    <3>3. Max(s) = i
      BY <2>2, MaxOfPrefix
    <3>4. h[s] = F[<<i, g[s \ {i}]>>] /\ h[s \ {i}] = g[s \ {i}]
      BY <2>2, <3>1
    <3> QED
      BY <3>1, <3>2, <3>3, <3>4
  <2>3. ASSUME NEW s \in SUBSET (1..i), i \notin s
        PROVE  s \in SUBSET (1..(i - 1)) /\ h[s] = g[s] /\ h[s] \in X /\ s \ {Max(s)} \in SUBSET (1..(i - 1))
               /\ i \notin s \ {Max(s)} /\ h[s \ {Max(s)}] = g[s \ {Max(s)}]
    <3>1. s \in SUBSET (1..(i - 1))
      BY <2>3
    <3>2. s \ {Max(s)} \in SUBSET (1..(i - 1)) /\ s \ {Max(s)} \in SUBSET (1..i) /\ i \notin s \ {Max(s)}
      <4>1. \A y : s \ {y} \subseteq s
        OBVIOUS
      <4> QED
        BY <4>1, <3>1, <2>3
    <3> QED
    BY <2>1, <2>3, <3>1, <3>2
  <2>4. h \in [SUBSET (1..i) -> X]
    <3> HIDE DEF h
    <3>1. \A s \in SUBSET (1..i) : h[s] \in X
      BY <2>2, <2>3
    <3>2. h = [s \in SUBSET (1..i) |-> h[s]]
      BY DEF h
    <3> QED
    BY <3>1, <3>2
  <2>5. ASSUME NEW s \in SUBSET (1..i)
        PROVE  h[s] = IF s = {} THEN base ELSE F[<<Max(s), h[s \ {Max(s)}]>>]
    <3> HIDE DEF h
    <3>1. CASE i \in s
      BY <3>1, <2>2
    <3>2. CASE i \notin s
      <4>1. g[s] = IF s = {} THEN base ELSE F[<<Max(s), g[s \ {Max(s)}]>>]
        BY <2>1, <2>3, <3>2
      <4> QED
    BY <4>1, <2>3, <3>2
    <3> QED
    BY <3>1, <3>2
  <2>6. Folds(h, i)
    <3> HIDE DEF h
    <3> QED
    BY <2>4, <2>5
  <2> HIDE DEF h, Folds
  <2> QED
    BY <2>6
<1>3. n \in S
  <2> HIDE DEF S
  <2> QED
    BY <1>1, <1>2, Induction
<1> QED
  BY <1>3

\* A set of positions has a last one.
LEMMA LastPosition ==
  ASSUME NEW n \in Nat, NEW P, P \subseteq 1..n, P # {}
  PROVE  \E i \in P : \A j \in P : j <= i
<1> DEFINE T == {n - x : x \in P}
<1>1. T \subseteq Nat /\ T # {}
  <2>1. ASSUME NEW x \in P PROVE n - x \in Nat
    OBVIOUS
  <2> QED
    BY <2>1
<1>2. PICK d \in T : \A m \in T : d <= m
  <2> HIDE DEF T
  <2> QED
    BY <1>1, LeastNumber
<1>3. PICK i \in P : d = n - i
  BY <1>2
<1>4. ASSUME NEW j \in P PROVE j <= i
  <2>1. n - j \in T
    OBVIOUS
  <2>2. d <= n - j
    BY <1>2, <2>1
  <2> QED
    BY <1>3, <2>2
<1> QED
  BY <1>3, <1>4

\* which is its maximum.
LEMMA MaxIn ==
  ASSUME NEW n \in Nat, NEW s \in SUBSET (1..n), s # {}
  PROVE  Max(s) \in s /\ \A y \in s : y <= Max(s)
<1>1. PICK i \in s : \A j \in s : j <= i
  BY LastPosition
<1>2. \A j \in s : i >= j
  BY <1>1
<1>3. Max(s) \in s /\ \A y \in s : Max(s) >= y
  BY <1>2, Zenon DEF Max
<1> QED
  BY <1>3

-----------------------------------------------------------------------------
(* The log of a row.                                                       *)

\* One line: ON CONFLICT DO NOTHING.
InsertLine(done, l) == IF \E k \in DOMAIN done : done[k].seq = l.seq THEN done ELSE Append(done, l)

\* It leaves a log.
LEMMA InsertLineType ==
  ASSUME NEW done \in Seq(LogLines), NEW l \in LogLines
  PROVE  InsertLine(done, l) \in Seq(LogLines)
  BY DEF InsertLine

\* Insert inserts one line after the other.
LEMMA InsertSteps ==
  ASSUME NEW log \in Seq(LogLines), NEW lines \in Seq(LogLines)
  PROVE  \E m \in [0..Len(lines) -> Seq(LogLines)] :
           /\ m[0] = log
           /\ \A i \in 1..Len(lines) : m[i] = InsertLine(m[i - 1], lines[i])
           /\ Insert(log, lines) = m[Len(lines)]
<1> DEFINE n == Len(lines)
           X == Seq(LogLines)
           F == [p \in (1..n) \X X |-> InsertLine(p[2], lines[p[1]])]
           iter == CHOOSE it : it = [s \in SUBSET (DOMAIN lines) |->
                               IF s = {} THEN log ELSE InsertLine(it[s \ {Max(s)}], lines[Max(s)])]
<1>1. n \in Nat /\ DOMAIN lines = 1..n /\ \A i \in 1..n : lines[i] \in LogLines
  OBVIOUS
<1>2. Insert(log, lines) = iter[DOMAIN lines]
  BY DEF Insert, InsertLine, FoldLeft, MapThenFoldSet
<1>3. ASSUME NEW b \in X, NEW e \in LogLines PROVE InsertLine(b, e) \in X
  BY InsertLineType
<1>4. F \in [(1..n) \X X -> X] /\ log \in X
  <2> HIDE DEF n
  <2>1. log \in X
    OBVIOUS
  <2> HIDE DEF X
  <2> QED
    BY <1>1, <1>3, <2>1
<1>5. PICK g : IsFold(g, n, X, log, F)
  <2> HIDE DEF n, F, X
  <2> QED
    BY <1>1, <1>4, FoldExists
<1>6. g \in [SUBSET (1..n) -> X]
      /\ \A s \in SUBSET (1..n) : g[s] = IF s = {} THEN log ELSE InsertLine(g[s \ {Max(s)}], lines[Max(s)])
  <2>1. g \in [SUBSET (1..n) -> X]
      /\ \A s \in SUBSET (1..n) : g[s] = IF s = {} THEN log ELSE F[<<Max(s), g[s \ {Max(s)}]>>]
    <3> HIDE DEF n, F, X
    <3> QED
      BY <1>5 DEF IsFold
  <2>2. ASSUME NEW s \in SUBSET (1..n), s # {} PROVE Max(s) \in 1..n /\ g[s \ {Max(s)}] \in X
    <3> HIDE DEF n, F, X
    <3>1. Max(s) \in s
      BY <1>1, <2>2, MaxIn
    <3> QED
      BY <2>1, <3>1
  <2>3. ASSUME NEW x \in 1..n, NEW y \in X PROVE F[<<x, y>>] = InsertLine(y, lines[x])
    <3> HIDE DEF n, X
    <3> QED
    OBVIOUS
  <2> HIDE DEF n, F, X
  <2> QED
    BY <2>1, <2>2, <2>3
<1>7. iter = [s \in SUBSET (DOMAIN lines) |->
                IF s = {} THEN log ELSE InsertLine(iter[s \ {Max(s)}], lines[Max(s)])]
  <2>1. g = [s \in SUBSET (DOMAIN lines) |->
                IF s = {} THEN log ELSE InsertLine(g[s \ {Max(s)}], lines[Max(s)])]
    <3> HIDE DEF n, F, X
    <3> QED
    BY <1>1, <1>6
  <2> QED
    BY <2>1, Zenon
<1> HIDE DEF iter, F
<1>8. \A s \in SUBSET (1..n) : iter[s] = IF s = {} THEN log ELSE InsertLine(iter[s \ {Max(s)}], lines[Max(s)])
  <2> HIDE DEF n
  <2> QED
    BY <1>1, <1>7
<1> DEFINE m == [i \in 0..n |-> iter[1..i]]
<1>9. m[0] = log
  <2>1. 1..0 = {} /\ {} \in SUBSET (1..n)
    OBVIOUS
  <2>2. 0 \in 0..n /\ m[0] = iter[1..0]
    BY <1>1
  <2> HIDE DEF m, n
  <2> QED
    BY <1>8, <2>1, <2>2
<1>10. ASSUME NEW i \in 1..n PROVE m[i] = InsertLine(m[i - 1], lines[i])
  <2>1. Max(1..i) = i /\ 1..i \in SUBSET (1..n) /\ 1..i # {} /\ (1..i) \ {i} = 1..(i - 1)
    <3> HIDE DEF n
    <3>1. i \in Nat /\ 1..i \in SUBSET (1..i) /\ i \in 1..i /\ 1..i \subseteq 1..n
      BY <1>1
    <3> QED
      <4>1. Max(1..i) = i
        BY <3>1, MaxOfPrefix
      <4>2. (1..i) \ {i} = 1..(i - 1)
        BY <3>1
      <4>3. 1..i \in SUBSET (1..n) /\ 1..i # {}
        BY <3>1
      <4> QED
        BY <4>1, <4>2, <4>3
  <2>2. m[i] = iter[1..i] /\ m[i - 1] = iter[1..(i - 1)]
    BY <1>1
  <2> HIDE DEF m, n
  <2> QED
    BY <1>8, <2>1, <2>2
<1>11. m \in [0..n -> X]
  <2> DEFINE S == {i \in 0..n : m[i] \in X}
  <2>1. 0 \in S
    <3> HIDE DEF m, n, X
    <3> QED
      BY <1>1, <1>4, <1>9
  <2>2. \A i \in 1..n : i - 1 \in S => i \in S
    <3> HIDE DEF m, n, X
    <3> QED
      BY <1>1, <1>3, <1>10
  <2>3. \A i \in 0..n : i \in S
    <3> HIDE DEF S, n
    <3> QED
      BY <1>1, <2>1, <2>2, Induction
  <2>4. \A i \in 0..n : m[i] \in X
    BY <2>3
  <2> HIDE DEF X, n
  <2> QED
    BY <2>4
<1>12. Insert(log, lines) = m[n]
  BY <1>1, <1>2 DEF iter
<1> HIDE DEF m
<1> QED
  BY <1>9, <1>10, <1>11, <1>12

\* What the log of an attempt is: numbered without a gap, and of no later
\* attempt than the one that writes.
Continues(log, attempt) ==
  log \in Seq(LogLines) /\ Spliced(log) /\ \A k \in DOMAIN log : log[k].attempt <= attempt

\* One line that begins where the log ends, or before, continues it.
LEMMA LineContinues ==
  ASSUME NEW done, NEW attempt \in Nat, Continues(done, attempt), NEW b \in Nat, NEW i \in Nat, i >= 1,
         b + (i - 1) <= Len(done), NEW l, l = [seq |-> b + i - 1, attempt |-> attempt]
  PROVE  Continues(InsertLine(done, l), attempt) /\ b + i <= Len(InsertLine(done, l))
<1>1. /\ done \in Seq(LogLines) /\ Len(done) \in Nat /\ DOMAIN done = 1..Len(done)
      /\ \A k \in DOMAIN done : done[k].seq = k - 1 /\ done[k].attempt <= attempt
      /\ \A j, k \in DOMAIN done : j < k => done[j].attempt <= done[k].attempt
  BY DEF Continues, Spliced
<1>2. l \in LogLines /\ l.seq = b + i - 1 /\ l.attempt = attempt
  BY DEF LogLines
<1>3. CASE b + i <= Len(done)
  <2>1. b + i \in DOMAIN done /\ done[b + i].seq = l.seq
    BY <1>1, <1>2, <1>3
  <2>2. InsertLine(done, l) = done
    BY <2>1 DEF InsertLine
  <2> QED
    BY <1>3, <2>2
<1>4. CASE Len(done) = b + (i - 1)
  <2>1. \A k \in DOMAIN done : done[k].seq # l.seq
    BY <1>1, <1>2, <1>4
  <2> DEFINE more == Append(done, l)
  <2>2. InsertLine(done, l) = more
    BY <2>1 DEF InsertLine
  <2>3. /\ more \in Seq(LogLines) /\ Len(more) = Len(done) + 1 /\ DOMAIN more = 1..(Len(done) + 1)
        /\ \A k \in DOMAIN done : more[k] = done[k]
        /\ more[Len(done) + 1] = l
    BY <1>1, <1>2
  <2> HIDE DEF more
  <2>4. ASSUME NEW k \in DOMAIN more PROVE more[k].seq = k - 1 /\ more[k].attempt <= attempt
    BY <1>1, <1>2, <1>4, <2>3
  <2>5. ASSUME NEW j \in DOMAIN more, NEW k \in DOMAIN more, j < k PROVE more[j].attempt <= more[k].attempt
    <3>1. j \in DOMAIN done
      BY <1>1, <2>3, <2>5
    <3>2. CASE k \in DOMAIN done
      BY <1>1, <2>3, <2>5, <3>1, <3>2
    <3>3. CASE k = Len(done) + 1
      BY <1>1, <1>2, <2>3, <3>1, <3>3
    <3> QED
      BY <1>1, <2>3, <3>2, <3>3
  <2>6. Continues(more, attempt)
    BY <2>3, <2>4, <2>5 DEF Continues, Spliced
  <2> QED
    BY <1>1, <1>4, <2>2, <2>3, <2>6
<1> QED
  BY <1>1, <1>3, <1>4

\* Lines that begin where the log ends, or before, continue it.
LEMMA InsertContinues ==
  ASSUME NEW log, NEW attempt \in Nat, Continues(log, attempt), NEW b \in Nat, b <= Len(log), NEW lines \in Seq(LogLines),
         \A k \in DOMAIN lines : lines[k] = [seq |-> b + k - 1, attempt |-> attempt]
  PROVE  Continues(Insert(log, lines), attempt) /\ b + Len(lines) <= Len(Insert(log, lines))
<1> DEFINE n == Len(lines)
<1>1. n \in Nat /\ DOMAIN lines = 1..n /\ log \in Seq(LogLines)
  BY DEF Continues
<1>2. PICK m \in [0..n -> Seq(LogLines)] :
           /\ m[0] = log
           /\ \A i \in 1..n : m[i] = InsertLine(m[i - 1], lines[i])
           /\ Insert(log, lines) = m[n]
  BY <1>1, InsertSteps
<1> DEFINE S == {i \in 0..n : Continues(m[i], attempt) /\ b + i <= Len(m[i])}
<1>3. 0 \in S
  <2> HIDE DEF n
  <2> QED
    BY <1>1, <1>2
<1>4. ASSUME NEW i \in 1..n, i - 1 \in S PROVE i \in S
  <2> DEFINE l == lines[i]
             done == m[i - 1]
  <2>1. l = [seq |-> b + i - 1, attempt |-> attempt]
    BY <1>1
  <2>2. Continues(done, attempt) /\ b + (i - 1) <= Len(done) /\ m[i] = InsertLine(done, l)
    BY <1>2, <1>4
  <2> HIDE DEF done, l, n, S
  <2>3. i \in Nat /\ i >= 1
    BY <1>1
  <2>4. Continues(InsertLine(done, l), attempt) /\ b + i <= Len(InsertLine(done, l))
    BY <2>1, <2>2, <2>3, LineContinues
  <2> QED
    BY <1>1, <2>2, <2>4 DEF S
<1>5. \A i \in 0..n : i \in S
  <2> HIDE DEF S, n
  <2> QED
    BY <1>1, <1>3, <1>4, Induction
<1>6. n \in 0..n
  <2> HIDE DEF n
  <2> QED
    BY <1>1
<1> QED
  BY <1>2, <1>5, <1>6

-----------------------------------------------------------------------------
(* What steps have in common.                                              *)

\* Rows and items stay, and what they say of the step they belong to.
Grows ==
  /\ \A r \in DOMAIN rows : r \in DOMAIN rows' /\ rows'[r].step = rows[r].step /\ rows'[r].kind = rows[r].kind
  /\ \A i \in DOMAIN inbox : i \in DOMAIN inbox' /\ inbox'[i].row = inbox[i].row /\ inbox'[i].by = inbox[i].by

\* A step, its request and its row.
LEMMA Fields ==
  ASSUME Shared, NEW s \in Steps
  PROVE  /\ step[s] \in StepStates /\ step[s].pc \in {"new", "begin", "running", "waiting", "closed"}
         /\ step[s].row \in Nat /\ step[s].own \in Nat /\ step[s].attempt \in 1..MaxAttempts /\ step[s].seq \in Nat
         /\ step[s].buffer \in Seq(LogLines) /\ step[s].lost \in BOOLEAN /\ step[s].question \in Nat /\ step[s].answer \in Nat
         /\ ask[s].pc \in {"idle", "found", "filed"} /\ ask[s].row \in Nat /\ ask[s].alone \in BOOLEAN /\ ask[s].told \in BOOLEAN
         /\ ask[s] \in Requests
         /\ Belongs(s) /\ faults \in Nat /\ (faults = 0 => Once(s))
         /\ step \in [Steps -> StepStates] /\ DOMAIN step = Steps
         /\ ask \in [Steps -> Requests] /\ DOMAIN ask = Steps
         /\ (ask[s].pc # "idle" => ask[s].row \in DOMAIN rows)
         /\ queue[s] \in Seq(DOMAIN inbox) /\ queue \in [Steps -> Seq(DOMAIN inbox)]
<1>1. /\ step \in [Steps -> StepStates] /\ DOMAIN step = Steps
      /\ ask \in [Steps -> Requests] /\ DOMAIN ask = Steps
      /\ (ask[s].pc # "idle" => ask[s].row \in DOMAIN rows) /\ faults \in Nat
      /\ queue[s] \in Seq(DOMAIN inbox) /\ queue \in [Steps -> Seq(DOMAIN inbox)]
  BY DEF Shared, TypeOK
<1>2. step[s] \in StepStates /\ ask[s] \in Requests
  BY <1>1
<1>3. Belongs(s) /\ (faults = 0 => Once(s))
  BY DEF Shared, RowsBelong, AskedOnce
<1>4. /\ step[s].pc \in {"new", "begin", "running", "waiting", "closed"}
      /\ step[s].row \in Nat /\ step[s].own \in Nat /\ step[s].attempt \in 1..MaxAttempts /\ step[s].seq \in Nat
      /\ step[s].buffer \in Seq(LogLines) /\ step[s].lost \in BOOLEAN /\ step[s].question \in Nat /\ step[s].answer \in Nat
  BY <1>2 DEF StepStates
<1>5. ask[s].pc \in {"idle", "found", "filed"} /\ ask[s].row \in Nat /\ ask[s].alone \in BOOLEAN /\ ask[s].told \in BOOLEAN
  BY <1>2 DEF Requests
<1> QED
  BY <1>1, <1>2, <1>3, <1>4, <1>5

\* The rows.
LEMMA RowsAre ==
  ASSUME Shared
  PROVE  /\ rows \in Seq(Records) /\ Len(rows) \in Nat /\ DOMAIN rows = 1..Len(rows)
         /\ inbox \in Seq(Items)
         /\ Len(inbox) \in Nat /\ DOMAIN inbox = 1..Len(inbox)
         /\ \A i \in DOMAIN inbox : inbox[i].row \in DOMAIN rows
         /\ \A r \in DOMAIN rows : /\ rows[r] \in Records /\ rows[r].step \in Steps /\ rows[r].kind \in {"own", "continuation"}
                                   /\ rows[r].log \in Seq(LogLines)
<1>1. /\ rows \in Seq(Records) /\ Len(rows) \in Nat /\ DOMAIN rows = 1..Len(rows)
      /\ inbox \in Seq(Items)
      /\ Len(inbox) \in Nat /\ DOMAIN inbox = 1..Len(inbox)
      /\ \A i \in DOMAIN inbox : inbox[i].row \in DOMAIN rows
  BY DEF Shared, TypeOK
<1>2. \A r \in DOMAIN rows : rows[r] \in Records
  BY <1>1
<1> QED
  BY <1>1, <1>2 DEF Records

\* A row that changes in its status or its log.
LEMMA RowChanges ==
  ASSUME Shared, NEW r \in DOMAIN rows, NEW rec \in Records, rec.step = rows[r].step, rec.kind = rows[r].kind,
         rows' = [rows EXCEPT ![r] = rec]
  PROVE  /\ rows' \in Seq(Records) /\ DOMAIN rows' = DOMAIN rows /\ rows'[r] = rec
         /\ \A q \in DOMAIN rows : (q # r => rows'[q] = rows[q]) /\ rows'[q].step = rows[q].step /\ rows'[q].kind = rows[q].kind
<1>1. rows \in Seq(Records)
  BY RowsAre
<1>2. rows' \in Seq(Records) /\ DOMAIN rows' = DOMAIN rows /\ rows'[r] = rec
  BY <1>1
<1>3. \A q \in DOMAIN rows : q # r => rows'[q] = rows[q]
  BY <1>1
<1> QED
  BY <1>2, <1>3

\* A status that is written.
LEMMA StatusChanges ==
  ASSUME Shared, NEW r \in DOMAIN rows, NEW status \in {"pending", "running", "awaiting_input", "complete", "failed", "skipped"},
         rows' = SetStatus(r, status)
  PROVE  /\ rows' \in Seq(Records) /\ DOMAIN rows' = DOMAIN rows /\ rows'[r].status = status
         /\ \A q \in DOMAIN rows : /\ q # r => rows'[q] = rows[q]
                                   /\ rows'[q].step = rows[q].step /\ rows'[q].kind = rows[q].kind /\ rows'[q].log = rows[q].log
<1> DEFINE rec == [rows[r] EXCEPT !.status = status]
<1>1. rows' = [rows EXCEPT ![r] = rec]
  BY DEF SetStatus
<1>2. rows[r] \in Records
  BY RowsAre
<1>3. rec \in Records /\ rec.step = rows[r].step /\ rec.kind = rows[r].kind /\ rec.log = rows[r].log /\ rec.status = status
  BY <1>2 DEF Records
<1> HIDE DEF rec
<1>4. /\ rows' \in Seq(Records) /\ DOMAIN rows' = DOMAIN rows /\ rows'[r] = rec
      /\ \A q \in DOMAIN rows : (q # r => rows'[q] = rows[q]) /\ rows'[q].step = rows[q].step /\ rows'[q].kind = rows[q].kind
  BY <1>1, <1>3, RowChanges
<1>5. \A q \in DOMAIN rows : rows'[q].log = rows[q].log
  BY <1>3, <1>4
<1> QED
  BY <1>3, <1>4, <1>5

-----------------------------------------------------------------------------
(* Parts of the invariant that a step leaves alone.                        *)

\* Items about a row stay.
LaterItems(r) == {i \in DOMAIN inbox' : inbox'[i].row = r}

\* They stay.
LEMMA ItemsStay ==
  ASSUME Grows, NEW r
  PROVE  ItemsOf(r) \subseteq LaterItems(r)
  BY DEF ItemsOf, LaterItems, Grows

\* The row of a step that does not change it.
LEMMA BelongsStays ==
  ASSUME Grows, NEW t \in Steps, Belongs(t),
         step'[t].own = step[t].own, step'[t].row = step[t].row, step'[t].answer = step[t].answer,
         step'[t].pc = "new" <=> step[t].pc = "new", step[t].pc = "new" => ask'[t].pc = "idle"
  PROVE  Belongs(t)'
  BY DEF Grows, Belongs

\* No row begins to wait.
LEMMA AwaitingStays ==
  ASSUME Shared, Grows,
         \A r \in DOMAIN rows' : rows'[r].status = "awaiting_input" => r \in DOMAIN rows /\ rows[r].status = "awaiting_input",
         \A t \in Steps : ask'[t].pc = "filed" => ask[t].pc = "filed" /\ ask'[t].row = ask[t].row
  PROVE  AwaitingWasAsked'
<1>1. ASSUME NEW r \in DOMAIN rows', rows'[r].status = "awaiting_input" PROVE LaterItems(r) # {}
  <2>1. ItemsOf(r) # {}
    BY <1>1 DEF Shared, AwaitingWasAsked
  <2> QED
    BY <2>1, ItemsStay
<1>2. ASSUME NEW t \in Steps, ask'[t].pc = "filed" PROVE LaterItems(ask'[t].row) # {}
  <2>1. ItemsOf(ask[t].row) # {} /\ ask'[t].row = ask[t].row
    BY <1>2 DEF Shared, AwaitingWasAsked
  <2> QED
    BY <2>1, ItemsStay
<1> QED
  BY <1>1, <1>2 DEF AwaitingWasAsked, ItemsOf, LaterItems

\* The answers of a step.
AnswersOf(s) ==
  /\ \A k \in DOMAIN queue[s] : Answers(queue[s][k], s)
  /\ step[s].answer # 0 => step[s].answer \in DOMAIN inbox /\ Answers(step[s].answer, s)

\* The same of the next state.
LaterAnswers(i, s) == rows'[inbox'[i].row].step = s /\ rows'[inbox'[i].row].kind = "own"

\* What answers, goes on to.
LEMMA AnswersGrow ==
  ASSUME Shared, Grows, NEW t, NEW i \in DOMAIN inbox, Answers(i, t)
  PROVE  i \in DOMAIN inbox' /\ LaterAnswers(i, t)
<1>1. inbox[i].row \in DOMAIN rows /\ inbox'[i].row = inbox[i].row /\ i \in DOMAIN inbox'
  BY RowsAre DEF Grows
<1> QED
  BY <1>1 DEF Answers, LaterAnswers, Grows

\* No answer is given.
LEMMA AnswersStay ==
  ASSUME Shared, Grows, NEW t \in Steps, UNCHANGED queue[t], step'[t].answer = step[t].answer
  PROVE  AnswersOf(t)'
<1>1. queue[t] \in Seq(DOMAIN inbox)
  BY Fields
<1>2. ASSUME NEW k \in DOMAIN queue'[t] PROVE LaterAnswers(queue'[t][k], t)
  <2>1. queue[t][k] \in DOMAIN inbox /\ Answers(queue[t][k], t)
    BY <1>1, <1>2 DEF Shared, AnswersBelong
  <2> QED
    BY <2>1, AnswersGrow
<1>3. step'[t].answer # 0 => step'[t].answer \in DOMAIN inbox' /\ LaterAnswers(step'[t].answer, t)
  <2>1. step[t].answer # 0 => step[t].answer \in DOMAIN inbox /\ Answers(step[t].answer, t)
    BY DEF Shared, AnswersBelong
  <2> QED
    BY <2>1, AnswersGrow
<1> QED
  BY <1>2, <1>3 DEF AnswersOf, Answers, LaterAnswers

\* A step that does not move, while nothing fails: its items stay what they
\* are, and no row of its own becomes a candidate.
LEMMA OnceStays ==
  ASSUME Shared, Grows, NEW t \in Steps, Once(t),
         step'[t] = step[t], ask'[t] = ask[t],
         \A r \in DOMAIN rows' : rows'[r].step = t => r \in DOMAIN rows,
         step[t].pc # "new" /\ step[t].own \in Candidates' => step[t].own \in Candidates,
         \A i \in DOMAIN inbox' : i \in DOMAIN inbox \/ inbox'[i].by # t
  PROVE  Once(t)'
<1>1. OwnItems(t)' = OwnItems(t) /\ ItemsOf(step[t].own) \subseteq LaterItems(step[t].own)
  <2>1. ItemsOf(step[t].own) \subseteq LaterItems(step[t].own)
    BY ItemsStay
  <2>2. OwnItems(t)' = OwnItems(t)
    BY DEF OwnItems, ItemsOf, Grows
  <2> QED
    BY <2>1, <2>2
<1>2. step[t].pc = "new" => OwnItems(t) = {}
  <2>1. step[t].pc = "new" => step[t].own = 0
    BY Fields DEF Belongs
  <2>2. \A i \in DOMAIN inbox : inbox[i].row # 0
    BY RowsAre
  <2> QED
    BY <2>1, <2>2 DEF OwnItems, ItemsOf
<1>3. LaterItems(step[t].own) = ItemsOf(step[t].own)'
  BY DEF ItemsOf, LaterItems
<1> QED
  BY <1>1, <1>2, <1>3 DEF Once, Grows

\* Attempts are numbers, also those in the logs.
LEMMA Attempts ==
  ASSUME Shared
  PROVE  /\ \A t \in Steps : step[t].attempt \in Nat
         /\ \A r \in DOMAIN rows : \A k \in DOMAIN rows[r].log : rows[r].log[k].attempt \in Nat
<1>1. ASSUME NEW t \in Steps PROVE step[t].attempt \in Nat
  <2>1. step[t].attempt \in 1..MaxAttempts
    BY Fields
  <2> QED
    BY <2>1 DEF MaxAttempts
<1>2. ASSUME NEW r \in DOMAIN rows, NEW k \in DOMAIN rows[r].log PROVE rows[r].log[k].attempt \in Nat
  <2>1. rows[r].log \in Seq(LogLines)
    BY RowsAre
  <2>2. rows[r].log[k] \in LogLines
    BY <2>1
  <2> QED
    BY <2>2 DEF LogLines
<1> QED
  BY <1>1, <1>2

\* The logs stay.
LEMMA LogsStay ==
  ASSUME Shared, Grows, \A r \in DOMAIN rows' : r \in DOMAIN rows /\ rows'[r].log = rows[r].log,
         \A t \in Steps : /\ step'[t].lost = step[t].lost /\ (step'[t].pc = "new" <=> step[t].pc = "new")
                          /\ step'[t].row = step[t].row /\ step'[t].attempt \in Nat /\ step'[t].attempt >= step[t].attempt
                          /\ step'[t].pc = "running" => /\ step[t].pc = "running" /\ step'[t].attempt = step[t].attempt
                                                        /\ step'[t].seq = step[t].seq /\ step'[t].buffer = step[t].buffer
  PROVE  LogsContinue'
<1>1. ASSUME NEW r \in DOMAIN rows', ~step'[rows'[r].step].lost PROVE Spliced(rows'[r].log)
  <2>1. r \in DOMAIN rows /\ rows'[r].log = rows[r].log /\ rows'[r].step = rows[r].step /\ rows[r].step \in Steps
    BY RowsAre DEF Grows
  <2>2. ~step[rows[r].step].lost
    BY <1>1, <2>1
  <2> QED
    BY <2>1, <2>2 DEF Shared, LogsContinue
<1>2. ASSUME NEW t \in Steps, step'[t].pc # "new", ~step'[t].lost PROVE Follows(t)'
  <2>1. Follows(t)
    BY <1>2 DEF Shared, LogsContinue
  <2>2. step[t].row \in DOMAIN rows /\ step'[t].row = step[t].row
    BY <1>2, Fields DEF Belongs
  <2>3. rows'[step'[t].row].log = rows[step[t].row].log
    BY <2>2 DEF Grows
  <2>4. step[t].attempt \in Nat /\ step'[t].attempt \in Nat /\ step'[t].attempt >= step[t].attempt
    BY Attempts
  <2>5. \A k \in DOMAIN rows[step[t].row].log : rows[step[t].row].log[k].attempt \in Nat
    BY <2>2, Attempts
  <2>6. \A k \in DOMAIN rows[step[t].row].log : rows[step[t].row].log[k].attempt <= step'[t].attempt
    BY <2>1, <2>4, <2>5 DEF Follows
  <2> QED
    BY <2>1, <2>3, <2>6 DEF Follows
<1> QED
  BY <1>1, <1>2 DEF LogsContinue, Spliced

-----------------------------------------------------------------------------
(* The requests of the agents.                                             *)

\* The newest of some rows, or items, is one of them.
LEMMA NewestIsOne ==
  ASSUME NEW n \in Nat, NEW S \in SUBSET (1..n), S # {}
  PROVE  Max(S) \in S /\ Max(S) \in 1..n
  BY MaxIn

\* The newest candidate belongs to the agent that asks, if it is alone.
LEMMA FindStepKeepsShared == ASSUME Shared, NEW s \in Steps, FindStep(s) PROVE Shared'
<1> DEFINE rec == [ask[s] EXCEPT !.pc = "found", !.row = Max(Candidates), !.alone = Alone(s)]
<1>1. /\ step[s].pc = "running" /\ ask[s].pc = "idle" /\ Candidates # {}
      /\ ask' = [ask EXCEPT ![s] = rec] /\ UNCHANGED <<rows, inbox, step, queue, faults>>
  BY DEF FindStep
<1>2. Max(Candidates) \in Candidates /\ Max(Candidates) \in DOMAIN rows
  <2>1. Candidates \in SUBSET (1..Len(rows)) /\ Len(rows) \in Nat
    BY RowsAre DEF Candidates
  <2> QED
    BY <1>1, <2>1, NewestIsOne DEF Candidates
<1>3. rec \in Requests /\ rec.pc = "found" /\ rec.row = Max(Candidates)
  <2>1. Max(Candidates) \in Nat /\ Alone(s) \in BOOLEAN /\ ask[s] \in Requests
    BY <1>2, RowsAre, Fields DEF Alone
  <2> QED
    BY <2>1 DEF Requests
<1>4. /\ ask' \in [Steps -> Requests]
      /\ ask'[s] = rec /\ \A t \in Steps \ {s} : ask'[t] = ask[t]
  <2> HIDE DEF rec
  <2> QED
    BY <1>1, <1>3, Fields
<1> HIDE DEF rec
<1>5. Grows
  BY <1>1 DEF Grows
<1>6. TypeOK'
  <2>1. \A t \in Steps : ask'[t].pc # "idle" => ask'[t].row \in DOMAIN rows
    <3> SUFFICES ASSUME NEW t \in Steps, ask'[t].pc # "idle" PROVE ask'[t].row \in DOMAIN rows
      OBVIOUS
    <3>1. CASE t = s
      BY <1>2, <1>3, <1>4, <3>1
    <3>2. CASE t # s
      BY <1>4, <3>2, Fields
    <3> QED
      BY <3>1, <3>2
  <2> QED
    BY <1>1, <1>4, <2>1 DEF Shared, TypeOK
<1>7. RowsBelong'
  <2> SUFFICES ASSUME NEW t \in Steps PROVE Belongs(t)'
    BY DEF RowsBelong
  <2>1. step[t].pc = "new" => ask'[t].pc = "idle"
    BY <1>1, <1>4, Fields DEF Belongs
  <2> QED
    BY <1>1, <1>5, <2>1, BelongsStays, Fields
<1>9. AwaitingWasAsked'
  <2>1. \A t \in Steps : ask'[t].pc = "filed" => ask[t].pc = "filed" /\ ask'[t].row = ask[t].row
    BY <1>3, <1>4
  <2> QED
    BY <1>1, <1>5, <2>1, AwaitingStays
<1>10. AnswersBelong'
  BY <1>1 DEF Shared, AnswersBelong, Answers
<1>11. AskedOnce'
  <2> SUFFICES ASSUME faults = 0, NEW t \in Steps PROVE Once(t)'
    BY <1>1 DEF AskedOnce
  <2>1. CASE t = s
    <3>1. Once(s)
      BY Fields
    <3>2. OwnItems(s)' = OwnItems(s) /\ Candidates' = Candidates /\ ItemsOf(step[s].own)' = ItemsOf(step[s].own)
      BY <1>1 DEF OwnItems, ItemsOf, Candidates, Finished
    <3>3. ask'[s].pc = "found" /\ (ask'[s].row = step[s].own => step[s].own \in Candidates)
      BY <1>2, <1>3, <1>4
    <3> QED
      BY <1>1, <2>1, <3>1, <3>2, <3>3 DEF Once
  <2>2. CASE t # s
    <3>1. Candidates' = Candidates
      BY <1>1 DEF Candidates, Finished
    <3> QED
      BY <1>1, <1>4, <1>5, <2>2, <3>1, OnceStays, Fields
  <2> QED
    BY <2>1, <2>2
<1>12. LogsContinue'
  <2>1. \A t \in Steps : step[t].attempt \in Nat
    BY Attempts
  <2> QED
    BY <1>1, <1>5, <2>1, LogsStay
<1> QED
  BY <1>6, <1>7, <1>9, <1>10, <1>11, <1>12 DEF Shared

\* A request that moves, and what its agent is told.
LEMMA AskMoves ==
  ASSUME Shared, NEW s \in Steps, NEW pc \in {"idle", "found", "filed"}, NEW alone \in BOOLEAN, NEW told \in BOOLEAN,
         ask' = [ask EXCEPT ![s] = [@ EXCEPT !.pc = pc, !.alone = alone, !.told = told]]
  PROVE  /\ ask' \in [Steps -> Requests]
         /\ ask'[s].pc = pc /\ ask'[s].row = ask[s].row /\ ask'[s].alone = alone /\ ask'[s].told = told
         /\ \A t \in Steps \ {s} : ask'[t] = ask[t]
<1> DEFINE rec == [ask[s] EXCEPT !.pc = pc, !.alone = alone, !.told = told]
<1>1. ask' = [ask EXCEPT ![s] = rec]
  OBVIOUS
<1>2. ask[s] \in Requests /\ DOMAIN ask = Steps /\ ask \in [Steps -> Requests]
  BY Fields
<1>3. rec \in Requests /\ rec.pc = pc /\ rec.row = ask[s].row /\ rec.alone = alone /\ rec.told = told
  BY <1>2 DEF Requests
<1> HIDE DEF rec
<1> QED
  BY <1>1, <1>2, <1>3

\* A request that moves while its agent is told nothing.
LEMMA AskGoesOn ==
  ASSUME Shared, NEW s \in Steps, NEW pc \in {"idle", "filed"}, ask' = [ask EXCEPT ![s].pc = pc]
  PROVE  /\ ask' \in [Steps -> Requests]
         /\ ask'[s].pc = pc /\ ask'[s].row = ask[s].row /\ ask'[s].alone = ask[s].alone /\ ask'[s].told = ask[s].told
         /\ \A t \in Steps \ {s} : ask'[t] = ask[t]
<1>1. ask[s].alone \in BOOLEAN /\ ask[s].told \in BOOLEAN /\ ask[s] \in Requests
  BY Fields
<1>2. [ask[s] EXCEPT !.pc = pc] = [ask[s] EXCEPT !.pc = pc, !.alone = ask[s].alone, !.told = ask[s].told]
  BY <1>1 DEF Requests
<1>3. ask' = [ask EXCEPT ![s] = [@ EXCEPT !.pc = pc, !.alone = ask[s].alone, !.told = ask[s].told]]
  BY <1>2
<1> QED
  BY <1>1, <1>3, AskMoves

\* While the steps themselves do not move: what is left to show.
LEMMA RequestStep ==
  ASSUME Shared, Grows, UNCHANGED <<step, queue>>,
         rows' \in Seq(Records), DOMAIN rows' = DOMAIN rows, \A r \in DOMAIN rows : rows'[r].log = rows[r].log,
         inbox' \in Seq(Items),
         \A i \in DOMAIN inbox' : inbox'[i].row \in DOMAIN rows,
         ask' \in [Steps -> Requests],
         \A t \in Steps : ask'[t].pc # "idle" => ask[t].pc # "idle" /\ ask'[t].row = ask[t].row,
         faults' \in Nat, AwaitingWasAsked', AskedOnce'
  PROVE  Shared'
<1>1. TypeOK'
  <2>1. \A t \in Steps : ask'[t].pc # "idle" => ask'[t].row \in DOMAIN rows'
    BY Fields
  <2>2. DOMAIN inbox \subseteq DOMAIN inbox' /\ \A t \in Steps : queue[t] \in Seq(DOMAIN inbox)
    BY Fields DEF Grows
  <2>3. \A t \in Steps : queue[t] \in Seq(DOMAIN inbox')
    BY <2>2
  <2>4. queue' \in [Steps -> Seq(DOMAIN inbox')]
    BY <2>3 DEF Shared, TypeOK
  <2> QED
    BY <2>1, <2>4 DEF Shared, TypeOK
<1>2. RowsBelong'
  <2> SUFFICES ASSUME NEW t \in Steps PROVE Belongs(t)'
    BY DEF RowsBelong
  <2>1. step[t].pc = "new" => ask'[t].pc = "idle"
    BY Fields DEF Belongs
  <2> QED
    BY <2>1, BelongsStays, Fields
<1>4. AnswersBelong'
  <2>1. \A t \in Steps : AnswersOf(t)'
    BY AnswersStay
  <2> QED
    BY <2>1 DEF AnswersBelong, AnswersOf
<1>5. LogsContinue'
  BY Attempts, LogsStay
<1> QED
  BY <1>1, <1>2, <1>4, <1>5 DEF Shared

\* The question is about the row that was found, unless its insert fails.
LEMMA FileQuestionKeepsShared == ASSUME Shared, NEW s \in Steps, FileQuestion(s) PROVE Shared'
<1>1. ask[s].pc = "found" /\ UNCHANGED <<rows, step, queue>> /\ ask[s].row \in DOMAIN rows
  BY Fields DEF FileQuestion
<1>2. CASE ask' = [ask EXCEPT ![s].pc = "idle"] /\ UNCHANGED inbox /\ Fault
  <2>1. Grows
    BY <1>1, <1>2 DEF Grows
  <2>2. faults' \in Nat /\ faults' # 0
    <3>1. faults \in Nat /\ faults' = faults + 1
      BY <1>2, Fields DEF Fault
    <3> QED
      BY <3>1
  <2>3. \A t \in Steps : /\ ask'[t].pc # "idle" => ask'[t] = ask[t]
                         /\ ask'[t].pc = "filed" => ask[t].pc = "filed" /\ ask'[t].row = ask[t].row
    BY <1>2, AskGoesOn
  <2>4. AskedOnce'
    BY <2>2 DEF AskedOnce
  <2>5. AwaitingWasAsked'
    BY <1>1, <1>2, <2>1, <2>3, AwaitingStays
  <2> QED
    BY <1>1, <1>2, <2>1, <2>2, <2>3, <2>4, <2>5, AskGoesOn, RowsAre, RequestStep
<1>3. CASE /\ NoFault /\ ask' = [ask EXCEPT ![s].pc = "filed"]
           /\ inbox' = Append(inbox, [row |-> ask[s].row, by |-> s, answered |-> FALSE, lost |-> FALSE])
  <2> DEFINE item == [row |-> ask[s].row, by |-> s, answered |-> FALSE, lost |-> FALSE]
             n == Len(inbox) + 1
  <2>1. /\ inbox' \in Seq(Items)
        /\ DOMAIN inbox' = 1..n /\ n \in DOMAIN inbox' /\ inbox'[n] = item /\ n \notin DOMAIN inbox
        /\ \A i \in DOMAIN inbox : i \in DOMAIN inbox' /\ inbox'[i] = inbox[i]
        /\ \A i \in DOMAIN inbox' : i \in DOMAIN inbox \/ i = n
    <3>1. item \in Items
      BY Fields DEF Items
    <3> HIDE DEF item
    <3> QED
      BY <1>3, <3>1, RowsAre DEF item
  <2>2. /\ item.row = ask[s].row /\ item.by = s
    OBVIOUS
  <2> HIDE DEF item, n
  <2>3. Grows
    BY <1>1, <2>1 DEF Grows
  <2>4. /\ \A t \in Steps : ask'[t].pc # "idle" => ask[t].pc # "idle" /\ ask'[t].row = ask[t].row
        /\ ask'[s].pc = "filed" /\ ask'[s].row = ask[s].row /\ \A t \in Steps \ {s} : ask'[t] = ask[t]
    BY <1>1, <1>3, AskGoesOn
  <2>5. AwaitingWasAsked'
    <3>1. ASSUME NEW r \in DOMAIN rows, rows[r].status = "awaiting_input" PROVE LaterItems(r) # {}
      <4>1. ItemsOf(r) # {}
        BY <3>1 DEF Shared, AwaitingWasAsked
      <4> QED
        BY <2>3, <4>1, ItemsStay
    <3>2. ASSUME NEW t \in Steps, ask'[t].pc = "filed" PROVE LaterItems(ask'[t].row) # {}
      <4>1. CASE t = s
        <5>1. n \in LaterItems(ask'[s].row)
          BY <2>1, <2>2, <2>4 DEF LaterItems
        <5> QED
          BY <4>1, <5>1
      <4>2. CASE t # s
        <5>1. ItemsOf(ask[t].row) # {} /\ ask'[t].row = ask[t].row
          BY <2>4, <3>2, <4>2 DEF Shared, AwaitingWasAsked
        <5> QED
          BY <2>3, <5>1, ItemsStay
      <4> QED
        BY <4>1, <4>2
    <3> QED
      BY <1>1, <3>1, <3>2 DEF AwaitingWasAsked, ItemsOf, LaterItems
  <2>6. AskedOnce'
    <3> SUFFICES ASSUME faults = 0, NEW t \in Steps PROVE Once(t)'
      BY <1>3 DEF AskedOnce, NoFault
    <3>1. Candidates' = Candidates
      BY <1>1 DEF Candidates, Finished
    <3>2. CASE t # s
      <4>1. \A i \in DOMAIN inbox' : i \in DOMAIN inbox \/ inbox'[i].by # t
        BY <2>1, <2>2, <3>2
      <4> QED
        BY <1>1, <2>3, <2>4, <3>1, <3>2, <4>1, OnceStays, Fields
    <3>3. CASE t = s
      <4>1. Once(s)
        BY Fields
      <4>2. OwnItems(s)' = IF ask[s].row = step[s].own THEN OwnItems(s) \cup {n} ELSE OwnItems(s)
        BY <1>1, <2>1, <2>2 DEF OwnItems, ItemsOf
      <4>3. ask[s].row = step[s].own => OwnItems(s) = {}
        BY <1>1, <4>1 DEF Once
      <4>4. ItemsOf(step[s].own) \subseteq ItemsOf(step[s].own)'
        BY <1>1, <2>1 DEF ItemsOf
      <4>5. ~(step[s].pc = "begin" /\ step[s].answer = 0)
        BY <1>1, <4>1 DEF Once
      <4>6. OwnItems(s)' # {} => step[s].own \notin Candidates' \/ (ask'[s].pc = "filed" /\ ask'[s].row = step'[s].own)
        BY <1>1, <2>4, <3>1, <4>1, <4>2 DEF Once
      <4>7. \A i, j \in OwnItems(s)' : i = j
        BY <4>1, <4>2, <4>3 DEF Once
      <4>8. /\ \A r \in DOMAIN rows' : rows'[r].step = s => step'[s].pc # "new" /\ (rows'[r].kind = "own" => r = step'[s].own)
            /\ step'[s].pc = "waiting" \/ step'[s].answer # 0 => step'[s].question \in ItemsOf(step[s].own)'
        BY <1>1, <4>1, <4>4 DEF Once
      <4>9. ~(ask'[s].pc = "found")
        BY <2>4
      <4> QED
        BY <1>1, <3>3, <4>5, <4>6, <4>7, <4>8, <4>9 DEF Once
    <3> QED
      BY <3>2, <3>3
  <2>8. \A i \in DOMAIN inbox' : inbox'[i].row \in DOMAIN rows
    BY <1>1, <2>1, <2>2, RowsAre
  <2>9. faults' \in Nat
    BY <1>3, Fields DEF NoFault
  <2>10. ask' \in [Steps -> Requests]
    BY <1>3, AskGoesOn
  <2> QED
    BY <1>1, <2>1, <2>3, <2>4, <2>5, <2>6, <2>8, <2>9, <2>10, RowsAre, RequestStep
<1> QED
  BY <1>2, <1>3 DEF FileQuestion

\* A fault leaves nothing to show of a run without faults.
LEMMA FaultCounts ==
  ASSUME Shared, Fault \/ NoFault
  PROVE  faults' \in Nat /\ (Fault => AskedOnce') /\ (faults' = 0 => faults = 0)
<1>1. faults \in Nat
  BY DEF Shared, TypeOK
<1>2. faults' \in Nat /\ (Fault => faults' # 0) /\ (faults' = 0 => faults = 0)
  BY <1>1 DEF Fault, NoFault
<1> QED
  BY <1>2 DEF AskedOnce

\* The row that is marked has been asked about.
LEMMA MarkAwaitingKeepsShared == ASSUME Shared, NEW s \in Steps, MarkAwaiting(s) PROVE Shared'
<1>1. /\ ask[s].pc = "filed" /\ UNCHANGED <<inbox, step, queue>> /\ ask[s].row \in DOMAIN rows
      /\ (Fault \/ NoFault)
  BY Fields DEF MarkAwaiting
<1>2. /\ \A t \in Steps : /\ ask'[t].pc # "idle" => ask[t].pc # "idle" /\ ask'[t].row = ask[t].row
                          /\ ask'[t].pc = "filed" => ask[t].pc = "filed" /\ ask'[t].row = ask[t].row
      /\ ask'[s].pc = "idle" /\ \A t \in Steps \ {s} : ask'[t] = ask[t]
      /\ ask' \in [Steps -> Requests]
  <2> DEFINE told == ask[s].told \/ (ask[s].alone /\ step[s].pc = "running")
  <2>1. told \in BOOLEAN /\ ask[s].alone \in BOOLEAN /\ ask[s] \in Requests
    BY Fields
  <2>2. CASE ask' = [ask EXCEPT ![s].pc = "idle"]
    BY <1>1, <2>2, AskGoesOn
  <2>3. CASE ask' = [ask EXCEPT ![s] = [@ EXCEPT !.pc = "idle", !.told = told]]
    <3> HIDE DEF told
    <3>1. [ask[s] EXCEPT !.pc = "idle", !.told = told] = [ask[s] EXCEPT !.pc = "idle", !.alone = ask[s].alone, !.told = told]
      BY <2>1 DEF Requests
    <3>2. ask' = [ask EXCEPT ![s] = [@ EXCEPT !.pc = "idle", !.alone = ask[s].alone, !.told = told]]
      BY <2>3, <3>1
    <3> QED
      BY <1>1, <2>1, <3>2, AskMoves
  <2> QED
    BY <2>2, <2>3 DEF MarkAwaiting
<1>3. CASE UNCHANGED rows /\ Fault
  <2>1. Grows
    BY <1>1, <1>3 DEF Grows
  <2>2. AwaitingWasAsked'
    BY <1>1, <1>2, <1>3, <2>1, AwaitingStays
  <2> QED
    BY <1>1, <1>2, <1>3, <2>1, <2>2, FaultCounts, RowsAre, RequestStep
<1>4. CASE rows' = SetStatus(ask[s].row, "awaiting_input") /\ NoFault
  <2> DEFINE q == ask[s].row
  <2>1. /\ rows' \in Seq(Records) /\ DOMAIN rows' = DOMAIN rows /\ rows'[q].status = "awaiting_input"
        /\ \A r \in DOMAIN rows : /\ r # q => rows'[r] = rows[r]
                                  /\ rows'[r].step = rows[r].step /\ rows'[r].kind = rows[r].kind /\ rows'[r].log = rows[r].log
    BY <1>1, <1>4, StatusChanges
  <2>2. q \in DOMAIN rows
    BY <1>1
  <2>3. ItemsOf(q) # {}
    BY <1>1 DEF Shared, AwaitingWasAsked
  <2>4. Grows
    BY <1>1, <2>1 DEF Grows
  <2>5. AwaitingWasAsked'
    <3>1. ASSUME NEW r \in DOMAIN rows', rows'[r].status = "awaiting_input" PROVE ItemsOf(r) # {}
      BY <2>1, <2>3, <3>1 DEF Shared, AwaitingWasAsked
    <3>2. ASSUME NEW t \in Steps, ask'[t].pc = "filed" PROVE ItemsOf(ask'[t].row) # {}
      BY <1>2, <3>2 DEF Shared, AwaitingWasAsked
    <3> QED
      BY <1>1, <3>1, <3>2 DEF AwaitingWasAsked, ItemsOf
  <2>6. Candidates' \subseteq Candidates /\ q \notin Candidates'
    <3>1. ASSUME NEW r \in Candidates' PROVE r \in Candidates /\ r # q
      <4>1. r \in DOMAIN rows /\ rows'[r].status \notin Terminal /\ rows'[r].status # "awaiting_input"
        BY <2>1 DEF Candidates, Finished
      <4>2. r # q
        BY <2>1, <4>1
      <4> QED
        BY <2>1, <4>1, <4>2 DEF Candidates, Finished
    <3> QED
      BY <3>1
  <2>7. AskedOnce'
    <3> SUFFICES ASSUME faults = 0, NEW t \in Steps PROVE Once(t)'
      BY <1>4 DEF AskedOnce, NoFault
    <3>1. CASE t # s
      BY <1>1, <1>2, <2>1, <2>4, <2>6, <3>1, OnceStays, Fields
    <3>2. CASE t = s
      <4>1. Once(s)
        BY Fields
      <4>2. OwnItems(s)' = OwnItems(s) /\ ItemsOf(step[s].own)' = ItemsOf(step[s].own)
        BY <1>1 DEF OwnItems, ItemsOf
      <4>3. OwnItems(s) # {} => step[s].own \notin Candidates'
        BY <1>1, <2>6, <4>1 DEF Once
      <4> QED
        BY <1>1, <1>2, <2>1, <3>2, <4>1, <4>2, <4>3 DEF Once
    <3> QED
      BY <3>1, <3>2
  <2>9. faults' \in Nat
    BY <1>1, FaultCounts
  <2>10. \A i \in DOMAIN inbox' : inbox'[i].row \in DOMAIN rows
    BY <1>1, RowsAre
  <2>11. inbox' \in Seq(Items)
    BY <1>1, RowsAre
  <2> HIDE DEF q
  <2> QED
    BY <1>1, <1>2, <2>1, <2>4, <2>5, <2>7, <2>9, <2>10, <2>11, RequestStep
<1> QED
  BY <1>1, <1>3, <1>4 DEF MarkAwaiting

\* An element of a sequence.
LEMMA ElementOfSeq == ASSUME NEW X, NEW q \in Seq(X), NEW i \in DOMAIN q PROVE q[i] \in X
  OBVIOUS

\* An item that is answered.
LEMMA ItemAnswered ==
  ASSUME Shared, NEW i \in DOMAIN inbox, NEW lost \in BOOLEAN, Answered(i, lost)
  PROVE  /\ inbox' \in Seq(Items) /\ DOMAIN inbox' = DOMAIN inbox
         /\ \A j \in DOMAIN inbox : inbox'[j].row = inbox[j].row /\ inbox'[j].by = inbox[j].by
         /\ inbox'[i].answered /\ inbox'[i].lost = lost /\ \A j \in DOMAIN inbox \ {i} : inbox'[j] = inbox[j]
<1> DEFINE item == [inbox[i] EXCEPT !.answered = TRUE, !.lost = lost]
<1>1. inbox' = [inbox EXCEPT ![i] = item] /\ inbox \in Seq(Items)
  BY RowsAre DEF Answered
<1>2. inbox[i] \in Items
  BY <1>1, ElementOfSeq
<1>3. item \in Items /\ item.row = inbox[i].row /\ item.by = inbox[i].by /\ item.answered /\ item.lost = lost
  BY <1>2 DEF Items
<1> HIDE DEF item
<1>4. inbox' \in Seq(Items) /\ DOMAIN inbox' = DOMAIN inbox /\ inbox'[i] = item
      /\ \A j \in DOMAIN inbox \ {i} : inbox'[j] = inbox[j]
  BY <1>1, <1>3
<1> QED
  BY <1>3, <1>4

\* An answer goes to the step whose question it is.
LEMMA RespondKeepsShared == ASSUME Shared, Respond PROVE Shared'
<1>1. PICK i \in DOMAIN inbox :
        /\ \E lost \in BOOLEAN : Answered(i, lost)
        /\ \/ Reachable(i) /\ queue' = [queue EXCEPT ![Addressee(i)] = Append(@, i)]
           \/ UNCHANGED queue
        /\ UNCHANGED <<rows, step, ask>> /\ (Fault \/ NoFault)
  BY DEF Respond
<1>2. /\ inbox' \in Seq(Items) /\ DOMAIN inbox' = DOMAIN inbox
      /\ \A j \in DOMAIN inbox : inbox'[j].row = inbox[j].row /\ inbox'[j].by = inbox[j].by
  BY <1>1, ItemAnswered
<1>3. Grows
  BY <1>1, <1>2 DEF Grows
<1>4. ASSUME NEW t \in Steps PROVE queue'[t] \in Seq(DOMAIN inbox) /\ \A k \in DOMAIN queue'[t] : Answers(queue'[t][k], t)
  <2>1. /\ queue \in [Steps -> Seq(DOMAIN inbox)] /\ queue[t] \in Seq(DOMAIN inbox)
        /\ \A k \in DOMAIN queue[t] : Answers(queue[t][k], t)
    BY DEF Shared, TypeOK, AnswersBelong
  <2>2. CASE queue'[t] = queue[t]
    BY <2>1, <2>2
  <2>3. CASE Reachable(i) /\ t = Addressee(i) /\ queue'[t] = Append(queue[t], i)
    <3>1. Answers(i, t)
      BY <2>3 DEF Reachable, Addressee, Answers
    <3> QED
      BY <2>1, <2>3, <3>1
  <2> QED
    BY <1>1, <2>1, <2>2, <2>3
<1>5. queue' \in [Steps -> Seq(DOMAIN inbox)]
  <2>1. queue \in [Steps -> Seq(DOMAIN inbox)]
    BY DEF Shared, TypeOK
  <2>2. DOMAIN queue' = Steps /\ queue' = [t \in Steps |-> queue'[t]]
    BY <1>1, <2>1
  <2> QED
    BY <1>4, <2>2
<1>6. TypeOK'
  <2>1. faults' \in Nat
    BY <1>1, FaultCounts
  <2>2. \A j \in DOMAIN inbox' : inbox'[j].row \in DOMAIN rows
    BY <1>2, RowsAre
  <2> QED
    BY <1>1, <1>2, <1>5, <2>1, <2>2 DEF Shared, TypeOK
<1>7. AnswersBelong'
  <2>1. ASSUME NEW j \in DOMAIN inbox, NEW t, Answers(j, t) PROVE LaterAnswers(j, t)
    BY <1>3, <2>1, AnswersGrow
  <2>2. ASSUME NEW t \in Steps PROVE AnswersOf(t)'
    <3>1. \A k \in DOMAIN queue'[t] : queue'[t][k] \in DOMAIN inbox /\ LaterAnswers(queue'[t][k], t)
      BY <1>4, <2>1
    <3>2. step[t].answer # 0 => step[t].answer \in DOMAIN inbox /\ LaterAnswers(step[t].answer, t)
      BY <2>1 DEF Shared, AnswersBelong
    <3> QED
      BY <1>1, <1>2, <3>1, <3>2 DEF AnswersOf, Answers, LaterAnswers
  <2> QED
    BY <2>2 DEF AnswersBelong, AnswersOf
<1>8. RowsBelong' /\ AwaitingWasAsked'
  <2>1. RowsBelong'
    BY <1>1 DEF Shared, RowsBelong, Belongs
  <2> QED
    BY <1>1, <1>2, <1>3, <2>1, AwaitingStays
<1>9. AskedOnce'
  <2> SUFFICES ASSUME faults' = 0, NEW t \in Steps PROVE Once(t)'
    BY DEF AskedOnce
  <2>1. faults = 0 /\ Candidates' = Candidates
    BY <1>1, FaultCounts DEF Candidates, Finished
  <2> QED
    BY <1>1, <1>2, <1>3, <2>1, OnceStays, Fields
<1>10. LogsContinue'
  BY <1>1, <1>3, Attempts, LogsStay
<1> QED
  BY <1>6, <1>7, <1>8, <1>9, <1>10 DEF Shared

-----------------------------------------------------------------------------
(* The steps.                                                              *)

\* The state of one step changes.
LEMMA StepMoves ==
  ASSUME Shared, NEW s \in Steps, NEW rec \in StepStates, step' = [step EXCEPT ![s] = rec]
  PROVE  step' \in [Steps -> StepStates] /\ step'[s] = rec /\ \A t \in Steps \ {s} : step'[t] = step[t]
  BY Fields

\* A step moves on over the rows there are: what is left to show.
LEMMA MoveStep ==
  ASSUME Shared, Grows, NEW s \in Steps, NEW rec \in StepStates, step' = [step EXCEPT ![s] = rec],
         rec.own = step[s].own, rec.row = step[s].row, rec.answer = step[s].answer, rec.pc # "new", step[s].pc # "new",
         UNCHANGED <<inbox, queue>>, ask' \in [Steps -> Requests],
         \A t \in Steps : ask'[t].pc = ask[t].pc /\ ask'[t].row = ask[t].row,
         rows' \in Seq(Records), DOMAIN rows' = DOMAIN rows,
         \A r \in DOMAIN rows : rows'[r].status = "awaiting_input" => rows[r].status = "awaiting_input",
         faults' \in Nat, AskedOnce', LogsContinue'
  PROVE  Shared'
<1>1. step' \in [Steps -> StepStates] /\ step'[s] = rec /\ \A t \in Steps \ {s} : step'[t] = step[t]
  BY StepMoves
<1>2. ASSUME NEW t \in Steps
      PROVE  /\ step'[t].own = step[t].own /\ step'[t].row = step[t].row /\ step'[t].answer = step[t].answer
             /\ step'[t].pc = "new" <=> step[t].pc = "new"
  <2>1. CASE t = s
    BY <1>1, <2>1
  <2>2. CASE t # s
    BY <1>1, <2>2
  <2> QED
    BY <2>1, <2>2
<1>3. TypeOK'
  BY <1>1 DEF Shared, TypeOK
<1>4. RowsBelong'
  <2> SUFFICES ASSUME NEW t \in Steps PROVE Belongs(t)'
    BY DEF RowsBelong
  <2>1. step[t].pc = "new" => ask'[t].pc = "idle"
    BY Fields DEF Belongs
  <2> QED
    BY <1>2, <2>1, BelongsStays, Fields
<1>6. AwaitingWasAsked'
  BY AwaitingStays
<1>7. AnswersBelong'
  <2>1. \A t \in Steps : AnswersOf(t)'
    BY <1>2, AnswersStay
  <2> QED
    BY <2>1 DEF AnswersBelong, AnswersOf
<1> QED
  BY <1>3, <1>4, <1>6, <1>7 DEF Shared

\* The same while the requests stay.
LEMMA WriteStep ==
  ASSUME Shared, Grows, NEW s \in Steps, NEW rec \in StepStates, step' = [step EXCEPT ![s] = rec],
         rec.own = step[s].own, rec.row = step[s].row, rec.answer = step[s].answer, rec.pc # "new", step[s].pc # "new",
         UNCHANGED <<inbox, ask, queue>>, rows' \in Seq(Records), DOMAIN rows' = DOMAIN rows,
         \A r \in DOMAIN rows : rows'[r].status = "awaiting_input" => rows[r].status = "awaiting_input",
         faults' \in Nat, AskedOnce', LogsContinue'
  PROVE  Shared'
<1>1. ask' \in [Steps -> Requests] /\ \A t \in Steps : ask'[t].pc = ask[t].pc /\ ask'[t].row = ask[t].row
  BY Fields
<1> QED
  BY <1>1, MoveStep

\* The step that moves, while nothing fails.
LEMMA OnceMoves ==
  ASSUME Shared, Grows, NEW s \in Steps, Once(s), UNCHANGED <<inbox, ask>>, DOMAIN rows' = DOMAIN rows,
         step'[s].own = step[s].own, step'[s].answer = step[s].answer,
         step[s].pc # "new", step'[s].pc \notin {"new", "begin"},
         OwnItems(s) # {} /\ step[s].own \in Candidates' => step[s].own \in Candidates,
         step'[s].pc = "waiting" \/ step[s].answer # 0 => step'[s].question \in ItemsOf(step[s].own)
  PROVE  Once(s)'
<1>1. OwnItems(s)' = OwnItems(s) /\ LaterItems(step[s].own) = ItemsOf(step[s].own)
  <2>1. \A r : LaterItems(r) = ItemsOf(r)
    BY DEF ItemsOf, LaterItems
  <2>2. OwnItems(s)' = {i \in LaterItems(step'[s].own) : inbox'[i].by = s}
    BY DEF OwnItems, ItemsOf, LaterItems
  <2> QED
    BY <2>1, <2>2 DEF OwnItems
<1>3. ItemsOf(step[s].own)' = LaterItems(step'[s].own)
  BY DEF ItemsOf, LaterItems
<1>2. \A r \in DOMAIN rows' : rows'[r].step = rows[r].step /\ rows'[r].kind = rows[r].kind
  BY DEF Grows
<1> QED
  BY <1>1, <1>2, <1>3 DEF Once

\* All steps, while nothing fails and one of them moves.
LEMMA AskedOnceMoves ==
  ASSUME Shared, Grows, NEW s \in Steps, Once(s)', UNCHANGED <<inbox, ask>>, DOMAIN rows' = DOMAIN rows, faults = 0,
         \A t \in Steps \ {s} : step'[t] = step[t],
         \A r \in DOMAIN rows : rows[r].step # s => rows'[r] = rows[r]
  PROVE  AskedOnce'
<1> SUFFICES ASSUME NEW t \in Steps, t # s PROVE Once(t)'
  BY DEF AskedOnce
<1>1. step[t].pc # "new" /\ step[t].own \in Candidates' => step[t].own \in Candidates
  <2> SUFFICES ASSUME step[t].pc # "new", step[t].own \in Candidates' PROVE step[t].own \in Candidates
    OBVIOUS
  <2>1. step[t].own \in DOMAIN rows /\ rows[step[t].own].step = t
    BY Fields DEF Belongs
  <2>2. rows'[step[t].own] = rows[step[t].own]
    BY <2>1
  <2> QED
    BY <2>1, <2>2 DEF Candidates, Finished
<1> QED
  BY <1>1, OnceStays, Fields

\* A line waits in the buffer.
LEMMA LineKeepsShared == ASSUME Shared, NEW s \in Steps, Line(s) PROVE Shared'
<1> DEFINE line == [seq |-> step[s].seq, attempt |-> step[s].attempt]
           rec == [step[s] EXCEPT !.buffer = Append(@, line), !.seq = @ + 1]
<1>1. step[s].pc = "running" /\ UNCHANGED <<rows, inbox, ask, queue, faults>> /\ step' = [step EXCEPT ![s] = rec]
  <2>1. step[s].pc = "running" /\ UNCHANGED <<rows, inbox, ask, queue, faults>>
    BY DEF Line
  <2>2. step' = [step EXCEPT ![s] = rec]
    BY DEF Line
  <2> QED
    BY <2>1, <2>2
<1>2. line \in LogLines /\ line.seq = step[s].seq /\ line.attempt = step[s].attempt
  BY Fields, Attempts DEF LogLines
<1> HIDE DEF line
<1>3. /\ rec \in StepStates
      /\ rec.pc = "running" /\ rec.row = step[s].row /\ rec.own = step[s].own /\ rec.attempt = step[s].attempt
      /\ rec.lost = step[s].lost /\ rec.question = step[s].question /\ rec.answer = step[s].answer
      /\ rec.seq = step[s].seq + 1 /\ rec.buffer = Append(step[s].buffer, line)
  <2>1. step[s] \in StepStates /\ step[s].seq + 1 \in Nat /\ Append(step[s].buffer, line) \in Seq(LogLines)
    <3>1. step[s] \in StepStates /\ step[s].seq \in Nat /\ step[s].buffer \in Seq(LogLines)
      BY Fields
    <3> QED
      BY <1>2, <3>1
  <2> QED
    BY <1>1, <2>1 DEF StepStates
<1> HIDE DEF rec
<1>4. step'[s] = rec /\ \A t \in Steps \ {s} : step'[t] = step[t]
  BY <1>1, <1>3, StepMoves
<1>5. Grows
  BY <1>1 DEF Grows
<1>6. AskedOnce'
  <2> SUFFICES ASSUME faults = 0 PROVE AskedOnce'
    BY <1>1 DEF AskedOnce
  <2>1. Candidates' = Candidates
    BY <1>1 DEF Candidates, Finished
  <2>2. Once(s)
    BY Fields
  <2>3. step[s].answer # 0 => step[s].question \in ItemsOf(step[s].own)
    BY <2>2 DEF Once
  <2>4. Once(s)'
    BY <1>1, <1>3, <1>4, <1>5, <2>1, <2>2, <2>3, OnceMoves
  <2> QED
    BY <1>1, <1>4, <1>5, <2>4, AskedOnceMoves
<1>7. LogsContinue'
  <2>1. ASSUME NEW r \in DOMAIN rows PROVE step'[rows[r].step].lost \/ Spliced(rows[r].log)
    <3>1. step'[rows[r].step].lost = step[rows[r].step].lost
      BY <1>3, <1>4, RowsAre
    <3> QED
      BY <3>1 DEF Shared, LogsContinue
  <2>2. ASSUME ~step[s].lost PROVE Follows(s)'
    <3> DEFINE buffer == step[s].buffer
               before == step[s].seq - Len(buffer)
    <3>1. /\ \A k \in DOMAIN rows[step[s].row].log : rows[step[s].row].log[k].attempt <= step[s].attempt
          /\ 0 <= before /\ before <= Len(rows[step[s].row].log)
          /\ \A k \in DOMAIN buffer : buffer[k] = [seq |-> before + k - 1, attempt |-> step[s].attempt]
      BY <1>1, <2>2 DEF Shared, LogsContinue, Follows
    <3>2. buffer \in Seq(LogLines) /\ step[s].seq \in Nat
      BY Fields
    <3>3. /\ step'[s].seq - Len(step'[s].buffer) = before /\ DOMAIN step'[s].buffer = 1..(Len(buffer) + 1)
          /\ \A k \in DOMAIN buffer : step'[s].buffer[k] = buffer[k]
          /\ step'[s].buffer[Len(buffer) + 1] = line
      <4> DEFINE later == step'[s].buffer
      <4>1. /\ later = Append(buffer, line) /\ step'[s].seq = step[s].seq + 1 /\ line \in LogLines
            /\ buffer \in Seq(LogLines) /\ step[s].seq \in Nat
        BY <1>2, <1>3, <1>4, <3>2
      <4> HIDE DEF buffer, later
      <4>2. /\ Len(later) = Len(buffer) + 1 /\ DOMAIN later = 1..(Len(buffer) + 1) /\ Len(buffer) \in Nat
            /\ \A k \in DOMAIN buffer : later[k] = buffer[k]
            /\ later[Len(buffer) + 1] = line
        BY <4>1
      <4> QED
        <5>1. \A m, l \in Nat : (m + 1) - (l + 1) = m - l
          OBVIOUS
        <5>2. step'[s].seq - Len(step'[s].buffer) = step[s].seq - Len(buffer)
          <6>1. /\ step'[s].seq = step[s].seq + 1 /\ Len(step'[s].buffer) = Len(buffer) + 1
                /\ step[s].seq \in Nat /\ Len(buffer) \in Nat
            BY <4>1, <4>2 DEF later
          <6> QED
            BY <5>1, <6>1
        <5> QED
          BY <4>2, <5>2 DEF later
    <3>4. line = [seq |-> before + (Len(buffer) + 1) - 1, attempt |-> step[s].attempt]
      BY <3>2 DEF line
    <3>5. DOMAIN buffer = 1..Len(buffer) /\ Len(buffer) \in Nat
      BY <3>2
    <3> HIDE DEF buffer, before
    <3>6. \A k \in DOMAIN step'[s].buffer : step'[s].buffer[k] = [seq |-> before + k - 1, attempt |-> step[s].attempt]
      <4> SUFFICES ASSUME NEW k \in DOMAIN step'[s].buffer
                   PROVE  step'[s].buffer[k] = [seq |-> before + k - 1, attempt |-> step[s].attempt]
        OBVIOUS
      <4>1. CASE k \in DOMAIN buffer
        BY <3>1, <3>3, <4>1
      <4>2. CASE k = Len(buffer) + 1
        BY <3>3, <3>4, <4>2
      <4> QED
        BY <3>3, <3>5, <4>1, <4>2
    <3>7. rows'[step'[s].row].log = rows[step[s].row].log /\ step'[s].attempt = step[s].attempt
      BY <1>1, <1>3, <1>4
    <3> QED
      BY <3>1, <3>3, <3>6, <3>7 DEF Follows
  <2>3. ASSUME NEW t \in Steps, t # s, step[t].pc # "new", ~step[t].lost PROVE Follows(t)'
    <3>1. Follows(t) /\ step'[t] = step[t]
      BY <1>4, <2>3 DEF Shared, LogsContinue
    <3> QED
      BY <1>1, <3>1 DEF Follows
  <2>4. ASSUME NEW t \in Steps, step'[t].pc # "new", ~step'[t].lost PROVE Follows(t)'
    BY <1>1, <1>3, <1>4, <2>2, <2>3, <2>4
  <2> QED
    BY <1>1, <2>1, <2>4 DEF LogsContinue, Spliced
<1>8. faults' \in Nat /\ rows' \in Seq(Records)
  BY <1>1, RowsAre DEF Shared, TypeOK
<1> QED
  BY <1>1, <1>3, <1>5, <1>6, <1>7, <1>8, WriteStep

\* The rows of a step that is there.
LEMMA RowOf ==
  ASSUME Shared, NEW s \in Steps, step[s].pc # "new"
  PROVE  /\ step[s].row \in DOMAIN rows /\ rows[step[s].row].step = s
         /\ step[s].own \in DOMAIN rows /\ rows[step[s].own].step = s /\ rows[step[s].own].kind = "own"
         /\ (step[s].row = step[s].own <=> step[s].answer = 0)
<1>1. Belongs(s)
  BY Fields
<1> QED
  BY <1>1 DEF Belongs

\* A log stays a sequence of lines.
LEMMA InsertType ==
  ASSUME NEW log \in Seq(LogLines), NEW lines \in Seq(LogLines)
  PROVE  Insert(log, lines) \in Seq(LogLines)
<1>1. PICK m \in [0..Len(lines) -> Seq(LogLines)] : Insert(log, lines) = m[Len(lines)]
  BY InsertSteps
<1>2. Len(lines) \in 0..Len(lines)
  OBVIOUS
<1> QED
  BY <1>1, <1>2

\* Lines of an attempt that are numbered from b up to seq, where the log is
\* that far.
Starts(b, log, lines, attempt, seq) ==
  /\ b \in Nat /\ b <= Len(log) /\ seq = b + Len(lines)
  /\ \A k \in DOMAIN lines : lines[k] = [seq |-> b + k - 1, attempt |-> attempt]

\* Lines that begin where the log ends, or before, are written to it.
LEMMA LogWritten ==
  ASSUME Shared, NEW s \in Steps, step[s].pc # "new", NEW b, NEW lines \in Seq(LogLines),
         ~step[s].lost => Starts(b, rows[step[s].row].log, lines, step[s].attempt, step'[s].seq),
         DOMAIN rows' = DOMAIN rows, \A q \in DOMAIN rows : rows'[q].step = rows[q].step,
         rows'[step[s].row].log = Insert(rows[step[s].row].log, lines),
         \A q \in DOMAIN rows \ {step[s].row} : rows'[q].log = rows[q].log,
         step'[s].pc # "new", step'[s].row = step[s].row, step'[s].attempt = step[s].attempt, step'[s].lost = step[s].lost,
         step'[s].buffer = <<>>, \A t \in Steps \ {s} : step'[t] = step[t]
  PROVE  LogsContinue'
<1> DEFINE row == step[s].row
           log == rows[row].log
<1>1. row \in DOMAIN rows /\ rows[row].step = s /\ log \in Seq(LogLines) /\ step[s].attempt \in Nat
  BY RowOf, RowsAre, Attempts
<1>2. ASSUME ~step[s].lost
      PROVE  Continues(Insert(log, lines), step[s].attempt) /\ b + Len(lines) <= Len(Insert(log, lines))
  <2>1. Follows(s) /\ Spliced(log)
    BY <1>1, <1>2 DEF Shared, LogsContinue
  <2>2. Continues(log, step[s].attempt)
    BY <1>1, <2>1 DEF Continues, Follows
  <2> HIDE DEF log
  <2> QED
    BY <1>1, <1>2, <2>2, InsertContinues DEF log, Starts
<1>3. ASSUME NEW r \in DOMAIN rows', ~step'[rows'[r].step].lost PROVE Spliced(rows'[r].log)
  <2>1. rows'[r].step = rows[r].step /\ rows[r].step \in Steps /\ ~step[rows[r].step].lost
    BY <1>3, RowsAre
  <2>2. CASE r = row
    BY <1>1, <1>2, <2>1, <2>2 DEF Continues
  <2>3. CASE r # row
    BY <2>1, <2>3 DEF Shared, LogsContinue
  <2> QED
    BY <2>2, <2>3
<1>4. ASSUME NEW t \in Steps, step'[t].pc # "new", ~step'[t].lost PROVE Follows(t)'
  <2>1. CASE t = s
    <3>1. /\ Continues(Insert(log, lines), step[s].attempt) /\ b + Len(lines) <= Len(Insert(log, lines))
          /\ rows'[step'[s].row].log = Insert(log, lines) /\ b \in Nat /\ step'[s].seq = b + Len(lines)
      BY <1>2, <1>4, <2>1 DEF Starts
    <3>2. b + Len(lines) \in Nat /\ step'[s].seq - Len(step'[s].buffer) = b + Len(lines)
      BY <3>1
    <3>3. DOMAIN step'[s].buffer = {}
      OBVIOUS
    <3> HIDE DEF log
    <3>4. /\ 0 <= step'[s].seq - Len(step'[s].buffer)
          /\ step'[s].seq - Len(step'[s].buffer) <= Len(rows'[step'[s].row].log)
      BY <3>1, <3>2
    <3>5. \A k \in DOMAIN rows'[step'[s].row].log : rows'[step'[s].row].log[k].attempt <= step'[s].attempt
      BY <3>1 DEF Continues
    <3> QED
      BY <2>1, <3>3, <3>4, <3>5 DEF Follows
  <2>2. CASE t # s
    <3>1. step'[t] = step[t] /\ Follows(t)
      BY <1>4, <2>2 DEF Shared, LogsContinue
    <3>2. step[t].row \in DOMAIN rows /\ rows[step[t].row].step = t
      BY <1>4, <2>2, <3>1, RowOf
    <3>3. rows'[step[t].row].log = rows[step[t].row].log
      BY <1>1, <2>2, <3>2
    <3> QED
      BY <3>1, <3>3 DEF Follows
  <2> QED
    BY <2>1, <2>2
<1> QED
  BY <1>3, <1>4 DEF LogsContinue, Spliced

\* The buffer is flushed, or lost.
LEMMA FlushKeepsShared == ASSUME Shared, NEW s \in Steps, Flush(s) PROVE Shared'
<1>1. step[s].pc = "running" /\ UNCHANGED <<inbox, ask, queue>> /\ (Fault \/ NoFault)
  BY DEF Flush
<1>2. /\ step[s].row \in DOMAIN rows /\ rows[step[s].row].step = s
      /\ step[s].buffer \in Seq(LogLines) /\ Len(step[s].buffer) \in Nat
      /\ step[s].seq \in Nat /\ faults' \in Nat
  <2>1. step[s].buffer \in Seq(LogLines) /\ step[s].seq \in Nat
    BY Fields
  <2>2. Len(step[s].buffer) \in Nat
    BY <2>1
  <2> QED
    BY <1>1, <2>1, <2>2, RowOf, FaultCounts
<1>3. CASE UNCHANGED rows /\ Fault /\ step' = [step EXCEPT ![s] = [@ EXCEPT !.buffer = <<>>, !.lost = TRUE]]
  <2> DEFINE rec == [step[s] EXCEPT !.buffer = <<>>, !.lost = TRUE]
  <2>1. /\ rec \in StepStates /\ rec.pc = "running" /\ rec.row = step[s].row /\ rec.own = step[s].own
        /\ rec.answer = step[s].answer /\ rec.lost
    <3>1. step[s] \in StepStates
      BY Fields
    <3>2. <<>> \in Seq(LogLines)
      OBVIOUS
    <3> QED
      BY <1>1, <3>1, <3>2 DEF StepStates
  <2>2. step' = [step EXCEPT ![s] = rec]
    BY <1>3
  <2> HIDE DEF rec
  <2>3. step'[s] = rec /\ \A t \in Steps \ {s} : step'[t] = step[t]
    BY <2>1, <2>2, StepMoves
  <2>4. Grows /\ AskedOnce'
    BY <1>1, <1>3, FaultCounts DEF Grows
  <2>5. LogsContinue'
    <3>1. ASSUME NEW r \in DOMAIN rows PROVE step'[rows[r].step].lost \/ Spliced(rows[r].log)
      <4>1. step'[rows[r].step].lost \/ step'[rows[r].step] = step[rows[r].step]
        BY <2>1, <2>3, RowsAre
      <4> QED
        BY <4>1 DEF Shared, LogsContinue
    <3>2. ASSUME NEW t \in Steps, step'[t].pc # "new", ~step'[t].lost PROVE Follows(t)'
      <4>1. t # s
        BY <2>1, <2>3, <3>2
      <4>2. step'[t] = step[t] /\ Follows(t)
        BY <2>3, <3>2, <4>1 DEF Shared, LogsContinue
      <4> QED
        BY <1>3, <4>2 DEF Follows
    <3> QED
      BY <1>3, <3>1, <3>2 DEF LogsContinue, Spliced
  <2> QED
    BY <1>1, <1>2, <1>3, <2>1, <2>2, <2>4, <2>5, RowsAre, WriteStep
<1>4. CASE /\ NoFault /\ rows' = [rows EXCEPT ![step[s].row].log = Insert(@, step[s].buffer)]
           /\ step' = [step EXCEPT ![s].buffer = <<>>]
  <2> DEFINE rec == [step[s] EXCEPT !.buffer = <<>>]
             r == step[s].row
             log == Insert(rows[r].log, step[s].buffer)
             row == [rows[r] EXCEPT !.log = log]
             b == step[s].seq - Len(step[s].buffer)
  <2>1. /\ rec \in StepStates /\ rec.pc = "running" /\ rec.row = r /\ rec.own = step[s].own /\ rec.answer = step[s].answer
        /\ rec.lost = step[s].lost /\ rec.attempt = step[s].attempt /\ rec.buffer = <<>> /\ rec.seq = step[s].seq
        /\ rec.question = step[s].question
    <3>1. step[s] \in StepStates
      BY Fields
    <3>2. <<>> \in Seq(LogLines)
      OBVIOUS
    <3> QED
      BY <1>1, <3>1, <3>2 DEF StepStates
  <2>2. step' = [step EXCEPT ![s] = rec] /\ rows' = [rows EXCEPT ![r] = row]
    BY <1>4
  <2>3. log \in Seq(LogLines)
    BY <1>2, InsertType, RowsAre
  <2> HIDE DEF rec, log
  <2>4. /\ rows' \in Seq(Records) /\ DOMAIN rows' = DOMAIN rows /\ rows'[r] = row
        /\ row.log = log /\ row.status = rows[r].status
        /\ \A q \in DOMAIN rows : (q # r => rows'[q] = rows[q]) /\ rows'[q].step = rows[q].step /\ rows'[q].kind = rows[q].kind
    <3>1. row \in Records /\ row.step = rows[r].step /\ row.kind = rows[r].kind /\ row.log = log /\ row.status = rows[r].status
      <4>1. rows[r] \in Records
        BY <1>2, RowsAre
      <4> QED
        BY <2>3, <4>1 DEF Records
    <3> HIDE DEF row
    <3> QED
      BY <1>2, <2>2, <3>1, RowChanges
  <2> HIDE DEF row
  <2>6. step'[s] = rec /\ \A t \in Steps \ {s} : step'[t] = step[t]
    BY <2>1, <2>2, StepMoves
  <2>7. Grows
    BY <1>1, <2>4 DEF Grows
  <2>8. \A q \in DOMAIN rows : rows'[q].status = rows[q].status
    BY <2>4
  <2>9. AskedOnce'
    <3> SUFFICES ASSUME faults = 0 PROVE AskedOnce'
      BY <1>4 DEF AskedOnce, NoFault
    <3>1. Candidates' = Candidates
      BY <2>4, <2>8 DEF Candidates, Finished
    <3>2. Once(s)
      BY Fields
    <3>3. step[s].answer # 0 => step[s].question \in ItemsOf(step[s].own)
      BY <3>2 DEF Once
    <3>4. Once(s)'
      BY <1>1, <2>1, <2>4, <2>6, <2>7, <3>1, <3>2, <3>3, OnceMoves
    <3>5. \A q \in DOMAIN rows : rows[q].step # s => rows'[q] = rows[q]
      BY <1>2, <2>4
    <3> QED
      BY <1>1, <2>4, <2>6, <2>7, <3>4, <3>5, AskedOnceMoves
  <2>10. LogsContinue'
    <3>1. ASSUME ~step[s].lost
          PROVE  /\ b \in Nat /\ b <= Len(rows[r].log)
                 /\ \A k \in DOMAIN step[s].buffer : step[s].buffer[k] = [seq |-> b + k - 1, attempt |-> step[s].attempt]
      <4>1. Follows(s)
        BY <1>1, <3>1 DEF Shared, LogsContinue
      <4>2. 0 <= b /\ b <= Len(rows[r].log)
            /\ \A k \in DOMAIN step[s].buffer : step[s].buffer[k] = [seq |-> b + k - 1, attempt |-> step[s].attempt]
        BY <1>1, <4>1 DEF Follows
      <4> QED
        BY <1>2, <4>2
    <3>2. \A m, l \in Nat : m - l + l = m
      OBVIOUS
    <3>3. step[s].seq = b + Len(step[s].buffer)
      BY <1>2, <3>2
    <3> HIDE DEF b
    <3>4. ~step[s].lost => Starts(b, rows[step[s].row].log, step[s].buffer, step[s].attempt, step'[s].seq)
      BY <2>1, <2>6, <3>1, <3>3 DEF Starts
    <3>5. \A q \in DOMAIN rows \ {step[s].row} : rows'[q].log = rows[q].log
      BY <2>4
    <3>6. rows'[step[s].row].log = Insert(rows[step[s].row].log, step[s].buffer)
      BY <2>4 DEF log
    <3>7. /\ step'[s].pc # "new" /\ step'[s].row = step[s].row /\ step'[s].attempt = step[s].attempt
          /\ step'[s].lost = step[s].lost /\ step'[s].buffer = <<>> /\ step[s].pc # "new"
      BY <1>1, <2>1, <2>6
    <3>8. DOMAIN rows' = DOMAIN rows /\ \A q \in DOMAIN rows : rows'[q].step = rows[q].step
      BY <2>4
    <3>9. step[s].buffer \in Seq(LogLines) /\ \A t \in Steps \ {s} : step'[t] = step[t]
      BY <1>2, <2>6
    <3> HIDE DEF r
    <3> QED
      BY <3>4, <3>5, <3>6, <3>7, <3>8, <3>9, LogWritten
  <2> QED
    BY <1>1, <1>2, <2>1, <2>2, <2>4, <2>7, <2>8, <2>9, <2>10, WriteStep, ZenonT(60)
<1> QED
  BY <1>1, <1>3, <1>4 DEF Flush

\* An attempt begins: its banner follows what the attempt before has written.
LEMMA BeginAttemptKeepsShared == ASSUME Shared, NEW s \in Steps, BeginAttempt(s) PROVE Shared'
<1> DEFINE r == step[s].row
           banner == IF step[s].attempt = 1 THEN <<>> ELSE <<[seq |-> 0, attempt |-> step[s].attempt]>>
           log == Insert(rows[r].log, banner)
           row == [rows[r] EXCEPT !.log = log, !.status = "running"]
           rec == [step[s] EXCEPT !.pc = "running", !.seq = Len(banner), !.buffer = <<>>]
<1>1. /\ step[s].pc = "begin" /\ UNCHANGED <<inbox, ask, queue, faults>>
      /\ rows' = [rows EXCEPT ![r] = row] /\ step' = [step EXCEPT ![s] = rec]
  BY DEF BeginAttempt
<1>2. /\ r \in DOMAIN rows /\ rows[r].step = s /\ (r = step[s].own <=> step[s].answer = 0)
      /\ step[s].own \in DOMAIN rows
  BY <1>1, RowOf
<1>3. banner \in Seq(LogLines) /\ Len(banner) \in Nat
      /\ \A k \in DOMAIN banner : banner[k] = [seq |-> 0 + k - 1, attempt |-> step[s].attempt]
  <2>1. step[s].attempt \in Nat
    BY Attempts
  <2>2. [seq |-> 0, attempt |-> step[s].attempt] \in LogLines
    BY <2>1 DEF LogLines
  <2> DEFINE line == [seq |-> 0, attempt |-> step[s].attempt]
  <2> HIDE DEF line
  <2>3. banner = <<>> \/ banner = <<line>>
    BY DEF line
  <2>4. line \in LogLines /\ line = [seq |-> 0 + 1 - 1, attempt |-> step[s].attempt]
    BY <2>2 DEF line
  <2> HIDE DEF banner
  <2>5. CASE banner = <<>>
    BY <2>5
  <2>6. CASE banner = <<line>>
    <3>1. banner \in Seq(LogLines) /\ Len(banner) = 1 /\ DOMAIN banner = 1..1 /\ banner[1] = line
      BY <2>4, <2>6
    <3>2. \A k \in DOMAIN banner : k = 1
      BY <3>1
    <3> QED
      BY <2>4, <3>1, <3>2
  <2> QED
    BY <2>3, <2>5, <2>6
<1>4. rows[r].log \in Seq(LogLines) /\ rows[r] \in Records
  BY <1>2, RowsAre
<1> HIDE DEF banner
<1>5. log \in Seq(LogLines)
  BY <1>3, <1>4, InsertType
<1> HIDE DEF log
<1>6. row \in Records /\ row.step = rows[r].step /\ row.kind = rows[r].kind /\ row.log = log /\ row.status = "running"
  BY <1>4, <1>5 DEF Records
<1>7. /\ rec \in StepStates /\ rec.pc = "running" /\ rec.row = r /\ rec.own = step[s].own /\ rec.answer = step[s].answer
      /\ rec.lost = step[s].lost /\ rec.attempt = step[s].attempt /\ rec.buffer = <<>> /\ rec.seq = Len(banner)
      /\ rec.question = step[s].question
  <2>1. step[s] \in StepStates
    BY Fields
  <2>2. <<>> \in Seq(LogLines)
    OBVIOUS
  <2> QED
    BY <1>3, <2>1, <2>2 DEF StepStates
<1> HIDE DEF row, rec
<1>8. /\ rows' \in Seq(Records) /\ DOMAIN rows' = DOMAIN rows /\ rows'[r] = row
      /\ \A q \in DOMAIN rows : (q # r => rows'[q] = rows[q]) /\ rows'[q].step = rows[q].step /\ rows'[q].kind = rows[q].kind
  BY <1>1, <1>2, <1>6, RowChanges
<1>9. step'[s] = rec /\ \A t \in Steps \ {s} : step'[t] = step[t]
  BY <1>1, <1>7, StepMoves
<1>10. Grows
  BY <1>1, <1>8 DEF Grows
<1>11. \A q \in DOMAIN rows : rows'[q].status = "awaiting_input" => rows[q].status = "awaiting_input"
  BY <1>6, <1>8
<1>12. AskedOnce'
  <2> SUFFICES ASSUME faults = 0 PROVE AskedOnce'
    BY <1>1 DEF AskedOnce
  <2>1. Once(s)
    BY Fields
  <2>2. OwnItems(s) # {} /\ step[s].own \in Candidates' => step[s].own \in Candidates
    <3> SUFFICES ASSUME OwnItems(s) # {}, step[s].own \in Candidates' PROVE step[s].own \in Candidates
      OBVIOUS
    <3>1. step[s].answer # 0
      BY <1>1, <2>1 DEF Once
    <3>2. rows'[step[s].own] = rows[step[s].own]
      BY <1>2, <1>8, <3>1
    <3> QED
      BY <1>2, <3>2 DEF Candidates, Finished
  <2>3. step[s].answer # 0 => step[s].question \in ItemsOf(step[s].own)
    BY <2>1 DEF Once
  <2>4. Once(s)'
    BY <1>1, <1>7, <1>8, <1>9, <1>10, <2>1, <2>2, <2>3, OnceMoves
  <2>5. \A q \in DOMAIN rows : rows[q].step # s => rows'[q] = rows[q]
    BY <1>2, <1>8
  <2> QED
    BY <1>1, <1>8, <1>9, <1>10, <2>4, <2>5, AskedOnceMoves
<1>13. LogsContinue'
  <2>1. Starts(0, rows[step[s].row].log, banner, step[s].attempt, step'[s].seq)
    <3>1. Len(rows[r].log) \in Nat
      BY <1>4
    <3> QED
      BY <1>3, <1>7, <1>9, <3>1 DEF Starts
  <2>2. \A q \in DOMAIN rows \ {step[s].row} : rows'[q].log = rows[q].log
    BY <1>8
  <2>3. rows'[step[s].row].log = Insert(rows[step[s].row].log, banner)
    BY <1>6, <1>8 DEF log
  <2>4. /\ step'[s].pc # "new" /\ step'[s].row = step[s].row /\ step'[s].attempt = step[s].attempt
        /\ step'[s].lost = step[s].lost /\ step'[s].buffer = <<>> /\ step[s].pc # "new"
    BY <1>1, <1>7, <1>9
  <2>5. DOMAIN rows' = DOMAIN rows /\ \A q \in DOMAIN rows : rows'[q].step = rows[q].step
    BY <1>8
  <2> HIDE DEF r
  <2> QED
    BY <1>3, <1>9, <2>1, <2>2, <2>3, <2>4, <2>5, LogWritten
<1>14. faults' \in Nat
  BY <1>1, Fields
<1> QED
  BY <1>1, <1>7, <1>8, <1>10, <1>11, <1>12, <1>13, <1>14, WriteStep

\* No log is written when an activity ends, or dies.
LEMMA NoLogWritten ==
  ASSUME Shared, Grows, NEW s \in Steps, NEW rec \in StepStates, step' = [step EXCEPT ![s] = rec],
         rec.row = step[s].row, rec.lost = step[s].lost, rec.pc \notin {"new", "running"}, step[s].pc # "new",
         rec.attempt >= step[s].attempt, DOMAIN rows' = DOMAIN rows, \A r \in DOMAIN rows : rows'[r].log = rows[r].log
  PROVE  LogsContinue'
<1>1. step'[s] = rec /\ \A t \in Steps \ {s} : step'[t] = step[t]
  BY StepMoves
<1>2. rec.attempt \in Nat
  <2>1. rec.attempt \in 1..MaxAttempts
    BY DEF StepStates
  <2> QED
    BY <2>1 DEF MaxAttempts
<1>3. ASSUME NEW t \in Steps
      PROVE  /\ step'[t].lost = step[t].lost /\ (step'[t].pc = "new" <=> step[t].pc = "new")
             /\ step'[t].row = step[t].row /\ step'[t].attempt \in Nat /\ step'[t].attempt >= step[t].attempt
             /\ step'[t].pc = "running" => /\ step[t].pc = "running" /\ step'[t].attempt = step[t].attempt
                                           /\ step'[t].seq = step[t].seq /\ step'[t].buffer = step[t].buffer
  <2>1. CASE t = s
    BY <1>1, <1>2, <2>1
  <2>2. CASE t # s
    <3>1. step[t].attempt \in Nat /\ step'[t] = step[t]
      BY <1>1, <2>2, Attempts
    <3> QED
      BY <3>1
  <2> QED
    BY <2>1, <2>2
<1> QED
  BY <1>3, LogsStay

\* The status that the end of a step writes over that of its own row.
LEMMA StatusOfEnd ==
  ASSUME Shared, NEW s \in Steps, step[s].pc # "new", NEW status \in {"complete", "failed"}, rows' = SetStatus(step[s].own, status),
         UNCHANGED inbox
  PROVE  /\ Grows /\ rows' \in Seq(Records) /\ DOMAIN rows' = DOMAIN rows
         /\ \A r \in DOMAIN rows : /\ rows'[r].log = rows[r].log
                                   /\ rows[r].step # s => rows'[r] = rows[r]
                                   /\ rows'[r].status = "awaiting_input" => rows[r].status = "awaiting_input"
         /\ Candidates' \subseteq Candidates
<1> DEFINE own == step[s].own
<1>1. own \in DOMAIN rows /\ rows[own].step = s
  BY RowOf
<1>2. /\ rows' \in Seq(Records) /\ DOMAIN rows' = DOMAIN rows /\ rows'[own].status = status
      /\ \A q \in DOMAIN rows : /\ q # own => rows'[q] = rows[q]
                                /\ rows'[q].step = rows[q].step /\ rows'[q].kind = rows[q].kind /\ rows'[q].log = rows[q].log
  BY <1>1, StatusChanges
<1>3. Grows
  BY <1>2 DEF Grows
<1>4. ASSUME NEW r \in Candidates' PROVE r \in Candidates
  <2>1. r \in DOMAIN rows /\ rows'[r].status \notin Terminal /\ rows'[r].status # "awaiting_input"
    BY <1>2 DEF Candidates, Finished
  <2>2. r # own
    BY <1>2, <2>1 DEF Terminal
  <2>3. rows'[r] = rows[r]
    BY <1>2, <2>1, <2>2
  <2> QED
    BY <2>1, <2>3 DEF Candidates, Finished
<1>5. \A r \in DOMAIN rows : /\ rows[r].step # s => rows'[r] = rows[r]
                             /\ rows'[r].status = "awaiting_input" => rows[r].status = "awaiting_input"
  BY <1>1, <1>2
<1> QED
  BY <1>2, <1>3, <1>4, <1>5

\* Faults happen to a run that had none.
LEMMA AfterFault == ASSUME Shared, Fault PROVE AskedOnce' /\ faults' \in Nat
  BY FaultCounts

\* The step waits with the newest question about its row.
LEMMA AgentEndsKeepsShared == ASSUME Shared, NEW s \in Steps, AgentEnds(s) PROVE Shared'
<1> DEFINE r == step[s].row
           newest == IF ItemsOf(r) = {} THEN 0 ELSE Max(ItemsOf(r))
<1>1. step[s].pc = "running" /\ UNCHANGED <<inbox, ask, queue, faults>>
  BY DEF AgentEnds
<1>2. /\ r \in DOMAIN rows /\ rows[r].step = s /\ (r = step[s].own <=> step[s].answer = 0)
      /\ step[s].own \in DOMAIN rows /\ faults' \in Nat /\ faults \in Nat
  BY <1>1, RowOf, Fields
<1>3. CASE /\ rows[r].status = "awaiting_input" /\ rows[r].kind = "own" /\ UNCHANGED rows
           /\ step' = [step EXCEPT ![s] = [@ EXCEPT !.pc = "waiting", !.question = newest]]
  <2> DEFINE rec == [step[s] EXCEPT !.pc = "waiting", !.question = newest]
  <2>1. ItemsOf(r) # {}
    BY <1>2, <1>3 DEF Shared, AwaitingWasAsked
  <2>2. newest \in ItemsOf(r) /\ newest \in Nat
    <3>1. Len(inbox) \in Nat /\ ItemsOf(r) \in SUBSET (1..Len(inbox))
      BY RowsAre DEF ItemsOf
    <3>2. Max(ItemsOf(r)) \in ItemsOf(r) /\ Max(ItemsOf(r)) \in 1..Len(inbox)
      BY <2>1, <3>1, NewestIsOne
    <3> QED
      BY <2>1, <3>2
  <2> HIDE DEF newest
  <2>3. /\ rec \in StepStates /\ rec.pc = "waiting" /\ rec.row = r /\ rec.own = step[s].own /\ rec.answer = step[s].answer
        /\ rec.lost = step[s].lost /\ rec.attempt = step[s].attempt /\ rec.question = newest
    <3>1. step[s] \in StepStates
      BY Fields
    <3> QED
      BY <2>2, <3>1 DEF StepStates
  <2>4. step' = [step EXCEPT ![s] = rec]
    BY <1>3
  <2> HIDE DEF rec
  <2>5. step'[s] = rec /\ \A t \in Steps \ {s} : step'[t] = step[t]
    BY <2>3, <2>4, StepMoves
  <2>6. Grows
    BY <1>1, <1>3 DEF Grows
  <2>7. AskedOnce'
    <3> SUFFICES ASSUME faults = 0 PROVE AskedOnce'
      BY <1>1 DEF AskedOnce
    <3>1. Candidates' = Candidates
      BY <1>3 DEF Candidates, Finished
    <3>2. Once(s)
      BY Fields
    <3>3. r = step[s].own
      BY <1>2, <1>3, <3>2 DEF Once
    <3>4. step'[s].question \in ItemsOf(step[s].own)
      BY <2>2, <2>3, <2>5, <3>3
    <3>5. Once(s)'
      BY <1>1, <1>3, <2>3, <2>5, <2>6, <3>1, <3>2, <3>4, OnceMoves
    <3> QED
      BY <1>1, <1>3, <2>5, <2>6, <3>5, AskedOnceMoves
  <2>8. LogsContinue'
    <3>1. rec.attempt >= step[s].attempt
      BY <2>3, Attempts
    <3> QED
      BY <1>1, <1>3, <2>3, <2>4, <2>6, <3>1, NoLogWritten
  <2> QED
    BY <1>1, <1>2, <1>3, <2>3, <2>4, <2>6, <2>7, <2>8, RowsAre, WriteStep
<1>4. ASSUME NEW status \in {"complete", "failed"}, rows' = SetStatus(step[s].own, status),
             step' = [step EXCEPT ![s].pc = "closed"]
      PROVE  Shared'
  <2> DEFINE rec == [step[s] EXCEPT !.pc = "closed"]
  <2>1. /\ rec \in StepStates /\ rec.pc = "closed" /\ rec.row = r /\ rec.own = step[s].own /\ rec.answer = step[s].answer
        /\ rec.lost = step[s].lost /\ rec.attempt = step[s].attempt /\ rec.question = step[s].question
    <3>1. step[s] \in StepStates
      BY Fields
    <3> QED
      BY <3>1 DEF StepStates
  <2>2. step' = [step EXCEPT ![s] = rec]
    BY <1>4
  <2> HIDE DEF rec
  <2>3. step'[s] = rec /\ \A t \in Steps \ {s} : step'[t] = step[t]
    BY <2>1, <2>2, StepMoves
  <2>4. /\ Grows /\ rows' \in Seq(Records) /\ DOMAIN rows' = DOMAIN rows
        /\ \A q \in DOMAIN rows : /\ rows'[q].log = rows[q].log
                                  /\ rows[q].step # s => rows'[q] = rows[q]
                                  /\ rows'[q].status = "awaiting_input" => rows[q].status = "awaiting_input"
        /\ Candidates' \subseteq Candidates
    BY <1>1, <1>4, StatusOfEnd
  <2>5. AskedOnce'
    <3> SUFFICES ASSUME faults = 0 PROVE AskedOnce'
      BY <1>1 DEF AskedOnce
    <3>1. Once(s)
      BY Fields
    <3>2. step[s].answer # 0 => step[s].question \in ItemsOf(step[s].own)
      BY <3>1 DEF Once
    <3>3. Once(s)'
      BY <1>1, <2>1, <2>3, <2>4, <3>1, <3>2, OnceMoves
    <3> QED
      BY <1>1, <2>3, <2>4, <3>3, AskedOnceMoves
  <2>6. LogsContinue'
    <3>1. rec.attempt >= step[s].attempt
      BY <2>1, Attempts
    <3> QED
      BY <1>1, <2>1, <2>2, <2>4, <3>1, NoLogWritten
  <2> QED
    BY <1>1, <1>2, <2>1, <2>2, <2>4, <2>5, <2>6, WriteStep
<1> QED
  BY <1>3, <1>4 DEF AgentEnds

\* The next attempt begins, or the step is closed with what it has written.
LEMMA AttemptDiesKeepsShared == ASSUME Shared, NEW s \in Steps, AttemptDies(s) PROVE Shared'
<1>1. /\ step[s].pc = "running" /\ UNCHANGED <<inbox, queue>> /\ Fault
      /\ ask' \in [Steps -> Requests] /\ \A t \in Steps : ask'[t].pc = ask[t].pc /\ ask'[t].row = ask[t].row
  <2>1. step[s].pc = "running" /\ UNCHANGED <<inbox, queue>> /\ Fault
        /\ ask' = [ask EXCEPT ![s] = [@ EXCEPT !.alone = FALSE, !.told = FALSE]]
    BY DEF AttemptDies
  <2>2. ask[s] \in Requests
    BY Fields
  <2>3. [ask[s] EXCEPT !.alone = FALSE, !.told = FALSE] = [ask[s] EXCEPT !.pc = ask[s].pc, !.alone = FALSE, !.told = FALSE]
        /\ ask[s].pc \in {"idle", "found", "filed"}
    BY <2>2 DEF Requests
  <2>4. ask' = [ask EXCEPT ![s] = [@ EXCEPT !.pc = ask[s].pc, !.alone = FALSE, !.told = FALSE]]
    BY <2>1, <2>3
  <2>5. ask' \in [Steps -> Requests] /\ ask'[s].pc = ask[s].pc /\ ask'[s].row = ask[s].row
        /\ \A t \in Steps \ {s} : ask'[t] = ask[t]
    BY <2>3, <2>4, AskMoves
  <2> QED
    BY <2>1, <2>5
<1>2. AskedOnce' /\ faults' \in Nat
  BY <1>1, AfterFault
<1>3. ASSUME NEW pc \in {"begin", "closed"}, NEW attempt \in 1..MaxAttempts, attempt >= step[s].attempt,
             step' = [step EXCEPT ![s] = [@ EXCEPT !.pc = pc, !.attempt = attempt]],
             \/ UNCHANGED rows
             \/ rows' = SetStatus(step[s].own, "failed")
      PROVE  Shared'
  <2> DEFINE rec == [step[s] EXCEPT !.pc = pc, !.attempt = attempt]
  <2>1. /\ rec \in StepStates /\ rec.pc = pc /\ rec.row = step[s].row /\ rec.own = step[s].own /\ rec.answer = step[s].answer
        /\ rec.lost = step[s].lost /\ rec.attempt = attempt
    <3>1. step[s] \in StepStates
      BY Fields
    <3> QED
      BY <3>1 DEF StepStates
  <2>2. step' = [step EXCEPT ![s] = rec]
    BY <1>3
  <2> HIDE DEF rec
  <2>3. /\ Grows /\ rows' \in Seq(Records) /\ DOMAIN rows' = DOMAIN rows
        /\ \A q \in DOMAIN rows : /\ rows'[q].log = rows[q].log
                                  /\ rows'[q].status = "awaiting_input" => rows[q].status = "awaiting_input"
    <3>1. CASE UNCHANGED rows
      BY <1>1, <3>1, RowsAre DEF Grows
    <3>2. CASE rows' = SetStatus(step[s].own, "failed")
      BY <1>1, <3>2, StatusOfEnd
    <3> QED
      BY <1>3, <3>1, <3>2
  <2>4. LogsContinue'
    BY <1>1, <1>3, <2>1, <2>2, <2>3, NoLogWritten, ZenonT(60)
  <2> QED
    BY <1>1, <1>2, <1>3, <2>1, <2>2, <2>3, <2>4, MoveStep
<1>4. CASE step[s].attempt < MaxAttempts /\ UNCHANGED rows
           /\ step' = [step EXCEPT ![s] = [@ EXCEPT !.pc = "begin", !.attempt = step[s].attempt + 1]]
  <2>1. step[s].attempt + 1 \in 1..MaxAttempts /\ step[s].attempt + 1 >= step[s].attempt
    <3>1. step[s].attempt \in 1..MaxAttempts
      BY Fields
    <3> QED
      BY <1>4, <3>1 DEF MaxAttempts
  <2> QED
    BY <1>3, <1>4, <2>1
<1>5. CASE rows' = SetStatus(step[s].own, "failed") /\ step' = [step EXCEPT ![s].pc = "closed"]
  <2>1. step[s].attempt \in 1..MaxAttempts /\ step[s].attempt >= step[s].attempt
    <3>1. step[s].attempt \in 1..MaxAttempts
      BY Fields
    <3> QED
      BY <3>1 DEF MaxAttempts
  <2>2. step' = [step EXCEPT ![s] = [@ EXCEPT !.pc = "closed", !.attempt = step[s].attempt]]
    <3>1. step[s] \in StepStates
      BY Fields
    <3>2. [step[s] EXCEPT !.pc = "closed"] = [step[s] EXCEPT !.pc = "closed", !.attempt = step[s].attempt]
      BY <3>1 DEF StepStates
    <3> QED
      BY <1>5, <3>2
  <2> QED
    BY <1>3, <1>5, <2>1, <2>2
<1> QED
  BY <1>4, <1>5 DEF AttemptDies

\* Rows of a step are added behind the rows there are.
Added(s, kind) ==
  /\ rows' \in Seq(Records) /\ Len(rows') \in Nat /\ DOMAIN rows' = 1..Len(rows')
  /\ Len(rows') \in DOMAIN rows' /\ Len(rows') \notin DOMAIN rows
  /\ \A r \in DOMAIN rows : r \in DOMAIN rows' /\ rows'[r] = rows[r]
  /\ \A r \in DOMAIN rows' \ DOMAIN rows : rows'[r] = Row(s, kind)

\* By one insert.
LEMMA RowIsAdded ==
  ASSUME Shared, NEW s \in Steps, NEW kind \in {"own", "continuation"}, rows' = Append(rows, Row(s, kind))
  PROVE  Added(s, kind) /\ \A r \in DOMAIN rows' : r \in DOMAIN rows \/ r = Len(rows')
<1> DEFINE row == Row(s, kind)
<1>1. row \in Records
  <2>1. <<>> \in Seq(LogLines)
    OBVIOUS
  <2> QED
    BY <2>1 DEF Row, Records
<1> HIDE DEF row
<1>2. rows \in Seq(Records) /\ Len(rows) \in Nat /\ DOMAIN rows = 1..Len(rows) /\ rows' = Append(rows, row)
  BY RowsAre DEF row
<1>3. /\ rows' \in Seq(Records) /\ Len(rows') = Len(rows) + 1 /\ DOMAIN rows' = 1..(Len(rows) + 1)
      /\ \A r \in DOMAIN rows : rows'[r] = rows[r]
      /\ rows'[Len(rows) + 1] = row
  BY <1>1, <1>2
<1> QED
  BY <1>2, <1>3 DEF Added, row

\* By an insert and its retry.
LEMMA TwoRowsAreAdded ==
  ASSUME Shared, NEW s \in Steps, rows' = rows \o <<Row(s, "own"), Row(s, "own")>>
  PROVE  Added(s, "own")
<1> DEFINE row == Row(s, "own")
           new == <<row, row>>
<1>1. row \in Records
  <2>1. <<>> \in Seq(LogLines)
    OBVIOUS
  <2> QED
    BY <2>1 DEF Row, Records
<1> HIDE DEF row
<1>2. new \in Seq(Records) /\ Len(new) = 2 /\ new[1] = row /\ new[2] = row
  BY <1>1
<1>3. rows \in Seq(Records) /\ Len(rows) \in Nat /\ DOMAIN rows = 1..Len(rows) /\ rows' = rows \o new
  BY RowsAre DEF row
<1> HIDE DEF new
<1>4. /\ rows' \in Seq(Records) /\ Len(rows') = Len(rows) + 2 /\ DOMAIN rows' = 1..(Len(rows) + 2)
      /\ \A r \in DOMAIN rows : rows'[r] = rows[r]
      /\ rows'[Len(rows) + 1] = new[1] /\ rows'[Len(rows) + 2] = new[2]
  BY <1>2, <1>3
<1>5. \A r \in DOMAIN rows' : r \in DOMAIN rows \/ r = Len(rows) + 1 \/ r = Len(rows) + 2
  BY <1>3, <1>4
<1> QED
  BY <1>2, <1>3, <1>4, <1>5 DEF Added, row

\* A step begins to work on the row that was added: what is left to show.
LEMMA WorkBegins ==
  ASSUME Shared, NEW s \in Steps, NEW kind, Added(s, kind), NEW rec \in StepStates, step' = [step EXCEPT ![s] = rec],
         rec.pc = "begin", rec.row = Len(rows'), rec.lost = step[s].lost, Belongs(s)',
         UNCHANGED <<inbox, ask>>, faults' \in Nat,
         queue' \in [Steps -> Seq(DOMAIN inbox)], \A t \in Steps : AnswersOf(t)',
         faults' = 0 => faults = 0 /\ Once(s)'
  PROVE  Shared'
<1>1. step' \in [Steps -> StepStates] /\ step'[s] = rec /\ \A t \in Steps \ {s} : step'[t] = step[t]
  BY StepMoves
<1>2. /\ rows' \in Seq(Records) /\ Len(rows') \in DOMAIN rows' /\ Len(rows') \notin DOMAIN rows
      /\ \A r \in DOMAIN rows : r \in DOMAIN rows' /\ rows'[r] = rows[r]
      /\ \A r \in DOMAIN rows' \ DOMAIN rows : rows'[r] = Row(s, kind)
  BY DEF Added
<1>3. Grows
  BY <1>2 DEF Grows
<1>4. TypeOK'
  <2>1. \A i \in DOMAIN inbox : inbox[i].row \in DOMAIN rows'
    BY <1>2, RowsAre
  <2>2. \A t \in Steps : ask[t].pc # "idle" => ask[t].row \in DOMAIN rows'
    BY <1>2, Fields
  <2> QED
    BY <1>1, <1>2, <2>1, <2>2 DEF Shared, TypeOK
<1>5. RowsBelong'
  <2> SUFFICES ASSUME NEW t \in Steps, t # s PROVE Belongs(t)'
    BY DEF RowsBelong
  <2>1. step'[t] = step[t] /\ (step[t].pc = "new" => ask[t].pc = "idle")
    BY <1>1, Fields DEF Belongs
  <2> QED
    BY <1>3, <2>1, BelongsStays, Fields
<1>7. AwaitingWasAsked'
  <2>1. \A r \in DOMAIN rows' : rows'[r].status = "awaiting_input" => r \in DOMAIN rows /\ rows[r].status = "awaiting_input"
    BY <1>2 DEF Row
  <2> QED
    BY <1>3, <2>1, AwaitingStays
<1>8. AnswersBelong'
  BY DEF AnswersBelong, AnswersOf
<1>10. AskedOnce'
  <2> SUFFICES ASSUME faults' = 0, NEW t \in Steps, t # s PROVE Once(t)'
    BY DEF AskedOnce
  <2>1. Once(t) /\ step'[t] = step[t]
    BY <1>1, Fields
  <2>2. \A r \in DOMAIN rows' : rows'[r].step = t => r \in DOMAIN rows
    BY <1>2 DEF Row
  <2>3. step[t].pc # "new" /\ step[t].own \in Candidates' => step[t].own \in Candidates
    <3> SUFFICES ASSUME step[t].pc # "new", step[t].own \in Candidates' PROVE step[t].own \in Candidates
      OBVIOUS
    <3>1. step[t].own \in DOMAIN rows /\ rows'[step[t].own] = rows[step[t].own]
      BY <1>2, RowOf
    <3> QED
      BY <3>1 DEF Candidates, Finished
  <2> QED
    BY <1>3, <2>1, <2>2, <2>3, OnceStays
<1>11. LogsContinue'
  <2>1. ASSUME NEW r \in DOMAIN rows', ~step'[rows'[r].step].lost PROVE Spliced(rows'[r].log)
    <3>1. CASE r \in DOMAIN rows
      <4>1. rows'[r] = rows[r] /\ rows[r].step \in Steps
        BY <1>2, <3>1, RowsAre
      <4>2. step'[rows[r].step].lost = step[rows[r].step].lost
        BY <1>1, <4>1
      <4> QED
        BY <2>1, <3>1, <4>1, <4>2 DEF Shared, LogsContinue
    <3>2. CASE r \notin DOMAIN rows
      <4>1. rows'[r].log = <<>>
        BY <1>2, <3>2 DEF Row
      <4> QED
        BY <4>1 DEF Spliced
    <3> QED
      BY <3>1, <3>2
  <2>2. ASSUME NEW t \in Steps, step'[t].pc # "new", ~step'[t].lost PROVE Follows(t)'
    <3>1. CASE t = s
      <4>1. rows'[step'[s].row].log = <<>> /\ step'[s].pc = "begin"
        BY <1>1, <1>2 DEF Row
      <4> QED
        BY <3>1, <4>1 DEF Follows
    <3>2. CASE t # s
      <4>1. step'[t] = step[t] /\ Follows(t)
        BY <1>1, <2>2, <3>2 DEF Shared, LogsContinue
      <4>2. rows'[step[t].row] = rows[step[t].row]
        BY <1>2, <2>2, <4>1, RowOf
      <4> QED
        BY <4>1, <4>2 DEF Follows
    <3> QED
      BY <3>1, <3>2
  <2> QED
    BY <2>1, <2>2 DEF LogsContinue, Spliced
<1> QED
  BY <1>4, <1>5, <1>7, <1>8, <1>10, <1>11 DEF Shared

\* The step begins with a row of its own; an insert that is retried leaves
\* another one that nobody knows.
LEMMA CreateStepRunKeepsShared == ASSUME Shared, NEW s \in Steps, CreateStepRun(s) PROVE Shared'
<1> DEFINE n == Len(rows')
           rec == [step[s] EXCEPT !.pc = "begin", !.row = n, !.own = n]
<1>1. /\ step[s].pc = "new" /\ UNCHANGED <<inbox, ask, queue>> /\ step' = [step EXCEPT ![s] = rec]
      /\ \/ rows' = Append(rows, Row(s, "own")) /\ NoFault
         \/ rows' = rows \o <<Row(s, "own"), Row(s, "own")>> /\ Fault
  BY DEF CreateStepRun
<1>2. Added(s, "own") /\ (NoFault => \A r \in DOMAIN rows' : r \in DOMAIN rows \/ r = n) /\ (Fault \/ NoFault)
  <2>1. CASE rows' = Append(rows, Row(s, "own")) /\ NoFault
    BY <2>1, RowIsAdded
  <2>2. CASE rows' = rows \o <<Row(s, "own"), Row(s, "own")>> /\ Fault
    <3>1. ~NoFault
      <4>1. faults \in Nat
        BY Fields
      <4> QED
        BY <2>2, <4>1 DEF Fault, NoFault
    <3> QED
      BY <2>2, <3>1, TwoRowsAreAdded
  <2> QED
    BY <1>1, <2>1, <2>2
<1>3. /\ n \in Nat /\ n \in DOMAIN rows' /\ n \notin DOMAIN rows /\ rows'[n] = Row(s, "own")
      /\ \A r \in DOMAIN rows : rows'[r] = rows[r]
  BY <1>2 DEF Added
<1> HIDE DEF n
<1>4. /\ step[s].answer = 0 /\ ask[s].pc = "idle" /\ step[s].own = 0
  BY <1>1, Fields DEF Belongs
<1>5. /\ rec \in StepStates /\ rec.pc = "begin" /\ rec.row = n /\ rec.own = n /\ rec.answer = 0 /\ rec.lost = step[s].lost
  <2>1. step[s] \in StepStates
    BY Fields
  <2> QED
    BY <1>3, <1>4, <2>1 DEF StepStates
<1> HIDE DEF rec
<1>6. step'[s] = rec /\ \A t \in Steps \ {s} : step'[t] = step[t]
  BY <1>1, <1>5, StepMoves
<1>7. Grows
  BY <1>1, <1>2 DEF Grows, Added
<1>8. Belongs(s)'
  BY <1>3, <1>5, <1>6 DEF Belongs, Row
<1>9. \A t \in Steps : AnswersOf(t)'
  <2> SUFFICES ASSUME NEW t \in Steps PROVE AnswersOf(t)'
    OBVIOUS
  <2>1. step'[t].answer = step[t].answer
    BY <1>4, <1>5, <1>6
  <2> QED
    BY <1>1, <1>7, <2>1, AnswersStay
<1>10. ASSUME faults' = 0 PROVE faults = 0 /\ Once(s)'
  <2>1. faults = 0 /\ faults \in Nat /\ Once(s)
    BY <1>2, <1>10, FaultCounts, Fields
  <2>2. NoFault
    BY <1>2, <1>10, <2>1 DEF Fault
  <2>3. \A r \in DOMAIN rows : rows[r].step # s
    BY <1>1, <2>1 DEF Once
  <2>4. \A r \in DOMAIN rows' : rows'[r].step = s => r = n
    BY <1>2, <1>3, <2>2, <2>3
  <2>5. \A i \in DOMAIN inbox : inbox[i].row # n
    BY <1>3, RowsAre
  <2>6. OwnItems(s)' = {}
    BY <1>1, <1>5, <1>6, <2>5 DEF OwnItems, ItemsOf
  <2>7. ask'[s].pc = "idle"
    BY <1>1, <1>4
  <2> QED
    BY <1>5, <1>6, <2>1, <2>4, <2>6, <2>7 DEF Once
<1>11. faults' \in Nat
  BY <1>2, FaultCounts
<1>12. queue' \in [Steps -> Seq(DOMAIN inbox)]
  BY <1>1, Fields
<1>13. rec.row = Len(rows') /\ UNCHANGED <<inbox, ask>>
  BY <1>1, <1>5 DEF n
<1> QED
  BY <1>1, <1>2, <1>5, <1>8, <1>9, <1>10, <1>11, <1>12, <1>13, WorkBegins

\* The first answer on the channel, and those behind it.
LEMMA FirstAnswer ==
  ASSUME NEW X, NEW q \in Seq(X), q # <<>>
  PROVE  Head(q) \in X /\ Tail(q) \in Seq(X) /\ 1 \in DOMAIN q /\ Head(q) = q[1]
         /\ \A k \in DOMAIN Tail(q) : k + 1 \in DOMAIN q /\ Tail(q)[k] = q[k + 1]
  OBVIOUS

\* The continuation works on a row of its own with an answer to the step.
LEMMA ResumeKeepsShared == ASSUME Shared, NEW s \in Steps, Resume(s) PROVE Shared'
<1> DEFINE n == Len(rows')
           first == Head(queue[s])
           rec == [step[s] EXCEPT !.pc = "begin", !.attempt = 1, !.row = n, !.answer = first]
<1>1. /\ step[s].pc = "waiting" /\ queue[s] # <<>> /\ UNCHANGED <<inbox, ask, faults>>
      /\ rows' = Append(rows, Row(s, "continuation")) /\ step' = [step EXCEPT ![s] = rec]
      /\ queue' = [queue EXCEPT ![s] = Tail(@)]
  BY DEF Resume
<1>2. Added(s, "continuation") /\ \A r \in DOMAIN rows' : r \in DOMAIN rows \/ r = n
  BY <1>1, RowIsAdded
<1>3. /\ n \in Nat /\ n \in DOMAIN rows' /\ n \notin DOMAIN rows /\ rows'[n] = Row(s, "continuation")
      /\ \A r \in DOMAIN rows : rows'[r] = rows[r]
  BY <1>2 DEF Added
<1>4. /\ queue[s] \in Seq(DOMAIN inbox) /\ queue \in [Steps -> Seq(DOMAIN inbox)]
      /\ \A k \in DOMAIN queue[s] : Answers(queue[s][k], s)
  BY Fields DEF Shared, AnswersBelong
<1>5. /\ first \in DOMAIN inbox /\ Tail(queue[s]) \in Seq(DOMAIN inbox) /\ 1 \in DOMAIN queue[s] /\ first = queue[s][1]
      /\ \A k \in DOMAIN Tail(queue[s]) : k + 1 \in DOMAIN queue[s] /\ Tail(queue[s])[k] = queue[s][k + 1]
  BY <1>1, <1>4, FirstAnswer
<1>6. first \in Nat /\ first # 0
  BY <1>5, RowsAre
<1>7. Answers(first, s)
  BY <1>4, <1>5
<1> HIDE DEF n, first
<1>8. /\ rec \in StepStates /\ rec.pc = "begin" /\ rec.row = n /\ rec.own = step[s].own /\ rec.answer = first
      /\ rec.lost = step[s].lost /\ rec.question = step[s].question
  <2>1. step[s] \in StepStates /\ 1 \in 1..MaxAttempts
    <3>1. 1 \in 1..MaxAttempts
      BY DEF MaxAttempts
    <3> QED
      BY <3>1, Fields
  <2> QED
    BY <1>3, <1>6, <2>1 DEF StepStates
<1> HIDE DEF rec
<1>9. step'[s] = rec /\ \A t \in Steps \ {s} : step'[t] = step[t]
  BY <1>1, <1>8, StepMoves
<1>10. Grows
  BY <1>1, <1>2 DEF Grows, Added
<1>11. /\ step[s].own \in DOMAIN rows /\ rows[step[s].own].step = s /\ rows[step[s].own].kind = "own"
  BY <1>1, RowOf
<1>12. Belongs(s)'
  <2>1. rows'[step[s].own] = rows[step[s].own] /\ step[s].own \in DOMAIN rows' /\ n # step[s].own
    BY <1>3, <1>10, <1>11 DEF Grows
  <2> QED
    BY <1>3, <1>6, <1>8, <1>9, <1>11, <2>1 DEF Belongs, Row
<1>13. \A t \in Steps : queue'[t] = IF t = s THEN Tail(queue[s]) ELSE queue[t]
  BY <1>1, <1>4
<1>14. \A t \in Steps : AnswersOf(t)'
  <2> SUFFICES ASSUME NEW t \in Steps PROVE AnswersOf(t)'
    OBVIOUS
  <2>1. CASE t # s
    <3>1. step'[t].answer = step[t].answer /\ queue'[t] = queue[t]
      BY <1>9, <1>13, <2>1
    <3> QED
      BY <1>10, <3>1, AnswersStay
  <2>2. CASE t = s
    <3>1. ASSUME NEW k \in DOMAIN queue'[s] PROVE LaterAnswers(queue'[s][k], s)
      <4>1. k + 1 \in DOMAIN queue[s] /\ queue'[s][k] = queue[s][k + 1]
        BY <1>5, <1>13, <3>1
      <4>2. queue[s][k + 1] \in DOMAIN inbox /\ Answers(queue[s][k + 1], s)
        BY <1>4, <4>1, ElementOfSeq
      <4> QED
        BY <1>10, <4>1, <4>2, AnswersGrow
    <3>2. step'[s].answer \in DOMAIN inbox' /\ LaterAnswers(step'[s].answer, s)
      BY <1>5, <1>7, <1>8, <1>9, <1>10, AnswersGrow
    <3> QED
      BY <2>2, <3>1, <3>2 DEF AnswersOf, Answers, LaterAnswers
  <2> QED
    BY <2>1, <2>2
<1>15. ASSUME faults' = 0 PROVE faults = 0 /\ Once(s)'
  <2>1. faults = 0 /\ Once(s)
    BY <1>1, <1>15, Fields
  <2>2. \A r \in DOMAIN rows' : rows'[r].step = s /\ rows'[r].kind = "own" => r = step[s].own
    <3> SUFFICES ASSUME NEW r \in DOMAIN rows', rows'[r].step = s, rows'[r].kind = "own" PROVE r = step[s].own
      OBVIOUS
    <3>1. r \in DOMAIN rows /\ rows'[r] = rows[r]
      BY <1>2, <1>3 DEF Row
    <3> QED
      BY <2>1, <3>1 DEF Once
  <2>3. OwnItems(s)' = OwnItems(s)
    BY <1>1, <1>8, <1>9 DEF OwnItems, ItemsOf
  <2>5. step[s].own \in Candidates' => step[s].own \in Candidates
    BY <1>3, <1>11 DEF Candidates, Finished
  <2>6. ItemsOf(step[s].own)' = ItemsOf(step[s].own)
    BY <1>1, <1>8, <1>9 DEF ItemsOf
  <2>7. step'[s].own = step[s].own /\ step'[s].question = step[s].question /\ step'[s].answer # 0 /\ step'[s].pc = "begin"
    BY <1>6, <1>8, <1>9
  <2> QED
    BY <1>1, <2>1, <2>2, <2>3, <2>5, <2>6, <2>7 DEF Once
<1>16. faults' \in Nat /\ UNCHANGED <<inbox, ask>>
  BY <1>1, Fields
<1>17. queue' \in [Steps -> Seq(DOMAIN inbox)]
  BY <1>1, <1>4, <1>5
<1>18. rec.row = Len(rows')
  BY <1>8 DEF n
<1> QED
  BY <1>1, <1>2, <1>8, <1>12, <1>14, <1>15, <1>16, <1>17, <1>18, WorkBegins

\* Nothing happens to a run that rests.
LEMMA RestKeepsShared == ASSUME Shared, UNCHANGED vars PROVE Shared'
<1>1. UNCHANGED <<rows, inbox, step, ask, queue, faults>>
  BY DEF vars
<1>2. TypeOK' /\ RowsBelong'
  BY <1>1 DEF Shared, TypeOK, RowsBelong, Belongs
<1>3. AwaitingWasAsked' /\ AnswersBelong'
  BY <1>1 DEF Shared, AwaitingWasAsked, ItemsOf, AnswersBelong, Answers
<1>4. AskedOnce'
  <2>1. Candidates' = Candidates
    BY <1>1 DEF Candidates, Finished
  <2>2. \A s \in Steps : OwnItems(s)' = OwnItems(s) /\ ItemsOf(step[s].own)' = ItemsOf(step[s].own)
    BY <1>1 DEF OwnItems, ItemsOf
  <2> QED
    BY <1>1, <2>1, <2>2 DEF Shared, AskedOnce, Once
<1>5. LogsContinue'
  BY <1>1 DEF Shared, LogsContinue, Spliced, Follows
<1> QED
  BY <1>2, <1>3, <1>4, <1>5 DEF Shared

\* A run begins without rows, questions and answers.
LEMMA InitShares == Init => Shared
<1> SUFFICES ASSUME Init PROVE Shared
  OBVIOUS
<1>1. /\ rows = <<>> /\ inbox = <<>> /\ faults = 0
      /\ step = [s \in Steps |-> [pc |-> "new", row |-> 0, own |-> 0, attempt |-> 1, seq |-> 0, buffer |-> <<>>, lost |-> FALSE,
                                  question |-> 0, answer |-> 0]]
      /\ ask = [s \in Steps |-> [pc |-> "idle", row |-> 0, alone |-> FALSE, told |-> FALSE]]
      /\ queue = [s \in Steps |-> <<>>]
  BY DEF Init
<1>2. DOMAIN rows = {} /\ DOMAIN inbox = {}
  BY <1>1
<1>3. \A s \in Steps : /\ step[s].pc = "new" /\ step[s].own = 0 /\ step[s].answer = 0
                       /\ ask[s].pc = "idle" /\ DOMAIN queue[s] = {}
  BY <1>1
<1>4. TypeOK
  <2>1. rows \in Seq(Records) /\ inbox \in Seq(Items)
    BY <1>1
  <2>2. step \in [Steps -> StepStates]
    <3>1. 1 \in 1..MaxAttempts
      BY DEF MaxAttempts
    <3>2. <<>> \in Seq(LogLines)
      OBVIOUS
    <3>3. [pc |-> "new", row |-> 0, own |-> 0, attempt |-> 1, seq |-> 0, buffer |-> <<>>, lost |-> FALSE,
           question |-> 0, answer |-> 0] \in StepStates
      BY <3>1, <3>2 DEF StepStates
    <3> QED
      BY <1>1, <3>3
  <2>3. ask \in [Steps -> Requests]
    BY <1>1 DEF Requests
  <2>4. queue \in [Steps -> Seq(DOMAIN inbox)]
    BY <1>1
  <2> QED
    BY <1>1, <1>2, <1>3, <2>1, <2>2, <2>3, <2>4 DEF TypeOK
<1>5. RowsBelong /\ AwaitingWasAsked /\ AnswersBelong
  BY <1>1, <1>2, <1>3 DEF RowsBelong, Belongs, AwaitingWasAsked, AnswersBelong
<1>6. AskedOnce
  <2>1. \A s \in Steps : OwnItems(s) = {}
    BY <1>2 DEF OwnItems, ItemsOf
  <2> QED
    BY <1>2, <1>3, <2>1 DEF AskedOnce, Once
<1>7. LogsContinue
  BY <1>2, <1>3 DEF LogsContinue
<1> QED
  BY <1>4, <1>5, <1>6, <1>7 DEF Shared

-----------------------------------------------------------------------------
(* Questions pause steps: the second part of the invariant.                *)

\* The first part is known of the next state, so are the bounds of rows.
LEMMA SharedStays == Shared /\ [Next]_vars => Shared'
<1> SUFFICES ASSUME Shared, [Next]_vars PROVE Shared'
  OBVIOUS
<1>1. ASSUME NEW s \in Steps,
             \/ CreateStepRun(s) \/ BeginAttempt(s) \/ Line(s) \/ Flush(s) \/ AgentEnds(s) \/ AttemptDies(s)
             \/ FindStep(s) \/ FileQuestion(s) \/ MarkAwaiting(s) \/ Resume(s)
      PROVE  Shared'
  BY <1>1, CreateStepRunKeepsShared, BeginAttemptKeepsShared, LineKeepsShared, FlushKeepsShared, AgentEndsKeepsShared,
     AttemptDiesKeepsShared, FindStepKeepsShared, FileQuestionKeepsShared, MarkAwaitingKeepsShared, ResumeKeepsShared
<1>2. CASE Respond
  BY <1>2, RespondKeepsShared
<1>3. CASE Rest
  BY <1>3, RestKeepsShared DEF Rest
<1>4. CASE UNCHANGED vars
  BY <1>4, RestKeepsShared
<1> QED
  BY <1>1, <1>2, <1>3, <1>4 DEF Next

\* What the invariant says of one step.
LEMMA Told ==
  ASSUME IInv, NEW t \in Steps
  PROVE  /\ WaitsForAnAnswer(t)
         /\ IF step[t].pc = "new" THEN ~ask[t].told ELSE PausesWhenTold(t)
  BY DEF IInv, ToldSteps, WaitingWasAsked

\* A step that does not move, and whose row is at most marked.
Same(t) ==
  /\ step'[t].pc = step[t].pc /\ step'[t].own = step[t].own /\ step'[t].row = step[t].row
  /\ step'[t].answer = step[t].answer /\ step'[t].question = step[t].question

\* It is told nothing.
Unheard(t) ==
  /\ ask'[t].told => ask[t].told
  /\ ask'[t].pc # "idle" /\ ask'[t].alone => ask[t].pc # "idle" /\ ask[t].alone /\ ask'[t].row = ask[t].row

\* Its rows stay as they are, but for the mark.
OwnRowStays(t) ==
  /\ \A r \in DOMAIN rows' : rows'[r].step = t => r \in DOMAIN rows
  /\ step[t].pc # "new" => \/ rows'[step[t].own].status = rows[step[t].own].status
                           \/ rows'[step[t].own].status = "awaiting_input"

\* Then it pauses when it was told to.
LEMMA ToldStays ==
  ASSUME IInv, Grows, NEW t \in Steps, Same(t), Unheard(t), OwnRowStays(t)
  PROVE  IF step'[t].pc = "new" THEN ~ask'[t].told ELSE PausesWhenTold(t)'
<1>1. CASE step[t].pc = "new"
  BY <1>1, Told DEF Same, Unheard
<1>2. CASE step[t].pc # "new"
  <2> SUFFICES ASSUME step[t].answer = 0 PROVE PausesWhenTold(t)'
    BY <1>2 DEF Same, PausesWhenTold
  <2>1. /\ \A r \in DOMAIN rows : rows[r].step = t => r <= step[t].own
        /\ step[t].pc \in {"begin", "running"} =>
             /\ ~Finished(step[t].own)
             /\ ask[t].pc # "idle" /\ ask[t].alone => step[t].pc = "running" /\ (ask[t].row = step[t].own \/ OwnWaits(t))
        /\ ask[t].told => (step[t].pc = "running" /\ OwnWaits(t)) \/ step[t].pc = "waiting"
    BY <1>2, Told DEF PausesWhenTold
  <2>2. \A r \in DOMAIN rows' : rows'[r].step = t => r <= step[t].own
    BY <2>1 DEF OwnRowStays, Grows
  <2>3. /\ ~Finished(step[t].own) => rows'[step[t].own].status \notin Terminal
        /\ OwnWaits(t) => rows'[step[t].own].status = "awaiting_input"
    BY <1>2 DEF OwnRowStays, Finished, OwnWaits, Terminal
  <2> QED
    BY <1>2, <2>1, <2>2, <2>3 DEF Same, Unheard, PausesWhenTold, Finished, OwnWaits
<1> QED
  BY <1>1, <1>2 DEF Same

\* Nobody answers a question of the step without the step.
AnswersKnown(t) ==
  /\ queue'[t] = <<>> => queue[t] = <<>> \/ step'[t].answer # 0 \/ step'[t].pc = "closed"
  /\ queue'[t] = <<>> /\ step[t].pc # "closed" =>
       \A i \in DOMAIN inbox' : LaterAnswers(i, t) /\ inbox'[i].answered =>
         \/ inbox'[i].lost
         \/ i \in DOMAIN inbox /\ Answers(i, t) /\ inbox[i].answered /\ inbox[i].lost = inbox'[i].lost

\* Then it goes on to wait for what can come.
LEMMA WaitStays ==
  ASSUME IInv, Grows, NEW t \in Steps, Same(t), AnswersKnown(t)
  PROVE  WaitsForAnAnswer(t)'
<1> USE Told DEF WaitsForAnAnswer
<1>1. ItemsOf(step[t].own) \subseteq LaterItems(step[t].own)
  BY ItemsStay
<1>2. step'[t].answer # 0 => rows'[step'[t].row].kind = "continuation" /\ step'[t].pc # "waiting"
  <2> SUFFICES ASSUME step[t].answer # 0 PROVE rows'[step[t].row].kind = "continuation" /\ step[t].pc # "waiting"
    BY DEF Same
  <2>1. step[t].row \in DOMAIN rows
    BY Fields DEF IInv, Belongs
  <2> QED
    BY <2>1 DEF Grows
<1>3. ASSUME step'[t].answer = 0, step'[t].pc # "closed", queue'[t] = <<>>, NEW i \in DOMAIN inbox',
             LaterAnswers(i, t), inbox'[i].answered
      PROVE  inbox'[i].lost
  <2>1. queue[t] = <<>> /\ step[t].answer = 0 /\ step[t].pc # "closed"
    BY <1>3 DEF Same, AnswersKnown
  <2> QED
    BY <1>3, <2>1 DEF AnswersKnown
<1>4. step'[t].pc = "waiting" => step'[t].question \in LaterItems(step'[t].own)
  BY <1>1 DEF Same
<1>5. (step[t].pc = "waiting" => step[t].question \in ItemsOf(step[t].own))'
  BY <1>4 DEF ItemsOf, LaterItems
<1>6. (step[t].answer = 0 /\ step[t].pc # "closed" /\ queue[t] = <<>> =>
         \A i \in DOMAIN inbox : Answers(i, t) /\ inbox[i].answered => inbox[i].lost)'
  BY <1>3 DEF Answers, LaterAnswers
<1> QED
  BY <1>2, <1>5, <1>6

\* Nobody answers while the inbox stays.
LEMMA NobodyAnswers ==
  ASSUME IInv, Grows, NEW t \in Steps, UNCHANGED inbox, queue'[t] = queue[t]
  PROVE  AnswersKnown(t)
<1>1. ASSUME NEW i \in DOMAIN inbox, LaterAnswers(i, t) PROVE Answers(i, t)
  <2>1. inbox[i].row \in DOMAIN rows
    BY RowsAre DEF IInv
  <2> QED
    BY <1>1, <2>1 DEF LaterAnswers, Answers, Grows
<1> QED
  BY <1>1 DEF AnswersKnown

\* The parts of the invariant, one step after the other.
LEMMA StepByStep ==
  ASSUME Shared', \A t \in Steps : WaitsForAnAnswer(t)' /\ (IF step'[t].pc = "new" THEN ~ask'[t].told ELSE PausesWhenTold(t)')
  PROVE  IInv'
  BY DEF IInv, ToldSteps, WaitingWasAsked

\* What holds of every step but the one that acts.
LEMMA OthersStay ==
  ASSUME IInv, Grows, Shared', UNCHANGED inbox, NEW s \in Steps,
         \A t \in Steps \ {s} : queue'[t] = queue[t] /\ Same(t) /\ Unheard(t) /\ OwnRowStays(t),
         WaitsForAnAnswer(s)', IF step'[s].pc = "new" THEN ~ask'[s].told ELSE PausesWhenTold(s)'
  PROVE  IInv'
<1>1. ASSUME NEW t \in Steps \ {s}
      PROVE  WaitsForAnAnswer(t)' /\ (IF step'[t].pc = "new" THEN ~ask'[t].told ELSE PausesWhenTold(t)')
  BY <1>1, NobodyAnswers, WaitStays, ToldStays
<1> QED
  BY <1>1, StepByStep

\* The newest candidate is the step's own row, or that waits already, if the
\* agent is alone.
LEMMA FindStepKeepsIInv == ASSUME IInv, Shared', NEW s \in Steps, FindStep(s) PROVE IInv'
<1>1. /\ step[s].pc = "running" /\ ask[s].pc = "idle" /\ Candidates # {}
      /\ ask' = [ask EXCEPT ![s] = [@ EXCEPT !.pc = "found", !.row = Max(Candidates), !.alone = Alone(s)]]
      /\ UNCHANGED <<rows, inbox, step, queue, faults>>
  BY DEF FindStep
<1>2. /\ ask'[s].pc = "found" /\ ask'[s].row = Max(Candidates) /\ ask'[s].alone = Alone(s) /\ ask'[s].told = ask[s].told
      /\ \A t \in Steps \ {s} : ask'[t] = ask[t]
  <2>1. ask[s] \in Requests /\ DOMAIN ask = Steps
    BY Fields DEF IInv
  <2> QED
    BY <1>1, <2>1 DEF Requests
<1>3. Grows /\ \A t \in Steps : Same(t) /\ OwnRowStays(t)
  BY <1>1 DEF Grows, Same, OwnRowStays
<1>4. WaitsForAnAnswer(s)'
  BY <1>1, <1>3, NobodyAnswers, WaitStays
<1>5. ASSUME Alone(s), step[s].answer = 0, ~OwnWaits(s) PROVE Max(Candidates) = step[s].own
  <2>1. step[s].own \in DOMAIN rows /\ step[s].own \in Nat
    BY <1>1, Fields DEF IInv, Belongs
  <2>2. /\ \A r \in DOMAIN rows : rows[r].step = s => r <= step[s].own
        /\ ~Finished(step[s].own)
    BY <1>1, <1>5, Told DEF PausesWhenTold
  <2>3. step[s].own \in Candidates
    BY <1>5, <2>1, <2>2 DEF Candidates, OwnWaits
  <2>4. /\ Max(Candidates) \in Candidates /\ step[s].own <= Max(Candidates) /\ Max(Candidates) \in Nat
    <3>1. Candidates \in SUBSET (1..Len(rows)) /\ Len(rows) \in Nat
      BY RowsAre DEF IInv, Candidates
    <3> QED
      BY <2>3, <3>1, MaxIn
  <2>5. Max(Candidates) <= step[s].own
    BY <1>5, <2>2, <2>4 DEF Alone, Candidates
  <2> QED
    BY <2>1, <2>4, <2>5
<1>6. PausesWhenTold(s)'
  <2> SUFFICES ASSUME step[s].answer = 0 PROVE PausesWhenTold(s)'
    BY <1>1 DEF PausesWhenTold
  <2>1. /\ \A r \in DOMAIN rows : rows[r].step = s => r <= step[s].own
        /\ ~Finished(step[s].own)
        /\ ask[s].told => OwnWaits(s)
    BY <1>1, Told DEF PausesWhenTold
  <2>2. ask'[s].alone => ask'[s].row = step[s].own \/ OwnWaits(s)
    BY <1>2, <1>5
  <2> QED
    BY <1>1, <1>2, <2>1, <2>2 DEF PausesWhenTold, Finished, OwnWaits
<1> QED
  BY <1>1, <1>2, <1>3, <1>4, <1>6, OthersStay DEF Unheard

\* A question is filed without anybody being told.
LEMMA FileQuestionKeepsIInv == ASSUME IInv, Shared', NEW s \in Steps, FileQuestion(s) PROVE IInv'
<1> DEFINE item == [row |-> ask[s].row, by |-> s, answered |-> FALSE, lost |-> FALSE]
<1>1. /\ ask[s].pc = "found" /\ UNCHANGED <<rows, step, queue>>
      /\ \/ inbox' = Append(inbox, item) /\ ask' = [ask EXCEPT ![s].pc = "filed"]
         \/ inbox' = inbox /\ ask' = [ask EXCEPT ![s].pc = "idle"]
  BY DEF FileQuestion
<1>2. /\ \A i \in DOMAIN inbox : i \in DOMAIN inbox' /\ inbox'[i] = inbox[i]
      /\ \A i \in DOMAIN inbox' : i \in DOMAIN inbox \/ ~inbox'[i].answered
  <2>1. inbox \in Seq(Items) /\ item \in Items /\ ~item.answered
    BY RowsAre, Fields DEF IInv, Items
  <2> HIDE DEF item
  <2> QED
    BY <1>1, <2>1
<1>3. \A t \in Steps : Unheard(t)
  BY <1>1, AskGoesOn DEF IInv, Unheard
<1>4. Grows /\ \A t \in Steps : Same(t) /\ OwnRowStays(t)
  BY <1>1, <1>2 DEF Grows, Same, OwnRowStays
<1>5. ASSUME NEW t \in Steps PROVE AnswersKnown(t)
  <2>1. ASSUME NEW i \in DOMAIN inbox', LaterAnswers(i, t), inbox'[i].answered
        PROVE  i \in DOMAIN inbox /\ Answers(i, t) /\ inbox[i].answered /\ inbox[i].lost = inbox'[i].lost
    BY <1>1, <1>2, <2>1 DEF LaterAnswers, Answers
  <2> QED
    BY <1>1, <2>1 DEF AnswersKnown
<1> QED
  BY <1>3, <1>4, <1>5, ToldStays, WaitStays, StepByStep

\* The row of a step whose agent is told waits from now on.
LEMMA MarkAwaitingKeepsIInv == ASSUME IInv, Shared', NEW s \in Steps, MarkAwaiting(s) PROVE IInv'
<1> DEFINE told == ask[s].told \/ (ask[s].alone /\ step[s].pc = "running")
<1>1. /\ ask[s].pc = "filed" /\ UNCHANGED <<inbox, step, queue>> /\ ask[s].row \in DOMAIN rows
      /\ \/ /\ rows' = SetStatus(ask[s].row, "awaiting_input")
            /\ ask' = [ask EXCEPT ![s] = [@ EXCEPT !.pc = "idle", !.told = told]]
         \/ ask' = [ask EXCEPT ![s].pc = "idle"] /\ UNCHANGED rows
  BY Fields DEF IInv, MarkAwaiting
<1>2. /\ DOMAIN rows' = DOMAIN rows
      /\ \A r \in DOMAIN rows : /\ rows'[r].step = rows[r].step /\ rows'[r].kind = rows[r].kind
                                /\ rows'[r].status = rows[r].status \/ rows'[r].status = "awaiting_input"
  <2>1. CASE UNCHANGED rows
    BY <2>1
  <2>2. CASE rows' = SetStatus(ask[s].row, "awaiting_input")
    BY <1>1, <2>2, StatusChanges DEF IInv
  <2> QED
    BY <1>1, <2>1, <2>2
<1>3. Grows /\ \A t \in Steps : Same(t) /\ OwnRowStays(t)
  <2>1. ASSUME NEW t \in Steps, step[t].pc # "new" PROVE step[t].own \in DOMAIN rows
    BY <2>1, Fields DEF IInv, Belongs
  <2> QED
    BY <1>1, <1>2, <2>1 DEF Grows, Same, OwnRowStays
<1>4. WaitsForAnAnswer(s)'
  BY <1>1, <1>3, NobodyAnswers, WaitStays
<1>5. \A t \in Steps \ {s} : ask'[t] = ask[t]
  <2>1. ask[s] \in Requests /\ DOMAIN ask = Steps
    BY Fields DEF IInv
  <2> QED
    BY <1>1, <2>1
<1>6. IF step'[s].pc = "new" THEN ~ask'[s].told ELSE PausesWhenTold(s)'
  <2>1. CASE Unheard(s)
    BY <1>3, <2>1, ToldStays
  <2>2. CASE ~Unheard(s)
    <3>1. ask[s] \in Requests /\ DOMAIN ask = Steps
      BY Fields DEF IInv
    <3>2. rows' = SetStatus(ask[s].row, "awaiting_input") /\ ask'[s].pc = "idle" /\ ask'[s].told = told
      BY <1>1, <2>2, <3>1 DEF Unheard, Requests
    <3>3. ask[s].alone /\ step[s].pc = "running" /\ ask[s].pc # "idle"
      BY <1>1, <2>2, <3>2 DEF Unheard
    <3> SUFFICES ASSUME step[s].answer = 0 PROVE PausesWhenTold(s)'
      BY <1>1, <3>3 DEF PausesWhenTold
    <3>4. /\ \A r \in DOMAIN rows : rows[r].step = s => r <= step[s].own
          /\ ~Finished(step[s].own) /\ (ask[s].row = step[s].own \/ OwnWaits(s)) /\ step[s].own \in DOMAIN rows
      BY <3>3, Told, Fields DEF IInv, PausesWhenTold, Belongs
    <3>5. rows'[step[s].own].status = "awaiting_input"
      BY <1>1, <1>2, <3>2, <3>4, StatusChanges DEF IInv, OwnWaits
    <3>6. \A r \in DOMAIN rows' : rows'[r].step = s => r <= step[s].own
      BY <1>2, <3>4
    <3> QED
      BY <1>1, <3>2, <3>3, <3>5, <3>6 DEF PausesWhenTold, Finished, OwnWaits, Terminal
  <2> QED
    BY <2>1, <2>2
<1> QED
  BY <1>1, <1>3, <1>4, <1>5, <1>6, OthersStay DEF Unheard

\* A queue that was added to.
LEMMA AppendNonempty == ASSUME NEW X, NEW q \in Seq(X), NEW e PROVE Append(q, e) # <<>>
<1>1. Len(Append(q, e)) = Len(q) + 1 /\ Len(q) \in Nat
  OBVIOUS
<1>2. Len(<<>>) = 0
  OBVIOUS
<1> QED
  BY <1>1, <1>2

\* An answer that is given reaches the step that it is for, unless the step is
\* closed or the signal is lost.
LEMMA RespondKeepsIInv == ASSUME IInv, Shared', Respond PROVE IInv'
<1>1. UNCHANGED <<rows, step, ask>>
  BY DEF Respond
<1>2. PICK i \in DOMAIN inbox :
        \/ Reachable(i) /\ queue' = [queue EXCEPT ![Addressee(i)] = Append(@, i)] /\ Answered(i, FALSE)
        \/ ~Reachable(i) /\ UNCHANGED queue /\ Answered(i, FALSE)
        \/ UNCHANGED queue /\ Answered(i, TRUE)
  BY DEF Respond
<1>3. /\ DOMAIN inbox' = DOMAIN inbox
      /\ \A j \in DOMAIN inbox : inbox'[j].row = inbox[j].row /\ inbox'[j].by = inbox[j].by
      /\ \A j \in DOMAIN inbox \ {i} : inbox'[j] = inbox[j]
      /\ Answered(i, TRUE) => inbox'[i].lost
  BY <1>2, ItemAnswered DEF IInv
<1>4. Grows /\ \A t \in Steps : Same(t) /\ Unheard(t) /\ OwnRowStays(t)
  BY <1>1, <1>3 DEF Grows, Same, Unheard, OwnRowStays
<1>5. ASSUME NEW t \in Steps PROVE AnswersKnown(t)
  <2>1. queue \in [Steps -> Seq(DOMAIN inbox)] /\ queue[t] \in Seq(DOMAIN inbox)
    BY DEF IInv, Shared, TypeOK
  <2>2. /\ queue'[t] = <<>> => queue[t] = <<>>
        /\ queue' = [queue EXCEPT ![Addressee(i)] = Append(@, i)] /\ t = Addressee(i) => queue'[t] # <<>>
    <3>1. Append(queue[t], i) # <<>>
      <4> DEFINE q == queue[t]
      <4>1. q \in Seq(DOMAIN inbox)
        BY <2>1
      <4> HIDE DEF q
      <4> QED
        BY <4>1, AppendNonempty DEF q
    <3>2. \A u : queue' = [queue EXCEPT ![u] = Append(@, i)] => queue'[t] = IF t = u THEN Append(queue[t], i) ELSE queue[t]
      BY <2>1
    <3> QED
      BY <1>2, <3>1, <3>2
  <2>3. ASSUME queue'[t] = <<>>, step[t].pc # "closed", NEW j \in DOMAIN inbox', LaterAnswers(j, t), inbox'[j].answered
        PROVE  \/ inbox'[j].lost
               \/ j \in DOMAIN inbox /\ Answers(j, t) /\ inbox[j].answered /\ inbox[j].lost = inbox'[j].lost
    <3>1. Answers(j, t)
      BY <1>1, <1>3, <2>3 DEF Answers, LaterAnswers
    <3>2. CASE j = i
      <4>1. Addressee(i) = t /\ Reachable(i)
        BY <2>3, <3>1, <3>2 DEF Answers, Addressee, Reachable
      <4> QED
        BY <1>2, <1>3, <2>2, <2>3, <3>2, <4>1
    <3> QED
      BY <1>3, <2>3, <3>1, <3>2
  <2> QED
    BY <2>2, <2>3 DEF AnswersKnown
<1> QED
  BY <1>4, <1>5, ToldStays, WaitStays, StepByStep

\* A step that moves on with its own rows leaves the others alone.
LEMMA OneMoves ==
  ASSUME IInv, Shared', UNCHANGED inbox, NEW s \in Steps,
         \A t \in Steps \ {s} : step'[t] = step[t] /\ ask'[t] = ask[t] /\ queue'[t] = queue[t],
         \A r \in DOMAIN rows : r \in DOMAIN rows' /\ rows'[r].step = rows[r].step /\ rows'[r].kind = rows[r].kind,
         \A r \in DOMAIN rows : rows[r].step # s => rows'[r] = rows[r],
         \A r \in DOMAIN rows' : r \in DOMAIN rows \/ rows'[r].step = s,
         WaitsForAnAnswer(s)', IF step'[s].pc = "new" THEN ~ask'[s].told ELSE PausesWhenTold(s)'
  PROVE  IInv'
<1>1. Grows
  BY DEF Grows
<1>2. ASSUME NEW t \in Steps \ {s} PROVE Same(t) /\ Unheard(t) /\ OwnRowStays(t)
  <2>1. Same(t) /\ Unheard(t)
    BY <1>2 DEF Same, Unheard
  <2>2. step[t].pc # "new" => step[t].own \in DOMAIN rows /\ rows[step[t].own].step = t
    BY <1>2, RowOf DEF IInv
  <2> QED
    BY <1>2, <2>1, <2>2 DEF OwnRowStays
<1> QED
  BY <1>1, <1>2, OthersStay

\* A step that moves on while nobody answers.
LEMMA WaitGoesOn ==
  ASSUME IInv, NEW s \in Steps, UNCHANGED inbox, queue'[s] = queue[s],
         \A r \in DOMAIN rows : r \in DOMAIN rows' /\ rows'[r].step = rows[r].step /\ rows'[r].kind = rows[r].kind,
         step[s].pc # "closed", step'[s].answer = step[s].answer, step[s].answer # 0 => step'[s].row = step[s].row,
         step'[s].pc = "waiting" => step[s].answer = 0 /\ step'[s].question \in ItemsOf(step'[s].own)
  PROVE  WaitsForAnAnswer(s)'
<1>1. Grows
  BY DEF Grows
<1>2. step'[s].answer # 0 => rows'[step'[s].row].kind = "continuation" /\ step'[s].pc # "waiting"
  <2> SUFFICES ASSUME step[s].answer # 0 PROVE rows'[step[s].row].kind = "continuation" /\ step'[s].pc # "waiting"
    OBVIOUS
  <2>1. step[s].row \in DOMAIN rows /\ rows[step[s].row].kind = "continuation"
    BY Fields, Told DEF IInv, Belongs, WaitsForAnAnswer
  <2> QED
    BY <2>1
<1>3. ASSUME step'[s].answer = 0, step'[s].pc # "closed", queue'[s] = <<>>, NEW i \in DOMAIN inbox',
             LaterAnswers(i, s), inbox'[i].answered
      PROVE  inbox'[i].lost
  <2>1. \/ inbox'[i].lost
        \/ Answers(i, s) /\ i \in DOMAIN inbox /\ inbox[i].answered /\ (inbox[i].lost => inbox'[i].lost)
    BY <1>1, <1>3, NobodyAnswers DEF AnswersKnown
  <2> QED
    BY <1>3, <2>1, Told DEF WaitsForAnAnswer
<1>4. (step[s].pc = "waiting" => step[s].question \in ItemsOf(step[s].own))'
  BY DEF ItemsOf
<1>5. (step[s].answer = 0 /\ step[s].pc # "closed" /\ queue[s] = <<>> =>
         \A i \in DOMAIN inbox : Answers(i, s) /\ inbox[i].answered => inbox[i].lost)'
  BY <1>3 DEF Answers, LaterAnswers
<1> QED
  BY <1>2, <1>4, <1>5 DEF WaitsForAnAnswer

\* What an attempt begins with: nobody was told anything.
LEMMA BeginAttemptKeepsIInv == ASSUME IInv, Shared', NEW s \in Steps, BeginAttempt(s) PROVE IInv'
<1> DEFINE r == step[s].row
           banner == IF step[s].attempt = 1 THEN <<>> ELSE <<[seq |-> 0, attempt |-> step[s].attempt]>>
<1>1. /\ step[s].pc = "begin" /\ UNCHANGED <<inbox, ask, queue>>
      /\ rows' = [rows EXCEPT ![r] = [@ EXCEPT !.log = Insert(rows[r].log, banner), !.status = "running"]]
      /\ step' = [step EXCEPT ![s] = [@ EXCEPT !.pc = "running", !.seq = Len(banner), !.buffer = <<>>]]
  BY DEF BeginAttempt
<1>2. /\ step'[s].pc = "running" /\ step'[s].own = step[s].own /\ step'[s].row = r /\ step'[s].answer = step[s].answer
      /\ \A t \in Steps \ {s} : step'[t] = step[t]
  <2>1. step[s] \in StepStates /\ DOMAIN step = Steps
    BY Fields DEF IInv
  <2> QED
    BY <1>1, <2>1 DEF StepStates
<1>3. /\ r \in DOMAIN rows /\ rows[r].step = s /\ step[s].own \in DOMAIN rows /\ (step[s].answer = 0 => r = step[s].own)
  BY <1>1, RowOf DEF IInv
<1>4. /\ DOMAIN rows' = DOMAIN rows /\ rows'[r].status = "running"
      /\ \A q \in DOMAIN rows : (q # r => rows'[q] = rows[q]) /\ rows'[q].step = rows[q].step /\ rows'[q].kind = rows[q].kind
  <2> DEFINE rec == [rows[r] EXCEPT !.log = Insert(rows[r].log, banner), !.status = "running"]
  <2>1. rows[r] \in Records /\ rows \in Seq(Records)
    BY <1>3, RowsAre DEF IInv
  <2>2. rec.status = "running" /\ rec.step = rows[r].step /\ rec.kind = rows[r].kind
    BY <2>1 DEF Records
  <2>3. rows' = [rows EXCEPT ![r] = rec]
    BY <1>1
  <2> HIDE DEF rec
  <2> QED
    BY <1>3, <2>1, <2>2, <2>3
<1> HIDE DEF r
<1>5. WaitsForAnAnswer(s)'
  BY <1>1, <1>2, <1>4, WaitGoesOn DEF r
<1>6. PausesWhenTold(s)'
  <2> SUFFICES ASSUME step[s].answer = 0 PROVE PausesWhenTold(s)'
    BY <1>2 DEF PausesWhenTold
  <2>1. /\ \A q \in DOMAIN rows : rows[q].step = s => q <= step[s].own
        /\ ~(ask[s].pc # "idle" /\ ask[s].alone) /\ ~ask[s].told
    BY <1>1, Told DEF PausesWhenTold
  <2> QED
    BY <1>1, <1>2, <1>3, <1>4, <2>1 DEF PausesWhenTold, Finished, Terminal
<1> QED
  BY <1>1, <1>2, <1>3, <1>4, <1>5, <1>6, OneMoves

\* The lines of an agent leave what it waits for alone.
LEMMA LogKeepsIInv ==
  ASSUME IInv, Shared', NEW s \in Steps, Line(s) \/ Flush(s) PROVE IInv'
<1>1. step[s].pc = "running" /\ UNCHANGED <<inbox, ask, queue>>
  BY DEF Line, Flush
<1>2. \A t \in Steps : Same(t) /\ Unheard(t)
  <2>1. step \in [Steps -> StepStates] /\ step[s] \in StepStates
    BY Fields DEF IInv
  <2>2. PICK rec : /\ step' = [step EXCEPT ![s] = rec]
                   /\ rec.pc = step[s].pc /\ rec.own = step[s].own /\ rec.row = step[s].row
                   /\ rec.answer = step[s].answer /\ rec.question = step[s].question
    <3>1. CASE Line(s)
      <4> DEFINE line == [seq |-> step[s].seq, attempt |-> step[s].attempt]
                 rec == [step[s] EXCEPT !.buffer = Append(step[s].buffer, line), !.seq = step[s].seq + 1]
      <4>1. step' = [step EXCEPT ![s] = rec]
        BY <3>1 DEF Line
      <4>2. /\ rec.pc = step[s].pc /\ rec.own = step[s].own /\ rec.row = step[s].row
            /\ rec.answer = step[s].answer /\ rec.question = step[s].question
        BY <2>1 DEF StepStates
      <4> QED
        BY <4>1, <4>2
    <3>2. CASE Flush(s)
      <4> DEFINE sent == [step[s] EXCEPT !.buffer = <<>>]
                 lost == [step[s] EXCEPT !.buffer = <<>>, !.lost = TRUE]
      <4>1. step' = [step EXCEPT ![s] = sent] \/ step' = [step EXCEPT ![s] = lost]
        BY <3>2 DEF Flush
      <4>2. /\ sent.pc = step[s].pc /\ sent.own = step[s].own /\ sent.row = step[s].row
            /\ sent.answer = step[s].answer /\ sent.question = step[s].question
            /\ lost.pc = step[s].pc /\ lost.own = step[s].own /\ lost.row = step[s].row
            /\ lost.answer = step[s].answer /\ lost.question = step[s].question
        BY <2>1 DEF StepStates
      <4> QED
        BY <4>1, <4>2
    <3> QED
      BY <3>1, <3>2
  <2> QED
    BY <1>1, <2>1, <2>2 DEF Same, Unheard
<1>3. /\ DOMAIN rows' = DOMAIN rows
      /\ \A q \in DOMAIN rows : rows'[q].step = rows[q].step /\ rows'[q].kind = rows[q].kind /\ rows'[q].status = rows[q].status
  <2>1. CASE UNCHANGED rows
    BY <2>1
  <2>2. CASE rows' = [rows EXCEPT ![step[s].row].log = Insert(@, step[s].buffer)]
    <3> DEFINE r == step[s].row
               rec == [rows[r] EXCEPT !.log = Insert(rows[r].log, step[s].buffer)]
    <3>1. r \in DOMAIN rows /\ rows \in Seq(Records) /\ rows[r] \in Records
      BY <1>1, RowOf, RowsAre DEF IInv
    <3>2. rec.status = rows[r].status /\ rec.step = rows[r].step /\ rec.kind = rows[r].kind
      BY <3>1 DEF Records
    <3>3. rows' = [rows EXCEPT ![r] = rec]
      BY <2>2
    <3> HIDE DEF rec, r
    <3> QED
      BY <3>1, <3>2, <3>3
  <2> QED
    BY <2>1, <2>2 DEF Line, Flush
<1>4. Grows
  BY <1>1, <1>3 DEF Grows
<1>5. ASSUME NEW t \in Steps PROVE OwnRowStays(t)
  <2>1. step[t].pc # "new" => step[t].own \in DOMAIN rows
    BY RowOf DEF IInv
  <2> QED
    BY <1>3, <2>1 DEF OwnRowStays
<1> QED
  BY <1>1, <1>2, <1>4, <1>5, NobodyAnswers, ToldStays, WaitStays, StepByStep

\* The agent ends: a step that was told to pause waits.
LEMMA AgentEndsKeepsIInv == ASSUME IInv, Shared', NEW s \in Steps, AgentEnds(s) PROVE IInv'
<1> DEFINE r == step[s].row
           awaiting == rows[r].status = "awaiting_input"
           newest == IF ItemsOf(r) = {} THEN 0 ELSE Max(ItemsOf(r))
<1>1. /\ step[s].pc = "running" /\ UNCHANGED <<inbox, ask, queue>>
      /\ \/ /\ awaiting /\ rows[r].kind = "own" /\ UNCHANGED rows
            /\ step' = [step EXCEPT ![s] = [@ EXCEPT !.pc = "waiting", !.question = newest]]
         \/ /\ ~awaiting \/ rows[r].kind = "continuation"
            /\ step' = [step EXCEPT ![s].pc = "closed"]
            /\ rows' = SetStatus(step[s].own, IF awaiting THEN "failed" ELSE "complete")
  BY DEF AgentEnds
<1>2. /\ r \in DOMAIN rows /\ step[s].own \in DOMAIN rows /\ rows[step[s].own].step = s /\ rows[step[s].own].kind = "own"
      /\ (step[s].answer = 0 <=> r = step[s].own) /\ step[s] \in StepStates /\ DOMAIN step = Steps
  BY <1>1, RowOf, Fields DEF IInv
<1>3. /\ DOMAIN rows' = DOMAIN rows
      /\ \A q \in DOMAIN rows : /\ rows'[q].step = rows[q].step /\ rows'[q].kind = rows[q].kind
                                /\ rows[q].step # s => rows'[q] = rows[q]
  <2>1. CASE UNCHANGED rows
    BY <2>1
  <2>2. ASSUME NEW status \in {"complete", "failed"}, rows' = SetStatus(step[s].own, status)
        PROVE  /\ DOMAIN rows' = DOMAIN rows
               /\ \A q \in DOMAIN rows : /\ rows'[q].step = rows[q].step /\ rows'[q].kind = rows[q].kind
                                         /\ rows[q].step # s => rows'[q] = rows[q]
    BY <1>2, <2>2, StatusChanges DEF IInv
  <2> QED
    BY <1>1, <2>1, <2>2
<1>4. PausesWhenTold(s)
  BY <1>1, Told
<1>5. CASE awaiting /\ rows[r].kind = "own" /\ step' = [step EXCEPT ![s] = [@ EXCEPT !.pc = "waiting", !.question = newest]]
  <2>1. /\ step'[s].pc = "waiting" /\ step'[s].question = newest /\ step'[s].own = step[s].own /\ step'[s].row = r
        /\ step'[s].answer = step[s].answer /\ \A t \in Steps \ {s} : step'[t] = step[t]
    BY <1>2, <1>5 DEF StepStates
  <2>2. step[s].answer = 0
    BY <1>5, Told DEF WaitsForAnAnswer
  <2>3. newest \in ItemsOf(step[s].own)
    <3>1. ItemsOf(r) # {}
      BY <1>2, <1>5 DEF IInv, Shared, AwaitingWasAsked
    <3>2. ItemsOf(r) \in SUBSET (1..Len(inbox)) /\ Len(inbox) \in Nat
      BY RowsAre DEF IInv, ItemsOf
    <3>3. Max(ItemsOf(r)) \in ItemsOf(r)
      BY <3>1, <3>2, NewestIsOne
    <3> QED
      BY <1>2, <2>2, <3>1, <3>3
  <2> HIDE DEF newest, r, awaiting
  <2>4. WaitsForAnAnswer(s)'
    BY <1>1, <1>3, <2>1, <2>2, <2>3, WaitGoesOn
  <2>5. PausesWhenTold(s)'
    BY <1>1, <1>3, <1>4, <2>1 DEF PausesWhenTold
  <2> QED
    BY <1>1, <1>3, <2>1, <2>4, <2>5, OneMoves
<1>6. CASE (~awaiting \/ rows[r].kind = "continuation") /\ step' = [step EXCEPT ![s].pc = "closed"]
  <2>1. /\ step'[s].pc = "closed" /\ step'[s].own = step[s].own /\ step'[s].row = r
        /\ step'[s].answer = step[s].answer /\ \A t \in Steps \ {s} : step'[t] = step[t]
    BY <1>2, <1>6 DEF StepStates
  <2>2. step[s].answer = 0 => ~ask[s].told
    BY <1>1, <1>2, <1>4, <1>6 DEF PausesWhenTold, OwnWaits
  <2> HIDE DEF newest, r, awaiting
  <2>3. WaitsForAnAnswer(s)'
    BY <1>1, <1>3, <2>1, WaitGoesOn DEF r
  <2>4. PausesWhenTold(s)'
    BY <1>1, <1>3, <1>4, <2>1, <2>2 DEF PausesWhenTold
  <2> QED
    BY <1>1, <1>3, <2>1, <2>3, <2>4, OneMoves
<1> QED
  BY <1>1, <1>5, <1>6

\* What an agent was told dies with its attempt.
LEMMA AttemptDiesKeepsIInv == ASSUME IInv, Shared', NEW s \in Steps, AttemptDies(s) PROVE IInv'
<1>1. /\ step[s].pc = "running" /\ UNCHANGED <<inbox, queue>>
      /\ ask' = [ask EXCEPT ![s] = [@ EXCEPT !.alone = FALSE, !.told = FALSE]]
      /\ \/ step' = [step EXCEPT ![s] = [@ EXCEPT !.pc = "begin", !.attempt = step[s].attempt + 1]] /\ UNCHANGED rows
         \/ step' = [step EXCEPT ![s].pc = "closed"] /\ rows' = SetStatus(step[s].own, "failed")
  BY DEF AttemptDies
<1>2. /\ step[s].row \in DOMAIN rows /\ step[s].own \in DOMAIN rows /\ rows[step[s].own].step = s
      /\ step[s] \in StepStates /\ DOMAIN step = Steps /\ ask[s] \in Requests /\ DOMAIN ask = Steps
  BY <1>1, RowOf, Fields DEF IInv
<1>3. /\ step'[s].pc \in {"begin", "closed"} /\ step'[s].own = step[s].own /\ step'[s].row = step[s].row
      /\ step'[s].answer = step[s].answer /\ \A t \in Steps \ {s} : step'[t] = step[t]
      /\ step'[s].pc = "begin" => UNCHANGED rows
  BY <1>1, <1>2 DEF StepStates
<1>4. ask'[s].alone = FALSE /\ ask'[s].told = FALSE /\ \A t \in Steps \ {s} : ask'[t] = ask[t]
  BY <1>1, <1>2 DEF Requests
<1>5. /\ DOMAIN rows' = DOMAIN rows
      /\ \A q \in DOMAIN rows : /\ rows'[q].step = rows[q].step /\ rows'[q].kind = rows[q].kind
                                /\ rows[q].step # s => rows'[q] = rows[q]
  <2>1. CASE UNCHANGED rows
    BY <2>1
  <2>2. CASE rows' = SetStatus(step[s].own, "failed")
    BY <1>2, <2>2, StatusChanges DEF IInv
  <2> QED
    BY <1>1, <2>1, <2>2
<1>6. WaitsForAnAnswer(s)'
  BY <1>1, <1>3, <1>5, WaitGoesOn
<1>7. PausesWhenTold(s)'
  BY <1>1, <1>3, <1>4, <1>5, Told DEF PausesWhenTold, Finished
<1> QED
  BY <1>1, <1>3, <1>4, <1>5, <1>6, <1>7, OneMoves

\* A step begins with a row, the newest of its own, and was told nothing.
LEMMA CreateStepRunKeepsIInv == ASSUME IInv, Shared', NEW s \in Steps, CreateStepRun(s) PROVE IInv'
<1>1. /\ step[s].pc = "new" /\ UNCHANGED <<inbox, ask, queue>>
      /\ step' = [step EXCEPT ![s] = [@ EXCEPT !.pc = "begin", !.row = Len(rows'), !.own = Len(rows')]]
      /\ \/ rows' = Append(rows, Row(s, "own"))
         \/ rows' = rows \o <<Row(s, "own"), Row(s, "own")>>
  BY DEF CreateStepRun
<1>2. Added(s, "own")
  BY <1>1, RowIsAdded, TwoRowsAreAdded DEF IInv
<1>3. step[s].answer = 0 /\ ask[s].pc = "idle" /\ ~ask[s].told /\ step[s] \in StepStates /\ DOMAIN step = Steps
  BY <1>1, Fields, Told DEF IInv, Belongs
<1> DEFINE n == Len(rows')
<1>4. /\ n \in Nat /\ DOMAIN rows' = 1..n /\ n \in DOMAIN rows' /\ rows'[n].status = "pending"
      /\ \A r \in DOMAIN rows : r \in DOMAIN rows' /\ rows'[r] = rows[r]
      /\ \A r \in DOMAIN rows' \ DOMAIN rows : rows'[r].step = s
  BY <1>2 DEF Added, Row
<1> HIDE DEF n
<1>5. /\ step'[s].pc = "begin" /\ step'[s].own = n /\ step'[s].row = n /\ step'[s].answer = 0
      /\ \A t \in Steps \ {s} : step'[t] = step[t]
  BY <1>1, <1>3 DEF StepStates, n
<1>6. WaitsForAnAnswer(s)'
  BY <1>1, <1>3, <1>4, <1>5, WaitGoesOn
<1>7. PausesWhenTold(s)'
  BY <1>1, <1>3, <1>4, <1>5 DEF PausesWhenTold, Finished, Terminal
<1> QED
  BY <1>1, <1>4, <1>5, <1>6, <1>7, OneMoves

\* A continuation waits for nothing.
LEMMA ResumeKeepsIInv == ASSUME IInv, Shared', NEW s \in Steps, Resume(s) PROVE IInv'
<1>1. /\ step[s].pc = "waiting" /\ queue[s] # <<>> /\ UNCHANGED <<inbox, ask>>
      /\ rows' = Append(rows, Row(s, "continuation")) /\ queue' = [queue EXCEPT ![s] = Tail(@)]
      /\ step' = [step EXCEPT ![s] = [@ EXCEPT !.pc = "begin", !.attempt = 1, !.row = Len(rows'), !.answer = Head(queue[s])]]
  BY DEF Resume
<1>2. Added(s, "continuation")
  BY <1>1, RowIsAdded DEF IInv
<1>3. /\ queue[s] \in Seq(DOMAIN inbox) /\ queue \in [Steps -> Seq(DOMAIN inbox)]
      /\ step[s] \in StepStates /\ DOMAIN step = Steps
  BY Fields DEF IInv, Shared, TypeOK
<1> DEFINE n == Len(rows')
           first == Head(queue[s])
<1>4. first \in DOMAIN inbox
  BY <1>1, <1>3, FirstAnswer
<1>5. first # 0
  BY <1>4, RowsAre DEF IInv
<1>6. /\ n \in DOMAIN rows' /\ rows'[n].kind = "continuation"
      /\ \A r \in DOMAIN rows : r \in DOMAIN rows' /\ rows'[r] = rows[r]
      /\ \A r \in DOMAIN rows' \ DOMAIN rows : rows'[r].step = s
  BY <1>2 DEF Added, Row
<1> HIDE DEF n, first
<1>7. /\ step'[s].pc = "begin" /\ step'[s].row = n /\ step'[s].answer = first
      /\ \A t \in Steps \ {s} : step'[t] = step[t] /\ queue'[t] = queue[t]
  BY <1>1, <1>3 DEF StepStates, n, first
<1>8. WaitsForAnAnswer(s)' /\ PausesWhenTold(s)'
  BY <1>5, <1>6, <1>7 DEF WaitsForAnAnswer, PausesWhenTold
<1> QED
  BY <1>1, <1>6, <1>7, <1>8, OneMoves

\* Nothing happens.
LEMMA RestKeepsIInv == ASSUME IInv, Shared', UNCHANGED vars PROVE IInv'
<1>1. UNCHANGED <<rows, inbox, step, ask, queue, faults>>
  BY DEF vars
<1>2. Grows /\ \A t \in Steps : Same(t) /\ Unheard(t) /\ OwnRowStays(t)
  BY <1>1 DEF Grows, Same, Unheard, OwnRowStays
<1> QED
  BY <1>1, <1>2, NobodyAnswers, ToldStays, WaitStays, StepByStep

-----------------------------------------------------------------------------
(* The theorems.                                                           *)

\* A run begins without steps that were told anything.
LEMMA InitHolds == Init => IInv
<1> SUFFICES ASSUME Init PROVE IInv
  OBVIOUS
<1>1. \A s \in Steps : step[s].pc = "new" /\ ~ask[s].told /\ step[s].answer = 0
  BY DEF Init
<1>2. DOMAIN inbox = {}
  BY DEF Init
<1>3. ToldSteps /\ WaitingWasAsked
  BY <1>1, <1>2 DEF ToldSteps, WaitingWasAsked, WaitsForAnAnswer
<1> QED
  BY <1>3, InitShares DEF IInv

\* Every step keeps the invariant.
LEMMA NextKeepsIInv == IInv /\ [Next]_vars => IInv'
<1> SUFFICES ASSUME IInv, [Next]_vars PROVE IInv'
  OBVIOUS
<1>1. Shared'
  BY SharedStays DEF IInv
<1>2. ASSUME NEW s \in Steps,
             \/ CreateStepRun(s) \/ BeginAttempt(s) \/ Line(s) \/ Flush(s) \/ AgentEnds(s) \/ AttemptDies(s)
             \/ FindStep(s) \/ FileQuestion(s) \/ MarkAwaiting(s) \/ Resume(s)
      PROVE  IInv'
  BY <1>1, <1>2, CreateStepRunKeepsIInv, BeginAttemptKeepsIInv, LogKeepsIInv, AgentEndsKeepsIInv,
     AttemptDiesKeepsIInv, FindStepKeepsIInv, FileQuestionKeepsIInv, MarkAwaitingKeepsIInv, ResumeKeepsIInv
<1>3. CASE Respond
  BY <1>1, <1>3, RespondKeepsIInv
<1>4. CASE Rest
  BY <1>1, <1>4, RestKeepsIInv DEF Rest
<1>5. CASE UNCHANGED vars
  BY <1>1, <1>5, RestKeepsIInv
<1> QED
  BY <1>2, <1>3, <1>4, <1>5 DEF Next

\* The rows, the questions, the pauses and the logs of a run go together at
\* any time.
THEOREM InvariantHolds == Spec => []IInv
  BY InitHolds, NextKeepsIInv, PTL DEF Spec

\* A question pauses its step: a step whose agent was alone at work and was
\* told that it will pause does not end unasked, and what a step waits for can
\* come (mcp.go, inbox.go, step.go).
THEOREM QuestionsPause == Spec => []QuestionPausesItsStep
<1>1. ASSUME IInv PROVE QuestionPausesItsStep
  <2> SUFFICES ASSUME NEW s \in Steps
               PROVE  /\ ask[s].told /\ step[s].pc = "closed" => step[s].answer # 0
                      /\ step[s].pc = "waiting" =>
                           /\ step[s].question # 0
                           /\ queue[s] = <<>> => ~inbox[step[s].question].answered \/ inbox[step[s].question].lost
    BY DEF QuestionPausesItsStep
  <2>1. WaitsForAnAnswer(s) /\ (step[s].pc # "new" => PausesWhenTold(s))
    BY <1>1, Told
  <2>2. ASSUME step[s].pc = "waiting"
        PROVE  /\ step[s].question # 0 /\ step[s].answer = 0 /\ step[s].question \in DOMAIN inbox
               /\ Answers(step[s].question, s)
    <3>1. step[s].question \in ItemsOf(step[s].own) /\ step[s].answer = 0
      BY <2>1, <2>2 DEF WaitsForAnAnswer
    <3>2. /\ rows[step[s].own].step = s /\ rows[step[s].own].kind = "own" /\ DOMAIN inbox = 1..Len(inbox)
          /\ Len(inbox) \in Nat
      BY <1>1, <2>2, RowOf, RowsAre DEF IInv
    <3> QED
      BY <3>1, <3>2 DEF ItemsOf, Answers
  <2> QED
    BY <2>1, <2>2 DEF WaitsForAnAnswer, PausesWhenTold
<1> QED
  BY <1>1, InvariantHolds, PTL

\* A continuation is told an answer to a question about its step, and to the
\* very question it is told when nothing failed and no other agent asked in
\* the step's name (inbox.go, step.go).
THEOREM AnswersFit == Spec => []AnswerFitsTheQuestion
<1>1. ASSUME IInv PROVE AnswerFitsTheQuestion
  <2> SUFFICES ASSUME NEW s \in Steps, step[s].answer # 0
               PROVE  /\ rows[inbox[step[s].answer].row].step = s
                      /\ faults = 0 /\ (\A i \in ItemsOf(step[s].own) : inbox[i].by = s) => step[s].answer = step[s].question
    BY DEF AnswerFitsTheQuestion
  <2>1. step[s].answer \in DOMAIN inbox /\ Answers(step[s].answer, s)
    BY <1>1 DEF IInv, Shared, AnswersBelong
  <2>2. ASSUME faults = 0, \A i \in ItemsOf(step[s].own) : inbox[i].by = s PROVE step[s].answer = step[s].question
    <3>1. Once(s)
      BY <1>1, <2>2, Fields DEF IInv
    <3>2. inbox[step[s].answer].row \in DOMAIN rows
      BY <1>1, <2>1, RowsAre DEF IInv
    <3>3. inbox[step[s].answer].row = step[s].own
      BY <2>1, <3>1, <3>2 DEF Answers, Once
    <3>4. step[s].answer \in OwnItems(s)
      BY <2>1, <2>2, <3>3 DEF OwnItems, ItemsOf
    <3>5. step[s].question \in OwnItems(s)
      BY <2>2, <3>1 DEF Once, OwnItems
    <3> QED
      BY <3>1, <3>4, <3>5 DEF Once
  <2> QED
    BY <2>1, <2>2 DEF Answers
<1> QED
  BY <1>1, InvariantHolds, PTL

\* As long as no insert of lines has failed, the order in which the lines of a
\* log were inserted is that of their numbers, and a retry's lines only
\* continue those of the attempt before (execute.go, status.go).
THEOREM LogsAreSpliced == Spec => []LogIsSpliced
<1>1. ASSUME IInv PROVE LogIsSpliced
  <2> SUFFICES ASSUME NEW r \in DOMAIN rows, ~step[rows[r].step].lost, NEW j \in DOMAIN rows[r].log, NEW k \in DOMAIN rows[r].log, j < k
               PROVE  rows[r].log[j].seq < rows[r].log[k].seq /\ rows[r].log[j].attempt <= rows[r].log[k].attempt
    BY DEF LogIsSpliced
  <2>1. Spliced(rows[r].log)
    BY <1>1 DEF IInv, Shared, LogsContinue
  <2>2. rows[r].log \in Seq(LogLines)
    BY <1>1, RowsAre DEF IInv
  <2>3. j \in Nat /\ k \in Nat
    BY <2>2
  <2> QED
    BY <2>1, <2>3 DEF Spliced
<1> QED
  BY <1>1, InvariantHolds, PTL
=============================================================================
