------------------------ MODULE RunDefinition_proofs ------------------------
(***************************************************************************)
(* What RunDefinition guarantees for every set of definitions, requests,   *)
(* stored credentials and comments, and every bound on faults: IInv is     *)
(* inductive, and from it follow that the validator finds exactly the      *)
(* definitions with a cycle, that a run it accepts never blocks, that the  *)
(* references it looks at are there when they are rendered, that actions   *)
(* and contracts fit each other, that copies at a service are covered by   *)
(* faults, and that a review reports what is there.                        *)
(*                                                                         *)
(* Processed and UpstreamOf are recursive functions: the lemmas at the     *)
(* beginning say that such functions exist, by induction over numbers,     *)
(* and what they come to.  Then comes what an accepted definition is, one  *)
(* lemma for each action of the module, and the theorems.                  *)
(***************************************************************************)
EXTENDS RunDefinition, FiniteSetTheorems, WellFoundedInduction, TLAPS

-----------------------------------------------------------------------------
(* Induction over numbers, and functions defined by recursion.             *)

\* A nonempty set of natural numbers has a least one.
LEMMA LeastNumber ==
  ASSUME NEW T, T \subseteq Nat, T # {}
  PROVE  \E n \in T : \A m \in T : n <= m
<1>1. PICK k \in T : TRUE
  OBVIOUS
<1> DEFINE S == 0..k
           D == {0..m : m \in T \cap S}
<1>2. IsFiniteSet(S)
  BY <1>1, FS_Interval
<1>3. D \subseteq FiniteSubsetsOf(S) /\ D # {}
  <2>1. ASSUME NEW m \in T \cap S PROVE 0..m \in FiniteSubsetsOf(S)
    BY <1>1, <1>2, FS_Interval DEF FiniteSubsetsOf
  <2> QED
    BY <1>1, <2>1
<1>4. PICK x \in D : \A y \in D : ~ (<<y, x>> \in StrictSubsetOrdering(S))
  <2> HIDE DEF S, D
  <2> QED
    BY <1>3, WFMin, FS_StrictSubsetOrderingWellFounded
<1>5. PICK n \in T \cap S : x = 0..n
  BY <1>4
<1>6. ASSUME NEW m \in T, m < n PROVE FALSE
  <2>1. m \in S /\ 0..m \in D
    BY <1>1, <1>5, <1>6
  <2>2. 0..m \subseteq 0..n /\ 0..m # 0..n
    BY <1>1, <1>5, <1>6
  <2>3. 0..m \subseteq S /\ 0..n \subseteq S
    BY <2>1, <1>1, <1>5
  <2>4. <<0..m, 0..n>> \in StrictSubsetOrdering(S)
     BY <2>2, <2>3 DEF StrictSubsetOrdering
  <2> QED
    BY <1>4, <1>5, <2>1, <2>4
<1> QED
  BY <1>1, <1>5, <1>6

\* Induction up to a number, over the set of the numbers for which it holds.
LEMMA Induction ==
  ASSUME NEW n \in Nat, NEW S, 0 \in S, \A i \in 1..n : i - 1 \in S => i \in S
  PROVE  \A i \in 0..n : i \in S
<1> DEFINE T == (0..n) \ S
<1> SUFFICES ASSUME T # {} PROVE FALSE
  OBVIOUS
<1>1. PICK m \in T : \A k \in T : m <= k
  <2>1. T \subseteq Nat
    OBVIOUS
  <2> HIDE DEF T
  <2> QED
    BY <2>1, LeastNumber
<1>2. m \in 1..n /\ m - 1 \in S
  BY <1>1
<1> QED
  BY <1>1, <1>2

\* Induction over every number.
LEMMA InductionOnNat ==
  ASSUME NEW S, 0 \in S, \A n \in Nat : n \in S => n + 1 \in S
  PROVE  Nat \subseteq S
<1> SUFFICES ASSUME NEW n \in Nat PROVE n \in S
  OBVIOUS
<1>1. \A i \in 1..n : i - 1 \in S => i \in S
  <2> SUFFICES ASSUME NEW i \in 1..n, i - 1 \in S PROVE i \in S
    OBVIOUS
  <2>1. i - 1 \in Nat /\ (i - 1) + 1 = i
    OBVIOUS
  <2> QED
    BY <2>1
<1>2. \A i \in 0..n : i \in S
  BY <1>1, Induction
<1> QED
  BY <1>2

\* The first n + 1 values of a function defined by recursion.
Starts(h, n, X, base, F) ==
  /\ h \in [0..n -> X]
  /\ h[0] = base
  /\ \A i \in 1..n : h[i] = F[h[i - 1]]

\* For every n there are such values.
LEMMA StartsExist ==
  ASSUME NEW X, NEW base \in X, NEW F \in [X -> X], NEW n \in Nat
  PROVE  \E h : Starts(h, n, X, base, F)
<1> DEFINE S == {m \in Nat : \E h : Starts(h, m, X, base, F)}
<1>1. 0 \in S
  <2>1. Starts([i \in 0..0 |-> base], 0, X, base, F)
    BY DEF Starts
  <2> QED
    BY <2>1
<1>2. ASSUME NEW m \in Nat, m \in S PROVE m + 1 \in S
  <2>1. PICK h : Starts(h, m, X, base, F)
    BY <1>2
  <2> DEFINE k == [i \in 0..(m + 1) |-> IF i = m + 1 THEN F[h[m]] ELSE h[i]]
  <2>2. h \in [0..m -> X] /\ h[0] = base /\ (\A i \in 1..m : h[i] = F[h[i - 1]]) /\ h[m] \in X
    BY <2>1 DEF Starts
  <2>3. k \in [0..(m + 1) -> X]
    BY <2>2
  <2>4. k[0] = base /\ k[m + 1] = F[k[m]]
    BY <2>2
  <2>5. \A i \in 1..m : k[i] = F[k[i - 1]]
    BY <2>2
  <2>6. Starts(k, m + 1, X, base, F)
    <3> HIDE DEF k
    <3>1. \A i \in 1..(m + 1) : i = m + 1 \/ i \in 1..m
      OBVIOUS
    <3>2. (m + 1) - 1 = m
      OBVIOUS
    <3> QED
      BY <2>3, <2>4, <2>5, <3>1, <3>2 DEF Starts
  <2> QED
    BY <2>6
<1>3. Nat \subseteq S
  <2> HIDE DEF S
  <2> QED
    BY <1>1, <1>2, InductionOnNat
<1> QED
  BY <1>3

\* Two of them agree as far as the shorter one goes.
LEMMA StartsAgree ==
  ASSUME NEW X, NEW base \in X, NEW F \in [X -> X], NEW m \in Nat, NEW n \in Nat, m <= n,
         NEW h, NEW k, Starts(h, m, X, base, F), Starts(k, n, X, base, F)
  PROVE  h[m] = k[m]
<1> DEFINE S == {i \in 0..m : h[i] = k[i]}
<1>1. 0 \in S
  BY DEF Starts
<1>2. ASSUME NEW i \in 1..m, i - 1 \in S PROVE i \in S
  BY <1>2 DEF Starts
<1>3. \A i \in 0..m : i \in S
  <2> HIDE DEF S
  <2> QED
    BY <1>1, <1>2, Induction
<1> QED
  BY <1>3

\* A function of the numbers defined by recursion exists.
LEMMA Recursion ==
  ASSUME NEW X, NEW base \in X, NEW F \in [X -> X]
  PROVE  \E g \in [Nat -> X] : g[0] = base /\ \A n \in Nat : g[n + 1] = F[g[n]]
<1> DEFINE start(n) == CHOOSE h : Starts(h, n, X, base, F)
           g == [n \in Nat |-> start(n)[n]]
<1>1. ASSUME NEW n \in Nat PROVE Starts(start(n), n, X, base, F)
  BY StartsExist
<1>2. ASSUME NEW n \in Nat PROVE start(n)[n] \in X
  <2> HIDE DEF start
  <2> QED
    BY <1>1 DEF Starts
<1>3. ASSUME NEW n \in Nat PROVE start(n + 1)[n + 1] = F[start(n)[n]]
  <2> HIDE DEF start
  <2>1. Starts(start(n), n, X, base, F) /\ Starts(start(n + 1), n + 1, X, base, F)
    BY <1>1
  <2>2. start(n)[n] = start(n + 1)[n]
    BY <2>1, StartsAgree
  <2>3. start(n + 1)[n + 1] = F[start(n + 1)[(n + 1) - 1]]
    BY <2>1 DEF Starts
  <2> QED
    BY <2>2, <2>3
<1>4. start(0)[0] = base
  <2> HIDE DEF start
  <2> QED
    BY <1>1 DEF Starts
<1> HIDE DEF start
<1>5. g \in [Nat -> X]
  BY <1>2
<1>6. g[0] = base /\ \A n \in Nat : g[n + 1] = F[g[n]]
  BY <1>3, <1>4
<1> QED
  BY <1>5, <1>6

\* The sets that such a function goes through when it extends a part of V.
SetsOf(g, V, F, A) ==
  /\ g \in [Nat -> SUBSET V]
  /\ g[0] = A
  /\ \A n \in Nat : g[n + 1] = F[g[n]]

\* F and A as such a function has them.
Extends(F, V) == F \in [SUBSET V -> SUBSET V]
PartOf(A, V) == A \in SUBSET V

\* There is such a function.
LEMMA SetRecursion ==
  ASSUME NEW V, NEW F, Extends(F, V), NEW A, PartOf(A, V)
  PROVE  \E g : SetsOf(g, V, F, A)
<1> DEFINE X == SUBSET V
<1>1. A \in X /\ F \in [X -> X]
  BY DEF Extends, PartOf
<1> HIDE DEF X
<1>2. PICK g \in [Nat -> X] : g[0] = A /\ \A n \in Nat : g[n + 1] = F[g[n]]
  BY <1>1, Recursion
<1> QED
  BY <1>2 DEF X, SetsOf

-----------------------------------------------------------------------------
(* Kahn's algorithm.                                                       *)

\* A definition has finitely many ids.
LEMMA IdsFinite ==
  ASSUME NEW d \in Definitions
  PROVE  IsFiniteSet(Positions(d)) /\ IsFiniteSet(Ids(d)) /\ IsFiniteSet(ValidIds(d))
<1>1. PICK n \in Nat : Positions(d) = 1..n
  BY DefinitionsAssumption DEF Positions
<1>2. IsFiniteSet(Positions(d))
  BY <1>1, FS_Interval
<1>3. Ids(d) = {d.steps[i].id : i \in Positions(d)}
  BY DEF Ids
<1>4. IsFiniteSet(Ids(d))
  <2> DEFINE f == [i \in Positions(d) |-> d.steps[i].id]
  <2>1. f \in Surjection(Positions(d), Ids(d))
    BY <1>3 DEF Surjection
  <2> QED
    BY <1>2, <2>1, FS_Surjection
<1>5. ValidIds(d) \subseteq Ids(d)
  BY DEF ValidIds
<1> QED
  BY <1>2, <1>4, <1>5, FS_Subset

\* The rounds in which nodes are removed, as Processed computes them.
IsRounds(r, d) ==
  /\ r \in [Nat -> SUBSET ValidIds(d)]
  /\ r[0] = {}
  /\ \A n \in Nat : r[n + 1] = {id \in ValidIds(d) : Into(d, id) \subseteq r[n]}

\* Processed is the last of the rounds it goes through.
LEMMA RoundsExist ==
  ASSUME NEW d \in Definitions
  PROVE  \E r : IsRounds(r, d) /\ Processed(d) = r[Cardinality(ValidIds(d))]
<1> DEFINE V == ValidIds(d)
           round == [R \in SUBSET V |-> {id \in V : Into(d, id) \subseteq R}]
           body(r) == [n \in Nat |-> IF n = 0 THEN {} ELSE {id \in ValidIds(d) : Into(d, id) \subseteq r[n - 1]}]
           removed == CHOOSE r : r = body(r)
<1>1. Processed(d) = removed[Cardinality(V)]
  BY DEF Processed
<1>2. PICK g \in [Nat -> SUBSET V] : g[0] = {} /\ \A n \in Nat : g[n + 1] = round[g[n]]
  <2>1. Extends(round, V) /\ PartOf({}, V)
    BY DEF Extends, PartOf
  <2> HIDE DEF round, V, body, removed
  <2>2. PICK g : SetsOf(g, V, round, {})
    BY <2>1, SetRecursion
  <2> QED
    BY <2>2 DEF SetsOf
<1>3. \A n \in Nat : n # 0 => g[n] = {id \in V : Into(d, id) \subseteq g[n - 1]}
  <2> SUFFICES ASSUME NEW n \in Nat, n # 0 PROVE g[n] = {id \in V : Into(d, id) \subseteq g[n - 1]}
    OBVIOUS
  <2>1. n - 1 \in Nat /\ (n - 1) + 1 = n
    OBVIOUS
  <2>2. g[n] = round[g[n - 1]] /\ g[n - 1] \in SUBSET V
    BY <1>2, <2>1
  <2> QED
    BY <2>2
<1>4. g = body(g)
  BY <1>2, <1>3
<1>5. removed = body(removed)
  <2> HIDE DEF body
  <2> QED
    BY <1>4
<1>6. \A n \in Nat : removed[n] = IF n = 0 THEN {} ELSE {id \in V : Into(d, id) \subseteq removed[n - 1]}
  <2> HIDE DEF removed
  <2>1. \A n \in Nat : body(removed)[n] = IF n = 0 THEN {} ELSE {id \in V : Into(d, id) \subseteq removed[n - 1]}
    OBVIOUS
  <2> HIDE DEF body
  <2> QED
    BY <1>5, <2>1
<1> HIDE DEF removed
<1>7. removed \in [Nat -> SUBSET V]
  <2>1. removed = [n \in Nat |-> removed[n]]
    BY <1>5
  <2>2. \A n \in Nat : removed[n] \in SUBSET V
    BY <1>6
  <2> QED
    BY <2>1, <2>2
<1>8. \A n \in Nat : removed[n + 1] = {id \in V : Into(d, id) \subseteq removed[n]}
  <2> SUFFICES ASSUME NEW n \in Nat PROVE removed[n + 1] = {id \in V : Into(d, id) \subseteq removed[n]}
    OBVIOUS
  <2>1. n + 1 \in Nat /\ n + 1 # 0 /\ (n + 1) - 1 = n
    OBVIOUS
  <2> QED
    BY <2>1, <1>6
<1>9. IsRounds(removed, d)
  BY <1>6, <1>7, <1>8 DEF IsRounds
<1> QED
  BY <1>1, <1>9

\* A round removes at least what the rounds before it removed.
LEMMA RoundsGrow ==
  ASSUME NEW d, NEW r, IsRounds(r, d)
  PROVE  \A n \in Nat : r[n] \subseteq r[n + 1]
<1> DEFINE S == {n \in Nat : r[n] \subseteq r[n + 1]}
<1>1. 0 \in S
  BY DEF IsRounds
<1>2. ASSUME NEW n \in Nat, n \in S PROVE n + 1 \in S
  <2>1. r[n] \subseteq r[n + 1]
    BY <1>2
  <2>2. r[n + 1] = {id \in ValidIds(d) : Into(d, id) \subseteq r[n]}
        /\ r[(n + 1) + 1] = {id \in ValidIds(d) : Into(d, id) \subseteq r[n + 1]}
    BY DEF IsRounds
  <2> QED
    BY <2>1, <2>2
<1>3. Nat \subseteq S
  <2> HIDE DEF S
  <2> QED
    BY <1>1, <1>2, InductionOnNat
<1> QED
  BY <1>3

\* Either a round removes as many nodes as its number says, or one before it
\* removed nothing new.
LEMMA RoundsFill ==
  ASSUME NEW d \in Definitions, NEW r, IsRounds(r, d), NEW n \in Nat
  PROVE  Cardinality(r[n]) >= n \/ \E m \in 0..n : r[m + 1] = r[m]
<1> DEFINE S == {k \in Nat : Cardinality(r[k]) >= k \/ \E m \in 0..k : r[m + 1] = r[m]}
<1>0. \A k \in Nat : IsFiniteSet(r[k]) /\ Cardinality(r[k]) \in Nat
  BY IdsFinite, FS_Subset, FS_CardinalityType DEF IsRounds
<1>1. 0 \in S
  BY <1>0
<1>2. ASSUME NEW k \in Nat, k \in S PROVE k + 1 \in S
  <2>1. CASE \E m \in 0..k : r[m + 1] = r[m]
    <3>1. \A m \in 0..k : m \in 0..(k + 1)
      OBVIOUS
    <3> QED
      BY <2>1, <3>1
  <2>2. CASE Cardinality(r[k]) >= k /\ r[k + 1] # r[k]
    <3>1. r[k] \subseteq r[k + 1]
      BY RoundsGrow
    <3>2. Cardinality(r[k]) < Cardinality(r[k + 1])
      BY <1>0, <2>2, <3>1, FS_Subset
    <3>3. Cardinality(r[k + 1]) >= k + 1
      BY <1>0, <2>2, <3>2
    <3> QED
      BY <3>3
  <2>3. k \in 0..k
    OBVIOUS
  <2> QED
    BY <1>2, <2>1, <2>2, <2>3
<1>3. Nat \subseteq S
  <2> HIDE DEF S
  <2> QED
    BY <1>1, <1>2, InductionOnNat
<1> QED
  BY <1>3

\* Once nothing new is removed, nothing is removed any more.
LEMMA RoundsStay ==
  ASSUME NEW d, NEW r, IsRounds(r, d), NEW m \in Nat, r[m + 1] = r[m]
  PROVE  \A k \in Nat : r[m + k] = r[m]
<1> DEFINE S == {k \in Nat : r[m + k] = r[m]}
<1>1. 0 \in S
  OBVIOUS
<1>2. ASSUME NEW k \in Nat, k \in S PROVE k + 1 \in S
  <2>1. r[(m + k) + 1] = {id \in ValidIds(d) : Into(d, id) \subseteq r[m + k]}
    BY DEF IsRounds
  <2>2. r[m + 1] = {id \in ValidIds(d) : Into(d, id) \subseteq r[m]}
    BY DEF IsRounds
  <2>3. r[(m + k) + 1] = r[m]
    BY <1>2, <2>1, <2>2
  <2>4. (m + k) + 1 = m + (k + 1)
    OBVIOUS
  <2> QED
    BY <2>3, <2>4
<1>3. Nat \subseteq S
  <2> HIDE DEF S
  <2> QED
    BY <1>1, <1>2, InductionOnNat
<1> QED
  BY <1>3

\* So the last round Processed computes removed all that can be removed: what
\* is left after it depends on something that is left.
LEMMA ProcessedIsClosed ==
  ASSUME NEW d \in Definitions
  PROVE  /\ Processed(d) \subseteq ValidIds(d)
         /\ \A id \in ValidIds(d) \ Processed(d) : \E p \in Into(d, id) : p \in ValidIds(d) \ Processed(d)
<1> DEFINE V == ValidIds(d)
           N == Cardinality(V)
<1>1. PICK r : IsRounds(r, d) /\ Processed(d) = r[N]
  BY RoundsExist
<1>2. IsFiniteSet(V) /\ N \in Nat
  BY IdsFinite, FS_CardinalityType
<1>3. r[N] \subseteq V /\ r[N + 1] = {id \in V : Into(d, id) \subseteq r[N]}
  BY <1>1, <1>2 DEF IsRounds
<1>4. r[N + 1] = r[N]
  <2>1. CASE Cardinality(r[N]) >= N
    <3>1. Cardinality(r[N]) <= N /\ (Cardinality(r[N]) = N => r[N] = V)
      BY <1>2, <1>3, FS_Subset
    <3>2. Cardinality(r[N]) \in Nat
      BY <1>2, <1>3, FS_Subset, FS_CardinalityType
    <3>3. r[N] = V
      BY <1>2, <2>1, <3>1, <3>2
    <3>4. r[N] \subseteq r[N + 1]
      BY <1>1, <1>2, RoundsGrow
    <3> QED
      BY <1>3, <3>3, <3>4
  <2>2. CASE \E m \in 0..N : r[m + 1] = r[m]
    <3>1. PICK m \in 0..N : r[m + 1] = r[m]
      BY <2>2
    <3>2. N - m \in Nat /\ m + (N - m) = N /\ m + ((N - m) + 1) = N + 1 /\ (N - m) + 1 \in Nat /\ m \in Nat
      BY <1>2
    <3>3. \A k \in Nat : r[m + k] = r[m]
      BY <1>1, <3>1, <3>2, RoundsStay
    <3> HIDE DEF N
    <3>4. r[m + (N - m)] = r[m] /\ r[m + ((N - m) + 1)] = r[m]
      BY <3>2, <3>3
    <3> QED
      BY <3>2, <3>4
  <2> QED
    BY <1>1, <1>2, <2>1, <2>2, RoundsFill
<1>5. \A id \in V : Into(d, id) \subseteq V
  BY DEF Into
<1> QED
  BY <1>1, <1>3, <1>4, <1>5

\* No node of a set whose nodes each depend on one of it is ever removed.
LEMMA CyclesStay ==
  ASSUME NEW d \in Definitions, NEW C, C \subseteq ValidIds(d),
         \A id \in C : \E p \in Into(d, id) : p \in C
  PROVE  Processed(d) \cap C = {}
<1>1. PICK r : IsRounds(r, d) /\ Processed(d) = r[Cardinality(ValidIds(d))]
  BY RoundsExist
<1> DEFINE S == {n \in Nat : r[n] \cap C = {}}
<1>2. 0 \in S
  BY <1>1 DEF IsRounds
<1>3. ASSUME NEW n \in Nat, n \in S PROVE n + 1 \in S
  <2>1. r[n + 1] = {id \in ValidIds(d) : Into(d, id) \subseteq r[n]}
    BY <1>1 DEF IsRounds
  <2> QED
    BY <1>3, <2>1
<1>4. Nat \subseteq S
  <2> HIDE DEF S
  <2> QED
    BY <1>2, <1>3, InductionOnNat
<1>5. Cardinality(ValidIds(d)) \in Nat
  BY IdsFinite, FS_CardinalityType
<1> QED
  BY <1>1, <1>4, <1>5

\* The next position of a walk that returns to its start.
LEMMA Around ==
  ASSUME NEW n \in Nat, n >= 1
  PROVE  /\ (n % n) + 1 = 1
         /\ \A i \in 1..n : i # n => (i % n) + 1 = i + 1
  OBVIOUS

\* The edges that the validator has gone along.
Edges(d) == {e \in ValidIds(d) \X ValidIds(d) : e[1] \in Into(d, e[2])}

\* A walk along the edges, back to where it started.
Returns(walk, d) == \A i \in DOMAIN walk : <<walk[i], walk[(i % Len(walk)) + 1]>> \in Edges(d)

\* The nodes of such a walk are never removed.
LEMMA WalksStay ==
  ASSUME NEW d \in Definitions, NEW n \in Nat, n >= 1, NEW walk \in [1..n -> ValidIds(d)],
         Returns(walk, d)
  PROVE  CycleErrors(d) # {}
<1> DEFINE C == {walk[i] : i \in 1..n}
<1>1. DOMAIN walk = 1..n /\ Len(walk) = n
  OBVIOUS
<1>2. \A i \in 1..n : <<walk[i], walk[(i % n) + 1]>> \in Edges(d)
  BY <1>1 DEF Returns
<1>3. ASSUME NEW j \in 1..n PROVE \E i \in 1..n : (i % n) + 1 = j
  <2>1. CASE j = 1
    <3>1. n \in 1..n
      OBVIOUS
    <3> QED
      BY <2>1, <3>1, Around
  <2>2. CASE j # 1
    <3>1. j - 1 \in 1..n /\ j - 1 # n /\ (j - 1) + 1 = j
      BY <2>2
    <3>2. ((j - 1) % n) + 1 = (j - 1) + 1
      BY <3>1, Around
    <3> QED
      BY <3>1, <3>2
  <2> QED
    BY <2>1, <2>2
<1>4. ASSUME NEW id \in C PROVE \E p \in Into(d, id) : p \in C
  <2>1. PICK j \in 1..n : id = walk[j]
    OBVIOUS
  <2>2. PICK i \in 1..n : (i % n) + 1 = j
    BY <1>3
  <2>3. <<walk[i], walk[j]>> \in Edges(d)
    BY <1>2, <2>2
  <2>4. walk[i] \in Into(d, walk[j])
    BY <2>3 DEF Edges
  <2> QED
    BY <2>1, <2>4
<1>5. C \subseteq ValidIds(d) /\ walk[1] \in C
  OBVIOUS
<1> HIDE DEF C
<1>6. Processed(d) \cap C = {}
  BY <1>4, <1>5, CyclesStay
<1>7. Processed(d) # ValidIds(d)
  BY <1>5, <1>6
<1> QED
  BY <1>7 DEF CycleErrors

\* A choice of what a node that is left depends on.
LEMMA Predecessors ==
  ASSUME NEW d \in Definitions
  PROVE  LET L == ValidIds(d) \ Processed(d) IN \E F \in [L -> L] : \A id \in L : F[id] \in Into(d, id)
<1> DEFINE L == ValidIds(d) \ Processed(d)
           F == [id \in L |-> CHOOSE p \in L : p \in Into(d, id)]
<1>1. ASSUME NEW id \in L PROVE F[id] \in L /\ F[id] \in Into(d, id)
  <2>1. \E p \in L : p \in Into(d, id)
    BY ProcessedIsClosed
  <2> HIDE DEF L
  <2>2. F[id] = CHOOSE p \in L : p \in Into(d, id)
    OBVIOUS
  <2> HIDE DEF F
  <2> QED
    BY <2>1, <2>2
<1>2. F \in [L -> L]
  BY <1>1
<1> QED
  BY <1>1, <1>2

\* Going back from a node that is left for as many steps as there are nodes, one
\* comes by the same node twice.
LEMMA ComesBack ==
  ASSUME NEW d \in Definitions, Processed(d) # ValidIds(d)
  PROVE  \E g \in [Nat -> ValidIds(d)] :
           /\ \A n \in Nat : g[n + 1] \in Into(d, g[n])
           /\ \E x, y \in 0..Cardinality(ValidIds(d)) : x < y /\ g[x] = g[y]
<1> DEFINE V == ValidIds(d)
           N == Cardinality(V)
           L == V \ Processed(d)
<1>1. IsFiniteSet(V) /\ N \in Nat
  BY IdsFinite, FS_CardinalityType
<1>2. PICK F \in [L -> L] : \A id \in L : F[id] \in Into(d, id)
  BY Predecessors
<1>3. PICK a \in L : TRUE
  BY ProcessedIsClosed
<1>4. PICK g \in [Nat -> L] : g[0] = a /\ \A n \in Nat : g[n + 1] = F[g[n]]
  <2> HIDE DEF L
  <2> QED
    BY Recursion
<1>5. \A n \in Nat : g[n + 1] \in Into(d, g[n])
  BY <1>2, <1>4
<1>6. IsFiniteSet(L) /\ Cardinality(L) <= N
  BY <1>1, FS_Subset
<1>7. IsFiniteSet(0..N) /\ Cardinality(0..N) = N + 1
  <2> HIDE DEF N
  <2> QED
    BY <1>1, FS_Interval
<1>8. \E x, y \in 0..N : x # y /\ g[x] = g[y]
  <2> DEFINE S == 0..N
             h == [i \in S |-> g[i]]
  <2>1. h \in [S -> L]
    BY <1>4
  <2>2. Cardinality(L) < Cardinality(S)
    <3>1. Cardinality(L) \in Nat
      BY <1>6, FS_CardinalityType
    <3> HIDE DEF N, L
    <3> QED
      BY <1>1, <1>6, <1>7, <3>1
  <2>3. IsFiniteSet(S) /\ IsFiniteSet(L)
    BY <1>6, <1>7
  <2>4. PICK x, y \in S : x # y /\ h[x] = h[y]
    <3> HIDE DEF S, h, L
    <3> QED
      BY <2>1, <2>2, <2>3, FS_PigeonHole
  <2> QED
    BY <2>4
<1>9. \E x, y \in 0..N : x < y /\ g[x] = g[y]
  <2>1. PICK x, y \in 0..N : x # y /\ g[x] = g[y]
    BY <1>8
  <2> HIDE DEF N
  <2>2. x < y \/ y < x
    BY <1>1, <2>1
  <2> QED
    BY <2>1, <2>2
<1>10. g \in [Nat -> V]
  BY <1>4
<1> HIDE DEF N
<1> QED
  BY <1>5, <1>9, <1>10 DEF N

\* What was gone through in between, the other way round, is a walk that returns.
LEMMA LeftoversCycle ==
  ASSUME NEW d \in Definitions, CycleErrors(d) # {}
  PROVE  \E n \in 1..Cardinality(ValidIds(d)) : \E walk \in [1..n -> ValidIds(d)] : Returns(walk, d)
<1> DEFINE V == ValidIds(d)
           N == Cardinality(V)
<1>1. Processed(d) # V
  BY DEF CycleErrors
<1>2. PICK g \in [Nat -> V] :
         /\ \A n \in Nat : g[n + 1] \in Into(d, g[n])
         /\ \E x, y \in 0..N : x < y /\ g[x] = g[y]
  BY <1>1, ComesBack
<1>3. N \in Nat
  BY IdsFinite, FS_CardinalityType
<1> HIDE DEF N
<1>4. PICK x, y \in 0..N : x < y /\ g[x] = g[y]
  BY <1>2
<1> DEFINE n == y - x
           walk == [i \in 1..n |-> g[y - i]]
<1>5. n \in 1..N /\ x \in Nat /\ y \in Nat /\ y = x + n
  BY <1>3, <1>4
<1>6. ASSUME NEW i \in 1..n
      PROVE  y - i \in Nat /\ walk[i] = g[y - i] /\ walk[i] \in V /\ (y - i) + 1 = y - (i - 1)
  <2>1. y - i \in Nat
    BY <1>5
  <2> QED
    BY <1>2, <2>1, <1>5
<1>7. walk \in [1..n -> V]
  BY <1>6
<1>8. DOMAIN walk = 1..n /\ Len(walk) = n
  BY <1>5, <1>7
<1>9. ASSUME NEW i \in 1..n PROVE <<walk[i], walk[(i % n) + 1]>> \in Edges(d)
  <2> DEFINE j == (i % n) + 1
  <2>1. j \in 1..n /\ walk[i] \in Into(d, walk[j])
    <3>1. CASE i = n
      <4>1. j = 1
        BY <1>5, <3>1, Around
      <4>2. walk[i] = g[x] /\ walk[1] = g[y - 1] /\ y - 1 \in Nat /\ (y - 1) + 1 = y
        BY <1>5, <3>1
      <4>3. g[y] \in Into(d, g[y - 1])
        BY <1>2, <4>2
      <4>4. 1 \in 1..n
        BY <1>5
      <4> HIDE DEF j, walk, n
      <4> QED
        BY <1>4, <4>1, <4>2, <4>3, <4>4
    <3>2. CASE i # n
      <4>0. n \in Nat /\ n >= 1
        BY <1>5
      <4>1. j = i + 1
        <5> HIDE DEF n
        <5> QED
          BY <4>0, <3>2, Around
      <4>2. i + 1 \in 1..n
        BY <1>5, <3>2
      <4>3. walk[i] = g[y - i] /\ walk[i + 1] = g[y - (i + 1)] /\ y - (i + 1) \in Nat /\ (y - (i + 1)) + 1 = y - i
        BY <1>5, <4>2
      <4>4. g[y - i] \in Into(d, g[y - (i + 1)])
        BY <1>2, <4>3
      <4> HIDE DEF j, walk, n
      <4> QED
        BY <4>1, <4>2, <4>3, <4>4
    <3> QED
      BY <3>1, <3>2
  <2>2. walk[i] \in V /\ walk[j] \in V
    BY <1>7, <2>1
  <2> HIDE DEF j, walk, n
  <2> QED
    BY <2>1, <2>2 DEF Edges, j
<1>10. Returns(walk, d)
  <2> HIDE DEF walk, n
  <2> QED
    BY <1>8, <1>9 DEF Returns
<1> HIDE DEF walk, n
<1> QED
  BY <1>5, <1>7, <1>10 DEF N

\* Kahn's algorithm finds a cycle exactly when there is one.
LEMMA KahnIsExact ==
  ASSUME def \in Definitions
  PROVE  CycleErrorIsExact
<1> DEFINE V == ValidIds(def)
           walks == UNION {[1..n -> V] : n \in 1..Cardinality(V)}
<1>1. CycleErrorIsExact <=> (CycleErrors(def) # {} <=> \E walk \in walks : Returns(walk, def))
  BY DEF CycleErrorIsExact, Returns, Edges
<1>2. ASSUME CycleErrors(def) # {} PROVE \E walk \in walks : Returns(walk, def)
  BY <1>2, LeftoversCycle
<1>3. ASSUME NEW walk \in walks, Returns(walk, def) PROVE CycleErrors(def) # {}
  <2>1. PICK n \in 1..Cardinality(V) : walk \in [1..n -> V]
    OBVIOUS
  <2>2. Cardinality(V) \in Nat
    BY IdsFinite, FS_CardinalityType
  <2>3. n \in Nat /\ n >= 1
    BY <2>1, <2>2
  <2> QED
    BY <1>3, <2>1, <2>3, WalksStay
<1> QED
  BY <1>1, <1>2, <1>3

-----------------------------------------------------------------------------
(* What an accepted definition is.                                         *)

\* A set of positions has a last one.
LEMMA LastPosition ==
  ASSUME NEW n \in Nat, NEW P, P \subseteq 1..n, P # {}
  PROVE  \E i \in P : \A j \in P : j <= i
<1> DEFINE T == {n - x : x \in P}
<1>1. T \subseteq Nat /\ T # {}
  <2>1. ASSUME NEW x \in P PROVE n - x \in Nat
    OBVIOUS
  <2> QED
    BY <2>1
<1>2. PICK d \in T : \A m \in T : d <= m
  <2> HIDE DEF T
  <2> QED
    BY <1>1, LeastNumber
<1>3. PICK i \in P : d = n - i
  BY <1>2
<1>4. ASSUME NEW j \in P PROVE j <= i
  <2>1. n - j \in T
    OBVIOUS
  <2>2. d <= n - j
    BY <1>2, <2>1
  <2> QED
    BY <1>3, <2>2
<1> QED
  BY <1>3, <1>4

\* The positions of a definition are the numbers up to one.
LEMMA PositionsRange ==
  ASSUME NEW d \in Definitions
  PROVE  \E n \in Nat : Positions(d) = 1..n
<1>1. d.steps \in Seq({d.steps[i] : i \in DOMAIN d.steps})
  BY DefinitionsAssumption, Zenon
<1> DEFINE T == {d.steps[i] : i \in DOMAIN d.steps}
           sq == d.steps
<1>2. sq \in Seq(T)
  BY <1>1
<1> HIDE DEF T, sq
<1>3. Len(sq) \in Nat /\ DOMAIN sq = 1..Len(sq)
  BY <1>2
<1> QED
  BY <1>3 DEF Positions, sq

\* The step with an id is the last that has it, for its dependencies, too.
LEMMA StepWithId ==
  ASSUME NEW d \in Definitions, NEW id \in Ids(d)
  PROVE  \E i \in Positions(d) : /\ d.steps[i].id = id
                                 /\ StepOf(d, id) = d.steps[i]
                                 /\ DependsOn(d, id) = d.steps[i].dependsOn
<1> DEFINE P == {i \in Positions(d) : d.steps[i].id = id}
           Last(i) == i \in Positions(d) /\ d.steps[i].id = id
                      /\ \A j \in Positions(d) : d.steps[j].id = id => j <= i
           k == CHOOSE i \in Positions(d) : d.steps[i].id = id
                      /\ \A j \in Positions(d) : d.steps[j].id = id => j <= i
<1>1. PICK n \in Nat : Positions(d) = 1..n
  BY PositionsRange
<1>2. P \subseteq 1..n /\ P # {}
  BY <1>1 DEF Ids
<1>3. PICK i \in P : \A j \in P : j <= i
  <2> HIDE DEF P
  <2> QED
    BY <1>2, LastPosition
<1>4. \E x \in Positions(d) : d.steps[x].id = id /\ \A j \in Positions(d) : d.steps[j].id = id => j <= x
  BY <1>3
<1>5. k \in Positions(d) /\ d.steps[k].id = id
  BY <1>4
<1>6. StepOf(d, id) = d.steps[k] /\ DependsOn(d, id) = d.steps[k].dependsOn
  BY DEF StepOf, DependsOn
<1> HIDE DEF k
<1> QED
  BY <1>5, <1>6

\* Without an error of structure, every id is valid, every dependency is a step,
\* and no step is left over by Kahn's algorithm.
LEMMA AcceptedGraph ==
  ASSUME NEW d \in Definitions, StructureErrors(d) = {}
  PROVE  /\ ValidIds(d) = Ids(d)
         /\ Processed(d) = Ids(d)
         /\ \A i \in Positions(d) : d.steps[i].dependsOn \subseteq Ids(d)
<1>1. IdErrors(d) = {} /\ DependencyErrors(d) = {} /\ CycleErrors(d) = {}
  BY DEF StructureErrors
<1>2. ASSUME NEW i \in Positions(d) PROVE d.steps[i].id \in StepIds
  <2>1. {Err(d.steps[j].id, "id", "malformed") :
           j \in {j \in Positions(d) : d.steps[j].id \notin StepIds \cup {""}}} = {}
    BY <1>1 DEF IdErrors
  <2>2. {Err("", "id", "empty") : j \in {j \in Positions(d) : d.steps[j].id = ""}} = {}
    BY <1>1 DEF IdErrors
  <2> QED
    BY <2>1, <2>2
<1>3. ValidIds(d) = Ids(d)
  BY <1>2 DEF ValidIds, Ids
<1>4. Processed(d) = Ids(d)
  BY <1>1, <1>3 DEF CycleErrors
<1>5. ASSUME NEW i \in Positions(d) PROVE d.steps[i].dependsOn \subseteq Ids(d)
  BY <1>1, <1>3 DEF DependencyErrors
<1> QED
  BY <1>3, <1>4, <1>5

\* While steps of such a definition are pending, one of them is ready.
LEMMA OneIsReady ==
  ASSUME NEW d \in Definitions, StructureErrors(d) = {},
         NEW left, left \subseteq Ids(d), left # {}, NEW done, Ids(d) \subseteq left \cup done
  PROVE  \E s \in left : StepOf(d, s).dependsOn \subseteq done
<1> SUFFICES ASSUME \A s \in left : ~(StepOf(d, s).dependsOn \subseteq done) PROVE FALSE
  OBVIOUS
<1>1. ASSUME NEW s \in left PROVE \E p \in Into(d, s) : p \in left
  <2>1. PICK i \in Positions(d) : d.steps[i].id = s /\ StepOf(d, s) = d.steps[i]
    BY StepWithId
  <2>2. PICK p \in d.steps[i].dependsOn : p \notin done
    BY <2>1
  <2>3. p \in Ids(d) /\ p \in ValidIds(d)
    BY <2>2, AcceptedGraph
  <2>4. p \in Into(d, s)
    BY <2>1, <2>2, <2>3 DEF Into
  <2> QED
    BY <2>2, <2>3, <2>4
<1>2. left \subseteq ValidIds(d) /\ Processed(d) = Ids(d)
  BY AcceptedGraph
<1>3. Processed(d) \cap left = {}
  BY <1>1, <1>2, CyclesStay
<1> QED
  BY <1>2, <1>3

\* The set UpstreamOf goes through, and what it has in the end.
LEMMA UpstreamSteps ==
  ASSUME NEW d \in Definitions, NEW id, NEW U,
         DependsOn(d, id) \subseteq U, \A x \in U \cap UpstreamOf(d, id) : DependsOn(d, x) \subseteq U
  PROVE  UpstreamOf(d, id) \subseteq U
<1> DEFINE V == UNION {DependsOn(d, x) : x \in Ids(d)}
           round == [R \in SUBSET V |-> R \cup UNION {DependsOn(d, x) : x \in R}]
           body(r) == [n \in Nat |-> IF n = 0 THEN DependsOn(d, id)
                                     ELSE r[n - 1] \cup UNION {DependsOn(d, x) : x \in r[n - 1]}]
           reached == CHOOSE r : r = body(r)
<1>1. UpstreamOf(d, id) = reached[Len(d.steps)]
  BY DEF UpstreamOf
<1>2. Len(d.steps) \in Nat
  BY DefinitionsAssumption
<1>3. ASSUME NEW x PROVE DependsOn(d, x) \subseteq V
  <2>1. CASE x \in Ids(d)
    BY <2>1
  <2>2. CASE x \notin Ids(d)
    <3>1. DependsOn(d, x) = {}
      BY <2>2 DEF DependsOn
    <3> QED
      BY <3>1
  <2> QED
    BY <2>1, <2>2
<1>4. PICK g : SetsOf(g, V, round, DependsOn(d, id))
  <2>1. Extends(round, V)
    <3>1. ASSUME NEW R \in SUBSET V PROVE R \cup UNION {DependsOn(d, x) : x \in R} \in SUBSET V
      <4> HIDE DEF V
      <4> QED
        BY <1>3
    <3> HIDE DEF V
    <3> QED
      BY <3>1 DEF Extends
  <2>2. PartOf(DependsOn(d, id), V)
    <3> HIDE DEF V
    <3> QED
      BY <1>3 DEF PartOf
  <2> HIDE DEF round, V, body, reached
  <2> QED
    BY <2>1, <2>2, SetRecursion
<1>5. \A n \in Nat : n # 0 => g[n] = g[n - 1] \cup UNION {DependsOn(d, x) : x \in g[n - 1]}
  <2> SUFFICES ASSUME NEW n \in Nat, n # 0
               PROVE  g[n] = g[n - 1] \cup UNION {DependsOn(d, x) : x \in g[n - 1]}
    OBVIOUS
  <2>1. n - 1 \in Nat /\ (n - 1) + 1 = n
    OBVIOUS
  <2>2. g[n] = round[g[n - 1]] /\ g[n - 1] \in SUBSET V
    <3> HIDE DEF round, V
    <3> QED
      BY <1>4, <2>1 DEF SetsOf
  <2> HIDE DEF V
  <2> QED
    BY <2>2
<1>6. g = body(g)
  <2>1. g = [n \in Nat |-> g[n]]
    <3> HIDE DEF V, round
    <3> QED
      BY <1>4 DEF SetsOf
  <2> HIDE DEF V, round
  <2> QED
    BY <1>4, <1>5, <2>1 DEF SetsOf
<1>7. reached = body(reached)
  <2> HIDE DEF body
  <2> QED
    BY <1>6
<1>8. \A n \in Nat : reached[n] = IF n = 0 THEN DependsOn(d, id)
                                  ELSE reached[n - 1] \cup UNION {DependsOn(d, x) : x \in reached[n - 1]}
  <2> HIDE DEF reached
  <2>1. \A n \in Nat : body(reached)[n] = IF n = 0 THEN DependsOn(d, id)
                                  ELSE reached[n - 1] \cup UNION {DependsOn(d, x) : x \in reached[n - 1]}
    OBVIOUS
  <2> HIDE DEF body
  <2> QED
    BY <1>7, <2>1
<1> HIDE DEF reached, round, V, body
<1> DEFINE N == Len(d.steps)
<1>9. \A n \in Nat : reached[n + 1] = reached[n] \cup UNION {DependsOn(d, x) : x \in reached[n]}
  <2> SUFFICES ASSUME NEW n \in Nat
               PROVE  reached[n + 1] = reached[n] \cup UNION {DependsOn(d, x) : x \in reached[n]}
    OBVIOUS
  <2>1. n + 1 \in Nat /\ n + 1 # 0 /\ (n + 1) - 1 = n
    OBVIOUS
  <2> QED
    BY <1>8, <2>1
<1> DEFINE G == {k \in Nat : \A n \in Nat : reached[n] \subseteq reached[n + k]}
<1>10. Nat \subseteq G
  <2>1. 0 \in G
    <3>1. 0 \in Nat /\ \A n \in Nat : n + 0 = n
      <4> HIDE DEF G, N
      <4> QED
        OBVIOUS
    <3>2. \A n \in Nat : reached[n] \subseteq reached[n + 0]
      <4> HIDE DEF G, N
      <4> QED
        BY <3>1, Zenon
    <3> HIDE DEF N
    <3> QED
      BY <3>1, <3>2, Zenon
  <2>2. ASSUME NEW k \in Nat, k \in G PROVE k + 1 \in G
    <3>1. ASSUME NEW n \in Nat PROVE reached[n] \subseteq reached[n + (k + 1)]
      <4>1. n + k \in Nat /\ (n + k) + 1 = n + (k + 1)
        <5> HIDE DEF G, N
        <5> QED
          OBVIOUS
      <4>2. reached[n] \subseteq reached[n + k]
        BY <2>2, Zenon
      <4>3. reached[n + k] \subseteq reached[(n + k) + 1]
        <5> HIDE DEF G, N
        <5> QED
          BY <1>9, <4>1
      <4> HIDE DEF G, N
      <4> QED
        BY <4>1, <4>2, <4>3
    <3>2. k + 1 \in Nat
      <4> HIDE DEF G, N
      <4> QED
        OBVIOUS
    <3> HIDE DEF N
    <3> QED
      BY <3>1, <3>2, Zenon
  <2> HIDE DEF G
  <2> QED
    BY <2>1, <2>2, InductionOnNat
<1>11. \A n \in 0..N : reached[n] \subseteq UpstreamOf(d, id)
  <2> SUFFICES ASSUME NEW n \in 0..N PROVE reached[n] \subseteq reached[N]
    BY <1>1
  <2>1. N - n \in Nat /\ n \in Nat /\ n + (N - n) = N
    BY <1>2
  <2>2. N - n \in G
    BY <1>10, <2>1
  <2>3. reached[n] \subseteq reached[n + (N - n)]
    BY <2>1, <2>2
  <2> QED
    BY <2>1, <2>3
<1> HIDE DEF G
<1> DEFINE S == {n \in 0..N : reached[n] \subseteq U}
<1>12. 0 \in S
  <2>1. 0 \in 0..N /\ 0 \in Nat
    BY <1>2
  <2>2. reached[0] \subseteq U
    BY <1>8, <2>1
  <2> QED
    BY <2>1, <2>2
<1>13. ASSUME NEW n \in 1..N, n - 1 \in S PROVE n \in S
  <2>1. n - 1 \in Nat /\ n - 1 \in 0..N /\ (n - 1) + 1 = n /\ n \in 0..N
    BY <1>2
  <2>2. reached[(n - 1) + 1] = reached[n - 1] \cup UNION {DependsOn(d, x) : x \in reached[n - 1]}
    BY <1>9, <2>1
  <2>3. PICK R : R = reached[n - 1] /\ R \subseteq U /\ R \subseteq UpstreamOf(d, id)
    BY <1>11, <1>13, <2>1
  <2>4. reached[n] = R \cup UNION {DependsOn(d, x) : x \in R}
    BY <2>1, <2>2, <2>3
  <2>5. reached[n] \subseteq U
    BY <2>3, <2>4
  <2> QED
    BY <2>1, <2>5
<1>14. \A n \in 0..N : n \in S
  <2> HIDE DEF S, N
  <2>1. N \in Nat
    BY <1>2 DEF N
  <2> QED
    BY <1>12, <1>13, <2>1, Induction
<1>15. N \in S
  BY <1>2, <1>14
<1> QED
  BY <1>1, <1>15

-----------------------------------------------------------------------------
(* What the steps of a batch leave as it was.                              *)

\* The rest of the state, while a step of the batch executes.
Frame == UNCHANGED <<def, params, phase, pending, outputs>>

\* Only the copies and faults of s have changed, and its copies are now covered
\* but for n of them.
Grown(s, n) ==
  /\ faults' \in [DOMAIN faults -> Nat]
  /\ landed' \in [(DOMAIN faults) \X Annotations -> Nat]
  /\ \A x \in DOMAIN faults : x # s => /\ faults'[x] = faults[x]
                                       /\ \A a \in Annotations : landed'[<<x, a>>] = landed[<<x, a>>]
  /\ \A a \in Annotations : landed'[<<s, a>>] <= faults'[s] + n

\* What an outcome claims stays true while the outputs stay.
LEMMA FitsStays ==
  ASSUME NEW s, NEW out, Frame
  PROVE  (Fits(s, out) <=> Fits(s, out)') /\ (Supported(s) <=> Supported(s)')
BY DEF Frame, Fits, Supported, Step, Refuses, Rendered, Token, RenderFailures, Unchecked, Checked

\* The report of another step is as right as it was.
LEMMA ReportsStays ==
  ASSUME NEW s, NEW out, NEW x \in DOMAIN faults, s # x, CopiesCovered, Frame, Grown(x, 1) \/ Grown(x, 0),
         Reports(s, out)
  PROVE  Reports(s, out)'
<1>1. Step(s)' = Step(s)
  BY DEF Step, Frame
<1> DEFINE a == Step(s).action
<1>2. CASE a.on /\ a.type = "github_pr_review_inline" /\ out.status = "complete"
  <2>1. s \in DOMAIN faults
    BY <1>2 DEF Reports
  <2>2. DOMAIN faults' = DOMAIN faults /\ DOMAIN landed' = DOMAIN landed
    BY DEF CopiesCovered, Grown
  <2>3. faults'[s] = faults[s] /\ \A y \in Annotations : landed'[<<s, y>>] = landed[<<s, y>>]
    BY <2>1 DEF Grown
  <2>4. There(s)' = There(s)
    BY <2>2, <2>3 DEF There
  <2>5. /\ out.posted + out.skipped = Cardinality(Annotations)
        /\ out.posted <= Cardinality(There(s))
        /\ faults[s] = 0 => out.posted = Cardinality(There(s))
    BY <1>2 DEF Reports
  <2> QED
    BY <1>1, <2>1, <2>2, <2>3, <2>4, <2>5 DEF Reports
<1>3. CASE ~(a.on /\ a.type = "github_pr_review_inline" /\ out.status = "complete")
  BY <1>1, <1>3 DEF Reports
<1> QED
  BY <1>2, <1>3

\* The invariant when a step of the batch has come to an outcome
LEMMA FinishKeeps ==
  ASSUME IInv, NEW s \in DOMAIN active, NEW out, Frame, Finish(s, out), Grown(s, 1),
         Fits(s, out), Reports(s, out)'
  PROVE  IInv'
<1>1. /\ DOMAIN results' = DOMAIN results \cup {s} /\ results'[s] = out
      /\ \A x \in DOMAIN results : results'[x] = results[x]
      /\ DOMAIN active' = DOMAIN active \ {s}
  <2>1. s \notin DOMAIN results
    BY DEF IInv, BatchIsPending
  <2> QED
    BY <2>1 DEF Finish, With
<1>2. RunsAccepted'
  <2>1. phase \notin {"new", "rejected"}
    BY DEF IInv, BatchIsPending
  <2> QED
    BY <2>1 DEF IInv, RunsAccepted, Frame
<1>3. StepsAccounted'
  BY DEF IInv, StepsAccounted, Frame
<1>4. BatchIsPending'
  <2>1. phase = "running"
    BY DEF IInv, BatchIsPending
  <2> QED
    BY <1>1, <2>1 DEF IInv, BatchIsPending, Frame, Step
<1>5. CopiesCovered'
  <2>1. DOMAIN faults' = DOMAIN faults /\ s \in DOMAIN faults
    BY DEF Grown, IInv, CopiesCovered
  <2>2. ASSUME NEW x \in DOMAIN faults, NEW a \in Annotations
        PROVE  landed'[<<x, a>>] <= faults'[x] + (IF x \in DOMAIN active' THEN 0 ELSE 1)
    <3>1. CASE x = s
      BY <1>1, <3>1 DEF Grown
    <3>2. CASE x # s
      <4>1. faults'[x] = faults[x] /\ landed'[<<x, a>>] = landed[<<x, a>>]
        BY <3>2 DEF Grown
      <4>2. x \in DOMAIN active' <=> x \in DOMAIN active
        BY <1>1, <3>2
      <4> QED
        BY <4>1, <4>2 DEF IInv, CopiesCovered
    <3> QED
      BY <3>1, <3>2
  <2>3. DOMAIN faults' \subseteq DOMAIN active' \cup DOMAIN results' \cup DOMAIN outputs'
    BY <1>1, <2>1 DEF IInv, CopiesCovered, Frame
  <2>4. DOMAIN active' \subseteq DOMAIN faults'
    BY <1>1, <2>1 DEF IInv, CopiesCovered
  <2> QED
    BY <2>1, <2>2, <2>3, <2>4 DEF CopiesCovered, Grown
<1>6. OutcomesFit'
  <2>0. s \in DOMAIN faults
    BY DEF IInv, CopiesCovered
  <2>1. ASSUME NEW x \in DOMAIN outputs PROVE Fits(x, outputs[x])' /\ Reports(x, outputs[x])'
    <3>1. PICK o : o = outputs[x]
      OBVIOUS
    <3>2. outputs'[x] = o /\ x # s
      BY <3>1 DEF Frame, IInv, BatchIsPending
    <3>3. Fits(x, o) /\ Reports(x, o)
      BY <3>1 DEF IInv, OutcomesFit
    <3>4. Fits(x, o)' /\ Reports(x, o)'
      BY <2>0, <3>2, <3>3, FitsStays, ReportsStays DEF IInv
    <3> QED
      BY <3>2, <3>4 DEF Fits, Reports
  <2>2. ASSUME NEW x \in DOMAIN results' PROVE (Fits(x, results[x]) /\ Reports(x, results[x]))'
    <3>1. CASE x \in DOMAIN results
      <4>1. PICK o : o = results[x]
        OBVIOUS
      <4>2. results'[x] = o /\ x # s
        BY <1>1, <4>1, <3>1 DEF IInv, BatchIsPending
      <4>3. Fits(x, o) /\ Reports(x, o)
        BY <4>1, <3>1 DEF IInv, OutcomesFit
      <4>4. Fits(x, o)' /\ Reports(x, o)'
        BY <2>0, <4>2, <4>3, FitsStays, ReportsStays DEF IInv
      <4> QED
        BY <4>2, <4>4 DEF Fits, Reports
    <3>2. CASE x = s
      <4>1. results'[x] = out /\ Fits(x, out)' /\ Reports(x, out)'
        BY <1>1, <3>2, FitsStays
      <4> QED
        BY <4>1 DEF Fits, Reports
    <3> QED
      BY <1>1, <3>1, <3>2
  <2>3. ASSUME NEW x \in DOMAIN active' PROVE Supported(x)'
    BY <1>1, FitsStays DEF IInv, OutcomesFit
  <2>4. DOMAIN outputs' = DOMAIN outputs
    BY DEF Frame
  <2> QED
    BY <2>1, <2>2, <2>3, <2>4 DEF OutcomesFit
<1> QED
  BY <1>2, <1>3, <1>4, <1>5, <1>6 DEF IInv

\* or has failed at one attempt and is tried again.
LEMMA AgainKeeps ==
  ASSUME IInv, NEW s \in DOMAIN active, NEW why, Frame, Again(s, why), Grown(s, 0),
         Fits(s, Failed(why))
  PROVE  IInv'
<1>0. DOMAIN faults' = DOMAIN faults /\ s \in DOMAIN faults
  BY DEF Grown, IInv, CopiesCovered
<1>1. CASE Finish(s, Failed(why))
  <2>1. Grown(s, 1)
    <3>1. ASSUME NEW a \in Annotations PROVE landed'[<<s, a>>] <= faults'[s] + 1
      <4>1. landed'[<<s, a>>] <= faults'[s] + 0 /\ landed'[<<s, a>>] \in Nat /\ faults'[s] \in Nat
        BY <1>0 DEF Grown
      <4> QED
        BY <4>1
    <3> QED
      BY <3>1 DEF Grown
  <2>2. Reports(s, Failed(why))'
    BY DEF Reports, Failed, Out
  <2> QED
    BY <1>1, <2>1, <2>2, FinishKeeps
<1>2. CASE active' = [active EXCEPT ![s] = @ + 1] /\ results' = results
  <2>1. DOMAIN active' = DOMAIN active /\ results' = results
    BY <1>2
  <2>2. RunsAccepted'
    <3>1. phase \notin {"new", "rejected"}
      BY DEF IInv, BatchIsPending
    <3> QED
      BY <3>1 DEF IInv, RunsAccepted, Frame
  <2>3. StepsAccounted'
    BY DEF IInv, StepsAccounted, Frame
  <2>4. BatchIsPending'
    BY <2>1 DEF IInv, BatchIsPending, Frame, Step
  <2>5. CopiesCovered'
    <3>1. ASSUME NEW x \in DOMAIN faults, NEW a \in Annotations
          PROVE  landed'[<<x, a>>] <= faults'[x] + (IF x \in DOMAIN active' THEN 0 ELSE 1)
      <4>1. CASE x = s
        BY <2>1, <4>1 DEF Grown
      <4>2. CASE x # s
        <5>1. faults'[x] = faults[x] /\ landed'[<<x, a>>] = landed[<<x, a>>]
          BY <4>2 DEF Grown
        <5> QED
          BY <2>1, <5>1 DEF IInv, CopiesCovered
      <4> QED
        BY <4>1, <4>2
    <3>2. /\ DOMAIN faults' \subseteq DOMAIN active' \cup DOMAIN results' \cup DOMAIN outputs'
          /\ DOMAIN active' \subseteq DOMAIN faults'
      BY <1>0, <2>1 DEF IInv, CopiesCovered, Frame
    <3> QED
      BY <1>0, <3>1, <3>2 DEF CopiesCovered, Grown
  <2>6. OutcomesFit'
    <3>1. ASSUME NEW x \in DOMAIN outputs PROVE (Fits(x, outputs[x]) /\ Reports(x, outputs[x]))'
      <4>1. PICK o : o = outputs[x]
        OBVIOUS
      <4>2. outputs'[x] = o /\ x # s
        BY <4>1 DEF Frame, IInv, BatchIsPending
      <4>3. Fits(x, o) /\ Reports(x, o)
        BY <4>1 DEF IInv, OutcomesFit
      <4>4. Fits(x, o)' /\ Reports(x, o)'
        BY <1>0, <4>2, <4>3, FitsStays, ReportsStays DEF IInv
      <4> QED
        BY <4>2, <4>4 DEF Fits, Reports
    <3>2. ASSUME NEW x \in DOMAIN results PROVE (Fits(x, results[x]) /\ Reports(x, results[x]))'
      <4>1. PICK o : o = results[x]
        OBVIOUS
      <4>2. results'[x] = o /\ x # s
        BY <2>1, <4>1 DEF IInv, BatchIsPending
      <4>3. Fits(x, o) /\ Reports(x, o)
        BY <4>1 DEF IInv, OutcomesFit
      <4>4. Fits(x, o)' /\ Reports(x, o)'
        BY <1>0, <4>2, <4>3, FitsStays, ReportsStays DEF IInv
      <4> QED
        BY <4>2, <4>4 DEF Fits, Reports
    <3>3. ASSUME NEW x \in DOMAIN active PROVE Supported(x)'
      BY FitsStays DEF IInv, OutcomesFit
    <3>4. DOMAIN outputs' = DOMAIN outputs
      BY DEF Frame
    <3> QED
      BY <2>1, <3>1, <3>2, <3>3, <3>4 DEF OutcomesFit
  <2> QED
    BY <2>2, <2>3, <2>4, <2>5, <2>6 DEF IInv
<1> QED
  BY <1>1, <1>2 DEF Again

-----------------------------------------------------------------------------
(* The steps of a batch.                                                   *)

\* While the run goes on, what comes before a step with an outcome, or one that
\* is executing, has its outcomes, all the way up.
LEMMA UpstreamDone ==
  ASSUME IInv, phase = "running", NEW s \in DOMAIN outputs \cup DOMAIN results \cup DOMAIN active
  PROVE  UpstreamOf(def, s) \subseteq DOMAIN outputs
<1>1. def \in Definitions
  BY DEF IInv, RunsAccepted
<1>2. ASSUME NEW x \in DOMAIN outputs \cup DOMAIN results \cup DOMAIN active
      PROVE  DependsOn(def, x) \subseteq DOMAIN outputs
  <2>1. CASE x \in Ids(def)
    <3>1. DependsOn(def, x) = Step(x).dependsOn
      BY <1>1, <2>1, StepWithId DEF Step
    <3> QED
      BY <3>1 DEF IInv, BatchIsPending
  <2>2. CASE x \notin Ids(def)
    <3>1. DependsOn(def, x) = {}
      BY <2>2 DEF DependsOn
    <3> QED
      BY <3>1
  <2> QED
    BY <2>1, <2>2
<1> QED
  BY <1>1, <1>2, UpstreamSteps

\* A failure of an active step is one that Fits allows.
LEMMA FailedFits ==
  ASSUME IInv, NEW s \in DOMAIN active, NEW why, "no step" \notin why,
         why # {"refused"} \/ Refuses(Step(s))
  PROVE  Fits(s, Failed(why))
<1>1. phase = "running"
  BY DEF IInv, BatchIsPending
<1>2. UpstreamOf(def, s) \subseteq DOMAIN outputs
  BY <1>1, UpstreamDone
<1>3. Supported(s)
  BY DEF IInv, OutcomesFit
<1> QED
  BY <1>2, <1>3 DEF Fits, Failed, Out

\* Nothing has landed.
LEMMA NothingGrows ==
  ASSUME IInv, NEW s \in DOMAIN active, UNCHANGED <<landed, faults>>
  PROVE  Grown(s, 0) /\ Grown(s, 1)
<1>1. ASSUME NEW a \in Annotations
      PROVE  landed[<<s, a>>] <= faults[s] /\ landed[<<s, a>>] \in Nat /\ faults[s] \in Nat
  BY DEF IInv, CopiesCovered
<1>2. faults' \in [DOMAIN faults -> Nat] /\ landed' \in [(DOMAIN faults) \X Annotations -> Nat]
  BY DEF IInv, CopiesCovered
<1> QED
  BY <1>1, <1>2 DEF Grown

\* Exactly one of an agent and an action is what a step of an accepted run is.
LEMMA OneKind ==
  ASSUME IInv, NEW s \in Ids(def), phase \notin {"new", "rejected"}
  PROVE  Step(s).execution.on => ~Step(s).action.on
<1>1. def \in Definitions /\ KindErrors(def) = {}
  BY DEF IInv, RunsAccepted, ValidateWorkflow, StructureErrors
<1>2. PICK i \in Positions(def) : Step(s) = def.steps[i]
  BY <1>1, StepWithId DEF Step
<1> DEFINE agent == def.steps[i].execution.on
           acts == def.steps[i].action.on
<1>3. agent \in BOOLEAN /\ acts \in BOOLEAN
  BY <1>1, <1>2, DefinitionsAssumption DEF Positions
<1>4. agent # acts
  BY <1>1, <1>2 DEF KindErrors
<1> HIDE DEF agent, acts
<1>5. agent => ~acts
  BY <1>3, <1>4
<1> QED
  BY <1>2, <1>5 DEF agent, acts

\* An active step is a step of the definition that runs.
LEMMA ActiveIsStep ==
  ASSUME IInv, NEW s \in DOMAIN active
  PROVE  s \in Ids(def) /\ phase = "running"
BY DEF IInv, BatchIsPending, StepsAccounted

\* A step that runs an agent.
LEMMA RunAgentKeeps ==
  ASSUME IInv, NEW s, RunAgent(s)
  PROVE  IInv'
<1>1. s \in DOMAIN active /\ Step(s).execution.on /\ Frame /\ UNCHANGED <<landed, faults>>
  BY DEF RunAgent, Frame
<1>2. Grown(s, 1)
  BY <1>1, NothingGrows
<1>3. ~Step(s).action.on
  BY <1>1, ActiveIsStep, OneKind
<1>4. CASE Finish(s, Failed({"agent"}))
  <2>1. Fits(s, Failed({"agent"}))
    BY <1>1, FailedFits
  <2>2. Reports(s, Failed({"agent"}))'
    BY DEF Reports, Failed, Out
  <2> QED
    BY <1>1, <1>2, <1>4, <2>1, <2>2, FinishKeeps
<1>5. ASSUME NEW keys, Finish(s, Out("complete", keys, {})) PROVE IInv'
  <2> DEFINE out == Out("complete", keys, {})
  <2>1. ~Step(s).action.on /\ Step(s)' = Step(s)
    BY <1>1, <1>3 DEF Step, Frame
  <2>2. Supported(s)
    BY <1>1 DEF IInv, OutcomesFit
  <2>3. Fits(s, out)
    BY <2>1, <2>2 DEF Fits, Out
  <2>4. Reports(s, out)'
    BY <2>1 DEF Reports
  <2> QED
    BY <1>1, <1>2, <1>5, <2>3, <2>4, FinishKeeps
<1> QED
  BY <1>4, <1>5 DEF RunAgent

\* An action that refuses its parameters.
LEMMA RefuseKeeps ==
  ASSUME IInv, NEW s, Refuse(s)
  PROVE  IInv'
<1>1. /\ s \in DOMAIN active /\ Refuses(Step(s)) /\ Again(s, {"refused"})
      /\ Frame /\ UNCHANGED <<landed, faults>>
  BY DEF Refuse, Frame
<1>2. Fits(s, Failed({"refused"}))
  BY <1>1, FailedFits
<1> QED
  BY <1>1, <1>2, NothingGrows, AgainKeeps

\* Copies have landed, and answers were lost.
LEMMA AddGrows ==
  ASSUME IInv, NEW s \in DOMAIN active, NEW copies \in [Annotations -> Nat], NEW lost \in Nat, NEW n \in Nat,
         Add(s, copies), faults' = [faults EXCEPT ![s] = @ + lost],
         \A a \in Annotations : copies[a] <= lost + n
  PROVE  /\ Grown(s, n)
         /\ faults'[s] = faults[s] + lost
         /\ \A a \in Annotations : /\ <<s, a>> \in DOMAIN landed' /\ landed'[<<s, a>>] = landed[<<s, a>>] + copies[a]
                                   /\ landed[<<s, a>>] \in Nat /\ landed[<<s, a>>] <= faults[s]
         /\ faults[s] \in Nat
<1>1. /\ s \in DOMAIN faults /\ faults \in [DOMAIN faults -> Nat]
      /\ landed \in [(DOMAIN faults) \X Annotations -> Nat]
  BY DEF IInv, CopiesCovered
<1>2. ASSUME NEW a \in Annotations
      PROVE  landed[<<s, a>>] <= faults[s] /\ landed[<<s, a>>] \in Nat /\ faults[s] \in Nat
  BY <1>1 DEF IInv, CopiesCovered
<1>3. faults' \in [DOMAIN faults -> Nat] /\ faults'[s] = faults[s] + lost
      /\ \A x \in DOMAIN faults : x # s => faults'[x] = faults[x]
  BY <1>1
<1>4. DOMAIN landed = (DOMAIN faults) \X Annotations
  BY <1>1
<1>5. landed' = [x \in (DOMAIN faults) \X Annotations |->
                   IF x[1] = s THEN landed[x] + copies[x[2]] ELSE landed[x]]
  BY <1>4 DEF Add
<1>6. ASSUME NEW x \in DOMAIN faults, NEW a \in Annotations
      PROVE  landed'[<<x, a>>] = IF x = s THEN landed[<<x, a>>] + copies[a] ELSE landed[<<x, a>>]
  BY <1>5
<1>7. landed' \in [(DOMAIN faults) \X Annotations -> Nat]
  <2>1. ASSUME NEW x \in DOMAIN faults, NEW a \in Annotations PROVE landed'[<<x, a>>] \in Nat
    <3>1. landed[<<x, a>>] \in Nat /\ copies[a] \in Nat
      BY <1>1
    <3> QED
      BY <1>6, <3>1
  <2>2. \A z \in (DOMAIN faults) \X Annotations : landed'[z] \in Nat
    BY <2>1
  <2>3. landed' = [z \in (DOMAIN faults) \X Annotations |-> landed'[z]]
    BY <1>5
  <2> QED
    BY <2>2, <2>3
<1>8. ASSUME NEW a \in Annotations PROVE landed'[<<s, a>>] <= faults'[s] + n
  <2>1. landed'[<<s, a>>] = landed[<<s, a>>] + copies[a] /\ copies[a] \in Nat /\ copies[a] <= lost + n
    BY <1>1, <1>6
  <2> QED
    BY <1>2, <1>3, <2>1
<1>9. Grown(s, n)
  BY <1>3, <1>6, <1>7, <1>8 DEF Grown
<1> QED
  BY <1>1, <1>2, <1>3, <1>6, <1>7, <1>9

\* The outcome of an action that succeeded, whatever numbers it reports.
LEMMA SuccessFits ==
  ASSUME IInv, NEW s \in DOMAIN active, NEW out,
         out.status = "complete", out.keys = Success(Step(s)).keys, out.why = {}
  PROVE  Fits(s, out)
<1>1. Supported(s)
  BY DEF IInv, OutcomesFit
<1>2. out.keys = Result(Step(s).action.type, Silent(Step(s)))
  BY DEF Success, Out
<1>3. Silent(Step(s)) \in BOOLEAN
  BY DEF Silent
<1>4. \E silent \in BOOLEAN : out.keys = Result(Step(s).action.type, silent)
  BY <1>2, <1>3
<1>5. {} # {"refused"} /\ "no step" \notin {} /\ "complete" # "failed"
  OBVIOUS
<1> QED
  BY <1>1, <1>4, <1>5 DEF Fits

\* An action of one call puts up one thing at most.
LEMMA OneAtMost ==
  /\ Nothing \in [Annotations -> Nat] /\ \A a \in Annotations : Nothing[a] <= 1
  /\ One \in [Annotations -> Nat] /\ \A a \in Annotations : One[a] <= 1
<1>1. Nothing \in [Annotations -> Nat] /\ \A a \in Annotations : Nothing[a] = 0
  BY DEF Nothing
<1>2. PICK it : One = [Nothing EXCEPT ![it] = 1]
  BY DEF One
<1>3. DOMAIN One = Annotations /\ \A a \in Annotations : One[a] = IF a = it THEN 1 ELSE 0
  BY <1>1, <1>2
<1>4. One = [a \in Annotations |-> One[a]]
  BY <1>1, <1>2
<1>5. \A a \in Annotations : One[a] \in Nat /\ One[a] <= 1
  BY <1>3
<1> QED
  BY <1>1, <1>4, <1>5

\* An action that makes one call.
LEMMA CallOnceKeeps ==
  ASSUME IInv, NEW s, CallOnce(s)
  PROVE  IInv'
<1> DEFINE posts == IF Silent(Step(s)) THEN Nothing ELSE One
<1>1. s \in DOMAIN active /\ Frame /\ Step(s).action.type # "github_pr_review_inline"
  BY DEF CallOnce, Frame
<1>2. posts \in [Annotations -> Nat] /\ \A a \in Annotations : posts[a] <= 1
  BY OneAtMost
<1>3. \/ Add(s, posts) /\ Finish(s, Success(Step(s))) /\ UNCHANGED faults
      \/ Again(s, {"service"}) /\ UNCHANGED <<landed, faults>>
      \/ faults' = [faults EXCEPT ![s] = @ + 1] /\ Add(s, posts) /\ Again(s, {"service"})
  BY DEF CallOnce
<1>4. Fits(s, Failed({"service"}))
  BY <1>1, FailedFits
<1>5. s \in DOMAIN faults /\ faults \in [DOMAIN faults -> Nat]
  BY <1>1 DEF IInv, CopiesCovered
<1> HIDE DEF posts
<1>6. CASE Add(s, posts) /\ Finish(s, Success(Step(s))) /\ UNCHANGED faults
  <2>1. faults' = [faults EXCEPT ![s] = @ + 0]
    BY <1>5, <1>6
  <2>2. \A a \in Annotations : posts[a] <= 0 + 1
    BY <1>2
  <2>3. Grown(s, 1)
    BY <1>1, <1>2, <1>6, <2>1, <2>2, AddGrows
  <2>4. PICK out : out = Success(Step(s))
    OBVIOUS
  <2>5. Fits(s, out)
    <3>1. out.status = "complete" /\ out.why = {} /\ out.keys = Success(Step(s)).keys
      BY <2>4 DEF Success, Out
    <3> QED
      BY <1>1, <3>1, SuccessFits
  <2>6. Reports(s, out)'
    BY <1>1 DEF Reports, Step, Frame
  <2> QED
    BY <1>1, <1>6, <2>3, <2>4, <2>5, <2>6, FinishKeeps
<1>7. CASE Again(s, {"service"}) /\ UNCHANGED <<landed, faults>>
  BY <1>1, <1>4, <1>7, NothingGrows, AgainKeeps
<1>8. CASE faults' = [faults EXCEPT ![s] = @ + 1] /\ Add(s, posts) /\ Again(s, {"service"})
  <2>1. \A a \in Annotations : posts[a] <= 1 + 0
    BY <1>2
  <2>2. Grown(s, 0)
    BY <1>1, <1>2, <1>8, <2>1, AddGrows
  <2> QED
    BY <1>1, <1>4, <1>8, <2>2, AgainKeeps
<1> QED
  BY <1>3, <1>6, <1>7, <1>8

\* What an attempt at an inline review comes to.
Copies(whole, single, tried) ==
  [a \in Annotations |-> Reached(whole) + (IF a \in tried THEN Reached(single[a]) ELSE 0)]

\* The answers lost in it, and the end of an attempt in the middle.
Unanswered(whole, single, tried, cutOff) ==
  (IF whole = "lost" THEN 1 ELSE 0)
    + Cardinality({a \in tried : single[a] = "lost"})
    + (IF cutOff THEN 1 ELSE 0)

\* The comments it knows to have been accepted one by one.
AcceptedOf(single, tried) == {a \in tried : single[a] = "accepted"}

\* Each copy is the one that was asked for, or covered.
LEMMA AttemptCovers ==
  ASSUME NEW whole \in Answers, NEW single \in [Annotations -> Answers], NEW tried \in SUBSET Annotations,
         NEW cutOff \in BOOLEAN
  PROVE  LET lost == Unanswered(whole, single, tried, cutOff)
             copies == Copies(whole, single, tried) IN
         /\ lost \in Nat
         /\ copies \in [Annotations -> Nat]
         /\ whole = "accepted" => \A a \in Annotations \ tried : copies[a] = 1
         /\ whole # "accepted" => \A a \in Annotations : copies[a] <= lost + 1
         /\ AttemptFails(cutOff, AcceptedOf(single, tried)) /\ whole # "accepted" =>
              \A a \in Annotations : copies[a] <= lost + 0
         /\ \A a \in AcceptedOf(single, tried) : copies[a] >= 1
         /\ lost = 0 => /\ ~cutOff /\ whole # "lost"
                        /\ whole = "rejected" =>
                             \A a \in tried : copies[a] > 0 => a \in AcceptedOf(single, tried)
<1> DEFINE missed == {a \in tried : single[a] = "lost"}
           w == IF whole = "lost" THEN 1 ELSE 0
           c == IF cutOff THEN 1 ELSE 0
           lost == Unanswered(whole, single, tried, cutOff)
           copies == Copies(whole, single, tried)
           accepted == AcceptedOf(single, tried)
<1>1. IsFiniteSet(missed) /\ Cardinality(missed) \in Nat
  BY AnnotationsFinite, FS_Subset, FS_CardinalityType
<1>2. ASSUME NEW a \in missed PROVE Cardinality(missed) >= 1
  <2>1. Cardinality(missed) # 0
    <3> HIDE DEF missed
    <3> QED
      BY <1>1, <1>2, FS_EmptySet
  <2> HIDE DEF missed
  <2> QED
    BY <1>1, <2>1
<1>3. lost = w + Cardinality(missed) + c /\ w \in 0..1 /\ c \in 0..1
  BY DEF Unanswered
<1>4. \A a \in Annotations : /\ copies[a] = Reached(whole) + (IF a \in tried THEN Reached(single[a]) ELSE 0)
                             /\ single[a] \in Answers
  BY DEF Copies
<1>5. Reached("rejected") = 0 /\ Reached("accepted") = 1 /\ Reached("lost") = 1
  BY DEF Reached
<1>6. \A x \in Answers : x \in {"accepted", "rejected", "lost"}
  BY DEF Answers
<1>7. copies \in [Annotations -> Nat]
  <2>1. \A x \in Answers : Reached(x) \in Nat
    BY DEF Reached
  <2> QED
    BY <1>4, <2>1 DEF Copies
<1>8. \A a \in accepted : a \in tried /\ single[a] = "accepted"
  BY DEF AcceptedOf
<1>9. \A a \in tried : single[a] = "accepted" => a \in accepted
  BY DEF AcceptedOf
<1>10. \A a \in tried : single[a] = "lost" => a \in missed
  OBVIOUS
<1>11. whole # "accepted" => Reached(whole) = w
  BY <1>5, <1>6
<1>12. cutOff => c = 1
  OBVIOUS
<1>13. whole = "lost" => w = 1
  OBVIOUS
<1> HIDE DEF missed, w, c, lost, copies, accepted
<1>14. lost \in Nat
  BY <1>1, <1>3
<1>15. ASSUME whole = "accepted" PROVE \A a \in Annotations \ tried : copies[a] = 1
  BY <1>4, <1>5, <1>15
<1>16. ASSUME whole # "accepted", NEW a \in Annotations PROVE copies[a] <= lost + 1
  <2>1. copies[a] = w + (IF a \in tried THEN Reached(single[a]) ELSE 0)
    BY <1>4, <1>11, <1>16
  <2>2. (IF a \in tried THEN Reached(single[a]) ELSE 0) \in 0..1
    BY <1>4, <1>5, <1>6
  <2> QED
    BY <1>1, <1>3, <2>1, <2>2
<1>17. ASSUME whole # "accepted", AttemptFails(cutOff, accepted), NEW a \in Annotations PROVE copies[a] <= lost + 0
  <2>1. copies[a] = w + (IF a \in tried THEN Reached(single[a]) ELSE 0)
    BY <1>4, <1>11, <1>17
  <2>2. CASE cutOff
    <3>1. c = 1 /\ (IF a \in tried THEN Reached(single[a]) ELSE 0) \in 0..1
      BY <1>4, <1>5, <1>6, <1>12, <2>2
    <3> QED
      BY <1>1, <1>3, <2>1, <3>1
  <2>3. CASE accepted = {}
    <3>1. CASE a \in tried
      <4>1. single[a] \in {"rejected", "lost"}
        BY <1>4, <1>6, <1>9, <2>3, <3>1
      <4>2. CASE single[a] = "rejected"
        <5>1. copies[a] = w + 0
          BY <1>5, <2>1, <4>2, <3>1
        <5> QED
          BY <1>1, <1>3, <5>1
      <4>3. CASE single[a] = "lost"
        <5>1. copies[a] = w + 1
          BY <1>5, <2>1, <4>3, <3>1
        <5>2. Cardinality(missed) >= 1
          BY <1>2, <1>10, <3>1, <4>3
        <5> QED
          BY <1>1, <1>3, <5>1, <5>2
      <4> QED
        BY <4>1, <4>2, <4>3
    <3>2. CASE a \notin tried
      <4>1. copies[a] = w
        BY <1>3, <2>1, <3>2
      <4> QED
        BY <1>1, <1>3, <4>1
    <3> QED
      BY <3>1, <3>2
  <2> QED
    BY <1>17, <2>2, <2>3 DEF AttemptFails
<1>18. ASSUME NEW a \in accepted PROVE copies[a] >= 1
  <2>1. a \in tried /\ a \in Annotations /\ copies[a] = Reached(whole) + 1
    BY <1>4, <1>5, <1>8
  <2>2. Reached(whole) \in 0..1
    BY <1>5, <1>6
  <2> QED
    BY <2>1, <2>2
<1>19. ASSUME lost = 0 PROVE ~cutOff /\ whole # "lost" /\ \A a : a \notin missed
  <2>0. PICK m \in Nat : m = Cardinality(missed)
    BY <1>1
  <2>1. w = 0 /\ c = 0 /\ Cardinality(missed) = 0
    <3>1. w + m + c = 0
      BY <1>3, <1>19, <2>0
    <3>2. w \in Nat /\ c \in Nat
      BY <1>3
    <3> QED
      BY <2>0, <3>1, <3>2
  <2>2. \A a : a \notin missed
    BY <1>2, <2>1
  <2> QED
    BY <1>12, <1>13, <2>1, <2>2
<1>20. ASSUME lost = 0, whole = "rejected", NEW a \in tried, copies[a] > 0 PROVE a \in accepted
  <2>1. copies[a] = 0 + Reached(single[a]) /\ single[a] \in Answers
    BY <1>4, <1>5, <1>20
  <2>2. single[a] # "rejected" /\ single[a] # "lost"
    BY <1>5, <1>10, <1>19, <1>20, <2>1
  <2>3. single[a] = "accepted"
    BY <1>6, <2>1, <2>2
  <2> QED
    BY <1>9, <2>3
<1> QED
  BY <1>7, <1>14, <1>15, <1>16, <1>17, <1>18, <1>19, <1>20 DEF lost, copies, accepted

\* What an inline review reports.
Report(s, n) == [Success(Step(s)) EXCEPT !.posted = n, !.skipped = Cardinality(Annotations) - n]

\* The fields of the report.
LEMMA ReportIs ==
  ASSUME NEW s, NEW n
  PROVE  /\ Report(s, n).status = "complete" /\ Report(s, n).why = {}
         /\ Report(s, n).keys = Success(Step(s)).keys
         /\ Report(s, n).posted = n /\ Report(s, n).skipped = Cardinality(Annotations) - n
BY DEF Report, Success, Out

\* A report of the n comments of a set that is there, the whole of it if no
\* answer was lost.
LEMMA ReportIsRight ==
  ASSUME NEW s \in DOMAIN faults', NEW out, NEW G, G \subseteq Annotations,
         out.posted = Cardinality(G), out.skipped = Cardinality(Annotations) - Cardinality(G),
         G \subseteq There(s)', faults'[s] = 0 => There(s)' \subseteq G
  PROVE  Reports(s, out)'
<1> DEFINE T == There(s)'
<1>1. T \subseteq Annotations
  BY DEF There
<1>2. IsFiniteSet(T) /\ IsFiniteSet(G)
  BY <1>1, AnnotationsFinite, FS_Subset
<1>3. /\ Cardinality(G) \in Nat /\ Cardinality(Annotations) \in Nat
      /\ Cardinality(G) <= Cardinality(T)
  BY <1>2, AnnotationsFinite, FS_CardinalityType, FS_Subset
<1>4. faults'[s] = 0 => T = G
  OBVIOUS
<1> HIDE DEF T
<1>5. /\ out.posted + out.skipped = Cardinality(Annotations)
      /\ out.posted <= Cardinality(T)
      /\ faults'[s] = 0 => out.posted = Cardinality(T)
  BY <1>3, <1>4
<1> QED
  BY <1>5 DEF Reports, T

\* An inline review, as a whole or comment by comment.
LEMMA InlineReviewKeeps ==
  ASSUME IInv, NEW s, InlineReview(s)
  PROVE  IInv'
<1>1. s \in DOMAIN active /\ Frame
  BY DEF InlineReview, Frame
<1>2. PICK whole \in Answers, single \in [Annotations -> Answers], until \in SUBSET Annotations :
        LET tried    == IF whole = "accepted" THEN {} ELSE until
            cutOff   == whole # "accepted" /\ until # Annotations
            accepted == AcceptedOf(single, tried)
        IN /\ faults' = [faults EXCEPT ![s] = @ + Unanswered(whole, single, tried, cutOff)]
           /\ Add(s, Copies(whole, single, tried))
           /\ IF whole = "accepted" THEN Finish(s, Report(s, Cardinality(Annotations)))
              ELSE IF AttemptFails(cutOff, accepted) THEN Again(s, {"service"})
              ELSE Finish(s, Report(s, ReportedPosted(tried, accepted)))
  BY ZenonT(60) DEF InlineReview, AcceptedOf, Unanswered, Copies, Report
<1> DEFINE tried    == IF whole = "accepted" THEN {} ELSE until
           cutOff   == whole # "accepted" /\ until # Annotations
           accepted == AcceptedOf(single, tried)
           lost     == Unanswered(whole, single, tried, cutOff)
           copies   == Copies(whole, single, tried)
<1>3. /\ faults' = [faults EXCEPT ![s] = @ + lost] /\ Add(s, copies)
      /\ whole = "accepted" => Finish(s, Report(s, Cardinality(Annotations)))
      /\ whole # "accepted" /\ AttemptFails(cutOff, accepted) => Again(s, {"service"})
      /\ whole # "accepted" /\ ~AttemptFails(cutOff, accepted) => Finish(s, Report(s, Cardinality(accepted)))
  BY <1>2 DEF ReportedPosted
<1>4. /\ lost \in Nat
      /\ copies \in [Annotations -> Nat]
      /\ whole = "accepted" => \A a \in Annotations \ tried : copies[a] = 1
      /\ whole # "accepted" => \A a \in Annotations : copies[a] <= lost + 1
      /\ AttemptFails(cutOff, accepted) /\ whole # "accepted" => \A a \in Annotations : copies[a] <= lost + 0
      /\ \A a \in accepted : copies[a] >= 1
      /\ lost = 0 => /\ ~cutOff /\ whole # "lost"
                     /\ whole = "rejected" => \A a \in tried : copies[a] > 0 => a \in accepted
  <2>1. cutOff \in BOOLEAN /\ tried \in SUBSET Annotations
    OBVIOUS
  <2> HIDE DEF tried, cutOff
  <2> QED
    BY <2>1, AttemptCovers
<1>5. (whole = "accepted" => tried = {}) /\ (~cutOff /\ whole # "accepted" => tried = Annotations)
  OBVIOUS
<1>6. accepted \subseteq Annotations
  BY DEF AcceptedOf
<1>7. s \in DOMAIN faults
  BY <1>1 DEF IInv, CopiesCovered
<1> HIDE DEF tried, cutOff, accepted, lost, copies
<1>8. ASSUME NEW out, NEW G, G \subseteq Annotations, Finish(s, out), out = Report(s, Cardinality(G)),
             \A a \in Annotations : copies[a] <= lost + 1, \A a \in G : copies[a] >= 1,
             lost = 0 => \A a \in Annotations : copies[a] > 0 => a \in G
      PROVE  IInv'
  <2>1. /\ Grown(s, 1) /\ faults'[s] = faults[s] + lost /\ faults[s] \in Nat
        /\ \A a \in Annotations : /\ <<s, a>> \in DOMAIN landed' /\ landed'[<<s, a>>] = landed[<<s, a>>] + copies[a]
                                  /\ landed[<<s, a>>] \in Nat /\ landed[<<s, a>>] <= faults[s]
    BY <1>1, <1>3, <1>4, <1>8, AddGrows
  <2>2. Fits(s, out)
    BY <1>1, <1>8, ReportIs, SuccessFits
  <2>3. \A a \in Annotations : copies[a] \in Nat
    BY <1>4
  <2>4. G \subseteq There(s)'
    <3> SUFFICES ASSUME NEW a \in G PROVE landed'[<<s, a>>] > 0 /\ <<s, a>> \in DOMAIN landed' /\ a \in Annotations
      BY DEF There
    <3>1. a \in Annotations /\ copies[a] >= 1
      BY <1>8
    <3> QED
      BY <2>1, <2>3, <3>1
  <2>5. ASSUME faults'[s] = 0 PROVE There(s)' \subseteq G
    <3>1. faults[s] = 0 /\ lost = 0
      BY <1>4, <2>1, <2>5
    <3> SUFFICES ASSUME NEW a \in Annotations, landed'[<<s, a>>] > 0 PROVE a \in G
      BY DEF There
    <3>2. landed[<<s, a>>] = 0
      BY <2>1, <3>1
    <3>3. copies[a] > 0
      BY <2>1, <2>3, <3>2
    <3> QED
      BY <1>8, <3>1, <3>3
  <2>6. s \in DOMAIN faults'
    BY <1>7, <2>1 DEF Grown
  <2>7. out.posted = Cardinality(G) /\ out.skipped = Cardinality(Annotations) - Cardinality(G)
    BY <1>8, ReportIs
  <2>8. Reports(s, out)'
    BY <1>8, <2>4, <2>5, <2>6, <2>7, ReportIsRight
  <2> QED
    BY <1>1, <1>8, <2>1, <2>2, <2>8, FinishKeeps
<1>9. CASE whole = "accepted"
  <2>1. \A a \in Annotations : copies[a] = 1
    BY <1>4, <1>5, <1>9
  <2>2. (\A a \in Annotations : copies[a] <= lost + 1) /\ (\A a \in Annotations : copies[a] >= 1)
    BY <1>4, <2>1
  <2>3. PICK out : out = Report(s, Cardinality(Annotations))
    OBVIOUS
  <2>4. Finish(s, out)
    BY <1>3, <1>9, <2>3
  <2> QED
    BY <1>8, <2>2, <2>3, <2>4
<1>10. CASE whole # "accepted" /\ AttemptFails(cutOff, accepted)
  <2>1. Grown(s, 0)
    BY <1>1, <1>3, <1>4, <1>10, AddGrows
  <2>2. Fits(s, Failed({"service"}))
    BY <1>1, FailedFits
  <2> QED
    BY <1>1, <1>3, <1>10, <2>1, <2>2, AgainKeeps
<1>11. CASE whole # "accepted" /\ ~AttemptFails(cutOff, accepted)
  <2>1. ASSUME lost = 0, NEW a \in Annotations, copies[a] > 0 PROVE a \in accepted
    <3>1. tried = Annotations /\ whole = "rejected"
      BY <1>4, <1>5, <1>11, <2>1 DEF Answers
    <3> QED
      BY <1>4, <2>1, <3>1
  <2>2. PICK out : out = Report(s, Cardinality(accepted))
    OBVIOUS
  <2>3. Finish(s, out)
    BY <1>3, <1>11, <2>2
  <2> QED
    BY <1>4, <1>6, <1>8, <1>11, <2>1, <2>2, <2>3
<1> QED
  BY <1>9, <1>10, <1>11

-----------------------------------------------------------------------------
(* Rendering, of what was accepted.                                        *)

\* What a step of an accepted definition refers to where it is looked at.
LEMMA CheckedRefs ==
  ASSUME NEW d \in Definitions, TemplateErrors(d) = {}, NEW id \in Ids(d), NEW t \in Templates(StepOf(d, id))
  PROVE  /\ ParamRefs(t) \subseteq DOMAIN d.parameters
         /\ \A r \in StepRefs(t) : StepRefError(d, id, r) = "none"
<1>1. PICK i \in Positions(d) : d.steps[i].id = id /\ StepOf(d, id) = d.steps[i]
  BY StepWithId
<1> DEFINE Errs(step, u) ==
             {Err(step.id, "template", "unknown parameter") : p \in ParamRefs(u) \ DOMAIN d.parameters}
               \cup ({Err(step.id, "template", StepRefError(d, step.id, r)) : r \in StepRefs(u)}
                     \ {Err(step.id, "template", "none")})
<1>2. TemplateErrors(d) = UNION {UNION {Errs(d.steps[j], u) : u \in Templates(d.steps[j])} : j \in Positions(d)}
  BY DEF TemplateErrors
<1>3. Errs(d.steps[i], t) = {}
  <2> HIDE DEF Errs
  <2> QED
    BY <1>1, <1>2
<1>4. ParamRefs(t) \ DOMAIN d.parameters = {}
  BY <1>3
<1>5. ASSUME NEW r \in StepRefs(t), StepRefError(d, id, r) # "none" PROVE FALSE
  <2>1. Err(id, "template", StepRefError(d, id, r)) # Err(id, "template", "none")
    BY <1>5 DEF Err
  <2>2. Err(id, "template", StepRefError(d, id, r)) \in Errs(d.steps[i], t)
    BY <1>1, <2>1
  <2> QED
    BY <1>3, <2>2
<1> QED
  BY <1>4, <1>5

\* Rendering fails for one of these reasons.
Reasons == {"parse", "no parameter", "no root", "no step", "no field", "no output", "not JSON"}

\* There are no other reasons.
LEMMA RenderReasons ==
  ASSUME NEW t
  PROVE  RenderFailures(t) \subseteq Reasons /\ RepositoryFailures(t) \subseteq Reasons
<1>1. \A r : RefFailure(r) = "none" \/ RefFailure(r) \in Reasons
  BY DEF RefFailure, Reasons
<1>2. RenderFailures(t) \subseteq Reasons
  BY <1>1 DEF RenderFailures, Reasons
<1>3. "not JSON" \in Reasons
  BY DEF Reasons
<1> QED
  BY <1>2, <1>3 DEF RepositoryFailures

\* Nor are there for a whole step.
LEMMA StepReasons ==
  ASSUME NEW step
  PROVE  ResolveFailures(step) \subseteq Reasons /\ ConfigFailures(step) \subseteq Reasons
BY RenderReasons DEF ResolveFailures, ConfigFailures

\* A step is missing at a rendering because of a reference to it.
LEMMA NoStepRef ==
  ASSUME NEW t, "no step" \in RenderFailures(t)
  PROVE  \E r \in t.refs : r.root = "Steps" /\ r.name \notin DOMAIN outputs
<1>1. PICK r \in t.refs : RefFailure(r) = "no step"
  BY DEF RenderFailures
<1>2. r.root = "Steps" /\ r.name \notin DOMAIN outputs
  BY <1>1 DEF RefFailure
<1> QED
  BY <1>2

\* What comes before a step whose dependencies have outcomes has its outcome.
LEMMA UpstreamOfReady ==
  ASSUME IInv, phase = "running", NEW s \in Ids(def), Step(s).dependsOn \subseteq DOMAIN outputs
  PROVE  UpstreamOf(def, s) \subseteq DOMAIN outputs
<1>1. def \in Definitions
  BY DEF IInv, RunsAccepted
<1>2. ASSUME NEW x \in DOMAIN outputs PROVE DependsOn(def, x) \subseteq DOMAIN outputs
  <2>1. CASE x \in Ids(def)
    <3>1. DependsOn(def, x) = Step(x).dependsOn
      BY <1>1, <2>1, StepWithId DEF Step
    <3> QED
      BY <3>1 DEF IInv, BatchIsPending
  <2>2. CASE x \notin Ids(def)
    <3>1. DependsOn(def, x) = {}
      BY <2>2 DEF DependsOn
    <3> QED
      BY <3>1
  <2> QED
    BY <2>1, <2>2
<1>3. DependsOn(def, s) \subseteq DOMAIN outputs
  BY <1>1, StepWithId DEF Step
<1> QED
  BY <1>1, <1>2, <1>3, UpstreamSteps

\* The templates of a step, looked at or not.
TemplatesOf(step) == Templates(step) \cup {step.pullRequest, step.repositories}

\* Nothing that was looked at lacks a step when it is rendered.
LEMMA NoStepUnchecked ==
  ASSUME IInv, phase = "running", NEW s \in Ids(def), Step(s).dependsOn \subseteq DOMAIN outputs,
         NEW t \in TemplatesOf(Step(s)), "no step" \in RenderFailures(t)
  PROVE  \E u \in Unchecked(Step(s)) : \E x \in u.refs : x.root = "Steps"
<1>1. PICK r \in t.refs : r.root = "Steps" /\ r.name \notin DOMAIN outputs
  BY NoStepRef
<1>2. CASE t \in Unchecked(Step(s))
  BY <1>1, <1>2
<1>3. CASE t \notin Unchecked(Step(s))
  <2>1. t \in Templates(Step(s)) /\ t \in Checked(Step(s))
    BY <1>3 DEF Unchecked, TemplatesOf
  <2>2. r \in StepRefs(t)
    BY <1>1, <2>1 DEF Checked, StepRefs, RefsUnder
  <2>3. def \in Definitions /\ TemplateErrors(def) = {}
    BY DEF IInv, RunsAccepted, ValidateWorkflow
  <2>4. StepRefError(def, s, r) = "none"
    BY <2>1, <2>2, <2>3, CheckedRefs DEF Step
  <2>5. r.name \in UpstreamOf(def, s)
    BY <2>4 DEF StepRefError
  <2> QED
    BY <1>1, <2>5, UpstreamOfReady
<1> QED
  BY <1>2, <1>3

\* What fails before anything is executed is rendering one of these templates.
LEMMA NoStepImmediate ==
  ASSUME NEW step, "no step" \in ResolveFailures(step) \/ (step.action.on /\ "no step" \in ConfigFailures(step))
  PROVE  \E t \in TemplatesOf(step) : "no step" \in RenderFailures(t)
<1>1. CASE "no step" \in ResolveFailures(step)
  <2>1. CASE step.execution.on /\ "no step" \in RenderFailures(step.execution.prompt)
    BY <2>1 DEF TemplatesOf, Templates
  <2>2. CASE "no step" \in RepositoryFailures(step.repositories)
    <3>1. "no step" \in RenderFailures(step.repositories)
      BY <2>2 DEF RepositoryFailures
    <3> QED
      BY <3>1 DEF TemplatesOf
  <2>3. CASE "no step" \in RenderFailures(step.pullRequest)
    BY <2>3 DEF TemplatesOf
  <2> QED
    BY <1>1, <2>1, <2>2, <2>3 DEF ResolveFailures
<1>2. CASE step.action.on /\ "no step" \in ConfigFailures(step)
  BY <1>2 DEF ConfigFailures, TemplatesOf, Templates
<1> QED
  BY <1>1, <1>2

\* The fields of a failed and of a skipped outcome.
LEMMA FailedIs ==
  ASSUME NEW why
  PROVE  /\ Failed(why).status = "failed" /\ Failed(why).why = why
         /\ Skipped(why).status = "skipped" /\ Skipped(why).why = why
BY DEF Failed, Skipped, Out

\* The outcome of a step that is not executed.
LEMMA ImmediateFits ==
  ASSUME IInv, phase = "running", NEW s \in Ids(def), Step(s).dependsOn \subseteq DOMAIN outputs,
         NEW out, out = Immediate(s)
  PROVE  /\ out.status \in {"running", "skipped"} \/ Supported(s)
         /\ out.status # "running" => Fits(s, out) /\ Reports(s, out)
         /\ out.status = "running" => Supported(s)
<1> DEFINE step == Step(s)
           lost == ~step.optional /\ (\E d \in step.dependsOn : Unsuccessful(d))
<1>1. ASSUME ~lost PROVE Supported(s)
  <2>1. CASE step.optional
    BY <2>1 DEF Supported
  <2>2. CASE ~step.optional
    <3>1. ASSUME NEW d \in step.dependsOn PROVE d \in DOMAIN outputs /\ outputs[d].status = "complete"
      <4>1. d \in DOMAIN outputs /\ ~Unsuccessful(d)
        BY <1>1, <2>2, <3>1
      <4>2. outputs[d].status \in {"complete", "failed", "skipped"}
        BY <4>1 DEF IInv, OutcomesFit, Fits
      <4> QED
        BY <4>1, <4>2 DEF Unsuccessful
    <3> QED
      BY <3>1 DEF Supported
  <2> QED
    BY <2>1, <2>2
<1>2. UpstreamOf(def, s) \subseteq DOMAIN outputs
  BY UpstreamOfReady
<1>3. ASSUME NEW why, out = Failed(why), why \subseteq Reasons, ~lost,
             "no step" \in why => \E t \in TemplatesOf(step) : "no step" \in RenderFailures(t)
      PROVE  out.status = "failed" /\ Fits(s, out) /\ Reports(s, out) /\ Supported(s)
  <2>1. out.status = "failed" /\ out.why = why
    BY <1>3, FailedIs
  <2>2. why # {"refused"}
    BY <1>3 DEF Reasons
  <2>3. "no step" \in why => \E t \in Unchecked(step) : \E x \in t.refs : x.root = "Steps"
    BY <1>3, NoStepUnchecked
  <2>4. Fits(s, out)
    BY <1>1, <1>2, <1>3, <2>1, <2>2, <2>3 DEF Fits
  <2>5. Reports(s, out)
    BY <2>1 DEF Reports
  <2> QED
    BY <1>1, <1>3, <2>1, <2>4, <2>5
<1>4. ASSUME NEW why, out = Skipped(why), "refused" \notin why, "no step" \notin why
      PROVE  out.status = "skipped" /\ Fits(s, out) /\ Reports(s, out)
  <2>1. out.status = "skipped" /\ out.why = why
    BY <1>4, FailedIs
  <2> QED
    BY <1>4, <2>1 DEF Fits, Reports
<1>5. CASE lost
  <2>1. out = Skipped({"dependency"})
    BY <1>5 DEF Immediate
  <2> QED
    BY <1>4, <2>1
<1>6. CASE ~lost /\ ResolveFailures(step) # {}
  <2>1. out = Failed(ResolveFailures(step))
    BY <1>6 DEF Immediate
  <2> QED
    BY <1>3, <1>6, <2>1, StepReasons, NoStepImmediate
<1>7. CASE ~lost /\ ResolveFailures(step) = {} /\ ~Holds(step.condition)
  <2>1. out = Skipped({"condition"})
    BY <1>7 DEF Immediate
  <2> QED
    BY <1>4, <2>1
<1>8. CASE ~lost /\ ResolveFailures(step) = {} /\ Holds(step.condition)
           /\ step.action.on /\ ConfigFailures(step) # {}
  <2>1. out = Failed(ConfigFailures(step))
    BY <1>8 DEF Immediate
  <2> QED
    BY <1>3, <1>8, <2>1, StepReasons, NoStepImmediate
<1>9. CASE ~lost /\ ResolveFailures(step) = {} /\ Holds(step.condition)
           /\ ~(step.action.on /\ ConfigFailures(step) # {})
  <2>1. out = Out("running", {}, {})
    BY <1>9 DEF Immediate
  <2>2. out.status = "running"
    BY <2>1 DEF Out
  <2> QED
    BY <1>1, <1>9, <2>2
<1> QED
  BY <1>5, <1>6, <1>7, <1>8, <1>9

\* A batch starts, and some of its steps are over at once.
LEMMA StartBatchKeeps ==
  ASSUME IInv, StartBatch
  PROVE  IInv'
<1>1. /\ phase = "running" /\ pending # {} /\ DOMAIN results = {} /\ DOMAIN active = {}
      /\ UNCHANGED <<def, params, pending, outputs>>
  BY DEF StartBatch
<1>2. def \in Definitions /\ StructureErrors(def) = {}
  BY <1>1 DEF IInv, RunsAccepted, ValidateWorkflow
<1>3. pending \subseteq Ids(def) /\ Ids(def) \subseteq pending \cup DOMAIN outputs /\ pending \cap DOMAIN outputs = {}
  BY <1>1 DEF IInv, StepsAccounted, BatchIsPending
<1>4. Ready # {}
  <2>1. PICK s \in pending : StepOf(def, s).dependsOn \subseteq DOMAIN outputs
    BY <1>1, <1>2, <1>3, OneIsReady
  <2> QED
    BY <2>1 DEF Ready, Step
<1> DEFINE run == {s \in Ready : Immediate(s).status = "running"}
<1>5. /\ results' = [s \in Ready \ run |-> Immediate(s)]
      /\ active' = [s \in run |-> 0]
      /\ landed' = With(landed, [x \in run \X Annotations |-> 0])
      /\ faults' = With(faults, [s \in run |-> 0])
      /\ UNCHANGED phase
  BY <1>4 DEF StartBatch
<1>6. Frame
  BY <1>1, <1>5 DEF Frame
<1>7. \A s \in Ready : s \in pending /\ s \in Ids(def) /\ Step(s).dependsOn \subseteq DOMAIN outputs
  BY <1>3 DEF Ready
<1>8. DOMAIN results' = Ready \ run /\ DOMAIN active' = run /\ run \subseteq Ready
  BY <1>5
<1>9. \A s \in run : Immediate(s).status = "running"
  OBVIOUS
<1>10. \A s \in Ready \ run : Immediate(s).status # "running" /\ results'[s] = Immediate(s)
  BY <1>5
<1> HIDE DEF run
<1>11. RunsAccepted'
  BY <1>1, <1>6 DEF IInv, RunsAccepted, Frame
<1>12. StepsAccounted'
  BY <1>6 DEF IInv, StepsAccounted, Frame
<1>13. BatchIsPending'
  BY <1>1, <1>6, <1>7, <1>8 DEF IInv, BatchIsPending, Frame, Step
<1>14. /\ DOMAIN faults \subseteq DOMAIN outputs /\ faults \in [DOMAIN faults -> Nat]
       /\ landed \in [(DOMAIN faults) \X Annotations -> Nat]
       /\ \A s \in DOMAIN faults, a \in Annotations : landed[<<s, a>>] <= faults[s] + 1
  BY <1>1 DEF IInv, CopiesCovered
<1>15. \A s \in run : s \notin DOMAIN faults
  BY <1>3, <1>7, <1>8, <1>14
<1>16. /\ DOMAIN faults' = DOMAIN faults \cup run
       /\ \A s \in DOMAIN faults : faults'[s] = faults[s]
       /\ \A s \in run : faults'[s] = 0
  BY <1>5, <1>15 DEF With
<1>17. /\ DOMAIN landed' = (DOMAIN faults') \X Annotations
       /\ \A s \in DOMAIN faults, a \in Annotations : landed'[<<s, a>>] = landed[<<s, a>>]
       /\ \A s \in run, a \in Annotations : landed'[<<s, a>>] = 0
  <2>1. DOMAIN landed = (DOMAIN faults) \X Annotations
    BY <1>14
  <2>2. DOMAIN landed' = (DOMAIN landed) \cup (run \X Annotations)
    BY <1>5 DEF With
  <2>3. \A s \in DOMAIN faults, a \in Annotations : landed'[<<s, a>>] = landed[<<s, a>>]
    BY <1>5, <2>1 DEF With
  <2>4. ASSUME NEW s \in run, NEW a \in Annotations PROVE landed'[<<s, a>>] = 0
    <3>1. <<s, a>> \notin DOMAIN landed /\ <<s, a>> \in run \X Annotations
      BY <1>15, <2>1
    <3> QED
      BY <1>5, <3>1 DEF With
  <2> QED
    BY <1>16, <2>1, <2>2, <2>3, <2>4
<1>18. CopiesCovered'
  <2>1. faults' \in [DOMAIN faults' -> Nat]
    <3>1. faults' = [s \in DOMAIN faults' |-> faults'[s]]
      BY <1>5 DEF With
    <3>2. \A s \in DOMAIN faults' : faults'[s] \in Nat
      BY <1>14, <1>16
    <3> QED
      BY <3>1, <3>2
  <2>2. landed' \in [(DOMAIN faults') \X Annotations -> Nat]
    <3>1. landed' = [x \in DOMAIN landed' |-> landed'[x]]
      BY <1>5 DEF With
    <3>2. ASSUME NEW s \in DOMAIN faults', NEW a \in Annotations PROVE landed'[<<s, a>>] \in Nat
      BY <1>14, <1>16, <1>17
    <3>3. \A x \in (DOMAIN faults') \X Annotations : landed'[x] \in Nat
      BY <3>2
    <3> QED
      BY <1>17, <3>1, <3>3
  <2>3. ASSUME NEW s \in DOMAIN faults', NEW a \in Annotations
        PROVE  landed'[<<s, a>>] <= faults'[s] + (IF s \in DOMAIN active' THEN 0 ELSE 1)
    <3>1. CASE s \in run
      BY <1>8, <1>16, <1>17, <3>1
    <3>2. CASE s \in DOMAIN faults
      <4>1. s \notin DOMAIN active'
        BY <1>8, <1>15, <3>2
      <4> QED
        BY <1>14, <1>16, <1>17, <3>2, <4>1
    <3> QED
      BY <1>16, <3>1, <3>2
  <2> QED
    BY <1>6, <1>8, <1>14, <1>16, <2>1, <2>2, <2>3 DEF CopiesCovered, Frame
<1>19. ASSUME NEW s, NEW out, Reports(s, out) PROVE Reports(s, out)'
  <2>1. Step(s)' = Step(s)
    BY <1>6 DEF Frame, Step
  <2>2. CASE s \in DOMAIN faults
    <3>1. There(s)' = There(s)
      BY <1>14, <1>16, <1>17, <2>2 DEF There
    <3>2. faults'[s] = faults[s] /\ s \in DOMAIN faults'
      BY <1>16, <2>2
    <3> QED
      BY <1>19, <2>1, <3>1, <3>2 DEF Reports
  <2>3. CASE s \notin DOMAIN faults
    BY <1>19, <2>1, <2>3 DEF Reports
  <2> QED
    BY <2>2, <2>3
<1>20. OutcomesFit'
  <2>1. ASSUME NEW x \in DOMAIN outputs PROVE (Fits(x, outputs[x]) /\ Reports(x, outputs[x]))'
    <3>1. PICK o : o = outputs[x]
      OBVIOUS
    <3>2. outputs'[x] = o
      BY <1>1, <3>1
    <3>3. Fits(x, o) /\ Reports(x, o)
      BY <3>1 DEF IInv, OutcomesFit
    <3>4. Fits(x, o)' /\ Reports(x, o)'
      BY <1>6, <1>19, <3>3, FitsStays
    <3> QED
      BY <3>2, <3>4 DEF Fits, Reports
  <2>2. ASSUME NEW x \in DOMAIN results' PROVE (Fits(x, results[x]) /\ Reports(x, results[x]))'
    <3>1. PICK o : o = Immediate(x)
      OBVIOUS
    <3>2. results'[x] = o /\ o.status # "running" /\ x \in Ready
      BY <1>8, <1>10, <2>2, <3>1
    <3>3. Fits(x, o) /\ Reports(x, o)
      BY <1>1, <1>7, <3>1, <3>2, ImmediateFits
    <3>4. Fits(x, o)' /\ Reports(x, o)'
      BY <1>6, <1>19, <3>3, FitsStays
    <3> QED
      BY <3>2, <3>4 DEF Fits, Reports
  <2>3. ASSUME NEW x \in DOMAIN active' PROVE Supported(x)'
    <3>1. x \in run /\ x \in Ready
      BY <1>8, <2>3
    <3>2. Supported(x)
      BY <1>1, <1>7, <1>9, <3>1, ImmediateFits
    <3> QED
      BY <1>6, <3>2, FitsStays
  <2>4. DOMAIN outputs' = DOMAIN outputs
    BY <1>1
  <2> QED
    BY <2>1, <2>2, <2>3, <2>4 DEF OutcomesFit
<1> QED
  BY <1>11, <1>12, <1>13, <1>18, <1>20 DEF IInv

\* Nothing is there before a run is created.
LEMMA InitHolds == Init => IInv
<1> SUFFICES ASSUME Init PROVE IInv
  OBVIOUS
<1>1. RunsAccepted
  BY DEF Init, RunsAccepted
<1>2. StepsAccounted /\ BatchIsPending
  BY DEF Init, StepsAccounted, BatchIsPending
<1>3. CopiesCovered
  <2>1. DOMAIN faults = {} /\ DOMAIN active = {} /\ DOMAIN landed = {}
    BY DEF Init
  <2>2. faults = [s \in {} |-> 0] /\ landed = [s \in {} |-> 0]
    BY DEF Init
  <2>3. (DOMAIN faults) \X Annotations = {}
    BY <2>1
  <2> QED
    BY <2>1, <2>2, <2>3 DEF CopiesCovered
<1>4. OutcomesFit
  BY DEF Init, OutcomesFit
<1> QED
  BY <1>1, <1>2, <1>3, <1>4 DEF IInv

\* A run is created, or refused.
LEMMA CreateKeeps ==
  ASSUME IInv, Create
  PROVE  IInv'
<1>1. phase = "new" /\ UNCHANGED <<def, outputs, results, active, landed, faults>>
  BY DEF Create
<1>2. PICK given \in Requests :
        /\ params' = WithDefaults(def, given)
        /\ IF ValidateWorkflow(def, params') # {}
           THEN phase' = "rejected" /\ UNCHANGED pending
           ELSE phase' \in {"pending", "running"} /\ pending' = Ids(def)
  <2>1. PICK given \in Requests :
          LET full == WithDefaults(def, given) IN
          /\ params' = full
          /\ IF ValidateWorkflow(def, full) # {}
             THEN phase' = "rejected" /\ UNCHANGED pending
             ELSE phase' \in {"pending", "running"} /\ pending' = Ids(def)
    BY DEF Create
  <2> QED
    BY <2>1
<1>3. /\ def \in Definitions /\ pending = {} /\ outputs = <<>> /\ results = <<>> /\ active = <<>>
      /\ landed = <<>> /\ faults = <<>>
  BY <1>1 DEF IInv, RunsAccepted
<1>4. Ids(def)' = Ids(def) /\ WithDefaults(def, given)' = WithDefaults(def', given)
      /\ ValidateWorkflow(def, params)' = ValidateWorkflow(def, params')
  BY <1>1
<1>5. CopiesCovered'
  BY <1>1 DEF IInv, CopiesCovered
<1>6. OutcomesFit'
  BY <1>1, <1>3 DEF OutcomesFit
<1>7. CASE ValidateWorkflow(def, params') # {}
  <2>1. phase' = "rejected" /\ pending' = {}
    BY <1>2, <1>3, <1>7
  <2>2. RunsAccepted'
    BY <1>1, <1>3, <2>1 DEF RunsAccepted
  <2>3. StepsAccounted' /\ BatchIsPending'
    BY <1>1, <1>3, <2>1 DEF StepsAccounted, BatchIsPending
  <2> QED
    BY <1>5, <1>6, <2>2, <2>3 DEF IInv
<1>8. CASE ValidateWorkflow(def, params') = {}
  <2>1. phase' \in {"pending", "running"} /\ pending' = Ids(def)
    BY <1>2, <1>8
  <2>2. RunsAccepted'
    BY <1>1, <1>2, <1>3, <1>4, <1>8, <2>1 DEF RunsAccepted
  <2>3. StepsAccounted'
    BY <1>1, <1>3, <1>4, <2>1 DEF StepsAccounted
  <2>4. BatchIsPending'
    BY <1>1, <1>3, <2>1 DEF BatchIsPending
  <2> QED
    BY <1>5, <1>6, <2>2, <2>3, <2>4 DEF IInv
<1> QED
  BY <1>7, <1>8

\* What is below failed steps is pending, and nothing is below none.
LEMMA BelowPending ==
  ASSUME IsFiniteSet(pending), NEW failed
  PROVE  Below(failed) \subseteq pending /\ (failed = {} => Below(failed) = {})
<1> DEFINE after(R) == {s \in pending : Step(s).dependsOn \cap R # {}}
           round == [R \in SUBSET pending |-> R \cup after(R)]
           body(r) == [n \in Nat |-> IF n = 0 THEN {s \in pending : Step(s).dependsOn \cap failed # {}}
                                     ELSE r[n - 1] \cup {s \in pending : Step(s).dependsOn \cap r[n - 1] # {}}]
           reached == CHOOSE r : r = body(r)
<1>1. Below(failed) = reached[Cardinality(pending)]
  BY DEF Below
<1>2. PICK g : SetsOf(g, pending, round, after(failed))
  <2>1. Extends(round, pending)
    BY DEF Extends
  <2>2. PartOf(after(failed), pending)
    BY DEF PartOf
  <2> HIDE DEF round, body, reached, after
  <2> QED
    BY <2>1, <2>2, SetRecursion
<1>3. g = body(g)
  <2>1. g \in [Nat -> SUBSET pending] /\ g[0] = after(failed) /\ \A n \in Nat : g[n + 1] = round[g[n]]
    BY <1>2 DEF SetsOf
  <2>2. ASSUME NEW n \in Nat, n # 0
        PROVE  g[n] = g[n - 1] \cup {s \in pending : Step(s).dependsOn \cap g[n - 1] # {}}
    <3>1. n - 1 \in Nat /\ (n - 1) + 1 = n
      <4> HIDE DEF round, body, reached, after
      <4> QED
        BY <2>2
    <3>2. g[n] = round[g[n - 1]] /\ g[n - 1] \in SUBSET pending
      <4> HIDE DEF round, body, reached, after
      <4> QED
        BY <2>1, <3>1
    <3> QED
      BY <3>2
  <2>3. g = [n \in Nat |-> g[n]]
    <3> HIDE DEF round
    <3> QED
      BY <2>1
  <2> HIDE DEF round
  <2> QED
    BY <2>1, <2>2, <2>3
<1>4. reached = body(reached)
  <2> HIDE DEF body
  <2> QED
    BY <1>3
<1>5. \A n \in Nat : reached[n] = IF n = 0 THEN {s \in pending : Step(s).dependsOn \cap failed # {}}
                                  ELSE reached[n - 1] \cup {s \in pending : Step(s).dependsOn \cap reached[n - 1] # {}}
  <2> HIDE DEF reached
  <2>1. \A n \in Nat : body(reached)[n] = IF n = 0 THEN {s \in pending : Step(s).dependsOn \cap failed # {}}
                                  ELSE reached[n - 1] \cup {s \in pending : Step(s).dependsOn \cap reached[n - 1] # {}}
    OBVIOUS
  <2> HIDE DEF body
  <2> QED
    BY <1>4, <2>1
<1> HIDE DEF reached, body, round, after
<1> DEFINE S == {n \in Nat : reached[n] \subseteq pending /\ (failed = {} => reached[n] = {})}
<1>6. 0 \in S
  BY <1>5
<1>7. ASSUME NEW n \in Nat, n \in S PROVE n + 1 \in S
  <2>1. n + 1 \in Nat /\ n + 1 # 0 /\ (n + 1) - 1 = n
    OBVIOUS
  <2>2. PICK m \in Nat : m = n + 1 /\ m # 0 /\ m - 1 = n
    BY <2>1
  <2>3. reached[m] = reached[m - 1] \cup {s \in pending : Step(s).dependsOn \cap reached[m - 1] # {}}
    BY <1>5, <2>2
  <2>4. reached[n] \subseteq pending /\ (failed = {} => reached[n] = {}) /\ m - 1 = n
    BY <1>7, <2>2
  <2>5. reached[m] \subseteq pending /\ (failed = {} => reached[m] = {})
    BY <2>3, <2>4
  <2> QED
    BY <2>2, <2>5
<1>8. Nat \subseteq S
  <2> HIDE DEF S
  <2> QED
    BY <1>6, <1>7, InductionOnNat
<1> QED
  BY <1>1, <1>8, FS_CardinalityType

\* What an outcome claims stays true when outcomes are added.
LEMMA FitsGrows ==
  ASSUME NEW s, NEW out, UNCHANGED <<def, params>>, DOMAIN outputs \subseteq DOMAIN outputs',
         \A x \in DOMAIN outputs : outputs'[x] = outputs[x], Fits(s, out)
  PROVE  Fits(s, out)'
<1>1. Step(s)' = Step(s) /\ UpstreamOf(def, s)' = UpstreamOf(def, s)
  BY DEF Step
<1>2. Supported(s) => Supported(s)'
  BY <1>1 DEF Supported
<1>3. Refuses(Step(s))' <=> Refuses(Step(s))
  BY <1>1 DEF Refuses, Rendered, Token
<1>4. Unchecked(Step(s))' = Unchecked(Step(s))
  BY <1>1 DEF Unchecked, Checked
<1> QED
  BY <1>1, <1>2, <1>3, <1>4 DEF Fits

\* A batch is over, and what depends on its failures is skipped.
LEMMA CollectKeeps ==
  ASSUME IInv, Collect
  PROVE  IInv'
<1> DEFINE broken == {s \in DOMAIN results : results[s].status = "failed" /\ ~Step(s).optional}
           below  == Below(broken) \ DOMAIN results
<1>1. /\ phase = "running" /\ DOMAIN active = {}
      /\ outputs' = With(With(outputs, results), [s \in below |-> Skipped({"dependency"})])
      /\ pending' = pending \ (DOMAIN results \cup below)
      /\ phase' = IF broken # {} THEN "failed" ELSE IF pending' = {} THEN "complete" ELSE "running"
      /\ results' = <<>>
      /\ UNCHANGED <<def, params, active, landed, faults>>
  BY DEF Collect
<1>2. below \subseteq pending /\ (broken = {} => below = {})
  <2>1. IsFiniteSet(pending)
    BY IdsFinite, FS_Subset DEF IInv, RunsAccepted, StepsAccounted
  <2> HIDE DEF broken
  <2> QED
    BY <2>1, BelowPending
<1> HIDE DEF broken, below
<1>3. DOMAIN results \cap DOMAIN outputs = {}
  BY DEF IInv, BatchIsPending
<1>4. /\ DOMAIN outputs' = DOMAIN outputs \cup DOMAIN results \cup below
      /\ \A x \in DOMAIN outputs : outputs'[x] = outputs[x]
      /\ \A x \in DOMAIN results : outputs'[x] = results[x]
      /\ \A x \in below : x \notin DOMAIN outputs /\ x \notin DOMAIN results => outputs'[x] = Skipped({"dependency"})
  BY <1>1, <1>3 DEF With
<1>5. RunsAccepted'
  BY <1>1 DEF IInv, RunsAccepted
<1>6. StepsAccounted'
  <2>1. Ids(def)' = Ids(def)
    BY <1>1
  <2> QED
    BY <1>1, <1>2, <1>4, <2>1 DEF IInv, StepsAccounted, BatchIsPending
<1>7. BatchIsPending'
  <2>1. DOMAIN results' = {} /\ DOMAIN active' = {}
    BY <1>1
  <2>2. pending' \cap DOMAIN outputs' = {}
    BY <1>1, <1>4 DEF IInv, BatchIsPending
  <2>3. ASSUME phase' = "running", NEW s \in DOMAIN outputs' PROVE Step(s)'.dependsOn \subseteq DOMAIN outputs'
    <3>1. below = {}
      BY <1>1, <1>2, <2>3
    <3>2. s \in DOMAIN outputs \cup DOMAIN results /\ Step(s)' = Step(s)
      BY <1>1, <1>4, <3>1 DEF Step
    <3>3. Step(s).dependsOn \subseteq DOMAIN outputs
      BY <1>1, <3>2 DEF IInv, BatchIsPending
    <3> QED
      BY <1>4, <3>2, <3>3
  <2> QED
    BY <2>1, <2>2, <2>3 DEF BatchIsPending
<1>8. CopiesCovered'
  <2>1. DOMAIN faults' \subseteq DOMAIN active' \cup DOMAIN results' \cup DOMAIN outputs'
    BY <1>1, <1>4 DEF IInv, CopiesCovered
  <2> QED
    BY <1>1, <2>1 DEF IInv, CopiesCovered
<1>9. OutcomesFit'
  <2>1. ASSUME NEW s, NEW out, Fits(s, out), Reports(s, out) PROVE Fits(s, out)' /\ Reports(s, out)'
    <3>1. Fits(s, out)'
      BY <1>1, <1>4, <2>1, FitsGrows
    <3>2. Step(s)' = Step(s) /\ There(s)' = There(s)
      BY <1>1 DEF Step, There
    <3> QED
      BY <1>1, <2>1, <3>1, <3>2 DEF Reports
  <2>2. ASSUME NEW x \in DOMAIN outputs' PROVE (Fits(x, outputs[x]) /\ Reports(x, outputs[x]))'
    <3>1. CASE x \in DOMAIN outputs
      <4>1. PICK o : o = outputs[x]
        OBVIOUS
      <4>2. outputs'[x] = o /\ Fits(x, o) /\ Reports(x, o)
        BY <1>4, <3>1, <4>1 DEF IInv, OutcomesFit
      <4>3. Fits(x, o)' /\ Reports(x, o)'
        BY <2>1, <4>2
      <4> QED
        BY <4>2, <4>3 DEF Fits, Reports
    <3>2. CASE x \in DOMAIN results
      <4>1. PICK o : o = results[x]
        OBVIOUS
      <4>2. outputs'[x] = o /\ Fits(x, o) /\ Reports(x, o)
        BY <1>4, <3>2, <4>1 DEF IInv, OutcomesFit
      <4>3. Fits(x, o)' /\ Reports(x, o)'
        BY <2>1, <4>2
      <4> QED
        BY <4>2, <4>3 DEF Fits, Reports
    <3>3. CASE x \notin DOMAIN outputs /\ x \notin DOMAIN results
      <4>1. PICK o : o = Skipped({"dependency"})
        OBVIOUS
      <4>2. o.status = "skipped" /\ o.why = {"dependency"}
        BY <4>1, FailedIs
      <4>3. outputs'[x] = o
        BY <1>4, <3>3, <4>1
      <4>4. Fits(x, o) /\ Reports(x, o)
        BY <4>2 DEF Fits, Reports
      <4>5. Fits(x, o)' /\ Reports(x, o)'
        BY <2>1, <4>4
      <4> QED
        BY <4>3, <4>5 DEF Fits, Reports
    <3> QED
      BY <3>1, <3>2, <3>3
  <2>3. DOMAIN results' = {} /\ DOMAIN active' = {}
    BY <1>1
  <2> QED
    BY <2>2, <2>3 DEF OutcomesFit
<1> QED
  BY <1>5, <1>6, <1>7, <1>8, <1>9 DEF IInv

\* Nothing happens.
LEMMA StutterKeeps ==
  ASSUME IInv, UNCHANGED vars
  PROVE  IInv'
<1>1. UNCHANGED <<def, params, phase, pending, outputs, results, active, landed, faults>>
  BY DEF vars
<1>2. RunsAccepted' /\ StepsAccounted'
  BY <1>1 DEF IInv, RunsAccepted, StepsAccounted
<1>3. BatchIsPending' /\ CopiesCovered'
  BY <1>1 DEF IInv, BatchIsPending, CopiesCovered, Step
<1>4. OutcomesFit'
  <2>1. ASSUME NEW s, NEW out, Fits(s, out), Reports(s, out) PROVE Fits(s, out)' /\ Reports(s, out)'
    <3>1. Fits(s, out)'
      BY <1>1, <2>1, FitsGrows
    <3>2. Step(s)' = Step(s) /\ There(s)' = There(s)
      BY <1>1 DEF Step, There
    <3> QED
      BY <1>1, <2>1, <3>1, <3>2 DEF Reports
  <2>2. ASSUME NEW x \in DOMAIN outputs PROVE Fits(x, outputs[x])' /\ Reports(x, outputs[x])'
    <3>1. PICK o : o = outputs[x]
      OBVIOUS
    <3>2. outputs'[x] = o /\ Fits(x, o) /\ Reports(x, o)
      BY <1>1, <3>1 DEF IInv, OutcomesFit
    <3>3. Fits(x, o)' /\ Reports(x, o)'
      BY <2>1, <3>2
    <3> QED
      BY <3>2, <3>3 DEF Fits, Reports
  <2>3. ASSUME NEW x \in DOMAIN results PROVE Fits(x, results[x])' /\ Reports(x, results[x])'
    <3>1. PICK o : o = results[x]
      OBVIOUS
    <3>2. results'[x] = o /\ Fits(x, o) /\ Reports(x, o)
      BY <1>1, <3>1 DEF IInv, OutcomesFit
    <3>3. Fits(x, o)' /\ Reports(x, o)'
      BY <2>1, <3>2
    <3> QED
      BY <3>2, <3>3 DEF Fits, Reports
  <2>4. ASSUME NEW x \in DOMAIN active PROVE Supported(x)'
    <3>1. Supported(x) /\ Frame
      BY <1>1 DEF IInv, OutcomesFit, Frame
    <3> QED
      BY <3>1, FitsStays
  <2> QED
    BY <1>1, <2>2, <2>3, <2>4 DEF OutcomesFit
<1> QED
  BY <1>2, <1>3, <1>4 DEF IInv

\* The invariant holds in every reachable state, whatever the definitions, the
\* requests and the credentials are, and however many answers are lost.
THEOREM InvariantHolds == Spec => []IInv
<1>1. Init => IInv
  BY InitHolds
<1>2. IInv /\ [Next]_vars => IInv'
  <2> SUFFICES ASSUME IInv, [Next]_vars PROVE IInv'
    OBVIOUS
  <2>1. CASE Create
    BY <2>1, CreateKeeps
  <2>2. CASE StartBatch
    BY <2>2, StartBatchKeeps
  <2>3. ASSUME NEW s, RunAgent(s) \/ Refuse(s) \/ CallOnce(s) \/ InlineReview(s) PROVE IInv'
    BY <2>3, RunAgentKeeps, RefuseKeeps, CallOnceKeeps, InlineReviewKeeps
  <2>4. CASE Collect
    BY <2>4, CollectKeeps
  <2>5. CASE UNCHANGED vars
    BY <2>5, StutterKeeps
  <2> QED
    BY <2>1, <2>2, <2>3, <2>4, <2>5 DEF Next, Execute, Rest
<1> QED
  BY <1>1, <1>2, PTL DEF Spec

-----------------------------------------------------------------------------
(* The contracts of the actions.                                           *)

\* The actions, one by one.
LEMMA TypesAre ==
  ActionTypes = {"slack_notify", "github_pr_review", "github_label", "github_comment", "create_pr",
                 "github_fetch_pr", "github_pr_review_inline", "github_update_comment"}
BY DEF ActionTypes, Contracts

\* What an action returns is in its contract, with all its contract promises.
LEMMA ResultDeclared ==
  ASSUME NEW type \in ActionTypes, NEW silent \in BOOLEAN
  PROVE  /\ \A k \in Result(type, silent) : Declares(type, k)
         /\ Contracts[type].out.always \subseteq Result(type, silent)
<1>1. CASE type = "slack_notify"
  BY <1>1 DEF Result, Declares, Contracts, Outputs
<1>2. CASE type = "github_pr_review"
  BY <1>2 DEF Result, Declares, Contracts, Outputs
<1>3. CASE type = "github_label"
  BY <1>3 DEF Result, Declares, Contracts, Outputs
<1>4. CASE type = "github_comment"
  BY <1>4 DEF Result, Declares, Contracts, Outputs
<1>5. CASE type = "create_pr"
  BY <1>5 DEF Result, Declares, Contracts, Outputs
<1>6. CASE type = "github_fetch_pr"
  BY <1>6 DEF Result, Declares, Contracts, Outputs
<1>7. CASE type = "github_pr_review_inline"
  BY <1>7 DEF Result, Declares, Contracts, Outputs
<1>8. CASE type = "github_update_comment"
  BY <1>8 DEF Result, Declares, Contracts, Outputs
<1> QED
  BY <1>1, <1>2, <1>3, <1>4, <1>5, <1>6, <1>7, <1>8, TypesAre

\* What an action refuses to work without is required, of the type it reads.
LEMMA DemandsRequired ==
  ASSUME NEW type \in ActionTypes
  PROVE  /\ \A k \in Demands[type].text : <<k, "string">> \in Contracts[type].in.required
         /\ \A k \in Demands[type].int : <<k, "int">> \in Contracts[type].in.required
         /\ \A k \in Demands[type].list : <<k, "array">> \in Contracts[type].in.required
<1>1. CASE type = "slack_notify"
  BY <1>1 DEF Demands, Contracts, Inputs
<1>2. CASE type = "github_pr_review"
  BY <1>2 DEF Demands, Contracts, Inputs
<1>3. CASE type = "github_label"
  BY <1>3 DEF Demands, Contracts, Inputs
<1>4. CASE type = "github_comment"
  BY <1>4 DEF Demands, Contracts, Inputs
<1>5. CASE type = "create_pr"
  BY <1>5 DEF Demands, Contracts, Inputs
<1>6. CASE type = "github_fetch_pr"
  BY <1>6 DEF Demands, Contracts, Inputs
<1>7. CASE type = "github_pr_review_inline"
  BY <1>7 DEF Demands, Contracts, Inputs
<1>8. CASE type = "github_update_comment"
  BY <1>8 DEF Demands, Contracts, Inputs
<1> QED
  BY <1>1, <1>2, <1>3, <1>4, <1>5, <1>6, <1>7, <1>8, TypesAre

\* A required key of an accepted configuration is there, with a value of its
\* type or a template.
LEMMA RequiredGiven ==
  ASSUME NEW type, NEW kinds, ConfigErrors(type, kinds) = {}, NEW k, NEW ty,
         <<k, ty>> \in Contracts[type].in.required
  PROVE  k \in DOMAIN kinds /\ (kinds[k] = "template" \/ FieldTypeOK(ty, kinds[k]))
<1> DEFINE f == <<k, ty>>
<1>1. f \in Known(type) /\ f[1] = k /\ f[2] = ty
  BY DEF Known
<1>2. {<<"required config key is missing", g[1]>> :
         g \in {g \in Contracts[type].in.required : g[1] \notin DOMAIN kinds}} = {}
  BY DEF ConfigErrors
<1>3. k \in DOMAIN kinds
  BY <1>1, <1>2
<1>4. {<<"config key of wrong type", g[1]>> :
         g \in {g \in Known(type) : /\ g[1] \in DOMAIN kinds
                                    /\ kinds[g[1]] # "template"
                                    /\ ~FieldTypeOK(g[2], kinds[g[1]])}} = {}
  BY DEF ConfigErrors
<1>5. kinds[k] = "template" \/ FieldTypeOK(ty, kinds[k])
  BY <1>1, <1>3, <1>4
<1> QED
  BY <1>3, <1>5

\* An action that was accepted is one of them, and its config has no error.
LEMMA AcceptedAction ==
  ASSUME NEW d \in Definitions, ActionErrors(d) = {}, NEW id \in Ids(d), StepOf(d, id).action.on
  PROVE  LET a == StepOf(d, id).action IN
         a.type \in ActionTypes /\ ConfigErrors(a.type, ConfigKinds(a.config)) = {}
<1>1. PICK i \in Positions(d) : StepOf(d, id) = d.steps[i]
  BY StepWithId
<1> DEFINE Errs(step) ==
             IF step.action.type \notin ActionTypes THEN {Err(step.id, "action.type", "unknown")}
             ELSE {Err(step.id, "action.config", e) : e \in ConfigErrors(step.action.type, ConfigKinds(step.action.config))}
<1>2. ActionErrors(d) = UNION {Errs(d.steps[j]) : j \in {j \in Positions(d) : d.steps[j].action.on}}
  BY DEF ActionErrors
<1>3. Errs(d.steps[i]) = {}
  <2> HIDE DEF Errs
  <2> QED
    BY <1>1, <1>2
<1>4. d.steps[i].action.type \in ActionTypes
  BY <1>3
<1>5. ConfigErrors(d.steps[i].action.type, ConfigKinds(d.steps[i].action.config)) = {}
  BY <1>3, <1>4
<1> QED
  BY <1>1, <1>4, <1>5

\* A configuration that was accepted and has something in every field, none of
\* it a template, is enough for the action.
LEMMA AcceptedUsable ==
  ASSUME NEW step, step.action.type \in ActionTypes,
         ConfigErrors(step.action.type, ConfigKinds(step.action.config)) = {},
         \A k \in DOMAIN step.action.config :
           step.action.config[k].kind \notin {"template", "blank", "zero", "emptylist"}
  PROVE  ConfigUsable(step.action.type, Rendered(step))
<1> DEFINE config == step.action.config
           type == step.action.type
           kinds == ConfigKinds(config)
           shown == Rendered(step)
<1>1. DOMAIN kinds = DOMAIN config /\ \A k \in DOMAIN config : kinds[k] = config[k].kind
  BY DEF ConfigKinds
<1>2. DOMAIN shown = DOMAIN config /\ \A k \in DOMAIN config : shown[k] = config[k].kind
  BY DEF Rendered
<1>3. ASSUME NEW k, NEW ty, <<k, ty>> \in Contracts[type].in.required
      PROVE  k \in DOMAIN shown /\ FieldTypeOK(ty, shown[k]) /\ shown[k] \notin {"blank", "zero", "emptylist"}
  <2>1. k \in DOMAIN kinds /\ (kinds[k] = "template" \/ FieldTypeOK(ty, kinds[k]))
    BY <1>3, RequiredGiven
  <2> HIDE DEF kinds, shown
  <2> QED
    BY <1>1, <1>2, <2>1
<1> HIDE DEF shown, kinds
<1>4. \A k \in Demands[type].text : Given(shown, k, {"text", "number"})
  <2> SUFFICES ASSUME NEW k \in Demands[type].text PROVE Given(shown, k, {"text", "number"})
    OBVIOUS
  <2>1. k \in DOMAIN shown /\ FieldTypeOK("string", shown[k]) /\ shown[k] # "blank"
    BY <1>3, DemandsRequired
  <2> QED
    BY <2>1 DEF FieldTypeOK, Given
<1>5. \A k \in Demands[type].int : Given(shown, k, {"int", "number"})
  <2> SUFFICES ASSUME NEW k \in Demands[type].int PROVE Given(shown, k, {"int", "number"})
    OBVIOUS
  <2>1. k \in DOMAIN shown /\ FieldTypeOK("int", shown[k]) /\ shown[k] # "zero"
    BY <1>3, DemandsRequired
  <2> QED
    BY <2>1 DEF FieldTypeOK, Given
<1>6. \A k \in Demands[type].list : Given(shown, k, {"list", "text", "number"})
  <2> SUFFICES ASSUME NEW k \in Demands[type].list PROVE Given(shown, k, {"list", "text", "number"})
    OBVIOUS
  <2>1. k \in DOMAIN shown /\ FieldTypeOK("array", shown[k]) /\ shown[k] # "emptylist"
    BY <1>3, DemandsRequired
  <2> QED
    BY <2>1 DEF FieldTypeOK, Given
<1> QED
  BY <1>4, <1>5, <1>6 DEF ConfigUsable, shown

-----------------------------------------------------------------------------
(* What a reader wants to know.                                            *)

\* Kahn's algorithm in the validator reports a cycle exactly when a walk over
\* the dependencies comes back to where it started.
THEOREM CyclesAreFound == Spec => []CycleErrorIsExact
<1>1. IInv => CycleErrorIsExact
  BY KahnIsExact DEF IInv, RunsAccepted
<1> QED
  BY <1>1, InvariantHolds, PTL

\* The engine never finds pending steps of a definition that was accepted with
\* none of them ready: `DAG deadlock' is not reported.
THEOREM RunsNeverBlock == Spec => []AcceptedRunsNeverBlock
<1>1. IInv => AcceptedRunsNeverBlock
  BY DEF IInv, StepsAccounted, AcceptedRunsNeverBlock
<1> QED
  BY <1>1, InvariantHolds, PTL

\* A comment or message is at the service once more at most than answers were
\* lost or attempts cut off, however many attempts there are.
THEOREM DuplicatesAreCovered == Spec => []DuplicatesNeedAFault
<1>1. ASSUME IInv PROVE DuplicatesNeedAFault
  <2>1. ASSUME NEW x \in DOMAIN landed PROVE landed[x] <= 1 + faults[x[1]]
    <3>1. PICK s \in DOMAIN faults, a \in Annotations : x = <<s, a>>
      BY <1>1 DEF IInv, CopiesCovered
    <3>2. /\ landed[<<s, a>>] <= faults[s] + (IF s \in DOMAIN active THEN 0 ELSE 1)
          /\ landed[<<s, a>>] \in Nat /\ faults[s] \in Nat
      BY <1>1 DEF IInv, CopiesCovered
    <3>3. landed[<<s, a>>] <= 1 + faults[s]
      BY <3>2
    <3> QED
      BY <3>1, <3>3
  <2> QED
    BY <2>1 DEF DuplicatesNeedAFault
<1> QED
  BY <1>1, InvariantHolds, PTL

\* What an inline review reports: each comment once, no more posted than are
\* there, and exactly those when no answer was lost.
THEOREM ReviewsAreCounted == Spec => []ReviewReportsWhatLanded
<1>1. ASSUME IInv PROVE ReviewReportsWhatLanded
  BY <1>1 DEF IInv, OutcomesFit, Reports, There, ReviewReportsWhatLanded
<1> QED
  BY <1>1, InvariantHolds, PTL

\* What an action returns is what its contract declares, and what the contract
\* accepts is enough for the action, field by field of both files.
THEOREM ContractsAreKept == Spec => []ContractsMatchActions
<1>1. ASSUME IInv PROVE ContractsMatchActions
  <2>1. ASSUME NEW s \in DOMAIN outputs, Step(s).action.on
        PROVE  LET a == Step(s).action IN
               /\ outputs[s].status = "complete" =>
                    /\ outputs[s].keys \subseteq {k \in outputs[s].keys : Declares(a.type, k)}
                    /\ Contracts[a.type].out.always \subseteq outputs[s].keys
               /\ (/\ outputs[s].why = {"refused"}
                   /\ a.credentials \subseteq Stored
                   /\ NeedsToken(a.type) => Token(Step(s)))
                  => \E k \in DOMAIN a.config :
                       a.config[k].kind \in {"template", "blank", "zero", "emptylist"}
    <3> DEFINE a == Step(s).action
    <3>1. s \in Ids(def) /\ def \in Definitions /\ Fits(s, outputs[s])
      BY <1>1 DEF IInv, OutcomesFit, StepsAccounted, RunsAccepted
    <3>2. ActionErrors(def) = {}
      <4>1. phase \notin {"new", "rejected"}
        BY <1>1 DEF IInv, RunsAccepted
      <4> QED
        BY <1>1, <4>1 DEF IInv, RunsAccepted, ValidateWorkflow
    <3>3. a.type \in ActionTypes /\ ConfigErrors(a.type, ConfigKinds(a.config)) = {}
      BY <2>1, <3>1, <3>2, AcceptedAction DEF Step
    <3>4. ASSUME outputs[s].status = "complete"
          PROVE  /\ outputs[s].keys \subseteq {k \in outputs[s].keys : Declares(a.type, k)}
                 /\ Contracts[a.type].out.always \subseteq outputs[s].keys
      <4>1. PICK silent \in BOOLEAN : outputs[s].keys = Result(a.type, silent)
        BY <2>1, <3>1, <3>4 DEF Fits
      <4> QED
        BY <3>3, <4>1, ResultDeclared
    <3>5. ASSUME outputs[s].why = {"refused"}, a.credentials \subseteq Stored,
                 NeedsToken(a.type) => Token(Step(s))
          PROVE  \E k \in DOMAIN a.config : a.config[k].kind \in {"template", "blank", "zero", "emptylist"}
      <4>1. Refuses(Step(s))
        BY <2>1, <3>1, <3>5 DEF Fits
      <4>2. ~ConfigUsable(a.type, Rendered(Step(s)))
        BY <3>5, <4>1 DEF Refuses
      <4> QED
        BY <3>3, <4>2, AcceptedUsable
    <3> QED
      BY <3>4, <3>5
  <2> QED
    BY <2>1 DEF ContractsMatchActions
<1> QED
  BY <1>1, InvariantHolds, PTL

\* What a reference that was looked at refers to.
LEMMA CheckedRef ==
  ASSUME IInv, NEW s \in Ids(def), phase \notin {"new", "rejected"},
         NEW t \in Checked(Step(s)), NEW r \in t.refs
  PROVE  /\ r.root = "Params" => r.name \in DOMAIN def.parameters
         /\ r.root = "Steps" => r.name \in Ids(def) /\ r.name \in UpstreamOf(def, s)
<1>1. def \in Definitions /\ TemplateErrors(def) = {}
  BY DEF IInv, RunsAccepted, ValidateWorkflow
<1>2. t \in Templates(StepOf(def, s)) /\ Parses(t) /\ r.form = "field" /\ (r.root = "Steps" => r.field # "")
  BY DEF Checked, Step
<1>3. ParamRefs(t) \subseteq DOMAIN def.parameters /\ \A x \in StepRefs(t) : StepRefError(def, s, x) = "none"
  BY <1>1, <1>2, CheckedRefs
<1>4. ASSUME r.root = "Params" PROVE r.name \in DOMAIN def.parameters
  <2>1. r.name \in ParamRefs(t)
    BY <1>2, <1>4 DEF ParamRefs, RefsUnder
  <2> QED
    BY <1>3, <2>1
<1>5. ASSUME r.root = "Steps" PROVE r.name \in Ids(def) /\ r.name \in UpstreamOf(def, s)
  <2>1. r \in StepRefs(t)
    BY <1>2, <1>5 DEF StepRefs, RefsUnder
  <2>2. StepRefError(def, s, r) = "none"
    BY <1>3, <2>1
  <2> QED
    BY <2>2 DEF StepRefError
<1> QED
  BY <1>4, <1>5

\* A parameter that is declared is there unless it is optional, without default.
LEMMA ParameterGiven ==
  ASSUME IInv, phase \notin {"new", "rejected"}, NEW p \in DOMAIN def.parameters, p \notin DOMAIN params
  PROVE  ~def.parameters[p].required /\ def.parameters[p].default = "none"
<1>1. ParameterErrors(def, params) = {}
  BY DEF IInv, RunsAccepted, ValidateWorkflow
<1>2. ~def.parameters[p].required
  BY <1>1 DEF ParameterErrors
<1>3. PICK given \in Requests : params = WithDefaults(def, given)
  BY DEF IInv, RunsAccepted
<1>4. DOMAIN params = DOMAIN given \cup {q \in DOMAIN def.parameters \ DOMAIN given : def.parameters[q].default # "none"}
  BY <1>3 DEF WithDefaults
<1> QED
  BY <1>2, <1>4

\* When nothing on the way up is optional, a step that was executed comes after
\* successes only.
LEMMA AllSucceeded ==
  ASSUME IInv, NEW s \in DOMAIN outputs, outputs[s].status # "skipped",
         \A x \in UpstreamOf(def, s) \cup {s} : ~Step(x).optional
  PROVE  \A x \in UpstreamOf(def, s) : outputs[x].status = "complete"
<1> DEFINE U == {x \in DOMAIN outputs : outputs[x].status = "complete"}
<1>1. def \in Definitions /\ DOMAIN outputs \subseteq Ids(def)
  BY DEF IInv, RunsAccepted, StepsAccounted
<1>2. ASSUME NEW x \in DOMAIN outputs, outputs[x].status # "skipped", ~Step(x).optional
      PROVE  DependsOn(def, x) \subseteq U
  <2>1. Supported(x)
    BY <1>2 DEF IInv, OutcomesFit, Fits
  <2>2. DependsOn(def, x) = Step(x).dependsOn
    BY <1>1, StepWithId DEF Step
  <2> QED
    BY <1>2, <2>1, <2>2 DEF Supported
<1>3. DependsOn(def, s) \subseteq U
  BY <1>2
<1>4. ASSUME NEW x \in U \cap UpstreamOf(def, s) PROVE DependsOn(def, x) \subseteq U
  <2>1. "complete" # "skipped"
    OBVIOUS
  <2> QED
    BY <1>2, <2>1
<1>5. UpstreamOf(def, s) \subseteq U
  <2> HIDE DEF U
  <2> QED
    BY <1>1, <1>3, <1>4, UpstreamSteps
<1> QED
  BY <1>5

\* What a template that was looked at refers to is there when it is rendered.
THEOREM ReferencesAreThere == Spec => []ReferencesResolve
<1>1. ASSUME IInv PROVE ReferencesResolve
  <2>1. ASSUME NEW s \in DOMAIN outputs, outputs[s].status = "failed",
               NEW r \in UNION {t.refs : t \in Checked(Step(s))}
        PROVE  LET writer == Step(r.name).action
                   goesOn == \E x \in UpstreamOf(def, s) \cup {s} : Step(x).optional
               IN /\ r.root = "Params" =>
                       \/ r.name \in DOMAIN params
                       \/ ~def.parameters[r.name].required /\ def.parameters[r.name].default = "none"
                  /\ (/\ r.root = "Steps" /\ r.field = "Output" /\ writer.on
                      /\ r.key \in Contracts[writer.type].out.always \ outputs[r.name].keys)
                     => outputs[r.name].status # "complete" /\ goesOn
                  /\ "no step" \in outputs[s].why =>
                       \E t \in Unchecked(Step(s)) : \E x \in t.refs : x.root = "Steps"
    <3> DEFINE writer == Step(r.name).action
    <3>1. PICK t \in Checked(Step(s)) : r \in t.refs
      BY <2>1
    <3>2. phase \notin {"new", "rejected"}
      BY <1>1 DEF IInv, RunsAccepted
    <3>3. def \in Definitions /\ DOMAIN outputs \subseteq Ids(def) /\ ActionErrors(def) = {}
      BY <1>1, <3>2 DEF IInv, RunsAccepted, StepsAccounted, ValidateWorkflow
    <3>4. /\ r.root = "Params" => r.name \in DOMAIN def.parameters
          /\ r.root = "Steps" => r.name \in Ids(def) /\ r.name \in UpstreamOf(def, s)
      BY <1>1, <3>1, <3>2, <3>3, CheckedRef
    <3>5. Fits(s, outputs[s])
      BY <1>1 DEF IInv, OutcomesFit
    <3>6. ASSUME r.root = "Params", r.name \notin DOMAIN params
          PROVE  ~def.parameters[r.name].required /\ def.parameters[r.name].default = "none"
      BY <1>1, <3>2, <3>4, <3>6, ParameterGiven
    <3>7. ASSUME r.root = "Steps", writer.on, r.key \in Contracts[writer.type].out.always \ outputs[r.name].keys
          PROVE  /\ outputs[r.name].status # "complete"
                 /\ \E x \in UpstreamOf(def, s) \cup {s} : Step(x).optional
      <4>1. r.name \in DOMAIN outputs /\ r.name \in Ids(def) /\ r.name \in UpstreamOf(def, s)
        BY <2>1, <3>4, <3>5, <3>7 DEF Fits
      <4>2. Fits(r.name, outputs[r.name])
        BY <1>1, <4>1 DEF IInv, OutcomesFit
      <4>3. writer.type \in ActionTypes
        BY <3>3, <3>7, <4>1, AcceptedAction DEF Step
      <4>4. outputs[r.name].status # "complete"
        <5> SUFFICES ASSUME outputs[r.name].status = "complete" PROVE FALSE
          OBVIOUS
        <5>1. PICK silent \in BOOLEAN : outputs[r.name].keys = Result(writer.type, silent)
          BY <3>7, <4>2 DEF Fits
        <5>2. Contracts[writer.type].out.always \subseteq Result(writer.type, silent)
          BY <4>3, ResultDeclared
        <5> QED
          BY <3>7, <5>1, <5>2
      <4>5. "failed" # "skipped"
        OBVIOUS
      <4> QED
        BY <1>1, <2>1, <4>1, <4>4, <4>5, AllSucceeded
    <3> QED
      BY <2>1, <3>5, <3>6, <3>7 DEF Fits
  <2> QED
    BY <2>1 DEF ReferencesResolve
<1> QED
  BY <1>1, InvariantHolds, PTL

=============================================================================
