-------------------------- MODULE SandboxLife_proofs --------------------------
(***************************************************************************)
(* Theorems about SandboxLife, for every group, every set of profile       *)
(* bodies and every number of faults.  The first part is about profiles:   *)
(* what merging two bodies and scripting the result leaves for a key, by   *)
(* induction over the entries.  The second part shows that IInv holds.     *)
(***************************************************************************)
EXTENDS SandboxLife, FiniteSetTheorems, WellFoundedInduction, TLAPS

-----------------------------------------------------------------------------
(* Induction over numbers, and the function of a fold.                     *)

\* A nonempty set of natural numbers has a least one.
LEMMA LeastNumber ==
  ASSUME NEW T, T \subseteq Nat, T # {}
  PROVE  \E n \in T : \A m \in T : n <= m
<1>1. PICK k \in T : TRUE
  OBVIOUS
<1> DEFINE S == 0..k
           D == {0..m : m \in T \cap S}
<1>2. IsFiniteSet(S)
  BY <1>1, FS_Interval
<1>3. D \subseteq FiniteSubsetsOf(S) /\ D # {}
  <2>1. ASSUME NEW m \in T \cap S PROVE 0..m \in FiniteSubsetsOf(S)
    BY <1>1, <1>2, FS_Interval DEF FiniteSubsetsOf
  <2> QED
    BY <1>1, <2>1
<1>4. PICK x \in D : \A y \in D : ~ (<<y, x>> \in StrictSubsetOrdering(S))
  <2> HIDE DEF S, D
  <2> QED
    BY <1>3, WFMin, FS_StrictSubsetOrderingWellFounded
<1>5. PICK n \in T \cap S : x = 0..n
  BY <1>4
<1>6. ASSUME NEW m \in T, m < n PROVE FALSE
  <2>1. m \in S /\ 0..m \in D
    BY <1>1, <1>5, <1>6
  <2>2. 0..m \subseteq 0..n /\ 0..m # 0..n
    BY <1>1, <1>5, <1>6
  <2>3. 0..m \subseteq S /\ 0..n \subseteq S
    BY <2>1, <1>1, <1>5
  <2>4. <<0..m, 0..n>> \in StrictSubsetOrdering(S)
     BY <2>2, <2>3 DEF StrictSubsetOrdering
  <2> QED
    BY <1>4, <1>5, <2>1, <2>4
<1> QED
  BY <1>1, <1>5, <1>6

\* Induction up to a number, over the set of the numbers for which it holds.
LEMMA Induction ==
  ASSUME NEW n \in Nat, NEW S, 0 \in S, \A i \in 1..n : i - 1 \in S => i \in S
  PROVE  \A i \in 0..n : i \in S
<1> DEFINE T == (0..n) \ S
<1> SUFFICES ASSUME T # {} PROVE FALSE
  OBVIOUS
<1>1. PICK m \in T : \A k \in T : m <= k
  <2>1. T \subseteq Nat
    OBVIOUS
  <2> HIDE DEF T
  <2> QED
    BY <2>1, LeastNumber
<1>2. m \in 1..n /\ m - 1 \in S
  BY <1>1
<1> QED
  BY <1>1, <1>2

\* The maximum of a set of positions that holds the last.
LEMMA MaxOfPrefix ==
  ASSUME NEW i \in Nat, NEW s \in SUBSET (1..i), i \in s
  PROVE  Max(s) = i
<1>1. i \in s /\ \A y \in s : i >= y
  OBVIOUS
<1>2. \A x \in s : (\A y \in s : x >= y) => x = i
  BY <1>1
<1> QED
  BY <1>1, <1>2, Zenon DEF Max

\* The function a fold over a sequence of n elements is defined with: on every
\* set of positions the step with the last of them, on what the others give.
IsFold(g, n, X, base, F) ==
  /\ g \in [SUBSET (1..n) -> X]
  /\ \A s \in SUBSET (1..n) : g[s] = IF s = {} THEN base ELSE F[<<Max(s), g[s \ {Max(s)}]>>]

\* There is one.
LEMMA FoldExists ==
  ASSUME NEW n \in Nat, NEW X, NEW base \in X, NEW F \in [(1..n) \X X -> X]
  PROVE  \E g : IsFold(g, n, X, base, F)
<1> DEFINE Folds(g, m) == IsFold(g, m, X, base, F)
           S == {m \in 0..n : \E g : Folds(g, m)}
<1>1. 0 \in S
  <2>1. Folds([s \in SUBSET (1..0) |-> base], 0)
    BY DEF IsFold
  <2> HIDE DEF Folds
  <2> QED
    BY <2>1
<1>2. ASSUME NEW i \in 1..n, i - 1 \in S PROVE i \in S
  <2>1. PICK g : Folds(g, i - 1)
    BY <1>2
  <2> USE DEF IsFold
  <2> DEFINE h == [s \in SUBSET (1..i) |-> IF i \in s THEN F[<<i, g[s \ {i}]>>] ELSE g[s]]
  <2>2. ASSUME NEW s \in SUBSET (1..i), i \in s
        PROVE  /\ s \ {i} \in SUBSET (1..(i - 1)) /\ Max(s) = i /\ g[s \ {i}] \in X
               /\ h[s] = F[<<i, g[s \ {i}]>>] /\ h[s \ {i}] = g[s \ {i}] /\ h[s] \in X
    <3>1. s \ {i} \in SUBSET (1..(i - 1)) /\ s \ {i} \in SUBSET (1..i)
      BY <2>2
    <3>2. g[s \ {i}] \in X
      BY <2>1, <3>1
    <3>3. Max(s) = i
      BY <2>2, MaxOfPrefix
    <3>4. h[s] = F[<<i, g[s \ {i}]>>] /\ h[s \ {i}] = g[s \ {i}]
      BY <2>2, <3>1
    <3> QED
      BY <3>1, <3>2, <3>3, <3>4
  <2>3. ASSUME NEW s \in SUBSET (1..i), i \notin s
        PROVE  s \in SUBSET (1..(i - 1)) /\ h[s] = g[s] /\ h[s] \in X /\ s \ {Max(s)} \in SUBSET (1..(i - 1))
               /\ i \notin s \ {Max(s)} /\ h[s \ {Max(s)}] = g[s \ {Max(s)}]
    <3>1. s \in SUBSET (1..(i - 1))
      BY <2>3
    <3>2. s \ {Max(s)} \in SUBSET (1..(i - 1)) /\ s \ {Max(s)} \in SUBSET (1..i) /\ i \notin s \ {Max(s)}
      <4>1. \A y : s \ {y} \subseteq s
        OBVIOUS
      <4> QED
        BY <4>1, <3>1, <2>3
    <3> QED
    BY <2>1, <2>3, <3>1, <3>2
  <2>4. h \in [SUBSET (1..i) -> X]
    <3> HIDE DEF h
    <3>1. \A s \in SUBSET (1..i) : h[s] \in X
      BY <2>2, <2>3
    <3>2. h = [s \in SUBSET (1..i) |-> h[s]]
      BY DEF h
    <3> QED
    BY <3>1, <3>2
  <2>5. ASSUME NEW s \in SUBSET (1..i)
        PROVE  h[s] = IF s = {} THEN base ELSE F[<<Max(s), h[s \ {Max(s)}]>>]
    <3> HIDE DEF h
    <3>1. CASE i \in s
      BY <3>1, <2>2
    <3>2. CASE i \notin s
      <4>1. g[s] = IF s = {} THEN base ELSE F[<<Max(s), g[s \ {Max(s)}]>>]
        BY <2>1, <2>3, <3>2
      <4> QED
    BY <4>1, <2>3, <3>2
    <3> QED
    BY <3>1, <3>2
  <2>6. Folds(h, i)
    <3> HIDE DEF h
    <3> QED
    BY <2>4, <2>5
  <2> HIDE DEF h, Folds
  <2> QED
    BY <2>6
<1>3. n \in S
  <2> HIDE DEF S
  <2> QED
    BY <1>1, <1>2, Induction
<1> QED
  BY <1>3

\* A set of positions has a last one.
LEMMA LastPosition ==
  ASSUME NEW n \in Nat, NEW P, P \subseteq 1..n, P # {}
  PROVE  \E i \in P : \A j \in P : j <= i
<1> DEFINE T == {n - x : x \in P}
<1>1. T \subseteq Nat /\ T # {}
  <2>1. ASSUME NEW x \in P PROVE n - x \in Nat
    OBVIOUS
  <2> QED
    BY <2>1
<1>2. PICK d \in T : \A m \in T : d <= m
  <2> HIDE DEF T
  <2> QED
    BY <1>1, LeastNumber
<1>3. PICK i \in P : d = n - i
  BY <1>2
<1>4. ASSUME NEW j \in P PROVE j <= i
  <2>1. n - j \in T
    OBVIOUS
  <2>2. d <= n - j
    BY <1>2, <2>1
  <2> QED
    BY <1>3, <2>2
<1> QED
  BY <1>3, <1>4

\* which is its maximum.
LEMMA MaxIn ==
  ASSUME NEW n \in Nat, NEW s \in SUBSET (1..n), s # {}
  PROVE  Max(s) \in s /\ \A y \in s : y <= Max(s)
<1>1. PICK i \in s : \A j \in s : j <= i
  BY LastPosition
<1>2. \A j \in s : i >= j
  BY <1>1
<1>3. Max(s) \in s /\ \A y \in s : Max(s) >= y
  BY <1>2, Zenon DEF Max
<1> QED
  BY <1>3

-----------------------------------------------------------------------------
(* Bodies and their last versions.                                         *)

\* An entry that takes a place is in a body, the others where they were.
LEMMA OverrideType ==
  ASSUME NEW body \in Seq(Entries), NEW e \in Entries
  PROVE  LET same == {i \in DOMAIN body : body[i].key = e.key} IN
         /\ Override(body, e) \in Seq(Entries)
         /\ same = {} => Override(body, e) = Append(body, e)
         /\ same # {} => /\ Max(same) \in same /\ \A i \in same : i <= Max(same)
                         /\ Override(body, e) = [i \in 1..Len(body) |-> IF i = Max(same) THEN e ELSE body[i]]
<1> DEFINE same == {i \in DOMAIN body : body[i].key = e.key}
<1>1. CASE same = {}
  BY <1>1 DEF Override
<1>2. CASE same # {}
  <2>1. Override(body, e) = [body EXCEPT ![Max(same)] = e]
    BY <1>2 DEF Override
  <2>2. Override(body, e) = [i \in 1..Len(body) |-> IF i = Max(same) THEN e ELSE body[i]]
    <3> HIDE DEF same
    <3>1. body = [i \in 1..Len(body) |-> body[i]]
      OBVIOUS
    <3>2. \A f, n, l : f = [i \in 1..n |-> f[i]] => [f EXCEPT ![l] = e] = [i \in 1..n |-> IF i = l THEN e ELSE f[i]]
      OBVIOUS
    <3> QED
      BY <2>1, <3>1, <3>2, Zenon
  <2>3. Max(same) \in same /\ \A i \in same : i <= Max(same)
    <3>1. same \in SUBSET (1..Len(body)) /\ Len(body) \in Nat
      OBVIOUS
    <3> HIDE DEF same
    <3> QED
      BY <1>2, <3>1, MaxIn
  <2>4. [i \in 1..Len(body) |-> IF i = Max(same) THEN e ELSE body[i]] \in Seq(Entries)
    <3> HIDE DEF same
    <3> QED
    OBVIOUS
  <2> HIDE DEF same
  <2>5. same # {}
    BY <1>2
  <2> QED
    BY <2>2, <2>3, <2>4, <2>5 DEF same
<1> QED
  BY <1>1, <1>2

\* MergeProfiles overrides the baseline with one entry after the other.
LEMMA MergeSteps ==
  ASSUME NEW baseline \in Seq(Entries), NEW body \in Seq(Entries)
  PROVE  \E m \in [0..Len(body) -> Seq(Entries)] :
           /\ m[0] = baseline
           /\ \A i \in 1..Len(body) : m[i] = Override(m[i - 1], body[i])
           /\ MergeProfiles(baseline, body) = m[Len(body)]
<1> DEFINE n == Len(body)
           X == Seq(Entries)
           F == [p \in (1..n) \X X |-> Override(p[2], body[p[1]])]
           iter == CHOOSE it : it = [s \in SUBSET (DOMAIN body) |->
                               IF s = {} THEN baseline ELSE Override(it[s \ {Max(s)}], body[Max(s)])]
<1>1. n \in Nat /\ DOMAIN body = 1..n /\ \A i \in 1..n : body[i] \in Entries
  OBVIOUS
<1>2. MergeProfiles(baseline, body) = iter[DOMAIN body]
  BY DEF MergeProfiles, FoldLeft, MapThenFoldSet
<1>3. ASSUME NEW b \in X, NEW e \in Entries PROVE Override(b, e) \in X
  BY OverrideType
<1>4. F \in [(1..n) \X X -> X] /\ baseline \in X
  <2> HIDE DEF n
  <2>1. baseline \in X
    OBVIOUS
  <2> HIDE DEF X
  <2> QED
    BY <1>1, <1>3, <2>1
<1>5. PICK g : IsFold(g, n, X, baseline, F)
  <2> HIDE DEF n, F, X
  <2> QED
    BY <1>1, <1>4, FoldExists
<1>6. g \in [SUBSET (1..n) -> X]
      /\ \A s \in SUBSET (1..n) : g[s] = IF s = {} THEN baseline ELSE Override(g[s \ {Max(s)}], body[Max(s)])
  <2>1. g \in [SUBSET (1..n) -> X]
      /\ \A s \in SUBSET (1..n) : g[s] = IF s = {} THEN baseline ELSE F[<<Max(s), g[s \ {Max(s)}]>>]
    <3> HIDE DEF n, F, X
    <3> QED
      BY <1>5 DEF IsFold
  <2>2. ASSUME NEW s \in SUBSET (1..n), s # {} PROVE Max(s) \in 1..n /\ g[s \ {Max(s)}] \in X
    <3> HIDE DEF n, F, X
    <3>1. Max(s) \in s
      BY <1>1, <2>2, MaxIn
    <3> QED
      BY <2>1, <3>1
  <2>3. ASSUME NEW x \in 1..n, NEW y \in X PROVE F[<<x, y>>] = Override(y, body[x])
    <3> HIDE DEF n, X
    <3> QED
    OBVIOUS
  <2> HIDE DEF n, F, X
  <2> QED
    BY <2>1, <2>2, <2>3
<1>7. iter = [s \in SUBSET (DOMAIN body) |->
                IF s = {} THEN baseline ELSE Override(iter[s \ {Max(s)}], body[Max(s)])]
  <2>1. g = [s \in SUBSET (DOMAIN body) |->
                IF s = {} THEN baseline ELSE Override(g[s \ {Max(s)}], body[Max(s)])]
    <3> HIDE DEF n, F, X
    <3> QED
    BY <1>1, <1>6
  <2> QED
    BY <2>1, Zenon
<1> HIDE DEF iter, F
<1>8. \A s \in SUBSET (1..n) : iter[s] = IF s = {} THEN baseline ELSE Override(iter[s \ {Max(s)}], body[Max(s)])
  <2> HIDE DEF n
  <2> QED
    BY <1>1, <1>7
<1> DEFINE m == [i \in 0..n |-> iter[1..i]]
<1>9. m[0] = baseline
  <2>1. 1..0 = {} /\ {} \in SUBSET (1..n)
    OBVIOUS
  <2>2. 0 \in 0..n /\ m[0] = iter[1..0]
    BY <1>1
  <2> HIDE DEF m, n
  <2> QED
    BY <1>8, <2>1, <2>2
<1>10. ASSUME NEW i \in 1..n PROVE m[i] = Override(m[i - 1], body[i])
  <2>1. Max(1..i) = i /\ 1..i \in SUBSET (1..n) /\ 1..i # {} /\ (1..i) \ {i} = 1..(i - 1)
    <3> HIDE DEF n
    <3>1. i \in Nat /\ 1..i \in SUBSET (1..i) /\ i \in 1..i /\ 1..i \subseteq 1..n
      BY <1>1
    <3> QED
      <4>1. Max(1..i) = i
        BY <3>1, MaxOfPrefix
      <4>2. (1..i) \ {i} = 1..(i - 1)
        BY <3>1
      <4>3. 1..i \in SUBSET (1..n) /\ 1..i # {}
        BY <3>1
      <4> QED
        BY <4>1, <4>2, <4>3
  <2>2. m[i] = iter[1..i] /\ m[i - 1] = iter[1..(i - 1)]
    BY <1>1
  <2> HIDE DEF m, n
  <2> QED
    BY <1>8, <2>1, <2>2
<1>11. m \in [0..n -> X]
  <2> DEFINE S == {i \in 0..n : m[i] \in X}
  <2>1. 0 \in S
    <3> HIDE DEF m, n, X
    <3> QED
      BY <1>1, <1>4, <1>9
  <2>2. \A i \in 1..n : i - 1 \in S => i \in S
    <3> HIDE DEF m, n, X
    <3> QED
      BY <1>1, <1>3, <1>10
  <2>3. \A i \in 0..n : i \in S
    <3> HIDE DEF S, n
    <3> QED
      BY <1>1, <2>1, <2>2, Induction
  <2>4. \A i \in 0..n : m[i] \in X
    BY <2>3
  <2> HIDE DEF X, n
  <2> QED
    BY <2>4
<1>12. MergeProfiles(baseline, body) = m[n]
  BY <1>1, <1>2 DEF iter
<1> HIDE DEF m
<1> QED
  BY <1>9, <1>10, <1>11, <1>12

\* The version of a key that comes last in a body, without the position.
IsLast(body, k, v) ==
  \/ v = None /\ \A i \in DOMAIN body : body[i].key # k
  \/ \E i \in DOMAIN body : body[i].key = k /\ body[i].version = v /\ \A j \in DOMAIN body : body[j].key = k => j <= i

\* There is one
LEMMA LastExists ==
  ASSUME NEW body \in Seq(Entries), NEW k
  PROVE  IsLast(body, k, LastVersion(body, k))
<1> DEFINE mine == {i \in DOMAIN body : body[i].key = k}
<1>1. CASE mine = {}
  BY <1>1 DEF LastVersion, IsLast
<1>2. CASE mine # {}
  <2>1. LastVersion(body, k) = body[Max(mine)].version
    BY <1>2 DEF LastVersion
  <2>2. Max(mine) \in mine /\ \A i \in mine : i <= Max(mine)
    <3>1. mine \in SUBSET (1..Len(body)) /\ Len(body) \in Nat
      OBVIOUS
    <3> HIDE DEF mine
    <3> QED
      BY <1>2, <3>1, MaxIn
  <2>3. PICK i \in DOMAIN body : i = Max(mine)
    BY <2>2
  <2>4. body[i].key = k /\ body[i].version = LastVersion(body, k) /\ \A j \in DOMAIN body : body[j].key = k => j <= i
    BY <2>1, <2>2, <2>3
  <2> QED
    BY <2>4 DEF IsLast
<1> QED
  BY <1>1, <1>2

\* and no other.
LEMMA LastIsUnique ==
  ASSUME NEW body \in Seq(Entries), NEW k, NEW v, IsLast(body, k, v)
  PROVE  LastVersion(body, k) = v
<1>1. IsLast(body, k, LastVersion(body, k))
  BY LastExists
<1> QED
  BY <1>1 DEF IsLast

\* What comes last with a key is what was added last with it,
LEMMA LastAfterAppend ==
  ASSUME NEW body \in Seq(Entries), NEW e \in Entries, NEW k
  PROVE  LastVersion(Append(body, e), k) = IF e.key = k THEN e.version ELSE LastVersion(body, k)
<1> DEFINE v == IF e.key = k THEN e.version ELSE LastVersion(body, k)
<1>1. IsLast(body, k, LastVersion(body, k))
  BY LastExists
<1>2. IsLast(Append(body, e), k, v)
  BY <1>1, SMTT(30) DEF IsLast
<1>3. Append(body, e) \in Seq(Entries)
  OBVIOUS
<1> QED
  BY <1>2, <1>3, LastIsUnique

\* or took the last place with it.
LEMMA LastAfterOverride ==
  ASSUME NEW body \in Seq(Entries), NEW e \in Entries, NEW k
  PROVE  LastVersion(Override(body, e), k) = IF e.key = k THEN e.version ELSE LastVersion(body, k)
<1> DEFINE same == {i \in DOMAIN body : body[i].key = e.key}
           more == Override(body, e)
           v == IF e.key = k THEN e.version ELSE LastVersion(body, k)
<1>1. CASE same = {}
  <2>1. more = Append(body, e)
    BY <1>1, OverrideType
  <2> QED
    BY <2>1, LastAfterAppend
<1>2. CASE same # {}
  <2>1. IsLast(body, k, LastVersion(body, k))
    BY LastExists
  <2>2. PICK l \in DOMAIN body : /\ body[l].key = e.key /\ \A i \in DOMAIN body : body[i].key = e.key => i <= l
                                 /\ more = [i \in 1..Len(body) |-> IF i = l THEN e ELSE body[i]]
    BY <1>2, OverrideType
  <2>3. DOMAIN more = DOMAIN body /\ more[l] = e /\ \A i \in DOMAIN body : i # l => more[i] = body[i]
    BY <2>2
  <2>4. IsLast(more, k, v)
    <3> HIDE DEF more
    <3>1. CASE e.key = k
      BY <2>2, <2>3, <3>1 DEF IsLast
    <3>2. CASE e.key # k
      BY <2>1, <2>2, <2>3, <3>2 DEF IsLast
    <3> QED
      BY <3>1, <3>2
  <2>5. more \in Seq(Entries)
    BY OverrideType
  <2> QED
    BY <2>4, <2>5, LastIsUnique
<1> QED
  BY <1>1, <1>2

\* Of two bodies the second decides, when it has the key.
LEMMA LastOfConcat ==
  ASSUME NEW b \in Seq(Entries), NEW c \in Seq(Entries), NEW k
  PROVE  LastVersion(b \o c, k) = IF \E j \in DOMAIN c : c[j].key = k THEN LastVersion(c, k) ELSE LastVersion(b, k)
<1> DEFINE m == Len(b)
           n == Len(c)
           d == b \o c
           v == IF \E j \in DOMAIN c : c[j].key = k THEN LastVersion(c, k) ELSE LastVersion(b, k)
<1>1. /\ m \in Nat /\ n \in Nat /\ DOMAIN b = 1..m /\ DOMAIN c = 1..n /\ DOMAIN d = 1..(m + n)
      /\ \A i \in 1..m : d[i] = b[i]
      /\ \A i \in 1..n : d[m + i] = c[i]
      /\ d \in Seq(Entries)
  OBVIOUS
<1>2. IsLast(b, k, LastVersion(b, k)) /\ IsLast(c, k, LastVersion(c, k))
  BY LastExists
<1>3. \A i \in 1..(m + n) : i \in 1..m \/ (i - m \in 1..n /\ m + (i - m) = i)
  BY <1>1
<1>4. \A i \in 1..(m + n) : i \in 1..m \/ (i - m \in 1..n /\ d[i] = c[i - m])
  <2> HIDE DEF d, m, n
  <2> QED
    BY <1>1, <1>3
<1>5. IsLast(d, k, v)
  <2>1. CASE \E j \in DOMAIN c : c[j].key = k
    <3>1. PICK i \in 1..n : c[i].key = k /\ c[i].version = v /\ \A j \in 1..n : c[j].key = k => j <= i
      BY <1>1, <1>2, <2>1 DEF IsLast
    <3> HIDE DEF d, m, n, v
    <3>2. m + i \in DOMAIN d /\ d[m + i].key = k /\ d[m + i].version = v
      BY <1>1, <3>1
    <3>3. ASSUME NEW j \in DOMAIN d, d[j].key = k PROVE j <= m + i
      BY <1>1, <1>4, <3>1, <3>3
    <3> QED
      BY <3>2, <3>3 DEF IsLast
  <2>2. CASE ~ \E j \in DOMAIN c : c[j].key = k
    <3>1. IsLast(b, k, v)
      BY <1>2, <2>2
    <3> HIDE DEF d, m, n, v
    <3>2. \A j \in DOMAIN d : d[j].key = k => j \in 1..m
      BY <1>1, <1>4, <2>2
    <3>3. \A j \in 1..m : j \in DOMAIN d /\ d[j] = b[j]
      BY <1>1, SMTT(30)
    <3> QED
      BY <1>1, <3>1, <3>2, <3>3 DEF IsLast
  <2> QED
    BY <2>1, <2>2
<1> QED
  BY <1>1, <1>5, LastIsUnique

\* One entry of OfKind.
Chosen(kind, chosen, e) == IF e.kind = kind THEN Append(chosen, e) ELSE chosen

\* OfKind takes the entries one after the other.
LEMMA OfKindSteps ==
  ASSUME NEW body \in Seq(Entries), NEW kind
  PROVE  \E m \in [0..Len(body) -> Seq(Entries)] :
           /\ m[0] = <<>>
           /\ \A i \in 1..Len(body) : m[i] = Chosen(kind, m[i - 1], body[i])
           /\ OfKind(body, kind) = m[Len(body)]
<1> DEFINE n == Len(body)
           X == Seq(Entries)
           F == [p \in (1..n) \X X |-> Chosen(kind, p[2], body[p[1]])]
           iter == CHOOSE it : it = [s \in SUBSET (DOMAIN body) |->
                               IF s = {} THEN <<>> ELSE Chosen(kind, it[s \ {Max(s)}], body[Max(s)])]
<1>1. n \in Nat /\ DOMAIN body = 1..n /\ \A i \in 1..n : body[i] \in Entries
  OBVIOUS
<1>2. OfKind(body, kind) = iter[DOMAIN body]
  BY DEF OfKind, FoldLeft, MapThenFoldSet, Chosen
<1>3. ASSUME NEW b \in X, NEW e \in Entries PROVE Chosen(kind, b, e) \in X
  BY <1>3 DEF Chosen
<1>4. F \in [(1..n) \X X -> X] /\ <<>> \in X
  <2> HIDE DEF n
  <2>1. <<>> \in X
    OBVIOUS
  <2> HIDE DEF X
  <2> QED
    BY <1>1, <1>3, <2>1
<1>5. PICK g : IsFold(g, n, X, <<>>, F)
  <2> HIDE DEF n, F, X
  <2> QED
    BY <1>1, <1>4, FoldExists
<1>6. g \in [SUBSET (1..n) -> X]
      /\ \A s \in SUBSET (1..n) : g[s] = IF s = {} THEN <<>> ELSE Chosen(kind, g[s \ {Max(s)}], body[Max(s)])
  <2>1. g \in [SUBSET (1..n) -> X]
      /\ \A s \in SUBSET (1..n) : g[s] = IF s = {} THEN <<>> ELSE F[<<Max(s), g[s \ {Max(s)}]>>]
    <3> HIDE DEF n, F, X
    <3> QED
      BY <1>5 DEF IsFold
  <2>2. ASSUME NEW s \in SUBSET (1..n), s # {} PROVE Max(s) \in 1..n /\ g[s \ {Max(s)}] \in X
    <3> HIDE DEF n, F, X
    <3>1. Max(s) \in s
      BY <1>1, <2>2, MaxIn
    <3> QED
      BY <2>1, <3>1
  <2>3. ASSUME NEW x \in 1..n, NEW y \in X PROVE F[<<x, y>>] = Chosen(kind, y, body[x])
    <3> HIDE DEF n, X
    <3> QED
    OBVIOUS
  <2> HIDE DEF n, F, X
  <2> QED
    BY <2>1, <2>2, <2>3
<1>7. iter = [s \in SUBSET (DOMAIN body) |->
                IF s = {} THEN <<>> ELSE Chosen(kind, iter[s \ {Max(s)}], body[Max(s)])]
  <2>1. g = [s \in SUBSET (DOMAIN body) |->
                IF s = {} THEN <<>> ELSE Chosen(kind, g[s \ {Max(s)}], body[Max(s)])]
    <3> HIDE DEF n, F, X
    <3> QED
    BY <1>1, <1>6
  <2> QED
    BY <2>1, Zenon
<1> HIDE DEF iter, F
<1>8. \A s \in SUBSET (1..n) : iter[s] = IF s = {} THEN <<>> ELSE Chosen(kind, iter[s \ {Max(s)}], body[Max(s)])
  <2> HIDE DEF n
  <2> QED
    BY <1>1, <1>7
<1> DEFINE m == [i \in 0..n |-> iter[1..i]]
<1>9. m[0] = <<>>
  <2>1. 1..0 = {} /\ {} \in SUBSET (1..n)
    OBVIOUS
  <2>2. 0 \in 0..n /\ m[0] = iter[1..0]
    BY <1>1
  <2> HIDE DEF m, n
  <2> QED
    BY <1>8, <2>1, <2>2
<1>10. ASSUME NEW i \in 1..n PROVE m[i] = Chosen(kind, m[i - 1], body[i])
  <2>1. Max(1..i) = i /\ 1..i \in SUBSET (1..n) /\ 1..i # {} /\ (1..i) \ {i} = 1..(i - 1)
    <3> HIDE DEF n
    <3>1. i \in Nat /\ 1..i \in SUBSET (1..i) /\ i \in 1..i /\ 1..i \subseteq 1..n
      BY <1>1
    <3> QED
      <4>1. Max(1..i) = i
        BY <3>1, MaxOfPrefix
      <4>2. (1..i) \ {i} = 1..(i - 1)
        BY <3>1
      <4>3. 1..i \in SUBSET (1..n) /\ 1..i # {}
        BY <3>1
      <4> QED
        BY <4>1, <4>2, <4>3
  <2>2. m[i] = iter[1..i] /\ m[i - 1] = iter[1..(i - 1)]
    BY <1>1
  <2> HIDE DEF m, n
  <2> QED
    BY <1>8, <2>1, <2>2
<1>11. m \in [0..n -> X]
  <2> DEFINE S == {i \in 0..n : m[i] \in X}
  <2>1. 0 \in S
    <3> HIDE DEF m, n, X
    <3> QED
      BY <1>1, <1>4, <1>9
  <2>2. \A i \in 1..n : i - 1 \in S => i \in S
    <3> HIDE DEF m, n, X
    <3> QED
      BY <1>1, <1>3, <1>10
  <2>3. \A i \in 0..n : i \in S
    <3> HIDE DEF S, n
    <3> QED
      BY <1>1, <2>1, <2>2, Induction
  <2>4. \A i \in 0..n : m[i] \in X
    BY <2>3
  <2> HIDE DEF X, n
  <2> QED
    BY <2>4
<1>12. OfKind(body, kind) = m[n]
  BY <1>1, <1>2 DEF iter
<1> HIDE DEF m
<1> QED
  BY <1>9, <1>10, <1>11, <1>12

-----------------------------------------------------------------------------
(* What merging and scripting do to the last versions.                     *)

\* The first n entries of a body.
Prefix(body, n) == [i \in 1..n |-> body[i]]

\* A body is built up entry by entry.
LEMMA BuiltUp ==
  ASSUME NEW body \in Seq(Entries)
  PROVE  /\ Prefix(body, 0) = <<>> /\ Prefix(body, Len(body)) = body
         /\ \A i \in 0..Len(body) : Prefix(body, i) \in Seq(Entries)
         /\ \A i \in 1..Len(body) : body[i] \in Entries /\ Prefix(body, i) = Append(Prefix(body, i - 1), body[i])
<1>1. ASSUME NEW i \in 1..Len(body) PROVE Prefix(body, i) = Append(Prefix(body, i - 1), body[i])
  <2>1. i \in Nat /\ i - 1 \in Nat /\ body[i] \in Entries /\ \A j \in 1..i : body[j] \in Entries
    OBVIOUS
  <2>2. Prefix(body, i - 1) \in Seq(Entries) /\ Len(Prefix(body, i - 1)) = i - 1
    BY <2>1 DEF Prefix
  <2> QED
    BY <2>1, <2>2 DEF Prefix
<1> QED
  BY <1>1 DEF Prefix

\* An empty body has no versions.
LEMMA LastOfEmpty == \A k : LastVersion(<<>>, k) = None
  BY DEF LastVersion

\* The workflow's version of a key comes before the baseline's.
LEMMA MergedLast ==
  ASSUME NEW baseline \in Seq(Entries), NEW body \in Seq(Entries), NEW k
  PROVE  /\ MergeProfiles(baseline, body) \in Seq(Entries)
         /\ LastVersion(MergeProfiles(baseline, body), k) =
              IF LastVersion(body, k) # None THEN LastVersion(body, k) ELSE LastVersion(baseline, k)
<1> DEFINE n == Len(body)
<1>1. PICK m \in [0..n -> Seq(Entries)] :
           /\ m[0] = baseline
           /\ \A i \in 1..n : m[i] = Override(m[i - 1], body[i])
           /\ MergeProfiles(baseline, body) = m[n]
  BY MergeSteps
<1> DEFINE Latest(i) == LastVersion(Prefix(body, i), k)
           Good(i) == LastVersion(m[i], k) = IF Latest(i) # None THEN Latest(i) ELSE LastVersion(baseline, k)
           S == {i \in 0..n : Good(i)}
<1>2. n \in Nat
  OBVIOUS
<1>3. 0 \in S
  BY <1>1, <1>2, BuiltUp, LastOfEmpty
<1>4. ASSUME NEW i \in 1..n, i - 1 \in S PROVE i \in S
  <2>1. m[i - 1] \in Seq(Entries) /\ Prefix(body, i - 1) \in Seq(Entries) /\ body[i] \in Entries
        /\ Prefix(body, i) = Append(Prefix(body, i - 1), body[i])
    <3>1. i - 1 \in 0..n
      BY <1>4
    <3> QED
      BY <1>1, <3>1, BuiltUp
  <2>2. LastVersion(m[i], k) = IF body[i].key = k THEN body[i].version ELSE LastVersion(m[i - 1], k)
    BY <1>1, <2>1, LastAfterOverride
  <2>3. Latest(i) = IF body[i].key = k THEN body[i].version ELSE Latest(i - 1)
    BY <2>1, LastAfterAppend
  <2>4. body[i].version # None
    BY <2>1, BodiesAssumption
  <2>5. Good(i - 1)
    BY <1>4
  <2> HIDE DEF Latest
  <2> QED
    BY <2>2, <2>3, <2>4, <2>5
<1>5. \A i \in 0..n : i \in S
  <2> HIDE DEF S, n
  <2> QED
    BY <1>2, <1>3, <1>4, Induction
<1>6. Good(n)
  BY <1>2, <1>5
<1>7. Latest(n) = LastVersion(body, k) /\ m[n] \in Seq(Entries)
  <2>1. Prefix(body, n) = body
    BY BuiltUp
  <2>2. m[n] \in Seq(Entries)
    BY <1>1, <1>2
  <2> QED
    BY <2>1, <2>2
<1> HIDE DEF Latest, n
<1> QED
  BY <1>1, <1>6, <1>7

\* Is it the key of entries of this kind?
HasKind(k, kind) == \E e \in Entries : e.key = k /\ e.kind = kind

\* OfKind keeps all the entries of a key or none.
LEMMA OfKindLast ==
  ASSUME NEW body \in Seq(Entries), NEW k, NEW kind
  PROVE  /\ OfKind(body, kind) \in Seq(Entries)
         /\ LastVersion(OfKind(body, kind), k) = IF HasKind(k, kind) THEN LastVersion(body, k) ELSE None
<1> DEFINE n == Len(body)
<1>1. PICK m \in [0..n -> Seq(Entries)] :
           /\ m[0] = <<>>
           /\ \A i \in 1..n : m[i] = Chosen(kind, m[i - 1], body[i])
           /\ OfKind(body, kind) = m[n]
  BY OfKindSteps
<1> DEFINE Latest(i) == LastVersion(Prefix(body, i), k)
           Good(i) == LastVersion(m[i], k) = IF HasKind(k, kind) THEN Latest(i) ELSE None
           S == {i \in 0..n : Good(i)}
<1>2. n \in Nat
  OBVIOUS
<1>3. 0 \in S
  BY <1>1, <1>2, BuiltUp, LastOfEmpty
<1>4. ASSUME NEW i \in 1..n, i - 1 \in S PROVE i \in S
  <2>1. m[i - 1] \in Seq(Entries) /\ Prefix(body, i - 1) \in Seq(Entries) /\ body[i] \in Entries
        /\ Prefix(body, i) = Append(Prefix(body, i - 1), body[i])
    <3>1. i - 1 \in 0..n
      BY <1>4
    <3> QED
      BY <1>1, <3>1, BuiltUp
  <2>2. Latest(i) = IF body[i].key = k THEN body[i].version ELSE Latest(i - 1)
    BY <2>1, LastAfterAppend
  <2>3. Good(i - 1)
    BY <1>4
  <2>4. m[i] = IF body[i].kind = kind THEN Append(m[i - 1], body[i]) ELSE m[i - 1]
    BY <1>1 DEF Chosen
  <2>5. LastVersion(Append(m[i - 1], body[i]), k) = IF body[i].key = k THEN body[i].version ELSE LastVersion(m[i - 1], k)
    BY <2>1, LastAfterAppend
  <2>6. body[i].key = k => (HasKind(k, kind) <=> body[i].kind = kind)
    BY <2>1, BodiesAssumption DEF HasKind
  <2> HIDE DEF Latest
  <2> QED
    BY <2>2, <2>3, <2>4, <2>5, <2>6
<1>5. \A i \in 0..n : i \in S
  <2> HIDE DEF S, n
  <2> QED
    BY <1>2, <1>3, <1>4, Induction
<1>6. Good(n)
  BY <1>2, <1>5
<1>7. Latest(n) = LastVersion(body, k) /\ m[n] \in Seq(Entries)
  <2>1. Prefix(body, n) = body
    BY BuiltUp
  <2>2. m[n] \in Seq(Entries)
    BY <1>1, <1>2
  <2> QED
    BY <2>1, <2>2
<1> HIDE DEF Latest, n
<1> QED
  BY <1>1, <1>6, <1>7

\* A version that is not the last one of nothing is in the body.
LEMMA LastHasKey ==
  ASSUME NEW body \in Seq(Entries), NEW k
  PROVE  (\E j \in DOMAIN body : body[j].key = k) <=> LastVersion(body, k) # None
<1>1. IsLast(body, k, LastVersion(body, k))
  BY LastExists
<1>2. \A i \in DOMAIN body : body[i].version # None
  BY BodiesAssumption
<1> QED
  BY <1>1, <1>2 DEF IsLast

\* What the script installs last with a key is what comes last in the body.
LEMMA ScriptedLast ==
  ASSUME NEW body \in Seq(Entries), NEW k
  PROVE  /\ Scripted(body) \in Seq(Entries)
         /\ LastVersion(Scripted(body), k) =
              IF HasKind(k, "plugin") \/ HasKind(k, "mcp") THEN LastVersion(body, k) ELSE None
<1>1. /\ OfKind(body, "plugin") \in Seq(Entries) /\ OfKind(body, "mcp") \in Seq(Entries)
      /\ LastVersion(OfKind(body, "plugin"), k) = IF HasKind(k, "plugin") THEN LastVersion(body, k) ELSE None
      /\ LastVersion(OfKind(body, "mcp"), k) = IF HasKind(k, "mcp") THEN LastVersion(body, k) ELSE None
  BY OfKindLast
<1>2. LastVersion(Scripted(body), k) = IF LastVersion(OfKind(body, "mcp"), k) # None THEN LastVersion(OfKind(body, "mcp"), k)
                                      ELSE LastVersion(OfKind(body, "plugin"), k)
  BY <1>1, LastOfConcat, LastHasKey DEF Scripted
<1>3. Scripted(body) \in Seq(Entries)
  BY <1>1 DEF Scripted
<1> QED
  BY <1>1, <1>2, <1>3

\* So the script of a merged profile installs the workflow's version of a key,
\* or else the baseline's.
LEMMA MergedScriptLast ==
  ASSUME NEW baseline \in Seq(Entries), NEW named \in Seq(Entries), NEW k
  PROVE  LastVersion(Scripted(MergeProfiles(baseline, named)), k) =
           IF LastVersion(Scripted(named), k) # None THEN LastVersion(Scripted(named), k)
                                                     ELSE LastVersion(Scripted(baseline), k)
  BY MergedLast, ScriptedLast

\* A profile that names nothing is the baseline.
LEMMA MergeOfNone ==
  ASSUME NEW baseline \in Seq(Entries)
  PROVE  MergeProfiles(baseline, <<>>) = baseline
<1>1. <<>> \in Seq(Entries) /\ Len(<<>>) = 0
  OBVIOUS
<1>2. PICK m \in [0..Len(<<>>) -> Seq(Entries)] : m[0] = baseline /\ MergeProfiles(baseline, <<>>) = m[Len(<<>>)]
  <2> HIDE <1>1
  <2>1. \A b \in Seq(Entries) : \E m \in [0..Len(b) -> Seq(Entries)] : m[0] = baseline /\ MergeProfiles(baseline, b) = m[Len(b)]
    BY MergeSteps
  <2> QED
    BY <1>1, <2>1
<1> QED
  BY <1>1, <1>2

-----------------------------------------------------------------------------
(* What steps have in common.                                              *)

\* A step has a fault or has none, and they are counted.
LEMMA FaultsCount ==
  ASSUME faults \in Nat, Fault \/ NoFault
  PROVE  faults' \in Nat /\ faults' >= faults /\ (Fault => faults' = faults + 1)
  BY DEF Fault, NoFault

\* One more container, or none, is forgotten by one more.
LEMMA OneMore ==
  ASSUME NEW S \in SUBSET (1..MaxProvisions), NEW T \in SUBSET (1..MaxProvisions), NEW x, S \subseteq T \cup {x}
  PROVE  /\ Cardinality(S) \in Nat /\ Cardinality(T) \in Nat
         /\ Cardinality(S) <= Cardinality(T) + 1
         /\ S \subseteq T => Cardinality(S) <= Cardinality(T)
<1>1. IsFiniteSet(1..MaxProvisions)
  <2>1. 1 \in Int /\ MaxProvisions \in Int
    BY DEF MaxProvisions
  <2> QED
    BY <2>1, FS_Interval
<1>2. IsFiniteSet(T) /\ IsFiniteSet(S)
  BY <1>1, FS_Subset
<1>3. IsFiniteSet(T \cup {x}) /\ Cardinality(T \cup {x}) = IF x \in T THEN Cardinality(T) ELSE Cardinality(T) + 1
  BY <1>2, FS_AddElement
<1>4. Cardinality(S) \in Nat /\ Cardinality(T) \in Nat /\ Cardinality(S) <= Cardinality(T \cup {x})
  BY <1>2, <1>3, FS_Subset, FS_CardinalityType
<1>5. S \subseteq T => Cardinality(S) <= Cardinality(T)
  BY <1>2, FS_Subset
<1> QED
  BY <1>3, <1>4, <1>5

\* Parts of the invariant stay while the variables they speak of do: those of
\* the steps,
LEMMA StepsStay ==
  ASSUME StepsTakeTurns, WorkInOrder, PullRequestHoldsTheWork,
         UNCHANGED <<step, work, tree, evalDir>>, faults \in Nat, faults' \in Nat, faults' >= faults
  PROVE  StepsTakeTurns' /\ WorkInOrder' /\ PullRequestHoldsTheWork'
<1>1. StepsTakeTurns'
  BY DEF StepsTakeTurns, Over
<1>2. WorkInOrder' /\ PullRequestHoldsTheWork'
  <2>1. ASSUME NEW s \in Steps PROVE CloneInOrder(s)' /\ InOrder(s)' /\ HoldsTheWork(s)'
    <3>1. CloneInOrder(s) /\ InOrder(s) /\ HoldsTheWork(s)
      BY DEF WorkInOrder, PullRequestHoldsTheWork
    <3>2. UNCHANGED Tree(s)
      BY DEF Tree
    <3>3. CloneInOrder(s)'
      BY <3>1, <3>2 DEF CloneInOrder, NoClone, Cloned
    <3>4. InOrder(s)'
      BY <3>1, <3>2 DEF InOrder
    <3>5. HoldsTheWork(s)'
      BY <3>1, <3>2 DEF HoldsTheWork
    <3> QED
      BY <3>3, <3>4, <3>5
  <2> QED
    BY <2>1 DEF WorkInOrder, PullRequestHoldsTheWork
<1> QED
  BY <1>1, <1>2

\* what is installed,
LEMMA InstalledStays ==
  ASSUME InstalledFollowsProfile, UNCHANGED <<step, installed, profile>>,
         faults \in Nat, faults' \in Nat, faults' >= faults
  PROVE  InstalledFollowsProfile'
<1>1. faults' = 0 => faults = 0
  OBVIOUS
<1> QED
  BY <1>1 DEF InstalledFollowsProfile

\* the profile,
LEMMA ProfileStays ==
  ASSUME ProfileIsMerged, UNCHANGED <<profile, step, installed>>,
         prov'.pc \in {"baseline", "profile"} => prov.pc \in {"baseline", "profile"},
         prov'.pc \notin {"baseline", "profile", "failed"} => prov.pc \notin {"baseline", "profile", "failed"},
         Begun => prov'.pc \in {"ready", "closing", "closed"}
  PROVE  ProfileIsMerged'
  BY DEF ProfileIsMerged, Begun

\* and the sandbox.
LEMMA SandboxStays ==
  ASSUME HoldersHold, NoContainerIsForgotten, StagesInOrder, live \in SUBSET (1..MaxProvisions),
         UNCHANGED <<prov, live, has>>, faults \in Nat, faults' \in Nat, faults' >= faults
  PROVE  HoldersHold' /\ NoContainerIsForgotten' /\ StagesInOrder'
<1>1. HoldersHold' /\ StagesInOrder'
  BY DEF HoldersHold, StagesInOrder, Prepared
<1>2. Cardinality(live \ {prov.box}) \in Nat
  BY OneMore
<1>3. NoContainerIsForgotten'
  BY <1>2 DEF NoContainerIsForgotten
<1> QED
  BY <1>1, <1>3

-----------------------------------------------------------------------------
(* The initial states.                                                     *)

\* The invariant holds at the beginning.
LEMMA InitIInv == Init => IInv
<1> SUFFICES ASSUME Init PROVE IInv
  OBVIOUS
<1> USE DEF Init
<1>1. TypeOK
  <2>1. table \in [{"team", "system"} \X {"baseline", "named"} -> Rows] /\ edits \in Nat /\ faults \in Nat
    OBVIOUS
  <2>2. profile \in Profiles
    BY DEF Profiles
  <2>3. prov \in ProvStates
    BY DEF MaxProvisions, ProvStates
  <2>4. live \in SUBSET (1..MaxProvisions) /\ has \in SUBSET Range(Stages)
        /\ installed \in [Keys -> {e.version : e \in Entries} \cup {None}] /\ evalDir \in Steps \cup {None}
    OBVIOUS
  <2>5. step \in [Steps -> StepStates] /\ work \in [Steps -> WorkStates]
    BY DEF StepStates, WorkStates
  <2>6. tree \in [Range(Repository) -> TreeStates]
    BY DEF TreeStates, NoClone
  <2> QED
    BY <2>1, <2>2, <2>3, <2>4, <2>5, <2>6 DEF TypeOK
<1>2. NoContainerIsForgotten
  BY FS_EmptySet DEF NoContainerIsForgotten
<1>3. HoldersHold /\ StagesInOrder /\ ProfileIsMerged
  BY DEF HoldersHold, StagesInOrder, ProfileIsMerged, Begun
<1>4. InstalledFollowsProfile
  BY DEF InstalledFollowsProfile
<1>6. StepsTakeTurns
  BY OrderAssumption DEF StepsTakeTurns, Steps, Range
<1>7. WorkInOrder /\ PullRequestHoldsTheWork
  <2>1. ASSUME NEW s \in Steps PROVE Tree(s) = NoClone /\ s # None
    BY OrderAssumption DEF Tree, Steps, Range
  <2>2. ASSUME NEW s \in Steps PROVE CloneInOrder(s) /\ InOrder(s) /\ HoldsTheWork(s)
    <3>1. NoClone.by = None /\ NoClone.dirty = {} /\ NoClone.commits = {}
      BY DEF NoClone
    <3>2. /\ step[s].pc = "wait" /\ work[s].end = "none" /\ work[s].pushed = {}
          /\ ~work[s].pr /\ ~work[s].url
      OBVIOUS
    <3> QED
      BY <2>1, <3>1, <3>2 DEF CloneInOrder, InOrder, HoldsTheWork
  <2> QED
    BY <2>1, <2>2 DEF WorkInOrder, PullRequestHoldsTheWork
<1> QED
  BY <1>1, <1>2, <1>3, <1>4, <1>6, <1>7 DEF IInv

-----------------------------------------------------------------------------
(* The profile.                                                            *)

\* What is looked up is a body or nothing.
LEMMA LookupType ==
  ASSUME TypeOK, NEW name \in {"baseline", "named"}
  PROVE  BodyOf(Lookup(name)) \in Seq(Entries) /\ (Lookup(name) = {} => BodyOf(Lookup(name)) = <<>>)
<1>1. Lookup(name) \in Rows
  BY DEF TypeOK, Lookup
<1>2. \A body \in Bodies : body \in Seq(Entries)
  <2> SUFFICES ASSUME NEW body \in Bodies PROVE body \in Seq(Entries)
    OBVIOUS
  <2>1. body \in Seq(Range(body))
    BY BodiesAssumption
  <2>2. Range(body) \subseteq Entries
    BY DEF Entries
  <2> QED
    BY <2>1, <2>2
<1>3. CASE Lookup(name) = {}
  BY <1>3 DEF BodyOf
<1>4. CASE Lookup(name) # {}
  <2>1. PICK body \in Bodies : Lookup(name) = {body}
    BY <1>1, <1>4 DEF Rows
  <2>2. BodyOf(Lookup(name)) = body
    BY <1>4, <2>1 DEF BodyOf
  <2> QED
    BY <1>2, <1>4, <2>1, <2>2
<1> QED
  BY <1>3, <1>4

\* An edit touches the table alone.
LEMMA EditProfileKeepsIInv == ASSUME IInv, EditProfile PROVE IInv'
<1> USE DEF IInv
<1>1. UNCHANGED <<profile, prov, live, has, installed, evalDir, step, work, tree, faults>> /\ edits' = edits + 1
  BY DEF EditProfile
<1>2. faults \in Nat /\ faults' \in Nat /\ faults' >= faults /\ live \in SUBSET (1..MaxProvisions)
  BY <1>1 DEF TypeOK
<1>3. TypeOK'
  <2>1. table' \in [{"team", "system"} \X {"baseline", "named"} -> Rows]
    BY DEF EditProfile, TypeOK
  <2> QED
    BY <1>1, <2>1 DEF TypeOK
<1>4. ProfileIsMerged'
  BY <1>1, ProfileStays DEF Begun
<1> QED
  BY <1>1, <1>2, <1>3, <1>4, StepsStay, InstalledStays, SandboxStays

\* The baseline that is read is a body.
LEMMA ReadBaselineKeepsIInv == ASSUME IInv, ReadBaseline PROVE IInv'
<1> USE DEF IInv
<1>1. /\ UNCHANGED <<table, edits, live, has, installed, evalDir, step, work, tree, faults>>
      /\ prov.pc = "baseline" /\ prov' = [prov EXCEPT !.pc = "profile"]
      /\ profile' = [profile EXCEPT !.baseline = BodyOf(Lookup("baseline"))]
  BY DEF ReadBaseline
<1>2. faults \in Nat /\ faults' \in Nat /\ faults' >= faults
  BY <1>1 DEF TypeOK
<1>3. /\ profile' \in Profiles
      /\ profile'.named = profile.named /\ prov'.pc = "profile" /\ prov'.box = prov.box
  BY <1>1, LookupType DEF TypeOK, Profiles, ProvStates
<1>4. TypeOK'
  BY <1>1, <1>3 DEF TypeOK, Profiles, ProvStates
<1>5. HoldersHold' /\ StagesInOrder'
  BY <1>1, <1>3 DEF HoldersHold, StagesInOrder
<1>6. NoContainerIsForgotten'
  BY <1>1, <1>3 DEF NoContainerIsForgotten
<1>7. ProfileIsMerged' /\ (\A s \in Steps : step[s].pc = "wait") /\ (\A k \in Keys : installed[k] = None)
  BY <1>1, <1>3 DEF ProfileIsMerged, Begun
<1>8. InstalledFollowsProfile'
  BY <1>1, <1>7 DEF InstalledFollowsProfile
<1> QED
  BY <1>1, <1>2, <1>4, <1>5, <1>6, <1>7, <1>8, StepsStay

\* The profile the sandbox gets is the merged one, and merged once.
LEMMA ReadProfileKeepsIInv == ASSUME IInv, ReadProfile PROVE IInv'
<1> USE DEF IInv
<1>1. /\ UNCHANGED <<table, edits, live, has, installed, evalDir, step, work, tree, faults>>
      /\ prov.pc = "profile"
      /\ \E pc \in {"baseline", "failed", "credentials"} : prov' = [prov EXCEPT !.pc = pc]
  BY DEF ReadProfile
<1>2. faults \in Nat /\ faults' \in Nat /\ faults' >= faults
  BY <1>1 DEF TypeOK
<1>3. /\ prov'.pc \in {"baseline", "failed", "credentials"} /\ prov'.box = prov.box
      /\ prov' \in ProvStates
  BY <1>1 DEF TypeOK, Profiles, ProvStates
<1>4. profile.named = <<>> /\ (\A s \in Steps : step[s].pc = "wait") /\ (\A k \in Keys : installed[k] = None)
  BY <1>1 DEF ProfileIsMerged, Begun
<1>5. /\ profile' \in Profiles
      /\ prov'.pc \in {"baseline", "profile"} => profile'.named = <<>>
      /\ prov'.pc = "credentials" => profile'.effective = MergeProfiles(profile'.baseline, profile'.named)
  <2>1. CASE profile' = profile /\ prov'.pc # "credentials"
    BY <1>4, <2>1 DEF TypeOK, Profiles, ProvStates
  <2>2. CASE profile' = [profile EXCEPT !.effective = profile.baseline] /\ prov' = [prov EXCEPT !.pc = "credentials"]
    <3>1. profile.baseline \in Seq(Entries) /\ profile'.baseline = profile.baseline /\ profile'.named = <<>>
          /\ profile'.effective = profile.baseline
      BY <1>4, <2>2 DEF TypeOK, Profiles, ProvStates
    <3>2. MergeProfiles(profile.baseline, <<>>) = profile.baseline
      BY <3>1, MergeOfNone
    <3>3. prov'.pc = "credentials"
      BY <2>2 DEF TypeOK, Profiles, ProvStates
    <3>4. profile' \in Profiles
      BY <2>2 DEF TypeOK, Profiles, ProvStates
    <3> QED
      BY <3>1, <3>2, <3>3, <3>4
  <2>3. CASE /\ prov' = [prov EXCEPT !.pc = "credentials"]
             /\ profile' = [profile EXCEPT !.named = BodyOf(Lookup("named")),
                                           !.effective = MergeProfiles(profile.baseline, BodyOf(Lookup("named")))]
    <3>1. BodyOf(Lookup("named")) \in Seq(Entries) /\ profile.baseline \in Seq(Entries)
      BY LookupType DEF TypeOK, Profiles, ProvStates
    <3>2. MergeProfiles(profile.baseline, BodyOf(Lookup("named"))) \in Seq(Entries)
      BY <3>1, MergedLast
    <3>3. prov'.pc = "credentials"
      BY <2>3 DEF TypeOK, Profiles, ProvStates
    <3> QED
      BY <2>3, <3>1, <3>2, <3>3 DEF TypeOK, Profiles, ProvStates
  <2> QED
    BY <2>1, <2>2, <2>3 DEF ReadProfile, TypeOK, Profiles, ProvStates
<1>6. TypeOK'
  BY <1>1, <1>3, <1>5 DEF TypeOK, Profiles, ProvStates
<1>7. HoldersHold' /\ StagesInOrder'
  BY <1>1, <1>3 DEF HoldersHold, StagesInOrder
<1>8. NoContainerIsForgotten'
  BY <1>1, <1>3 DEF NoContainerIsForgotten
<1>9. ProfileIsMerged'
  BY <1>1, <1>3, <1>4, <1>5 DEF ProfileIsMerged, Begun
<1>10. InstalledFollowsProfile'
  BY <1>1, <1>4 DEF InstalledFollowsProfile
<1> QED
  BY <1>1, <1>2, <1>6, <1>7, <1>8, <1>9, <1>10, StepsStay

-----------------------------------------------------------------------------
(* The sandbox.                                                            *)

\* There is a first stage.
LEMMA StagesType ==
  Len(Stages) \in Nat /\ DOMAIN Stages = 1..Len(Stages) /\ 1 \in DOMAIN Stages
  BY DEF Stages

\* The fields of the provisioning.
LEMMA ProvFields ==
  ASSUME prov \in ProvStates
  PROVE  /\ prov.stage \in Nat /\ prov.attempt \in 1..MaxProvisions /\ prov.box \in 0..MaxProvisions
         /\ prov = [pc |-> prov.pc, stage |-> prov.stage, attempt |-> prov.attempt, box |-> prov.box]
         /\ 0 \in 0..MaxProvisions /\ 1 \in 1..MaxProvisions
         /\ (prov.attempt # MaxProvisions => prov.attempt + 1 \in 1..MaxProvisions)
         /\ prov.attempt \in 0..MaxProvisions /\ prov.attempt # 0
<1>1. /\ prov.stage \in Nat /\ prov.attempt \in 1..MaxProvisions /\ prov.box \in 0..MaxProvisions
      /\ prov = [pc |-> prov.pc, stage |-> prov.stage, attempt |-> prov.attempt, box |-> prov.box]
  BY DEF ProvStates
<1>2. /\ 0 \in 0..MaxProvisions /\ 1 \in 1..MaxProvisions
      /\ (prov.attempt # MaxProvisions => prov.attempt + 1 \in 1..MaxProvisions)
      /\ prov.attempt \in 0..MaxProvisions /\ prov.attempt # 0
  BY <1>1 DEF MaxProvisions
<1> QED
  BY <1>1, <1>2

\* An attempt that ends with an error lets go of its container.
LEMMA RetryFacts ==
  ASSUME prov \in ProvStates, NEW permanent \in BOOLEAN, Retry(permanent)
  PROVE  prov' \in ProvStates /\ prov'.pc \in {"failed", "credentials"} /\ prov'.box = 0
<1>1. CASE permanent \/ prov.attempt = MaxProvisions
  <2>1. prov' = [prov EXCEPT !.pc = "failed", !.box = 0]
    BY <1>1 DEF Retry
  <2> QED
    BY <2>1, ProvFields DEF ProvStates
<1>2. CASE ~(permanent \/ prov.attempt = MaxProvisions)
  <2>1. prov' = [prov EXCEPT !.pc = "credentials", !.attempt = @ + 1, !.box = 0]
    BY <1>2 DEF Retry
  <2>2. prov.attempt + 1 \in 1..MaxProvisions
    BY <1>2, ProvFields
  <2> QED
    BY <2>1, <2>2, ProvFields DEF ProvStates
<1> QED
  BY <1>1, <1>2

\* One more container is forgotten only with a fault.
LEMMA ForgottenStays ==
  ASSUME NoContainerIsForgotten, live \in SUBSET (1..MaxProvisions), live' \in SUBSET (1..MaxProvisions),
         faults \in Nat, faults' \in Nat, NEW x,
         \/ live' \ {prov'.box} \subseteq live \ {prov.box} /\ faults' >= faults
         \/ live' \ {prov'.box} \subseteq (live \ {prov.box}) \cup {x} /\ faults' >= faults + 1
  PROVE  NoContainerIsForgotten'
<1> DEFINE S == live' \ {prov'.box}
           T == live \ {prov.box}
<1>1. S \in SUBSET (1..MaxProvisions) /\ T \in SUBSET (1..MaxProvisions)
  OBVIOUS
<1>2. Cardinality(T) <= faults
  BY DEF NoContainerIsForgotten
<1>3. Cardinality(S) <= faults'
  <2>1. S \subseteq T \cup {x}
    OBVIOUS
  <2>2. Cardinality(S) \in Nat /\ Cardinality(T) \in Nat /\ Cardinality(S) <= Cardinality(T) + 1
         /\ (S \subseteq T => Cardinality(S) <= Cardinality(T))
    <3> HIDE DEF S, T
    <3> QED
      BY <1>1, <2>1, OneMore
  <2>3. (S \subseteq T /\ faults' >= faults) \/ faults' >= faults + 1
    OBVIOUS
  <2> HIDE DEF S, T
  <2> QED
    BY <1>2, <2>2, <2>3
<1> QED
  BY <1>3 DEF NoContainerIsForgotten

\* The container an attempt gave up on is dead or counted.
LEMMA GiveUpFacts ==
  ASSUME TypeOK, NoContainerIsForgotten, NEW permanent \in BOOLEAN, GiveUp(permanent)
  PROVE  /\ prov' \in ProvStates /\ prov'.pc \in {"failed", "credentials"} /\ prov'.box = 0
         /\ live' \in SUBSET (1..MaxProvisions) /\ faults' \in Nat /\ faults' >= faults
         /\ NoContainerIsForgotten'
<1>1. prov' \in ProvStates /\ prov'.pc \in {"failed", "credentials"} /\ prov'.box = 0
  BY RetryFacts DEF GiveUp, TypeOK
<1>2. (live' = live \ {prov.box} /\ faults' = faults) \/ (live' = live /\ faults' = faults + 1)
  BY DEF GiveUp, NoFault, Fault
<1>3. /\ live' \in SUBSET (1..MaxProvisions) /\ live \in SUBSET (1..MaxProvisions)
      /\ faults \in Nat /\ faults' \in Nat /\ faults' >= faults
  <2>1. faults \in Nat /\ live \in SUBSET (1..MaxProvisions)
    BY DEF TypeOK
  <2>2. live' \subseteq live
    BY <1>2
  <2>3. faults' \in Nat /\ faults' >= faults
    BY <1>2, <2>1
  <2> QED
    BY <2>1, <2>2, <2>3
<1>4. \/ live' \ {prov'.box} \subseteq live \ {prov.box} /\ faults' >= faults
      \/ live' \ {prov'.box} \subseteq (live \ {prov.box}) \cup {prov.box} /\ faults' >= faults + 1
  BY <1>2, <1>3
<1>5. NoContainerIsForgotten'
  BY <1>3, <1>4, ForgottenStays
<1> QED
  BY <1>1, <1>3, <1>5

\* What every step of the sandbox before it is handed over leaves alone.
LEMMA SandboxStep ==
  ASSUME IInv, UNCHANGED <<table, edits, profile, installed, evalDir, step, work, tree>>,
         prov' \in ProvStates, live' \in SUBSET (1..MaxProvisions), has' \in SUBSET Range(Stages),
         faults' \in Nat, faults' >= faults,
         prov'.pc \notin {"baseline", "profile"}, prov.pc \notin {"baseline", "profile", "failed"},
         Begun => prov'.pc \in {"ready", "closing", "closed"},
         HoldersHold', NoContainerIsForgotten', StagesInOrder'
  PROVE  IInv'
<1> USE DEF IInv
<1>1. TypeOK'
  BY DEF TypeOK
<1>2. ProfileIsMerged'
  BY ProfileStays
<1>3. faults \in Nat
  BY DEF TypeOK
<1> QED
  BY <1>1, <1>2, <1>3, StepsStay, InstalledStays

\* Every attempt begins without a stage and without a container.
LEMMA CredentialsKeepsIInv == ASSUME IInv, Credentials PROVE IInv'
<1> USE DEF IInv
<1>1. /\ UNCHANGED <<table, edits, profile, live, installed, evalDir, step, work, tree, faults>>
      /\ prov.pc = "credentials" /\ has' = {}
  BY DEF Credentials
<1>2. faults' \in Nat /\ faults' >= faults /\ faults \in Nat /\ live \in SUBSET (1..MaxProvisions)
  BY <1>1 DEF TypeOK
<1>3. prov' \in ProvStates /\ prov'.pc \in {"create", "failed", "credentials"} /\ prov'.box = 0
  <2>1. CASE prov' = [prov EXCEPT !.pc = "create"]
    <3>1. prov.box = 0 /\ prov \in ProvStates
      BY <1>1 DEF HoldersHold, TypeOK
    <3> QED
      BY <2>1, <3>1 DEF ProvStates
  <2>2. CASE Retry(FALSE)
    <3>1. prov \in ProvStates
      BY DEF TypeOK
    <3> QED
      BY <2>2, <3>1, RetryFacts
  <2> QED
    BY <2>1, <2>2 DEF Credentials
<1>4. HoldersHold' /\ StagesInOrder'
  BY <1>1, <1>3 DEF HoldersHold, StagesInOrder
<1>5. prov.box = 0
  BY <1>1 DEF HoldersHold
<1>6. NoContainerIsForgotten'
  BY <1>1, <1>3, <1>5 DEF NoContainerIsForgotten
<1>7. ~Begun
  BY <1>1 DEF Begun
<1> QED
  BY <1>1, <1>2, <1>3, <1>4, <1>6, <1>7, SandboxStep

\* A container nobody hears of is a fault.
LEMMA CreateContainerKeepsIInv == ASSUME IInv, CreateContainer PROVE IInv'
<1> USE DEF IInv
<1>1. /\ UNCHANGED <<table, edits, profile, has, installed, evalDir, step, work, tree>>
      /\ prov.pc = "create" /\ (Fault \/ NoFault)
  BY DEF CreateContainer
<1>2. /\ faults' \in Nat /\ faults' >= faults /\ faults \in Nat /\ live \in SUBSET (1..MaxProvisions)
      /\ prov \in ProvStates /\ has \in SUBSET Range(Stages) /\ (Fault => faults' = faults + 1)
  BY <1>1, FaultsCount DEF TypeOK
<1>3. prov.box = 0 /\ has = {} /\ prov.attempt \in 1..MaxProvisions /\ 0 \notin live
  <2>1. 0 \notin live
    BY <1>2 DEF MaxProvisions
  <2> QED
    BY <1>1, <1>2, <2>1, ProvFields DEF HoldersHold, StagesInOrder
<1>4. ~Begun
  BY <1>1 DEF Begun
<1>5. CASE Retry(FALSE) /\ UNCHANGED live /\ NoFault
  <2>1. prov' \in ProvStates /\ prov'.pc \in {"failed", "credentials"} /\ prov'.box = 0
    BY <1>2, <1>5, RetryFacts
  <2>2. HoldersHold' /\ StagesInOrder'
    BY <2>1 DEF HoldersHold, StagesInOrder
  <2>3. NoContainerIsForgotten'
    BY <1>2, <1>3, <1>5, <2>1 DEF NoContainerIsForgotten, NoFault
  <2> QED
    BY <1>1, <1>2, <1>4, <1>5, <2>1, <2>2, <2>3, SandboxStep
<1>6. CASE /\ live' = live \cup {prov.attempt} /\ NoFault
           /\ prov' = [prov EXCEPT !.pc = "set up", !.stage = 1, !.box = prov.attempt]
  <2>1. /\ prov' \in ProvStates /\ prov'.pc = "set up" /\ prov'.box = prov.attempt /\ prov'.stage = 1
        /\ live' \in SUBSET (1..MaxProvisions)
    <3>1. prov' \in ProvStates /\ prov'.pc = "set up" /\ prov'.box = prov.attempt /\ prov'.stage = 1
      BY <1>2, <1>6, ProvFields DEF ProvStates
    <3> QED
      BY <1>2, <1>3, <1>6, <3>1
  <2>2. HoldersHold'
    BY <2>1 DEF HoldersHold
  <2>3. StagesInOrder'
    <3>1. Prepared(1) = {}
      BY DEF Prepared
    <3> QED
      BY <1>1, <1>3, <2>1, <3>1, StagesType DEF StagesInOrder, Prepared
  <2>4. NoContainerIsForgotten'
    <3>1. live' \ {prov'.box} \subseteq live \ {prov.box} /\ faults' >= faults
      BY <1>2, <1>3, <1>6, <2>1
    <3> QED
      BY <1>2, <2>1, <3>1, ForgottenStays
  <2> QED
    BY <1>1, <1>2, <1>4, <2>1, <2>2, <2>3, <2>4, SandboxStep
<1>7. CASE live' = live \cup {prov.attempt} /\ Retry(FALSE) /\ Fault
  <2>1. prov' \in ProvStates /\ prov'.pc \in {"failed", "credentials"} /\ prov'.box = 0 /\ live' \in SUBSET (1..MaxProvisions)
    BY <1>2, <1>3, <1>7, RetryFacts
  <2>2. HoldersHold' /\ StagesInOrder'
    BY <2>1 DEF HoldersHold, StagesInOrder
  <2>3. NoContainerIsForgotten'
    <3>1. live' \ {prov'.box} \subseteq (live \ {prov.box}) \cup {prov.attempt} /\ faults' >= faults + 1
      BY <1>2, <1>3, <1>7, <2>1
    <3> QED
      BY <1>2, <2>1, <3>1, ForgottenStays
  <2> QED
    BY <1>1, <1>2, <1>4, <2>1, <2>2, <2>3, SandboxStep
<1> QED
  BY <1>5, <1>6, <1>7 DEF CreateContainer

\* One more stage.
LEMMA OneMoreStage ==
  ASSUME NEW n \in DOMAIN Stages
  PROVE  Prepared(n + 1) = IF NeedsGit(Stages[n]) THEN Prepared(n) ELSE Prepared(n) \cup {Stages[n]}
<1>1. n \in Nat /\ n >= 1
  BY StagesType
<1>2. \A i : i \in 1..((n + 1) - 1) <=> i \in 1..(n - 1) \/ i = n
  BY <1>1
<1> QED
  BY <1>2 DEF Prepared

\* The stages follow their order, or the container is given up on.
LEMMA SetUpKeepsIInv == ASSUME IInv, SetUp PROVE IInv'
<1> USE DEF IInv
<1> DEFINE stage == Stages[prov.stage]
<1>1. /\ UNCHANGED <<table, edits, profile, installed, evalDir, step, work, tree>>
      /\ prov.pc = "set up" /\ prov.stage \in DOMAIN Stages /\ has = Prepared(prov.stage)
  BY DEF SetUp, StagesInOrder
<1>2. /\ faults \in Nat /\ live \in SUBSET (1..MaxProvisions)
      /\ prov \in ProvStates /\ has \in SUBSET Range(Stages)
  BY <1>1 DEF TypeOK
<1>3. ~Begun
  BY <1>1 DEF Begun
<1>4. ASSUME NEW permanent \in BOOLEAN, GiveUp(permanent), UNCHANGED has PROVE IInv'
  <2>1. /\ prov' \in ProvStates /\ prov'.pc \in {"failed", "credentials"} /\ prov'.box = 0
        /\ live' \in SUBSET (1..MaxProvisions) /\ faults' \in Nat /\ faults' >= faults
        /\ NoContainerIsForgotten'
    BY <1>4, GiveUpFacts
  <2>2. HoldersHold' /\ StagesInOrder'
    BY <2>1 DEF HoldersHold, StagesInOrder
  <2> QED
    BY <1>1, <1>2, <1>3, <1>4, <2>1, <2>2, SandboxStep
<1>5. ASSUME StageDone, UNCHANGED live, NoFault,
             has' = IF NeedsGit(stage) THEN has ELSE has \cup {stage}
      PROVE  IInv'
  <2>1. /\ prov' \in ProvStates /\ prov'.box = prov.box /\ prov'.stage = prov.stage + 1
        /\ prov'.pc = IF prov.stage = Len(Stages) THEN "return" ELSE "set up"
    <3>1. prov' = [pc |-> IF prov.stage = Len(Stages) THEN "return" ELSE "set up", stage |-> prov.stage + 1,
                   attempt |-> prov.attempt, box |-> prov.box]
      BY <1>2, <1>5, ProvFields DEF StageDone
    <3>2. prov.stage + 1 \in Nat
      BY <1>2, ProvFields
    <3> QED
      BY <1>2, <3>1, <3>2, ProvFields DEF ProvStates
  <2>2. has' = Prepared(prov.stage + 1) /\ has' \in SUBSET Range(Stages)
    <3>1. stage \in Range(Stages)
      BY <1>1 DEF Range
    <3> QED
      BY <1>1, <1>2, <1>5, <3>1, OneMoreStage
  <2>3. HoldersHold'
    BY <2>1 DEF HoldersHold
  <2>4. StagesInOrder'
    <3>1. prov.stage \in Nat /\ (prov.stage # Len(Stages) => prov.stage + 1 \in DOMAIN Stages)
      <4> DEFINE n == prov.stage
                 N == Len(Stages)
      <4>1. n \in 1..N /\ N \in Nat
        BY <1>1, StagesType
      <4>2. n \in Nat /\ (n # N => n + 1 \in 1..N)
        <5> HIDE DEF n, N
        <5> QED
          BY <4>1
      <4> QED
        BY <4>2, StagesType
    <3>2. \A n : Prepared(n)' = Prepared(n)
      BY DEF Prepared
    <3>3. DOMAIN Stages' = DOMAIN Stages /\ Len(Stages') = Len(Stages)
      OBVIOUS
    <3>4. CASE prov.stage = Len(Stages)
      BY <2>1, <2>2, <3>4 DEF StagesInOrder, Prepared
    <3>5. CASE prov.stage # Len(Stages)
      BY <2>1, <2>2, <3>1, <3>5 DEF StagesInOrder, Prepared
    <3> QED
      BY <3>4, <3>5
  <2>5. faults' = faults /\ live' = live /\ faults' \in Nat /\ faults' >= faults /\ live' \in SUBSET (1..MaxProvisions)
    BY <1>2, <1>5 DEF NoFault
  <2>6. NoContainerIsForgotten'
    BY <2>1, <2>5 DEF NoContainerIsForgotten
  <2> QED
    BY <1>1, <1>2, <1>3, <2>1, <2>2, <2>3, <2>4, <2>5, <2>6, SandboxStep
<1>6. Permanent(stage) \in BOOLEAN
  BY DEF Permanent
<1>7. CASE ~NeedsGit(stage) /\ StageDone /\ has' = has \cup {stage} /\ UNCHANGED live /\ NoFault
  BY <1>5, <1>7
<1>8. CASE NeedsGit(stage) /\ StageDone /\ UNCHANGED <<has, live>> /\ NoFault
  BY <1>5, <1>8
<1>9. CASE GiveUp(Permanent(stage)) /\ UNCHANGED has
  BY <1>4, <1>6, <1>9
<1>10. CASE GiveUp(FALSE) /\ UNCHANGED has
  BY <1>4, <1>10
<1> QED
  BY <1>7, <1>8, <1>9, <1>10 DEF SetUp

\* A sandbox whose worker died is forgotten, at the price of a fault.
LEMMA ReturnKeepsIInv == ASSUME IInv, Return PROVE IInv'
<1> USE DEF IInv
<1>1. /\ UNCHANGED <<table, edits, profile, live, has, installed, evalDir, step, work, tree>>
      /\ prov.pc = "return" /\ (Fault \/ NoFault)
  BY DEF Return
<1>2. /\ faults' \in Nat /\ faults' >= faults /\ faults \in Nat /\ live \in SUBSET (1..MaxProvisions)
      /\ prov \in ProvStates /\ has \in SUBSET Range(Stages) /\ (Fault => faults' = faults + 1)
  BY <1>1, FaultsCount DEF TypeOK
<1>3. ~Begun
  BY <1>1 DEF Begun
<1>4. CASE prov' = [prov EXCEPT !.pc = "ready"] /\ NoFault
  <2>1. prov' \in ProvStates /\ prov'.pc = "ready" /\ prov'.box = prov.box
    BY <1>2, <1>4, ProvFields DEF ProvStates
  <2>2. HoldersHold'
    BY <2>1 DEF HoldersHold
  <2>3. StagesInOrder'
    BY <1>1, <2>1 DEF StagesInOrder, Prepared
  <2>4. NoContainerIsForgotten'
    BY <1>1, <1>4, <2>1 DEF NoContainerIsForgotten, NoFault
  <2> QED
    BY <1>1, <1>2, <1>3, <2>1, <2>2, <2>3, <2>4, SandboxStep
<1>5. CASE Retry(FALSE) /\ Fault
  <2>1. prov' \in ProvStates /\ prov'.pc \in {"failed", "credentials"} /\ prov'.box = 0
    BY <1>2, <1>5, RetryFacts
  <2>2. HoldersHold' /\ StagesInOrder'
    BY <2>1 DEF HoldersHold, StagesInOrder
  <2>3. NoContainerIsForgotten'
    <3>1. live' \ {prov'.box} \subseteq (live \ {prov.box}) \cup {prov.box} /\ faults' >= faults + 1
      BY <1>1, <1>2, <1>5
    <3> QED
      BY <1>1, <1>2, <3>1, ForgottenStays
  <2> QED
    BY <1>1, <1>2, <1>3, <2>1, <2>2, <2>3, SandboxStep
<1> QED
  BY <1>4, <1>5 DEF Return

\* A container that expires was held.
LEMMA ExpireKeepsIInv == ASSUME IInv, Expire PROVE IInv'
<1> USE DEF IInv
<1>1. /\ UNCHANGED <<table, edits, profile, prov, has, installed, evalDir, step, work, tree>>
      /\ prov.box \in live /\ live' = live \ {prov.box} /\ Fault
  BY DEF Expire
<1>2. /\ faults' \in Nat /\ faults' >= faults /\ faults \in Nat /\ live \in SUBSET (1..MaxProvisions)
      /\ prov \in ProvStates /\ has \in SUBSET Range(Stages)
  BY <1>1, FaultsCount DEF TypeOK
<1>3. live' \in SUBSET (1..MaxProvisions) /\ prov.box # 0
  <2>1. 0 \notin live
    BY <1>2 DEF MaxProvisions
  <2> QED
    BY <1>1, <1>2, <2>1
<1>4. prov.pc \notin {"baseline", "profile", "failed"}
  BY <1>3 DEF HoldersHold
<1>5. HoldersHold'
  BY <1>1 DEF HoldersHold
<1>6. StagesInOrder'
  BY <1>1 DEF StagesInOrder, Prepared
<1>7. NoContainerIsForgotten'
  <2>1. live' \ {prov'.box} \subseteq live \ {prov.box} /\ faults' >= faults
    BY <1>1, <1>2
  <2> QED
    BY <1>2, <1>3, <2>1, ForgottenStays
<1>8. Begun => prov'.pc \in {"ready", "closing", "closed"}
  BY <1>1 DEF Begun
<1> QED
  BY <1>1, <1>2, <1>3, <1>4, <1>5, <1>6, <1>7, <1>8, SandboxStep

\* The clean-up holds the container it has to kill.
LEMMA CloseKeepsIInv == ASSUME IInv, Close PROVE IInv'
<1> USE DEF IInv
<1>1. /\ UNCHANGED <<table, edits, profile, live, has, installed, evalDir, step, work, tree, faults>>
      /\ prov.pc = "ready" /\ prov' = [prov EXCEPT !.pc = "closing", !.attempt = 1]
  BY DEF Close, Working
<1>2. /\ faults' \in Nat /\ faults' >= faults /\ live \in SUBSET (1..MaxProvisions)
      /\ prov \in ProvStates /\ has \in SUBSET Range(Stages)
  BY <1>1 DEF TypeOK
<1>3. prov' \in ProvStates /\ prov'.pc = "closing" /\ prov'.box = prov.box
  BY <1>1, <1>2, ProvFields DEF ProvStates
<1>4. HoldersHold' /\ StagesInOrder' /\ NoContainerIsForgotten'
  BY <1>1, <1>3 DEF HoldersHold, StagesInOrder, NoContainerIsForgotten
<1> QED
  BY <1>1, <1>2, <1>3, <1>4, SandboxStep

\* The sandbox that was killed, or given up on, is let go of.
LEMMA ClosedFacts ==
  ASSUME prov \in ProvStates, prov' = [prov EXCEPT !.pc = "closed", !.box = 0]
  PROVE  prov' \in ProvStates /\ prov'.pc = "closed" /\ prov'.box = 0
  BY ProvFields DEF ProvStates

\* The clean-up lets go of a container that is dead or counted.
LEMMA KillKeepsIInv == ASSUME IInv, Kill PROVE IInv'
<1> USE DEF IInv
<1>1. /\ UNCHANGED <<table, edits, profile, has, installed, evalDir, step, work, tree>>
      /\ prov.pc = "closing" /\ (Fault \/ NoFault)
  BY DEF Kill
<1>2. /\ faults' \in Nat /\ faults' >= faults /\ faults \in Nat /\ live \in SUBSET (1..MaxProvisions)
      /\ prov \in ProvStates /\ has \in SUBSET Range(Stages) /\ (Fault => faults' = faults + 1)
  BY <1>1, FaultsCount DEF TypeOK
<1>3. \/ prov' = [prov EXCEPT !.pc = "closed", !.box = 0]
      \/ (prov.attempt # MaxProvisions /\ prov' = [prov EXCEPT !.attempt = @ + 1])
  BY DEF Kill, KillAgain, MaxKills, MaxProvisions
<1>4. prov' \in ProvStates /\ ((prov'.pc = "closed" /\ prov'.box = 0) \/ (prov'.pc = "closing" /\ prov'.box = prov.box))
  <2>1. CASE prov' = [prov EXCEPT !.pc = "closed", !.box = 0]
    BY <1>2, <2>1, ClosedFacts
  <2>2. CASE prov.attempt # MaxProvisions /\ prov' = [prov EXCEPT !.attempt = @ + 1]
    BY <1>1, <1>2, <2>2, ProvFields DEF ProvStates
  <2> QED
    BY <1>3, <2>1, <2>2
<1>5. HoldersHold' /\ StagesInOrder'
  BY <1>4 DEF HoldersHold, StagesInOrder
<1>6. live' \subseteq live /\ live' \in SUBSET (1..MaxProvisions)
  BY <1>2 DEF Kill
<1>7. NoContainerIsForgotten'
  <2>1. CASE prov'.box = prov.box \/ prov.box \notin live'
    <3>1. live' \ {prov'.box} \subseteq live \ {prov.box} /\ faults' >= faults
      BY <1>2, <1>6, <2>1
    <3> QED
      BY <1>2, <1>6, <3>1, ForgottenStays
  <2>2. CASE ~(prov'.box = prov.box \/ prov.box \notin live')
    <3>1. Fault
      BY <2>2 DEF Kill
    <3>2. live' \ {prov'.box} \subseteq (live \ {prov.box}) \cup {prov.box}
      BY <1>6
    <3>3. faults' >= faults + 1
      BY <1>2, <3>1
    <3> QED
      BY <1>2, <1>6, <3>2, <3>3, ForgottenStays
  <2> QED
    BY <2>1, <2>2
<1> QED
  BY <1>1, <1>2, <1>4, <1>5, <1>6, <1>7, SandboxStep DEF Begun

-----------------------------------------------------------------------------
(* The steps of the group.                                                 *)

\* What a step of the group leaves alone, and what is left to show of it.
LEMMA WorkingStep ==
  ASSUME IInv, Working, UNCHANGED <<table, edits, profile, prov, live, has>>, Fault \/ NoFault,
         installed' \in [Keys -> {e.version : e \in Entries} \cup {None}], evalDir' \in Steps \cup {None},
         step' \in [Steps -> StepStates], work' \in [Steps -> WorkStates], tree' \in [Range(Repository) -> TreeStates],
         InstalledFollowsProfile', StepsTakeTurns', WorkInOrder', PullRequestHoldsTheWork'
  PROVE  IInv'
<1> USE DEF IInv
<1>1. /\ faults \in Nat /\ faults' \in Nat /\ faults' >= faults /\ live \in SUBSET (1..MaxProvisions)
  BY FaultsCount DEF TypeOK
<1>2. TypeOK'
  BY <1>1 DEF TypeOK
<1>3. ProfileIsMerged'
  BY DEF ProfileIsMerged, Working, Begun
<1> QED
  BY <1>1, <1>2, <1>3, SandboxStays

\* Only step s moves.
Alone(s) == \A t \in Steps \ {s} : step'[t] = step[t] /\ work'[t] = work[t]

\* A step takes the clone of its repository over, makes it or removes it, and
\* adds to what is in it: all that was in it is still there, but for a fault.
Grows(s, clone) ==
  /\ clone \in TreeStates /\ clone.by \in {None, s, Tree(s).by} /\ (clone = NoClone \/ clone.by # None)
  /\ clone.dirty \subseteq Tree(s).dirty \cup {s}
  /\ faults' = 0 => Tree(s).dirty \cup Tree(s).commits \subseteq clone.dirty \cup clone.commits

\* The clone of a step.
LEMMA TreeType ==
  ASSUME IInv, NEW s \in Steps
  PROVE  /\ Repository[s] \in Range(Repository) /\ Tree(s) \in TreeStates /\ s # None
         /\ tree = [tree EXCEPT ![Repository[s]] = Tree(s)]
         /\ (Tree(s).by # None => Repository[Tree(s).by] = Repository[s]) /\ (Tree(s) = NoClone \/ Tree(s).by # None)
         /\ Grows(s, Tree(s))
         /\ \A clone \in TreeStates : Put(s, clone) => Tree(s)' = clone
<1>1. Repository[s] \in Range(Repository) /\ s # None
  BY OrderAssumption DEF Steps, Range
<1>2. tree \in [Range(Repository) -> TreeStates] /\ CloneInOrder(s)
  BY DEF IInv, TypeOK, WorkInOrder
<1>3. Tree(s) \in TreeStates /\ tree = [tree EXCEPT ![Repository[s]] = Tree(s)]
  BY <1>1, <1>2 DEF Tree
<1>4. (Tree(s).by # None => Repository[Tree(s).by] = Repository[s]) /\ (Tree(s) = NoClone \/ Tree(s).by # None)
  BY <1>2 DEF CloneInOrder
<1>5. Grows(s, Tree(s))
  BY <1>3, <1>4 DEF Grows
<1>6. \A clone \in TreeStates : Put(s, clone) => Tree(s)' = clone
  BY <1>1, <1>2 DEF Put, Tree
<1> QED
  BY <1>1, <1>3, <1>4, <1>5, <1>6

\* A step that waits or is over stays as right as it was while another works in
\* the clone.
LEMMA SharedClone ==
  ASSUME IInv, NEW s \in Steps, NEW t \in Steps, t # s, step[t].pc = "wait" \/ Over(t), Repository[t] = Repository[s],
         step'[t] = step[t], work'[t] = work[t], faults \in Nat, faults' \in Nat, faults' >= faults,
         NEW clone, Put(s, clone), Grows(s, clone)
  PROVE  CloneInOrder(t)' /\ InOrder(t)' /\ HoldsTheWork(t)'
<1>1. /\ CloneInOrder(t) /\ InOrder(t) /\ HoldsTheWork(t)
  BY DEF IInv, WorkInOrder, PullRequestHoldsTheWork
<1>2. Tree(t)' = clone /\ Tree(t) = Tree(s) /\ s # None /\ t # None
  BY TreeType DEF Tree, Grows
<1>3. faults' = 0 => faults = 0
  OBVIOUS
<1>4. clone.by # None => Repository[clone.by] = Repository[t]
  BY <1>2, TreeType DEF Grows
<1>5. CloneInOrder(t)'
  <2>1. faults' = 0 /\ work'[t].end \in {"dirty", "committed"} => t \in clone.dirty \cup clone.commits
    BY <1>1, <1>2, <1>3 DEF CloneInOrder, Grows
  <2>2. step'[t].pc \in {"wait", "clone"} => clone.by # t /\ work'[t].end = "none"
    BY <1>1, <1>2 DEF CloneInOrder, Grows
  <2>3. step'[t].pc \notin {"repository", "agent"}
    BY DEF Over
  <2>4. clone = NoClone \/ clone.by # None
    BY DEF Grows
  <2> QED
    BY <1>2, <1>4, <2>1, <2>2, <2>3, <2>4 DEF CloneInOrder, NoClone, Cloned
<1>6. InOrder(t)'
  BY <1>1, <1>3 DEF InOrder, Over
<1>7. HoldsTheWork(t)'
  <2>1. t \in clone.dirty => t \in Tree(t).dirty
    BY <1>2 DEF Grows
  <2> QED
    BY <1>1, <1>2, <1>3, <2>1 DEF HoldsTheWork
<1> QED
  BY <1>5, <1>6, <1>7

\* A step with a clone of its own does not notice.
LEMMA OwnClone ==
  ASSUME IInv, NEW t \in Steps, Tree(t)' = Tree(t), step'[t] = step[t], work'[t] = work[t],
         faults \in Nat, faults' \in Nat, faults' >= faults
  PROVE  CloneInOrder(t)' /\ InOrder(t)' /\ HoldsTheWork(t)'
<1>1. CloneInOrder(t) /\ InOrder(t) /\ HoldsTheWork(t)
  BY DEF IInv, WorkInOrder, PullRequestHoldsTheWork
<1>2. faults' = 0 => faults = 0
  OBVIOUS
<1>3. CloneInOrder(t)'
  BY <1>1, <1>2 DEF CloneInOrder, NoClone, Cloned
<1>4. InOrder(t)' /\ HoldsTheWork(t)'
  BY <1>1, <1>2 DEF InOrder, HoldsTheWork
<1> QED
  BY <1>3, <1>4

\* Where steps take turns, the one whose turn it is is alone.
LEMMA OneAtATime ==
  ASSUME StepsTakeTurns, ~Parallel, NEW s \in Steps, ~Over(s), step[s].pc # "wait" \/ Turn(s),
         NEW t \in Steps, t # s
  PROVE  step[t].pc = "wait" \/ Over(t)
<1>1. PICK i \in DOMAIN Order : Order[i] = s
  BY DEF Steps, Range
<1>2. PICK j \in DOMAIN Order : Order[j] = t
  BY DEF Steps, Range
<1>3. DOMAIN Order = 1..Len(Order) /\ Len(Order) \in Nat
  BY OrderAssumption
<1>4. i \in Nat /\ j \in Nat /\ i >= 1 /\ j >= 1 /\ i # j
  BY <1>1, <1>2, <1>3
<1>5. CASE i < j
  BY <1>1, <1>2, <1>5 DEF StepsTakeTurns
<1>6. CASE j < i
  <2>1. CASE step[s].pc # "wait"
    BY <1>1, <1>2, <1>6, <2>1 DEF StepsTakeTurns
  <2>2. CASE Turn(s)
    <3>1. j \in 1..(i - 1)
      BY <1>4, <1>6
    <3> QED
      BY <1>1, <1>2, <2>2, <3>1 DEF Turn
  <2> QED
    BY <2>1, <2>2
<1> QED
  BY <1>4, <1>5, <1>6

\* The other steps stay as right as they were.
LEMMA OthersStay ==
  ASSUME IInv, NEW s \in Steps, Alone(s), ~Over(s), step[s].pc # "wait" \/ Turn(s), Fault \/ NoFault,
         NEW clone, Put(s, clone), Grows(s, clone), CloneInOrder(s)', InOrder(s)', HoldsTheWork(s)'
  PROVE  WorkInOrder' /\ PullRequestHoldsTheWork'
<1>1. faults \in Nat /\ faults' \in Nat /\ faults' >= faults
  BY FaultsCount DEF TypeOK, IInv
<1>2. ASSUME NEW t \in Steps, t # s PROVE CloneInOrder(t)' /\ InOrder(t)' /\ HoldsTheWork(t)'
  <2>1. step'[t] = step[t] /\ work'[t] = work[t]
    BY <1>2 DEF Alone
  <2>2. CASE Repository[t] = Repository[s]
    <3>1. ~Parallel
      BY <1>2, <2>2, OrderAssumption DEF IsInjective, Steps
    <3>2. step[t].pc = "wait" \/ Over(t)
      BY <1>2, <3>1, OneAtATime DEF IInv
    <3> QED
      BY <1>1, <1>2, <2>1, <2>2, <3>2, SharedClone
  <2>3. CASE Repository[t] # Repository[s]
    <3>1. Tree(t)' = Tree(t)
      BY <2>3, TreeType DEF Put, Tree, IInv, TypeOK
    <3> QED
      BY <1>1, <2>1, <3>1, OwnClone
  <2> QED
    BY <2>2, <2>3
<1> QED
  BY <1>2 DEF WorkInOrder, PullRequestHoldsTheWork

\* Whose turn it is may move.
LEMMA TurnsStay ==
  ASSUME IInv, NEW s \in Steps, Alone(s), ~Over(s), step[s].pc # "wait" \/ Turn(s),
         ~Parallel /\ step'[s].pc \in {"repository", "agent"} => evalDir' = s
  PROVE  StepsTakeTurns'
<1> SUFFICES ASSUME ~Parallel PROVE StepsTakeTurns'
  BY DEF StepsTakeTurns
<1>1. StepsTakeTurns
  BY DEF IInv
<1>2. ASSUME NEW i \in DOMAIN Order, NEW j \in DOMAIN Order, i < j, step'[Order[j]].pc # "wait"
      PROVE  step'[Order[i]].pc \in {"done", "failed"}
  <2>1. Order[i] \in Steps /\ Order[j] \in Steps
    BY DEF Steps, Range
  <2>2. CASE step[Order[j]].pc # "wait"
    <3>1. Over(Order[i])
      BY <1>1, <1>2, <2>2 DEF StepsTakeTurns
    <3>2. Order[i] # s
      BY <3>1
    <3> QED
      BY <2>1, <3>1, <3>2 DEF Alone, Over
  <2>3. CASE step[Order[j]].pc = "wait"
    <3>1. Order[j] = s
      BY <1>2, <2>1, <2>3 DEF Alone
    <3>2. i \in 1..(j - 1)
      BY <1>2, OrderAssumption
    <3>3. Over(Order[i])
      BY <2>3, <3>1, <3>2 DEF Turn
    <3> QED
      BY <2>1, <3>3 DEF Alone, Over
  <2> QED
    BY <2>2, <2>3
<1>3. ASSUME NEW t \in Steps, step'[t].pc \in {"repository", "agent"} PROVE evalDir' = t
  <2>1. CASE t = s
    BY <1>3, <2>1
  <2>2. CASE t # s
    <3>1. step[t].pc = "wait" \/ Over(t)
      BY <1>1, <2>2, OneAtATime
    <3> QED
      BY <1>3, <2>2, <3>1 DEF Alone, Over
  <2> QED
    BY <2>1, <2>2
<1> QED
  BY <1>2, <1>3 DEF StepsTakeTurns, Over

\* What is installed stays but for the script.
LEMMA ScriptStays ==
  ASSUME IInv, NEW s \in Steps, Alone(s), UNCHANGED <<profile, installed>>, Fault \/ NoFault,
         step'[s].pc \in {"clone", "repository", "agent"} => step[s].pc \in {"clone", "repository", "agent"}
  PROVE  InstalledFollowsProfile'
<1>1. faults' = 0 => faults = 0
  BY FaultsCount DEF TypeOK, IInv
<1>2. (\E t \in Steps : step'[t].pc \in {"clone", "repository", "agent"}) =>
        \E t \in Steps : step[t].pc \in {"clone", "repository", "agent"}
  BY DEF Alone
<1>3. InstalledFollowsProfile
  BY DEF IInv
<1> QED
  BY <1>1, <1>2, <1>3 DEF InstalledFollowsProfile

\* Every step of the group but the script, from the step, its work and its
\* clone alone.
LEMMA OneStep ==
  ASSUME IInv, Working, UNCHANGED <<table, edits, profile, prov, live, has, installed>>, Fault \/ NoFault,
         NEW s \in Steps, NEW r \in StepStates, NEW w \in WorkStates, NEW clone, Grows(s, clone),
         step' = [step EXCEPT ![s] = r], work' = [work EXCEPT ![s] = w], Put(s, clone), evalDir' \in Steps \cup {None},
         ~Over(s), step[s].pc # "wait",
         r.pc \in {"repository", "agent"} => evalDir' = s \/ (evalDir' = evalDir /\ step[s].pc \in {"repository", "agent"}),
         r.pc \in {"clone", "repository", "agent"} => step[s].pc \in {"clone", "repository", "agent"},
         CloneInOrder(s)', InOrder(s)', HoldsTheWork(s)'
  PROVE  IInv'
<1>1. step \in [Steps -> StepStates] /\ work \in [Steps -> WorkStates] /\ tree \in [Range(Repository) -> TreeStates]
      /\ installed \in [Keys -> {e.version : e \in Entries} \cup {None}]
  BY DEF IInv, TypeOK
<1>2. /\ step' \in [Steps -> StepStates] /\ work' \in [Steps -> WorkStates] /\ step'[s] = r
      /\ installed' \in [Keys -> {e.version : e \in Entries} \cup {None}]
  BY <1>1
<1>3. Alone(s)
  BY <1>1 DEF Alone
<1>4. ~Parallel /\ step'[s].pc \in {"repository", "agent"} => evalDir' = s
  BY <1>2 DEF IInv, StepsTakeTurns
<1>5. StepsTakeTurns'
  BY <1>3, <1>4, TurnsStay
<1>6. InstalledFollowsProfile'
  BY <1>2, <1>3, ScriptStays
<1>7. WorkInOrder' /\ PullRequestHoldsTheWork'
  BY <1>3, OthersStay
<1>8. tree' \in [Range(Repository) -> TreeStates]
  BY <1>1 DEF Put, Grows
<1> QED
  BY <1>2, <1>5, <1>6, <1>7, <1>8, WorkingStep

\* An attempt that failed is followed by another, or the step has failed.
LEMMA AgainFacts ==
  ASSUME IInv, NEW s \in Steps, NEW pc \in {"wait", "repository"}, Again(s, pc, 2)
  PROVE  \E r \in StepStates : /\ step' = [step EXCEPT ![s] = r]
                               /\ r.pc \in {pc, "failed"} /\ (r.pc = pc => r.attempt > 1)
<1>1. step[s].attempt \in {1, 2}
  BY DEF IInv, TypeOK, StepStates
<1>2. CASE step[s].attempt = 1
  <2>1. step' = [step EXCEPT ![s] = [pc |-> pc, attempt |-> 2]]
    BY <1>2 DEF Again
  <2> DEFINE r == [pc |-> pc, attempt |-> 2]
  <2>2. r \in StepStates /\ r.pc = pc /\ r.attempt > 1
    BY DEF StepStates
  <2> HIDE DEF r
  <2>3. step' = [step EXCEPT ![s] = r] /\ r.pc \in {pc, "failed"}
    BY <2>1, <2>2 DEF r
  <2> QED
    BY <2>2, <2>3
<1>3. CASE step[s].attempt = 2
  <2>1. step' = [step EXCEPT ![s] = [pc |-> "failed", attempt |-> 1]]
    BY <1>3 DEF Again
  <2>2. [pc |-> "failed", attempt |-> 1] \in StepStates
    BY DEF StepStates
  <2> QED
    BY <2>1, <2>2
<1> QED
  BY <1>1, <1>2, <1>3

\* A step and its work.
LEMMA StepFields ==
  ASSUME IInv, NEW s \in Steps
  PROVE  /\ step[s] \in StepStates /\ work[s] \in WorkStates /\ step \in [Steps -> StepStates] /\ work \in [Steps -> WorkStates]
         /\ CloneInOrder(s) /\ InOrder(s) /\ HoldsTheWork(s) /\ evalDir \in Steps \cup {None} /\ faults \in Nat
         /\ (Fault \/ NoFault => faults' \in Nat /\ faults' >= faults) /\ (Fault => faults' > 0)
         /\ work = [work EXCEPT ![s] = work[s]]
         /\ \A pc \in {"clone", "repository", "agent", "checkout", "commit", "push", "create", "record", "done"} :
              [step[s] EXCEPT !.pc = pc] \in StepStates /\ [pc |-> pc, attempt |-> 1] \in StepStates
<1>1. /\ step[s] \in StepStates /\ work[s] \in WorkStates /\ step \in [Steps -> StepStates] /\ work \in [Steps -> WorkStates]
      /\ CloneInOrder(s) /\ InOrder(s) /\ HoldsTheWork(s) /\ evalDir \in Steps \cup {None} /\ faults \in Nat
  BY DEF IInv, TypeOK, WorkInOrder, PullRequestHoldsTheWork
<1>2. (Fault \/ NoFault => faults' \in Nat /\ faults' >= faults) /\ (Fault => faults' > 0)
  BY <1>1 DEF Fault, NoFault
<1>3. work = [work EXCEPT ![s] = work[s]]
  BY <1>1
<1>4. \A pc \in {"clone", "repository", "agent", "checkout", "commit", "push", "create", "record", "done"} :
        [step[s] EXCEPT !.pc = pc] \in StepStates /\ [pc |-> pc, attempt |-> 1] \in StepStates
  BY <1>1 DEF StepStates
<1> QED
  BY <1>1, <1>2, <1>3, <1>4

\* The clone of the evaluation plugin.
LEMMA CloneKeepsIInv == ASSUME IInv, NEW s \in Steps, Clone(s) PROVE IInv'
<1>1. /\ UNCHANGED <<table, edits, profile, prov, live, has, installed, work, tree, faults>>
      /\ Working /\ step[s].pc = "clone" /\ NoFault
  BY DEF Clone, NoFault
<1>2. ~Over(s) /\ Put(s, Tree(s)) /\ Grows(s, Tree(s)) /\ Tree(s)' = Tree(s) /\ work' = [work EXCEPT ![s] = work[s]]
  BY <1>1, TreeType, StepFields DEF Over, Put
<1>3. /\ CloneInOrder(s) /\ InOrder(s) /\ HoldsTheWork(s) /\ work[s] \in WorkStates
      /\ evalDir \in Steps \cup {None} /\ step \in [Steps -> StepStates]
  BY StepFields
<1>4. ASSUME NEW r \in StepStates, step' = [step EXCEPT ![s] = r], r.pc \in {"repository", "wait", "failed"}
      PROVE  CloneInOrder(s)' /\ InOrder(s)' /\ HoldsTheWork(s)'
  <2>1. step'[s] = r /\ work'[s] = work[s]
    BY <1>1, <1>3, <1>4
  <2>2. CloneInOrder(s)'
    BY <1>1, <1>2, <1>3, <1>4, <2>1 DEF CloneInOrder, NoClone, Cloned
  <2>3. InOrder(s)' /\ HoldsTheWork(s)'
    BY <1>1, <1>2, <1>3, <1>4, <2>1 DEF InOrder, HoldsTheWork
  <2> QED
    BY <2>2, <2>3
<1>5. CASE Go(s, "repository") /\ evalDir' = s
  <2> DEFINE r == [pc |-> "repository", attempt |-> 1]
  <2>1. step' = [step EXCEPT ![s] = r] /\ r \in StepStates /\ r.pc = "repository"
    BY <1>5, StepFields DEF Go
  <2> HIDE DEF r
  <2>2. CloneInOrder(s)' /\ InOrder(s)' /\ HoldsTheWork(s)'
    BY <1>4, <2>1
  <2> QED
    BY <1>1, <1>2, <1>3, <1>5, <2>1, <2>2, OneStep
<1>6. CASE Again(s, "wait", MaxPreflights) /\ evalDir' \in {evalDir, None}
  <2>1. PICK r \in StepStates : step' = [step EXCEPT ![s] = r] /\ r.pc \in {"wait", "failed"}
    BY <1>6, AgainFacts DEF MaxPreflights
  <2>2. CloneInOrder(s)' /\ InOrder(s)' /\ HoldsTheWork(s)'
    BY <1>4, <2>1
  <2>3. evalDir' \in Steps \cup {None}
    BY <1>3, <1>6
  <2> QED
    BY <1>1, <1>2, <1>3, <2>1, <2>2, <2>3, OneStep
<1> QED
  BY <1>5, <1>6 DEF Clone

\* The clones there are.
LEMMA CloneFields ==
  ASSUME NEW s \in Steps, NEW whole \in BOOLEAN
  PROVE  /\ NoClone \in TreeStates /\ NoClone.by = None /\ NoClone.dirty = {} /\ NoClone.commits = {}
         /\ Cloned(s, whole) \in TreeStates /\ Cloned(s, whole).by = s
         /\ Cloned(s, whole).dirty = {} /\ Cloned(s, whole).commits = {}
  BY DEF NoClone, Cloned, TreeStates

LEMMA ChangedFields ==
  ASSUME NEW s \in Steps, NEW clone \in TreeStates
  PROVE  /\ [clone EXCEPT !.dirty = clone.dirty \cup {s}] \in TreeStates
         /\ [clone EXCEPT !.dirty = clone.dirty \cup {s}].by = clone.by
         /\ [clone EXCEPT !.dirty = clone.dirty \cup {s}].dirty = clone.dirty \cup {s}
         /\ [clone EXCEPT !.dirty = clone.dirty \cup {s}].commits = clone.commits
  BY DEF TreeStates

LEMMA CommittedFields ==
  ASSUME NEW clone \in TreeStates
  PROVE  /\ Committed(clone) \in TreeStates /\ Committed(clone).by = clone.by
         /\ Committed(clone).dirty = {} /\ Committed(clone).commits = clone.commits \cup clone.dirty
  BY DEF TreeStates, Committed

\* The repository.
LEMMA PrepareKeepsIInv == ASSUME IInv, NEW s \in Steps, Prepare(s) PROVE IInv'
<1>1. /\ UNCHANGED <<table, edits, profile, prov, live, has, installed, evalDir, work>>
      /\ Working /\ step[s].pc = "repository" /\ (Fault \/ NoFault)
  BY DEF Prepare
<1>2. ~Over(s) /\ work' = [work EXCEPT ![s] = work[s]] /\ s # None
  BY <1>1, StepFields, TreeType DEF Over
<1>3. /\ CloneInOrder(s) /\ InOrder(s) /\ HoldsTheWork(s) /\ work[s] \in WorkStates
      /\ evalDir \in Steps \cup {None} /\ step \in [Steps -> StepStates] /\ Tree(s) \in TreeStates
      /\ faults \in Nat /\ faults' \in Nat /\ faults' >= faults
  BY <1>1, StepFields, TreeType
\* The clone that stands after it.
<1>4. PICK clone \in TreeStates :
        /\ Put(s, clone) /\ Grows(s, clone)
        /\ \/ /\ clone = Tree(s) /\ clone.by # None /\ step' = [step EXCEPT ![s].pc = "agent"]
           \/ /\ clone = Cloned(s, TRUE) /\ step' = [step EXCEPT ![s].pc = "agent"]
           \/ Again(s, "repository", MaxExecutes)
  <2>1. CASE /\ UNCHANGED tree
             /\ \/ Tree(s).by # None /\ step' = [step EXCEPT ![s].pc = "agent"]
                \/ Again(s, "repository", MaxExecutes)
    <3>1. Put(s, Tree(s)) /\ Grows(s, Tree(s)) /\ Tree(s) \in TreeStates
      BY <2>1, TreeType DEF Put
    <3> QED
      BY <2>1, <3>1
  <2>2. CASE \E clone \in {NoClone, Cloned(s, FALSE), Cloned(s, TRUE)} :
               /\ Put(s, clone) /\ ((Tree(s).by = None /\ NoFault) \/ (Tree(s).by # None /\ Fault))
               /\ \/ clone = Cloned(s, TRUE) /\ step' = [step EXCEPT ![s].pc = "agent"]
                  \/ Again(s, "repository", MaxExecutes)
    <3>1. PICK clone \in {NoClone, Cloned(s, FALSE), Cloned(s, TRUE)} :
               /\ Put(s, clone) /\ ((Tree(s).by = None /\ NoFault) \/ (Tree(s).by # None /\ Fault))
               /\ \/ clone = Cloned(s, TRUE) /\ step' = [step EXCEPT ![s].pc = "agent"]
                  \/ Again(s, "repository", MaxExecutes)
      BY <2>2
    <3>2. /\ clone \in TreeStates /\ clone.by \in {None, s} /\ clone.dirty = {} /\ clone.commits = {}
          /\ clone = NoClone \/ clone.by # None
      BY <1>2, <3>1, CloneFields
    <3>3. faults' = 0 => Tree(s).dirty \cup Tree(s).commits = {}
      <4>1. Fault => faults' > 0
        BY StepFields
      <4>2. CASE Tree(s).by = None
        BY <4>2, TreeType, CloneFields
      <4>3. CASE Fault
        BY <4>1, <4>3
      <4> QED
        BY <3>1, <4>2, <4>3
    <3>4. Grows(s, clone)
      BY <3>2, <3>3 DEF Grows
    <3> QED
      BY <3>1, <3>2, <3>4
  <2> QED
    BY <2>1, <2>2 DEF Prepare
<1>5. Tree(s)' = clone /\ clone.by \in {None, s, Tree(s).by} /\ (clone = NoClone \/ clone.by # None)
      /\ (faults' = 0 => Tree(s).dirty \cup Tree(s).commits \subseteq clone.dirty \cup clone.commits)
  BY <1>4, TreeType DEF Grows
<1>6. PICK r \in StepStates :
        /\ step' = [step EXCEPT ![s] = r]
        /\ \/ r.pc = "agent" /\ r.attempt = step[s].attempt /\ clone.by # None /\ (clone = Tree(s) \/ clone = Cloned(s, TRUE))
           \/ r.pc = "repository" /\ r.attempt > 1
           \/ r.pc = "failed"
  <2>1. CASE step' = [step EXCEPT ![s].pc = "agent"] /\ ((clone = Tree(s) /\ clone.by # None) \/ clone = Cloned(s, TRUE))
    <3> DEFINE r == [step[s] EXCEPT !.pc = "agent"]
    <3>1. step[s] \in StepStates
      BY StepFields
    <3>2. r \in StepStates /\ r.pc = "agent" /\ r.attempt = step[s].attempt
      BY <3>1 DEF StepStates
    <3>3. step' = [step EXCEPT ![s] = r] /\ clone.by # None
      BY <1>2, <2>1, CloneFields
    <3> HIDE DEF r
    <3> QED
      BY <2>1, <3>2, <3>3
  <2>2. CASE Again(s, "repository", MaxExecutes)
    <3>1. PICK r \in StepStates : step' = [step EXCEPT ![s] = r] /\ r.pc \in {"repository", "failed"} /\ (r.pc = "repository" => r.attempt > 1)
      BY <2>2, AgainFacts DEF MaxExecutes
    <3> QED
      BY <3>1
  <2> QED
    BY <1>4, <2>1, <2>2
<1>7. step'[s] = r /\ work'[s] = work[s]
  BY <1>1, <1>3, <1>6
<1>8. CloneInOrder(s)'
  <2>1. clone.by # None => Repository[clone.by] = Repository[s]
    BY <1>5, TreeType
  <2>2. step'[s].pc = "repository" => step'[s].attempt > 1
    BY <1>6, <1>7
  <2>3. step'[s].pc = "agent" => clone.by # None /\ (clone = Cloned(s, TRUE) \/ clone.by # s \/ step'[s].attempt > 1)
    <3>1. Tree(s).by # s \/ step[s].attempt > 1
      BY <1>1, <1>3 DEF CloneInOrder
    <3> QED
      BY <1>6, <1>7, <3>1
  <2>4. faults' = 0 /\ work'[s].end \in {"dirty", "committed"} => s \in clone.dirty \cup clone.commits
    <3>1. faults' = 0 => faults = 0
      BY <1>3
    <3> QED
      BY <1>3, <1>5, <1>7, <3>1 DEF CloneInOrder
  <2>5. step'[s].pc \notin {"wait", "clone"}
    BY <1>6, <1>7
  <2> QED
    BY <1>5, <2>1, <2>2, <2>3, <2>4, <2>5 DEF CloneInOrder, NoClone, Cloned
<1>9. InOrder(s)' /\ HoldsTheWork(s)'
  <2>1. r.pc \in {"agent", "repository", "failed"}
    BY <1>6
  <2>2. faults > 0 => faults' > 0
    BY <1>3
  <2> QED
    BY <1>1, <1>3, <1>7, <2>1, <2>2 DEF InOrder, HoldsTheWork
<1>10. r.pc \in {"agent", "repository", "failed"}
  BY <1>6
<1> QED
  BY <1>1, <1>2, <1>3, <1>4, <1>6, <1>8, <1>9, <1>10, OneStep

\* The agent.
LEMMA RunAgentKeepsIInv == ASSUME IInv, NEW s \in Steps, RunAgent(s) PROVE IInv'
<1>1. /\ UNCHANGED <<table, edits, profile, prov, live, has, installed, evalDir, faults>>
      /\ Working /\ step[s].pc = "agent" /\ NoFault
  BY DEF RunAgent, NoFault
<1>2. ~Over(s)
  BY <1>1 DEF Over
<1>3. /\ CloneInOrder(s) /\ InOrder(s) /\ HoldsTheWork(s) /\ work[s] \in WorkStates /\ work \in [Steps -> WorkStates]
      /\ evalDir \in Steps \cup {None} /\ step \in [Steps -> StepStates] /\ Tree(s) \in TreeStates
      /\ Tree(s).by # None /\ faults \in Nat
  BY <1>1, StepFields, TreeType DEF CloneInOrder
\* The clone keeps what was in it, and has what the agent did.
<1>4. ASSUME NEW end \in {"clean", "dirty", "committed"}
      PROVE  /\ Left(s, end) \in TreeStates /\ Grows(s, Left(s, end)) /\ Left(s, end).by = Tree(s).by
             /\ end # "clean" => s \in Left(s, end).dirty \cup Left(s, end).commits
  <2> DEFINE changed == [Tree(s) EXCEPT !.dirty = Tree(s).dirty \cup {s}]
  <2>1. /\ changed \in TreeStates /\ changed.by = Tree(s).by /\ changed.dirty = Tree(s).dirty \cup {s}
        /\ changed.commits = Tree(s).commits
    BY <1>3, ChangedFields
  <2>2. Left(s, end) = CASE end = "clean" -> Tree(s) [] end = "dirty" -> changed [] end = "committed" -> Committed(changed)
    BY DEF Left
  <2> HIDE DEF changed
  <2>3. CASE end = "clean"
    BY <1>3, <2>2, <2>3, TreeType
  <2>4. CASE end = "dirty"
    BY <1>3, <2>1, <2>2, <2>4 DEF Grows
  <2>5. CASE end = "committed"
    <3>1. Left(s, end) = Committed(changed)
      BY <2>2, <2>5
    <3>2. /\ Committed(changed) \in TreeStates /\ Committed(changed).by = Tree(s).by
          /\ Committed(changed).dirty = {} /\ Committed(changed).commits = Tree(s).commits \cup Tree(s).dirty \cup {s}
      BY <2>1, CommittedFields
    <3> QED
      BY <1>3, <3>1, <3>2 DEF Grows
  <2> QED
    BY <2>3, <2>4, <2>5
<1>5. ASSUME NEW end \in {"clean", "dirty", "committed"}, Put(s, Left(s, end)),
             work' = [work EXCEPT ![s].end = end], Go(s, "checkout")
      PROVE  IInv'
  <2> DEFINE r == [pc |-> "checkout", attempt |-> 1]
             w == [work[s] EXCEPT !.end = end]
  <2>1. step' = [step EXCEPT ![s] = r] /\ work' = [work EXCEPT ![s] = w]
    BY <1>5 DEF Go
  <2>2. r \in StepStates /\ r.pc = "checkout"
    BY StepFields
  <2>3. w \in WorkStates /\ w.end = end /\ w.pushed = work[s].pushed /\ w.pr = work[s].pr /\ w.url = work[s].url
    BY <1>3 DEF WorkStates
  <2> HIDE DEF r, w
  <2>4. step'[s] = r /\ work'[s] = w
    BY <1>3, <2>1
  <2>5. Tree(s)' = Left(s, end)
    BY <1>4, <1>5, TreeType
  <2>6. CloneInOrder(s)'
    <3>1. step'[s].pc = "checkout" /\ Left(s, end).by # None
      BY <1>3, <1>4, <2>2, <2>4
    <3>2. Repository[Left(s, end).by] = Repository[s]
      BY <1>3, <1>4, TreeType
    <3>3. work'[s].end \in {"dirty", "committed"} => s \in Left(s, end).dirty \cup Left(s, end).commits
      BY <1>4, <2>3, <2>4
    <3> QED
      BY <2>5, <3>1, <3>2, <3>3 DEF CloneInOrder, NoClone, Cloned
  <2>7. InOrder(s)' /\ HoldsTheWork(s)'
    <3>1. work'[s].end = "dirty" => s \in Left(s, end).dirty \cup Left(s, end).commits
      BY <1>4, <2>3, <2>4
    <3> QED
      BY <1>1, <1>3, <2>2, <2>3, <2>4, <2>5, <3>1 DEF InOrder, HoldsTheWork
  <2> QED
    BY <1>1, <1>2, <1>3, <1>4, <1>5, <2>1, <2>2, <2>3, <2>6, <2>7, OneStep
<1>6. ASSUME Again(s, "repository", MaxExecutes), UNCHANGED work, NEW clone, Put(s, clone), Grows(s, clone),
             clone.by = Tree(s).by
      PROVE  IInv'
  <2>1. PICK r \in StepStates : step' = [step EXCEPT ![s] = r] /\ r.pc \in {"repository", "failed"} /\ (r.pc = "repository" => r.attempt > 1)
    BY <1>6, AgainFacts DEF MaxExecutes
  <2>2. step'[s] = r /\ work'[s] = work[s] /\ work' = [work EXCEPT ![s] = work[s]]
    BY <1>3, <1>6, <2>1
  <2>3. Tree(s)' = clone
    BY <1>6, TreeType DEF Grows
  <2>4. CloneInOrder(s)'
    <3>1. clone.by # None /\ Repository[clone.by] = Repository[s]
      BY <1>3, <1>6, TreeType
    <3>2. faults' = 0 /\ work'[s].end \in {"dirty", "committed"} => s \in clone.dirty \cup clone.commits
      BY <1>1, <1>3, <1>6, <2>2 DEF CloneInOrder, Grows
    <3>3. step'[s].pc \notin {"wait", "clone", "agent"} /\ (step'[s].pc = "repository" => step'[s].attempt > 1)
      BY <2>1, <2>2
    <3> QED
      BY <2>3, <3>1, <3>2, <3>3 DEF CloneInOrder, NoClone, Cloned
  <2>5. InOrder(s)' /\ HoldsTheWork(s)'
    BY <1>1, <1>3, <2>1, <2>2 DEF InOrder, HoldsTheWork
  <2> QED
    BY <1>1, <1>2, <1>3, <1>6, <2>1, <2>2, <2>4, <2>5, OneStep
<1>7. CASE UNCHANGED <<work, tree>> /\ Again(s, "repository", MaxExecutes)
  BY <1>6, <1>7, TreeType DEF Put
<1> QED
  BY <1>4, <1>5, <1>6, <1>7 DEF RunAgent

\* A step at its next command.
LEMMA Onward ==
  ASSUME NEW r \in StepStates,
         NEW pc \in {"clone", "repository", "agent", "checkout", "commit", "push", "create", "record", "done"}
  PROVE  [r EXCEPT !.pc = pc] \in StepStates /\ [r EXCEPT !.pc = pc].pc = pc
  BY DEF StepStates

\* A step at its second attempt.
LEMMA SecondAttempt ==
  ASSUME NEW r \in StepStates, r.attempt < MaxPullRequests
  PROVE  [pc |-> "checkout", attempt |-> r.attempt + 1] \in StepStates
<1>1. r.attempt + 1 = 2
  BY DEF StepStates, MaxPullRequests
<1> QED
  BY <1>1 DEF StepStates

\* A step that keeps its clone or commits in it, and whose pull request, if it
\* has one, holds what it should.
LEMMA RequestStep ==
  ASSUME IInv, NEW s \in Steps, Working, Fault \/ NoFault,
         UNCHANGED <<table, edits, profile, prov, live, has, installed, evalDir>>,
         step[s].pc \in {"checkout", "commit", "push", "create", "record"},
         NEW r \in StepStates, r.pc \in {"checkout", "commit", "push", "create", "record", "done"},
         NEW w \in WorkStates, NEW clone \in TreeStates,
         step' = [step EXCEPT ![s] = r], work' = [work EXCEPT ![s] = w], Put(s, clone),
         clone.by = Tree(s).by, clone.dirty \subseteq Tree(s).dirty,
         Tree(s).dirty \cup Tree(s).commits \subseteq clone.dirty \cup clone.commits, Tree(s).commits \subseteq clone.commits,
         clone = NoClone \/ clone.by # None,
         w.end = work[s].end,
         InOrder(s)', HoldsTheWork(s)'
  PROVE  IInv'
<1>1. /\ CloneInOrder(s) /\ evalDir \in Steps \cup {None} /\ step \in [Steps -> StepStates] /\ work \in [Steps -> WorkStates]
      /\ faults \in Nat /\ faults' \in Nat /\ faults' >= faults
  BY StepFields
<1>2. ~Over(s) /\ Grows(s, clone) /\ Tree(s)' = clone /\ step'[s] = r /\ work'[s] = w
  BY <1>1, TreeType DEF Over, Grows
<1>3. CloneInOrder(s)'
  <2>1. clone.by # None => Repository[clone.by] = Repository[s]
    BY TreeType
  <2>2. faults' = 0 => faults = 0
    BY <1>1
  <2>3. faults' = 0 /\ work'[s].end \in {"dirty", "committed"} => s \in clone.dirty \cup clone.commits
    BY <1>1, <1>2, <2>2 DEF CloneInOrder
  <2>4. step'[s].pc \notin {"wait", "clone", "repository", "agent"}
    BY <1>2
  <2> QED
    BY <1>2, <2>1, <2>3, <2>4 DEF CloneInOrder, NoClone, Cloned
<1> QED
  BY <1>1, <1>2, <1>3, OneStep

\* A command of the pull request that failed and left `mine' and the clone: the
\* next attempt begins with the checkout, or the error is written down.
LEMMA FailPullRequestKeepsIInv ==
  ASSUME IInv, NEW s \in Steps, Working, Fault \/ NoFault,
         UNCHANGED <<table, edits, profile, prov, live, has, installed, evalDir>>,
         step[s].pc \in {"checkout", "commit", "push", "create", "record"},
         NEW mine \in WorkStates, FailPullRequest(s, mine),
         NEW clone \in TreeStates, Put(s, clone),
         clone.by = Tree(s).by, clone.dirty \subseteq Tree(s).dirty,
         Tree(s).dirty \cup Tree(s).commits \subseteq clone.dirty \cup clone.commits, Tree(s).commits \subseteq clone.commits,
         clone = NoClone \/ clone.by # None,
         mine.end = work[s].end, mine.url => mine.pr,
         mine.pr => mine.pushed # {} /\ (mine.end = "dirty" => s \in mine.pushed),
         mine.pr /\ ~mine.url => faults' > 0,
         mine.end = "dirty" => s \in clone.dirty \cup clone.commits
  PROVE  IInv'
<1>1. step \in [Steps -> StepStates] /\ work \in [Steps -> WorkStates] /\ step[s] \in StepStates /\ Tree(s)' = clone
  BY StepFields, TreeType
<1>2. CASE /\ step[s].attempt < MaxPullRequests
           /\ step' = [step EXCEPT ![s] = [pc |-> "checkout", attempt |-> step[s].attempt + 1]]
           /\ work' = [work EXCEPT ![s] = mine]
  <2> DEFINE r == [pc |-> "checkout", attempt |-> step[s].attempt + 1]
  <2>1. step' = [step EXCEPT ![s] = r] /\ r \in StepStates /\ r.pc = "checkout"
    BY <1>1, <1>2, SecondAttempt
  <2> HIDE DEF r
  <2>2. step'[s] = r /\ work'[s] = mine
    BY <1>1, <1>2, <2>1
  <2>3. InOrder(s)' /\ HoldsTheWork(s)'
    BY <1>1, <2>1, <2>2 DEF InOrder, HoldsTheWork
  <2> QED
    BY <1>2, <2>1, <2>3, RequestStep
<1>3. CASE /\ Go(s, "done") /\ work' = [work EXCEPT ![s] = [mine EXCEPT !.error = TRUE]]
  <2> DEFINE r == [pc |-> "done", attempt |-> 1]
             w == [mine EXCEPT !.error = TRUE]
  <2>1. step' = [step EXCEPT ![s] = r] /\ work' = [work EXCEPT ![s] = w]
    BY <1>3 DEF Go
  <2>2. r \in StepStates /\ r.pc = "done"
    BY StepFields
  <2>3. w \in WorkStates /\ w.error /\ w.end = mine.end /\ w.pushed = mine.pushed /\ w.pr = mine.pr /\ w.url = mine.url
    BY DEF WorkStates
  <2> HIDE DEF r, w
  <2>4. step'[s] = r /\ work'[s] = w
    BY <1>1, <2>1
  <2>5. InOrder(s)' /\ HoldsTheWork(s)'
    BY <1>1, <2>2, <2>3, <2>4 DEF InOrder, HoldsTheWork
  <2> QED
    BY <2>1, <2>2, <2>3, <2>5, RequestStep
<1> QED
  BY <1>2, <1>3 DEF FailPullRequest

\* What is right of a step whose pull request is being made.
LEMMA RightSoFar ==
  ASSUME IInv, NEW s \in Steps, Fault \/ NoFault, step[s].pc \in {"checkout", "commit", "push", "create", "record"}
  PROVE  /\ work[s].url => work[s].pr
         /\ work[s].pr => work[s].pushed # {} /\ (work[s].end = "dirty" => s \in work[s].pushed)
         /\ work[s].pr /\ ~work[s].url /\ step[s].pc # "record" => faults' > 0
         /\ work[s].end = "dirty" => s \in Tree(s).dirty \cup Tree(s).commits
         /\ Fault => faults' > 0
         /\ Tree(s) = NoClone \/ Tree(s).by # None
<1>1. InOrder(s) /\ HoldsTheWork(s) /\ CloneInOrder(s) /\ faults \in Nat /\ faults' \in Nat /\ faults' >= faults
      /\ (Fault => faults' > 0)
  BY StepFields
<1>2. faults > 0 => faults' > 0
  BY <1>1
<1> QED
  BY <1>1, <1>2 DEF InOrder, HoldsTheWork, CloneInOrder

\* The pull request: the checkout finds work to commit or none,
LEMMA CheckoutKeepsIInv == ASSUME IInv, NEW s \in Steps, Checkout(s) PROVE IInv'
<1>1. /\ UNCHANGED <<table, edits, profile, prov, live, has, installed, evalDir, tree, faults>>
      /\ Working /\ step[s].pc = "checkout" /\ NoFault
  BY DEF Checkout, NoFault
<1>2. /\ step \in [Steps -> StepStates] /\ step[s] \in StepStates /\ work[s] \in WorkStates
      /\ work \in [Steps -> WorkStates] /\ InOrder(s) /\ HoldsTheWork(s)
  BY StepFields
<1>3. Put(s, Tree(s)) /\ Tree(s)' = Tree(s) /\ Tree(s) \in TreeStates
  BY <1>1, TreeType DEF Put
<1>4. CASE UNCHANGED work /\ step' = [step EXCEPT ![s].pc = IF Tree(s).dirty = {} THEN "done" ELSE "commit"]
  <2> DEFINE next == IF Tree(s).dirty = {} THEN "done" ELSE "commit"
             r == [step[s] EXCEPT !.pc = next]
  <2>1. step' = [step EXCEPT ![s] = r] /\ work' = [work EXCEPT ![s] = work[s]]
    BY <1>2, <1>4
  <2>2. (next = "commit" /\ Tree(s).dirty # {}) \/ (next = "done" /\ Tree(s).dirty = {})
    OBVIOUS
  <2>3. r \in StepStates /\ r.pc = next
    <3> HIDE DEF next
    <3> QED
      BY <1>2, <2>2 DEF StepStates
  <2> HIDE DEF r, next
  <2>4. step'[s] = r /\ work'[s] = work[s]
    BY <1>2, <1>4, <2>1
  <2>5. InOrder(s)'
    BY <1>1, <1>2, <1>3, <2>2, <2>3, <2>4, RightSoFar DEF InOrder
  <2>6. HoldsTheWork(s)'
    BY <1>1, <1>2, <1>3, <2>2, <2>3, <2>4, RightSoFar DEF HoldsTheWork
  <2> QED
    BY <1>1, <1>2, <1>3, <2>1, <2>2, <2>3, <2>5, <2>6, RightSoFar, RequestStep
<1>5. CASE FailPullRequest(s, work[s])
  BY <1>1, <1>2, <1>3, <1>5, RightSoFar, FailPullRequestKeepsIInv
<1> QED
  BY <1>4, <1>5 DEF Checkout

\* What a command does to the clone, the branch and the request.
LEMMA CommandFields ==
  ASSUME IInv, NEW s \in Steps, NEW pc \in {"commit", "push", "create"}, step[s].pc = pc
  PROVE  /\ TreeAfter(s, pc) \in TreeStates /\ TreeAfter(s, pc).by = Tree(s).by
         /\ TreeAfter(s, pc) = NoClone \/ TreeAfter(s, pc).by # None
         /\ pc = "commit" => /\ TreeAfter(s, pc).dirty = {} /\ TreeAfter(s, pc).commits = Tree(s).commits \cup Tree(s).dirty
                             /\ WorkAfter(s, pc) = work[s]
         /\ pc # "commit" => TreeAfter(s, pc) = Tree(s)
         /\ WorkAfter(s, pc) \in WorkStates /\ WorkAfter(s, pc).end = work[s].end /\ WorkAfter(s, pc).url = work[s].url
         /\ WorkAfter(s, pc).pushed = IF pc = "push" THEN Tree(s).commits ELSE work[s].pushed
         /\ WorkAfter(s, pc).pr = IF pc = "create" THEN TRUE ELSE work[s].pr
<1>1. Tree(s) \in TreeStates /\ (Tree(s) = NoClone \/ Tree(s).by # None) /\ work[s] \in WorkStates
  BY TreeType, StepFields
<1>2. /\ TreeAfter(s, pc) \in TreeStates /\ TreeAfter(s, pc).by = Tree(s).by
      /\ pc = "commit" => TreeAfter(s, pc).dirty = {} /\ TreeAfter(s, pc).commits = Tree(s).commits \cup Tree(s).dirty
      /\ pc # "commit" => TreeAfter(s, pc) = Tree(s)
  BY <1>1, CommittedFields DEF TreeAfter
<1>3. TreeAfter(s, pc) = NoClone \/ TreeAfter(s, pc).by # None
  <2>1. CASE Tree(s).by # None
    BY <1>2, <2>1
  <2>2. CASE Tree(s) = NoClone
    <3>1. NoClone.dirty = {}
      BY DEF NoClone
    <3>2. pc # "commit"
      BY <2>2, <3>1 DEF IInv, WorkInOrder, InOrder
    <3> QED
      BY <1>2, <2>2, <3>2
  <2> QED
    BY <1>1, <2>1, <2>2
<1>4. Tree(s).commits \in SUBSET Steps
  BY <1>1 DEF TreeStates
<1>5. /\ WorkAfter(s, pc) \in WorkStates /\ WorkAfter(s, pc).end = work[s].end /\ WorkAfter(s, pc).url = work[s].url
      /\ WorkAfter(s, pc).pushed = IF pc = "push" THEN Tree(s).commits ELSE work[s].pushed
      /\ WorkAfter(s, pc).pr = IF pc = "create" THEN TRUE ELSE work[s].pr
      /\ pc = "commit" => WorkAfter(s, pc) = work[s]
  BY <1>1, <1>4 DEF WorkAfter, WorkStates
<1> QED
  BY <1>2, <1>3, <1>5

\* each command is done and answered, or not,
LEMMA PerformKeepsIInv == ASSUME IInv, NEW s \in Steps, Perform(s) PROVE IInv'
<1> DEFINE pc == step[s].pc
           w == WorkAfter(s, pc)
           clone == TreeAfter(s, pc)
<1>1. /\ UNCHANGED <<table, edits, profile, prov, live, has, installed, evalDir>>
      /\ Working /\ pc \in {"commit", "push", "create"} /\ (Fault \/ NoFault)
  BY DEF Perform
<1>2. /\ step \in [Steps -> StepStates] /\ step[s] \in StepStates /\ work[s] \in WorkStates
      /\ work \in [Steps -> WorkStates] /\ InOrder(s) /\ HoldsTheWork(s) /\ Tree(s) \in TreeStates
  BY StepFields, TreeType
<1>3. /\ clone \in TreeStates /\ clone.by = Tree(s).by /\ (clone = NoClone \/ clone.by # None)
      /\ (pc = "commit" => clone.dirty = {} /\ clone.commits = Tree(s).commits \cup Tree(s).dirty /\ w = work[s])
      /\ (pc # "commit" => clone = Tree(s))
      /\ w \in WorkStates /\ w.end = work[s].end /\ w.url = work[s].url
      /\ w.pushed = (IF pc = "push" THEN Tree(s).commits ELSE work[s].pushed)
      /\ w.pr = (IF pc = "create" THEN TRUE ELSE work[s].pr)
  <2> HIDE DEF pc
  <2>1. pc \in {"commit", "push", "create"} /\ step[s].pc = pc
    BY <1>1 DEF pc
  <2> HIDE DEF w, clone
  <2> QED
    BY <2>1, CommandFields, ZenonT(60) DEF w, clone
<1> HIDE DEF w, clone
<1>4. /\ clone.dirty \subseteq Tree(s).dirty /\ Tree(s).commits \subseteq clone.commits
      /\ Tree(s).dirty \cup Tree(s).commits \subseteq clone.dirty \cup clone.commits
  BY <1>1, <1>3
\* What is right after the command, answered or not.
<1>5. /\ w.url => w.pr
      /\ w.pr => w.pushed # {} /\ (w.end = "dirty" => s \in w.pushed)
      /\ w.end = "dirty" => s \in clone.dirty \cup clone.commits
      /\ pc # "create" /\ w.pr /\ ~w.url => faults' > 0
  <2>1. /\ work[s].url => work[s].pr
        /\ work[s].pr => work[s].pushed # {} /\ (work[s].end = "dirty" => s \in work[s].pushed)
        /\ work[s].end = "dirty" => s \in Tree(s).dirty \cup Tree(s).commits
        /\ work[s].pr /\ ~work[s].url => faults' > 0
    BY <1>1, RightSoFar
  <2>2. pc \in {"push", "create"} => Tree(s).commits # {} /\ (work[s].end = "dirty" => s \in Tree(s).commits)
    BY <1>2 DEF InOrder
  <2>3. pc = "create" => work[s].pushed # {} /\ (work[s].end = "dirty" => s \in work[s].pushed)
    BY <1>2 DEF InOrder
  <2>4. CASE pc = "commit"
    BY <1>3, <1>4, <2>1, <2>4
  <2>5. CASE pc = "push"
    BY <1>3, <1>4, <2>1, <2>2, <2>5
  <2>6. CASE pc = "create"
    BY <1>3, <1>4, <2>1, <2>3, <2>6
  <2> QED
    BY <1>1, <2>4, <2>5, <2>6
<1>6. CASE Put(s, clone) /\ work' = [work EXCEPT ![s] = w] /\ step' = [step EXCEPT ![s].pc = NextCommand(pc)]
  <2> DEFINE r == [step[s] EXCEPT !.pc = NextCommand(pc)]
  <2>1. step' = [step EXCEPT ![s] = r]
    BY <1>6
  <2>2. r \in StepStates /\ r.pc = NextCommand(pc) /\ NextCommand(pc) \in {"push", "create", "record"}
    <3>1. NextCommand(pc) \in {"push", "create", "record"}
      BY <1>1 DEF NextCommand
    <3> QED
      BY <1>2, <3>1 DEF StepStates
  <2> HIDE DEF r
  <2>3. step'[s] = r /\ work'[s] = w /\ Tree(s)' = clone
    BY <1>2, <1>3, <1>6, <2>1, TreeType
  <2>4. r.pc \in {"push", "create", "record"} => clone.commits # {} /\ (w.end = "dirty" => s \in clone.commits)
    <3>1. CASE pc = "commit"
      BY <1>2, <1>3, <1>5, <3>1 DEF InOrder
    <3>2. CASE pc # "commit"
      BY <1>1, <1>2, <1>3, <3>2 DEF InOrder
    <3> QED
      BY <3>1, <3>2
  <2>5. r.pc \in {"create", "record"} => w.pushed # {} /\ (w.end = "dirty" => s \in w.pushed)
    <3>1. CASE pc = "commit"
      BY <2>2, <3>1 DEF NextCommand
    <3>2. CASE pc = "push"
      BY <1>2, <1>3, <3>2 DEF InOrder
    <3>3. CASE pc = "create"
      BY <1>3, <1>5, <3>3
    <3> QED
      BY <1>1, <3>1, <3>2, <3>3
  <2>6. /\ (r.pc = "record") <=> (pc = "create")
        /\ r.pc = "record" => w.pr
    <3>1. (r.pc = "record") <=> (pc = "create")
      BY <1>1, <2>2 DEF NextCommand
    <3> QED
      BY <1>3, <3>1
  <2>7. InOrder(s)'
    BY <1>5, <2>2, <2>3, <2>4, <2>5, <2>6 DEF InOrder
  <2>8. HoldsTheWork(s)'
    BY <1>5, <2>2, <2>3 DEF HoldsTheWork
  <2> QED
    <3>1. /\ step[s].pc \in {"checkout", "commit", "push", "create", "record"}
          /\ r.pc \in {"checkout", "commit", "push", "create", "record", "done"}
      BY <1>1, <2>2
    <3> QED
      BY <1>1, <1>3, <1>4, <1>6, <2>1, <2>2, <2>7, <2>8, <3>1, RequestStep, ZenonT(60)
<1>7. CASE FailPullRequest(s, work[s]) /\ UNCHANGED tree
  <2>1. Put(s, Tree(s))
    BY <1>7, TreeType DEF Put
  <2>2. pc # "record"
    BY <1>1
  <2> QED
    BY <1>1, <1>2, <1>7, <2>1, <2>2, RightSoFar, FailPullRequestKeepsIInv
<1>8. CASE Put(s, clone) /\ FailPullRequest(s, w) /\ Fault
  <2>1. faults' > 0
    BY <1>1, <1>8, RightSoFar
  <2> QED
    BY <1>1, <1>3, <1>4, <1>5, <1>8, <2>1, FailPullRequestKeepsIInv
<1> QED
  BY <1>6, <1>7, <1>8 DEF Perform, w, clone

\* and the result is recorded, or its worker dies.
LEMMA RecordKeepsIInv == ASSUME IInv, NEW s \in Steps, Record(s) PROVE IInv'
<1>1. /\ UNCHANGED <<table, edits, profile, prov, live, has, installed, evalDir, tree>>
      /\ Working /\ step[s].pc = "record" /\ (Fault \/ NoFault)
  BY DEF Record
<1>2. /\ step \in [Steps -> StepStates] /\ work[s] \in WorkStates /\ work \in [Steps -> WorkStates]
      /\ InOrder(s) /\ HoldsTheWork(s) /\ Tree(s) \in TreeStates
  BY StepFields, TreeType
<1>3. Put(s, Tree(s)) /\ Tree(s)' = Tree(s)
  BY <1>1, TreeType DEF Put
<1>4. CASE work' = [work EXCEPT ![s].url = TRUE] /\ Go(s, "done")
  <2> DEFINE r == [pc |-> "done", attempt |-> 1]
             w == [work[s] EXCEPT !.url = TRUE]
  <2>1. step' = [step EXCEPT ![s] = r] /\ work' = [work EXCEPT ![s] = w]
    BY <1>4 DEF Go
  <2>2. r \in StepStates /\ r.pc = "done"
    BY StepFields
  <2>3. w \in WorkStates /\ w.url /\ w.end = work[s].end /\ w.pushed = work[s].pushed /\ w.pr = work[s].pr
    BY <1>2 DEF WorkStates
  <2> HIDE DEF r, w
  <2>4. step'[s] = r /\ work'[s] = w
    BY <1>2, <2>1
  <2>5. InOrder(s)' /\ HoldsTheWork(s)'
    BY <1>1, <1>2, <1>3, <2>2, <2>3, <2>4, RightSoFar DEF InOrder, HoldsTheWork
  <2> QED
    BY <1>1, <1>2, <1>3, <2>1, <2>2, <2>3, <2>5, RightSoFar, RequestStep
<1>5. CASE FailPullRequest(s, work[s]) /\ Fault
  BY <1>1, <1>2, <1>3, <1>5, RightSoFar, FailPullRequestKeepsIInv
<1> QED
  BY <1>4, <1>5 DEF Record

\* What the script leaves.
LEMMA AfterScript ==
  ASSUME IInv, NEW broken
  PROVE  /\ After(profile.effective, broken) \in [Keys -> {e.version : e \in Entries} \cup {None}]
         /\ broken = {} => \A k \in Keys : After(profile.effective, broken)[k] =
              IF LastVersion(Scripted(profile.effective), k) # None THEN LastVersion(Scripted(profile.effective), k)
                                                                     ELSE installed[k]
<1> DEFINE script == Scripted(profile.effective)
           mine(k) == {i \in DOMAIN script : script[i].key = k}
<1>1. profile.effective \in Seq(Entries) /\ installed \in [Keys -> {e.version : e \in Entries} \cup {None}]
  BY DEF IInv, TypeOK, Profiles
<1>2. script \in Seq(Entries)
  BY <1>1, ScriptedLast
<1>3. ASSUME NEW k \in Keys, mine(k) # {}
      PROVE  Max(mine(k)) \in mine(k) /\ script[Max(mine(k))] \in Entries
  <2>1. Len(script) \in Nat /\ DOMAIN script = 1..Len(script)
    BY <1>2
  <2>2. mine(k) \in SUBSET (1..Len(script))
    BY <2>1
  <2>3. Max(mine(k)) \in mine(k)
    <3> HIDE DEF mine
    <3> QED
      BY <1>3, <2>1, <2>2, MaxIn
  <2>4. Max(mine(k)) \in DOMAIN script
    BY <2>3
  <2> QED
    BY <1>2, <2>3, <2>4
<1>4. After(profile.effective, broken) =
        [k \in Keys |-> IF mine(k) = {} THEN installed[k]
                        ELSE IF Max(mine(k)) \in broken THEN None ELSE script[Max(mine(k))].version]
  BY <1>1 DEF After
<1>5. After(profile.effective, broken) \in [Keys -> {e.version : e \in Entries} \cup {None}]
  <2>1. ASSUME NEW k \in Keys
        PROVE  (IF mine(k) = {} THEN installed[k]
                ELSE IF Max(mine(k)) \in broken THEN None ELSE script[Max(mine(k))].version)
                 \in {e.version : e \in Entries} \cup {None}
    <3> HIDE DEF script, mine
    <3>1. installed[k] \in {e.version : e \in Entries} \cup {None}
      BY <1>1
    <3> QED
      BY <1>3, <3>1
  <2> HIDE DEF script, mine
  <2> QED
    BY <1>4, <2>1
<1>6. ASSUME broken = {}, NEW k \in Keys
      PROVE  After(profile.effective, broken)[k] = IF LastVersion(script, k) # None THEN LastVersion(script, k) ELSE installed[k]
  <2>1. After(profile.effective, broken)[k] = IF mine(k) = {} THEN installed[k] ELSE script[Max(mine(k))].version
    BY <1>4, <1>6
  <2>2. LastVersion(script, k) = IF mine(k) = {} THEN None ELSE script[Max(mine(k))].version
    BY DEF LastVersion
  <2>3. mine(k) # {} => script[Max(mine(k))].version # None
    <3> HIDE DEF script, mine
    <3> QED
      BY <1>3, BodiesAssumption
  <2> HIDE DEF script, mine
  <2> QED
    BY <2>1, <2>2, <2>3
<1> QED
  BY <1>5, <1>6

\* The script.
LEMMA RunScriptKeepsIInv == ASSUME IInv, NEW s \in Steps, RunScript(s) PROVE IInv'
<1>1. /\ UNCHANGED <<table, edits, profile, prov, live, has, evalDir, work, tree>>
      /\ Working /\ Turn(s) /\ step[s].pc = "wait" /\ (Fault \/ NoFault)
  BY DEF RunScript
<1>2. ~Over(s)
  BY <1>1 DEF Over
<1>3. PICK r \in StepStates : step' = [step EXCEPT ![s] = r] /\ r.pc \in {"clone", "wait", "failed"}
  <2>1. CASE step' = [step EXCEPT ![s].pc = "clone"]
    <3> DEFINE r == [step[s] EXCEPT !.pc = "clone"]
    <3>1. r \in StepStates /\ r.pc = "clone"
      <4>1. step[s] \in StepStates
        BY StepFields
      <4> QED
        BY <4>1, Onward
    <3>2. step' = [step EXCEPT ![s] = r]
      BY <2>1
    <3> HIDE DEF r
    <3> QED
      BY <3>1, <3>2
  <2>2. CASE Again(s, "wait", MaxPreflights)
    BY <2>2, AgainFacts DEF MaxPreflights
  <2> QED
    BY <2>1, <2>2 DEF RunScript
<1>4. /\ step' \in [Steps -> StepStates] /\ work' \in [Steps -> WorkStates] /\ step'[s] = r /\ work'[s] = work[s]
      /\ evalDir' \in Steps \cup {None}
  BY <1>1, <1>3, StepFields
<1>5. Alone(s)
  BY <1>1, <1>3, StepFields DEF Alone
<1>6. CloneInOrder(s)' /\ InOrder(s)' /\ HoldsTheWork(s)'
  <2>1. CloneInOrder(s) /\ InOrder(s) /\ HoldsTheWork(s) /\ Tree(s)' = Tree(s)
        /\ faults \in Nat /\ faults' \in Nat /\ faults' >= faults
    BY <1>1, StepFields DEF Tree
  <2>2. faults' = 0 => faults = 0
    BY <2>1
  <2>3. CloneInOrder(s)'
    BY <1>1, <1>3, <1>4, <2>1, <2>2 DEF CloneInOrder, NoClone, Cloned
  <2>4. InOrder(s)' /\ HoldsTheWork(s)'
    BY <1>1, <1>3, <1>4, <2>1 DEF InOrder, HoldsTheWork
  <2> QED
    BY <2>3, <2>4
<1>7. WorkInOrder' /\ PullRequestHoldsTheWork' /\ tree' \in [Range(Repository) -> TreeStates]
  <2>1. Put(s, Tree(s)) /\ Grows(s, Tree(s))
    BY <1>1, TreeType DEF Put
  <2>2. tree \in [Range(Repository) -> TreeStates]
    BY DEF IInv, TypeOK
  <2> QED
    BY <1>1, <1>2, <1>5, <1>6, <2>1, <2>2, OthersStay
<1>8. StepsTakeTurns'
  BY <1>1, <1>2, <1>3, <1>4, <1>5, TurnsStay
<1>9. installed' \in [Keys -> {e.version : e \in Entries} \cup {None}]
  <2>1. installed \in [Keys -> {e.version : e \in Entries} \cup {None}]
    BY DEF IInv, TypeOK
  <2> QED
    BY <2>1, AfterScript DEF RunScript
<1>10. InstalledFollowsProfile'
  <2>1. CASE Fault
    <3>1. faults' # 0
      <4>1. faults \in Nat /\ faults' = faults + 1
        BY <2>1, StepFields DEF Fault
      <4> QED
        BY <4>1
    <3> QED
      BY <3>1 DEF InstalledFollowsProfile
  <2>2. CASE NoFault /\ installed' = After(profile.effective, {})
    <3> SUFFICES ASSUME faults' = 0, NEW k \in Keys PROVE installed'[k] = LastVersion(Scripted(profile'.effective), k)
      BY DEF InstalledFollowsProfile
    <3>1. faults = 0
      BY <2>2 DEF NoFault
    <3>2. installed[k] \in {None, LastVersion(Scripted(profile.effective), k)}
      BY <3>1 DEF IInv, InstalledFollowsProfile
    <3> QED
      BY <1>1, <2>2, <3>2, AfterScript
  <2>3. CASE NoFault /\ Again(s, "wait", MaxPreflights) /\ UNCHANGED installed
    <3>1. step'[s].pc \in {"wait", "failed"}
      <4>1. PICK q \in StepStates : step' = [step EXCEPT ![s] = q] /\ q.pc \in {"wait", "failed"}
        BY <2>3, AgainFacts DEF MaxPreflights
      <4> QED
        BY <4>1, StepFields
    <3> QED
      BY <1>1, <1>5, <2>3, <3>1, ScriptStays
  <2> QED
    BY <2>1, <2>2, <2>3 DEF RunScript
<1> QED
  BY <1>1, <1>4, <1>7, <1>8, <1>9, <1>10, WorkingStep

-----------------------------------------------------------------------------
(* The theorems.                                                           *)

\* Every step keeps the invariant.
LEMMA NextKeepsIInv == IInv /\ [Next]_vars => IInv'
<1> SUFFICES ASSUME IInv, [Next]_vars PROVE IInv'
  OBVIOUS
<1>1. CASE UNCHANGED vars
  <2>1. /\ UNCHANGED <<table, edits, profile, prov, live, has, installed, evalDir, step, work, tree, faults>>
        /\ faults \in Nat /\ faults' \in Nat /\ faults' >= faults /\ live \in SUBSET (1..MaxProvisions)
    BY <1>1 DEF vars, IInv, TypeOK
  <2>2. TypeOK'
    BY <2>1 DEF TypeOK, IInv
  <2>3. ProfileIsMerged'
    BY <2>1, ProfileStays DEF IInv, Begun
  <2> QED
    BY <2>1, <2>2, <2>3, StepsStay, InstalledStays, SandboxStays DEF IInv
<1>2. ASSUME NEW s \in Steps, StepNext(s) PROVE IInv'
  BY <1>2, RunScriptKeepsIInv, CloneKeepsIInv, PrepareKeepsIInv, RunAgentKeepsIInv, CheckoutKeepsIInv,
     PerformKeepsIInv, RecordKeepsIInv DEF StepNext
<1> QED
  BY <1>1, <1>2, EditProfileKeepsIInv, ReadBaselineKeepsIInv, ReadProfileKeepsIInv, CredentialsKeepsIInv,
     CreateContainerKeepsIInv, SetUpKeepsIInv, ReturnKeepsIInv, ExpireKeepsIInv, CloseKeepsIInv, KillKeepsIInv
     DEF Next, Rest

\* In every reachable state IInv holds: types, who holds the container, what the
\* stages have left, what is installed and how far each step has come.
THEOREM InvariantHolds == Spec => []IInv
<1>1. Init => IInv
  BY InitIInv
<1>2. IInv /\ [Next]_vars => IInv'
  BY NextKeepsIInv
<1> QED
  BY <1>1, <1>2, PTL DEF Spec

\* Every variable keeps its type, through every order of faults and retries.
THEOREM TypesHold == Spec => []TypeOK
<1>1. IInv => TypeOK
  BY DEF IInv
<1> QED
  BY <1>1, InvariantHolds, PTL

\* However the attempts of ProvisionSandbox and the clean-up fail, the containers
\* that live and are held by nobody are no more than the faults: every error path
\* kills what it created.
THEOREM ContainersAreKilled == Spec => []NoContainerIsForgotten
<1>1. IInv => NoContainerIsForgotten
  BY DEF IInv
<1> QED
  BY <1>1, InvariantHolds, PTL

\* However the commands of CreatePullRequest are retried, a reported pull request
\* exists and holds the agent's work, and no uncommitted work is dropped without
\* an error.
THEOREM WorkIsNotLost == Spec => []PullRequestHoldsTheWork
<1>1. IInv => PullRequestHoldsTheWork
  BY DEF IInv
<1> QED
  BY <1>1, InvariantHolds, PTL

\* A sandbox that is handed over has been through every stage but those that
\* need git, whatever failed in the attempts before.
THEOREM SandboxesAreReady == Spec => []SandboxIsReady
<1>1. IInv => SandboxIsReady
  <2> SUFFICES ASSUME StagesInOrder, prov.pc = "ready" PROVE has = {stage \in Range(Stages) : ~NeedsGit(stage)}
    BY DEF IInv, SandboxIsReady
  <2>1. has = Prepared(Len(Stages) + 1)
    BY DEF StagesInOrder
  <2>2. (Len(Stages) + 1) - 1 = Len(Stages)
    BY StagesType
  <2>3. Prepared(Len(Stages) + 1) = {Stages[i] : i \in {i \in DOMAIN Stages : ~NeedsGit(Stages[i])}}
    BY <2>2, StagesType DEF Prepared
  <2>4. Range(Stages) = {Stages[i] : i \in DOMAIN Stages}
    BY DEF Range
  <2> HIDE DEF Stages
  <2> QED
    BY <2>1, <2>3, <2>4
<1> QED
  BY <1>1, InvariantHolds, PTL

\* Where the steps of a group depend on each other, an agent starts in a clean
\* clone at its ref, or in one an attempt or an earlier step of the group left,
\* with all that the earlier steps changed in it, with its own evaluation plugin,
\* and with what the workflow's profile lists last for a key, or else the
\* baseline's: whatever the bodies are, the order of their entries and their
\* number.
THEOREM ReuseIsSafe == ~Parallel => (Spec => []SandboxReuseIsSafe)
<1> SUFFICES ASSUME ~Parallel PROVE Spec => []SandboxReuseIsSafe
  OBVIOUS
<1>1. IInv => SandboxReuseIsSafe
  <2> SUFFICES ASSUME IInv, NEW s \in Steps, step[s].pc = "agent"
               PROVE  /\ \/ Tree(s) = Cloned(s, TRUE)
                         \/ step[s].attempt > 1 /\ Tree(s).by # None
                         \/ Tree(s).by \in Before(s)
                      /\ evalDir = s
                      /\ faults = 0 => \A t \in Before(s) :
                           work[t].end \in {"dirty", "committed"} => t \in Tree(s).dirty \cup Tree(s).commits
                      /\ faults = 0 => \A k \in DOMAIN installed :
                           installed[k] = IF LastVersion(Scripted(profile.named), k) # None
                                          THEN LastVersion(Scripted(profile.named), k)
                                          ELSE LastVersion(Scripted(profile.baseline), k)
    BY DEF SandboxReuseIsSafe
  <2>1. \/ Tree(s) = Cloned(s, TRUE)
        \/ step[s].attempt > 1 /\ Tree(s).by # None
        \/ Tree(s).by \in Before(s)
    <3>1. Tree(s).by # None /\ (Tree(s) = Cloned(s, TRUE) \/ Tree(s).by # s \/ step[s].attempt > 1)
      BY DEF IInv, WorkInOrder, CloneInOrder
    <3>2. ASSUME Tree(s).by # s PROVE Tree(s).by \in Before(s)
      <4> DEFINE t == Tree(s).by
      <4>1. t \in Steps /\ Repository[t] = Repository[s]
        BY <3>1, TreeType DEF TreeStates
      <4>2. step[t].pc \notin {"wait", "clone"}
        <5>1. CloneInOrder(t) /\ Tree(t) = Tree(s)
          BY <4>1 DEF IInv, WorkInOrder, Tree
        <5> QED
          BY <5>1 DEF CloneInOrder
      <4> HIDE DEF t
      <4>3. PICK i \in DOMAIN Order : Order[i] = t
        BY <4>1 DEF Steps, Range
      <4>4. PICK j \in DOMAIN Order : Order[j] = s
        BY DEF Steps, Range
      <4>5. i \in Nat /\ j \in Nat /\ i # j
        BY <3>2, <4>3, <4>4, OrderAssumption DEF t
      <4>6. ~(j < i)
        BY <4>2, <4>3, <4>4 DEF IInv, StepsTakeTurns, Over
      <4>7. i < j
        BY <4>5, <4>6
      <4>8. t \in Before(s)
        BY <4>1, <4>3, <4>4, <4>7 DEF Before
      <4> QED
        BY <4>8 DEF t
    <3> QED
      BY <3>1, <3>2
  <2>4. ASSUME faults = 0, NEW t \in Before(s), work[t].end \in {"dirty", "committed"}
        PROVE  t \in Tree(s).dirty \cup Tree(s).commits
    <3>1. t \in Steps /\ Tree(t) = Tree(s)
      BY DEF Before, Tree
    <3> QED
      BY <2>4, <3>1 DEF IInv, WorkInOrder, CloneInOrder
  <2>2. evalDir = s
    BY DEF IInv, StepsTakeTurns
  <2>3. ASSUME faults = 0, NEW k \in DOMAIN installed
        PROVE  installed[k] = IF LastVersion(Scripted(profile.named), k) # None
                              THEN LastVersion(Scripted(profile.named), k)
                              ELSE LastVersion(Scripted(profile.baseline), k)
    <3>1. k \in Keys
      BY DEF IInv, TypeOK
    <3>2. installed[k] = LastVersion(Scripted(profile.effective), k)
      BY <2>3, <3>1 DEF IInv, InstalledFollowsProfile
    <3>3. Begun
      BY DEF IInv, ProfileIsMerged
    <3>4. profile.effective = MergeProfiles(profile.baseline, profile.named)
      BY <3>3 DEF IInv, ProfileIsMerged, Begun
    <3>5. profile.baseline \in Seq(Entries) /\ profile.named \in Seq(Entries)
      BY DEF IInv, TypeOK, Profiles
    <3> QED
      BY <3>2, <3>4, <3>5, MergedScriptLast
  <2> QED
    BY <2>1, <2>2, <2>3, <2>4
<1> QED
  BY <1>1, InvariantHolds, PTL
=============================================================================
