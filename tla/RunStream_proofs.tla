-------------------------- MODULE RunStream_proofs --------------------------
(***************************************************************************)
(* Theorems about RunStream, for every set of clients, every number of     *)
(* lines and lost connections: fanOut stays within the array it walks      *)
(* without the lock, however clients come and go, and the cursor passes no *)
(* line but those a later one overtook on their way into the table.        *)
(***************************************************************************)
EXTENDS RunStream, FiniteSetTheorems, TLAPS

\* An array that is built from clients is an array of clients.
LEMMA ArrayOfClients ==
  ASSUME NEW n \in Nat, NEW a, a = [i \in 1..n |-> a[i]], \A i \in 1..n : a[i] \in Clients
  PROVE  a \in Seq(Clients) /\ Len(a) = n /\ DOMAIN a = 1..n
<1>1. a \in [1..n -> Clients]
  OBVIOUS
<1> QED
  BY <1>1

\* What the rows and the bounds are, as numbers.
LEMMA RowsAreNumbers ==
  ASSUME RowsTyped
  PROVE  /\ drawn \in Nat /\ wire \in Nat /\ MaxLogs \in Nat /\ drawn <= MaxLogs
         /\ logs \subseteq Nat /\ open \subseteq Nat
         /\ \A x \in logs \cup open : 1 <= x /\ x <= drawn
  BY BoundsAssumption DEF RowsTyped

\* A set of drawn ids has no more members than ids were drawn.
LEMMA DrawnAreCounted ==
  ASSUME NEW n \in Nat, NEW S \in SUBSET (1..n)
  PROVE  IsFiniteSet(S) /\ Cardinality(S) \in Nat /\ Cardinality(S) <= n
<1>1. IsFiniteSet(1..n) /\ Cardinality(1..n) = IF 1 > n THEN 0 ELSE n - 1 + 1
  BY FS_Interval, 1 \in Int, n \in Int
<1>2. Cardinality(1..n) = n
  BY <1>1
<1>3. IsFiniteSet(S) /\ Cardinality(S) <= Cardinality(1..n)
  BY <1>1, FS_Subset
<1>4. Cardinality(S) \in Nat
  BY <1>3, FS_CardinalityType
<1> QED
  BY <1>2, <1>3, <1>4

\* There are no more lines in the table than ids were drawn.
LEMMA LinesAreCounted ==
  ASSUME RowsTyped
  PROVE  IsFiniteSet(logs) /\ Cardinality(logs) \in Nat /\ Cardinality(logs) <= drawn
  BY RowsAreNumbers, DrawnAreCounted DEF RowsTyped

\* The places of the slice are clients.
LEMMA PlacesAreClients ==
  ASSUME SliceNamesClients
  PROVE  /\ count \in Nat /\ Len(slots) \in Nat /\ count <= Len(slots)
         /\ DOMAIN slots = 1..Len(slots) /\ \A i \in 1..Len(slots) : slots[i] \in Clients
         /\ 1..count \subseteq 1..Len(slots)
  BY DEF SliceNamesClients

-----------------------------------------------------------------------------
(* The inductive invariant.                                                *)

\* At first there is no line, no client and no walk.
LEMMA InitIInv == Init => IInv
<1> SUFFICES ASSUME Init PROVE IInv
  OBVIOUS
<1>1. RowsTyped
  BY BoundsAssumption DEF Init, RowsTyped
<1>2. SliceNamesClients
  <2>1. slots \in Seq(Clients) /\ Len(slots) = 0 /\ count = 0
    BY DEF Init
  <2>2. \A c \in Clients : ~ Attached(c)
    BY DEF Init, Attached
  <2> QED
    BY <2>1, <2>2 DEF SliceNamesClients
<1>3. WalkInBounds
  BY DEF Init, WalkInBounds, AtRest
<1>4. HandlersTyped
  BY BoundsAssumption DEF Init, HandlersTyped, Pcs
<1>5. WalkFitsTheArray
  BY DEF Init, WalkFitsTheArray
<1>6. NotificationsHaveACause
  BY FS_EmptySet DEF Init, NotificationsHaveACause
<1> QED
  BY <1>1, <1>2, <1>3, <1>4, <1>5, <1>6 DEF IInv, TypeOK

\* Parts of the invariant stay as long as what they speak of does.
LEMMA SliceStays ==
  ASSUME SliceNamesClients, UNCHANGED slice, \A c \in Clients : Attached(c)' = Attached(c)
  PROVE  SliceNamesClients'
  BY DEF SliceNamesClients, slice

\* The walk stays in bounds while the arrays are what they were.
LEMMA WalkStays ==
  ASSUME WalkInBounds, WalkFitsTheArray, UNCHANGED <<slots, listener>>
  PROVE  WalkInBounds' /\ WalkFitsTheArray'
  BY DEF WalkInBounds, WalkFitsTheArray, Walked, AtRest, listener

\* The rows stay typed while only notifications are taken or lost.
LEMMA RowsStay ==
  ASSUME RowsTyped, NotificationsHaveACause, UNCHANGED db, wire' \in 0..wire
  PROVE  RowsTyped' /\ NotificationsHaveACause'
<1>1. wire' \in Nat /\ wire' <= wire
  BY RowsAreNumbers
<1>2. RowsTyped'
  BY <1>1, RowsAreNumbers DEF RowsTyped, db
<1>3. NotificationsHaveACause'
  BY <1>1, RowsAreNumbers, LinesAreCounted DEF NotificationsHaveACause, db
<1> QED
  BY <1>2, <1>3

\* The writer touches neither the slice nor the handlers.
LEMMA WriterKeepsIInv ==
  ASSUME IInv, Writer
  PROVE  IInv'
<1> USE DEF IInv, TypeOK
<1>1. IsFiniteSet(logs) /\ Cardinality(logs) \in Nat /\ Cardinality(logs) <= drawn
  BY LinesAreCounted
<1>2. UNCHANGED <<slice, listener, slots, ch, handlers, pc, cursor, sent, drops, errors, unread>>
  BY DEF Writer, InsertLog, CommitLog, EndRun, slice, handlers
<1>3. SliceNamesClients'
  BY <1>2, SliceStays DEF Attached
<1>4. WalkInBounds' /\ WalkFitsTheArray'
  BY <1>2, WalkStays
<1>5. HandlersTyped'
  BY <1>2 DEF HandlersTyped
<1>6. CASE InsertLog
  <2>1. RowsTyped'
    BY <1>6, RowsAreNumbers DEF InsertLog, RowsTyped
  <2>2. NotificationsHaveACause'
    BY <1>6, RowsAreNumbers DEF InsertLog, NotificationsHaveACause
  <2> QED
    BY <2>1, <2>2, <1>3, <1>4, <1>5
<1>7. ASSUME NEW id \in open, CommitLog(id) PROVE IInv'
  <2>1. Cardinality(logs') = Cardinality(logs) + 1
    BY <1>1, <1>7, FS_AddElement DEF CommitLog, NotificationsHaveACause
  <2>2. drawn' = drawn /\ status' = status /\ logs' \subseteq 1..drawn /\ open' \subseteq 1..drawn
        /\ open' \cap logs' = {} /\ wire' = wire + 1
    BY <1>7 DEF CommitLog, RowsTyped, NotificationsHaveACause
  <2>3. Cardinality(logs') <= drawn
    BY <2>2, DrawnAreCounted, RowsAreNumbers
  <2>4. NotificationsHaveACause'
    BY <1>1, <2>1, <2>2, RowsAreNumbers DEF NotificationsHaveACause
  <2>5. wire' \in 0..(MaxLogs + 1)
    BY <1>1, <2>1, <2>2, <2>3, RowsAreNumbers DEF NotificationsHaveACause
  <2>6. RowsTyped'
    <3>1. overtaken' \subseteq logs'
      BY <1>7 DEF CommitLog, RowsTyped
    <3> QED
      BY <2>2, <2>5, <3>1 DEF RowsTyped
  <2> QED
    BY <2>4, <2>6, <1>3, <1>4, <1>5
<1>8. CASE EndRun
  <2>1. NotificationsHaveACause' /\ wire' \in 0..(MaxLogs + 1)
    BY <1>1, <1>8, RowsAreNumbers DEF EndRun, NotificationsHaveACause
  <2>2. RowsTyped'
    BY <1>8, <2>1 DEF EndRun, RowsTyped
  <2> QED
    BY <2>1, <2>2, <1>3, <1>4, <1>5
<1> QED
  BY <1>6, <1>7, <1>8 DEF Writer

\* The listener copies the header and walks, within the array.
LEMMA ListenerKeepsIInv ==
  ASSUME IInv, Take \/ Visit \/ Reconnect
  PROVE  IInv'
<1> USE DEF IInv, TypeOK
<1>1. UNCHANGED <<db, slice, slots, count, pc, cursor, sent, errors, unread>> /\ wire' \in 0..wire
  <2>1. UNCHANGED <<db, slice, slots, count, pc, cursor, sent, errors, unread>>
    BY DEF Take, Visit, Reconnect, slice, handlers
  <2>2. wire \in Nat
    BY RowsAreNumbers
  <2>3. (wire > 0 /\ wire' = wire - 1) \/ wire' = wire \/ wire' \in 0..wire
    BY DEF Take, Visit, Reconnect
  <2> QED
    BY <2>1, <2>2, <2>3
<1>2. RowsTyped' /\ NotificationsHaveACause'
  BY <1>1, RowsStay
<1>3. SliceNamesClients'
  BY <1>1, SliceStays DEF Attached
<1>4. Len(Walked) \in Nat /\ view \in Seq(Clients) /\ \A i \in 1..Len(Walked) : Walked[i] \in Clients
  BY DEF WalkInBounds, SliceNamesClients, Walked
<1>5. CASE Take
  <2>1. fan' = AtRest \/ (fan' = [at |-> 1, len |-> count] /\ count # 0)
    <3>1. CASE count = 0
      BY <1>5, <3>1 DEF Take
    <3>2. CASE count # 0
      BY <1>5, <3>2 DEF Take
    <3> QED
      BY <3>1, <3>2
  <2>2. view' = view /\ view = <<>> /\ Walked' = slots
    BY <1>1, <1>5 DEF Take, WalkFitsTheArray, Walked
  <2>3. WalkInBounds' /\ WalkFitsTheArray'
    BY <2>1, <2>2, PlacesAreClients, <1>4 DEF WalkInBounds, WalkFitsTheArray, AtRest
  <2>4. HandlersTyped'
    BY <1>1, <1>5 DEF Take, HandlersTyped
  <2> QED
    BY <2>3, <2>4, <1>2, <1>3
<1>6. CASE Visit
  <2>1. ch' \in [Clients -> BOOLEAN] /\ drops' = drops
    BY <1>4, <1>6 DEF Visit, Signal, HandlersTyped, WalkInBounds
  <2>2. CASE fan.at = fan.len
    <3>1. fan' = AtRest /\ view' = <<>>
      BY <1>6, <2>2 DEF Visit
    <3> QED
      BY <1>1, <1>2, <1>3, <2>1, <3>1 DEF WalkInBounds, WalkFitsTheArray, AtRest, HandlersTyped
  <2>3. CASE fan.at # fan.len
    <3>1. fan' = [fan EXCEPT !.at = @ + 1] /\ view' = view
      BY <1>6, <2>3 DEF Visit
    <3>2. fan \in [at : Nat, len : Nat] /\ fan.at \in 1..fan.len /\ fan.len <= Len(Walked)
      BY <1>6 DEF Visit, WalkInBounds, WalkFitsTheArray
    <3>3. fan'.at = fan.at + 1 /\ fan'.len = fan.len /\ fan' \in [at : Nat, len : Nat]
      BY <3>1, <3>2
    <3>4. Walked' = Walked
      BY <1>1, <3>1 DEF Walked
    <3>5. fan'.at \in 1..fan'.len /\ fan'.len <= Len(Walked)
      BY <2>3, <3>2, <3>3
    <3>6. WalkInBounds' /\ WalkFitsTheArray'
      BY <1>4, <3>1, <3>3, <3>4, <3>5 DEF WalkInBounds, WalkFitsTheArray, AtRest
    <3> QED
      BY <1>1, <1>2, <1>3, <2>1, <3>6 DEF HandlersTyped
  <2> QED
    BY <2>2, <2>3
<1>7. CASE Reconnect
  <2>1. UNCHANGED <<slots, listener, ch>> /\ drops' = drops + 1 /\ drops < MaxReconnects
    BY <1>1, <1>7 DEF Reconnect
  <2>2. WalkInBounds' /\ WalkFitsTheArray'
    BY <2>1, WalkStays
  <2>3. HandlersTyped'
    BY <1>1, <2>1, BoundsAssumption DEF HandlersTyped
  <2> QED
    BY <1>2, <1>3, <2>2, <2>3
<1> QED
  BY <1>5, <1>6, <1>7

\* A client that comes takes the first free place, or moves all to a new array.
LEMMA SubscribeKeepsIInv ==
  ASSUME IInv, NEW c \in Clients, Subscribe(c)
  PROVE  IInv'
<1> USE DEF IInv, TypeOK
<1>1. UNCHANGED <<db, wire, fan, ch, cursor, sent, drops, errors, unread>> /\ count' = count + 1
  BY DEF Subscribe
<1>2. count \in Nat /\ Len(slots) \in Nat /\ count <= Len(slots) /\ DOMAIN slots = 1..Len(slots)
      /\ \A i \in 1..Len(slots) : slots[i] \in Clients
  BY PlacesAreClients
<1>3. /\ slots' \in Seq(Clients) /\ count' <= Len(slots') /\ slots'[count'] = c
      /\ \A i \in 1..count : slots'[i] = slots[i]
      /\ Len(slots') \in Nat
  <2>1. CASE count < Len(slots)
    <3>1. slots' = [slots EXCEPT ![count + 1] = c] /\ count + 1 \in 1..Len(slots)
      BY <1>2, <2>1 DEF Subscribe
    <3>2. slots \in Seq(Clients)
      BY DEF SliceNamesClients
    <3> QED
      BY <1>1, <1>2, <3>1, <3>2
  <2>2. CASE ~ (count < Len(slots))
    <3> DEFINE n == IF count = 0 THEN 1 ELSE 2 * count
               a == [i \in 1..n |-> IF i <= count THEN slots[i] ELSE c]
    <3>1. slots' = a /\ n \in Nat /\ count + 1 <= n
      BY <1>2, <2>2 DEF Subscribe
    <3>2. \A i \in 1..n : a[i] \in Clients
      BY <1>2
    <3> HIDE DEF n
    <3>3. a = [i \in 1..n |-> a[i]]
      OBVIOUS
    <3>4. a \in Seq(Clients) /\ Len(a) = n
      BY <3>1, <3>2, <3>3, ArrayOfClients
    <3> QED
      BY <1>1, <1>2, <3>1, <3>4
  <2> QED
    BY <2>1, <2>2
<1>4. pc' \in [Clients -> Pcs]
      /\ Attached(c)' /\ ~ Attached(c) /\ \A d \in Clients \ {c} : Attached(d)' = Attached(d)
  BY DEF Subscribe, Goes, HandlersTyped, Attached, Pcs
<1>5. \A d \in Clients : Attached(d)' <=> \E i \in 1..count' : slots'[i] = d
  <2> TAKE d \in Clients
  <2>1. Attached(d) <=> \E i \in 1..count : slots[i] = d
    BY DEF SliceNamesClients
  <2>2. (\E i \in 1..count' : slots'[i] = d) <=> (\E i \in 1..count : slots[i] = d) \/ d = c
    BY <1>1, <1>2, <1>3
  <2> QED
    BY <1>4, <2>1, <2>2
<1>6. \A i, j \in 1..count' : slots'[i] = slots'[j] => i = j
  <2>1. \A i \in 1..count : slots[i] # c
    BY <1>4 DEF SliceNamesClients
  <2>2. \A i \in 1..count' : i = count' \/ i \in 1..count
    BY <1>1, <1>2
  <2>3. \A i, j \in 1..count : slots[i] = slots[j] => i = j
    BY DEF SliceNamesClients
  <2> QED
    BY <1>3, <2>1, <2>2, <2>3
<1>7. SliceNamesClients'
  BY <1>1, <1>2, <1>3, <1>5, <1>6 DEF SliceNamesClients
<1>8. view' \in Seq(Clients) /\ (fan = AtRest => view' = <<>>)
      /\ (fan # AtRest => Len(Walked') = Len(Walked))
  <2>1. CASE count < Len(slots)
    <3>1. view' = view /\ slots' = [slots EXCEPT ![count + 1] = c] /\ slots \in Seq(Clients)
      BY <2>1 DEF Subscribe, SliceNamesClients
    <3>2. Len(slots') = Len(slots)
      BY <3>1
    <3> QED
      BY <3>1, <3>2 DEF WalkInBounds, WalkFitsTheArray, Walked
  <2>2. CASE ~ (count < Len(slots)) /\ fan # AtRest /\ view = <<>>
    <3>1. view' = slots
      BY <2>2 DEF Subscribe
    <3>2. slots # <<>>
      BY <2>2 DEF WalkInBounds, Walked
    <3> QED
      BY <2>2, <3>1, <3>2 DEF SliceNamesClients, Walked
  <2>3. CASE ~ (count < Len(slots)) /\ ~ (fan # AtRest /\ view = <<>>)
    <3>1. view' = view
      BY <2>3 DEF Subscribe
    <3> QED
      BY <2>3, <3>1 DEF WalkInBounds, WalkFitsTheArray, Walked
  <2> QED
    BY <2>1, <2>2, <2>3
<1>9. WalkFitsTheArray' /\ WalkInBounds'
  BY <1>1, <1>8 DEF WalkFitsTheArray, WalkInBounds, AtRest
<1>10. HandlersTyped'
  BY <1>1, <1>4 DEF HandlersTyped
<1>11. RowsTyped' /\ NotificationsHaveACause'
  BY <1>1, RowsStay, RowsAreNumbers
<1> QED
  BY <1>7, <1>9, <1>10, <1>11

\* A client that goes leaves no gap, and the array keeps its length.
LEMMA UnsubscribeKeepsIInv ==
  ASSUME IInv, NEW c \in Clients, Unsubscribe(c)
  PROVE  IInv'
<1> USE DEF IInv, TypeOK
<1>1. UNCHANGED <<db, wire, listener, fan, view, ch, cursor, sent, drops, errors, unread>> /\ count' = count - 1
  BY DEF Unsubscribe, listener
<1>2. count \in Nat /\ Len(slots) \in Nat /\ count <= Len(slots) /\ DOMAIN slots = 1..Len(slots)
      /\ \A i \in 1..Len(slots) : slots[i] \in Clients
  BY PlacesAreClients
<1>3. PICK k \in 1..count :
        /\ slots[k] = c
        /\ slots' = [j \in 1..Len(slots) |-> IF k <= j /\ j < count THEN slots[j + 1] ELSE slots[j]]
  BY DEF Unsubscribe
<1>4. slots' \in Seq(Clients) /\ Len(slots') = Len(slots) /\ DOMAIN slots' = 1..Len(slots)
  <2> DEFINE a == [j \in 1..Len(slots) |-> IF k <= j /\ j < count THEN slots[j + 1] ELSE slots[j]]
  <2>1. \A i \in 1..Len(slots) : a[i] \in Clients
    BY <1>2, <1>3
  <2>2. a = [i \in 1..Len(slots) |-> a[i]]
    OBVIOUS
  <2>3. a \in Seq(Clients) /\ Len(a) = Len(slots) /\ DOMAIN a = 1..Len(slots)
    BY <1>2, <2>1, <2>2, ArrayOfClients
  <2> QED
    BY <1>3, <2>3
<1>5. count' \in Nat /\ count' <= Len(slots')
  BY <1>1, <1>2, <1>3, <1>4
\* Where the client in place j was before.
<1> DEFINE was(j) == IF j < k THEN j ELSE j + 1
<1>6. \A j \in 1..count' : was(j) \in 1..count /\ was(j) # k /\ slots'[j] = slots[was(j)]
  BY <1>1, <1>2, <1>3
<1>7. \A i, j \in 1..count' : was(i) = was(j) => i = j
  BY <1>1, <1>2, <1>3
<1>8. \A i \in 1..count : i # k => \E j \in 1..count' : was(j) = i
  <2> SUFFICES ASSUME NEW i \in 1..count, i # k PROVE \E j \in 1..count' : was(j) = i
    OBVIOUS
  <2>1. CASE i < k
    BY <1>1, <1>2, <1>3, <2>1, SMTT(30)
  <2>2. CASE i > k
    <3>1. i - 1 \in 1..count' /\ was(i - 1) = i
      BY <1>1, <1>2, <1>3, <2>2
    <3> QED
      BY <3>1
  <2> QED
    BY <1>2, <1>3, <2>1, <2>2
<1> HIDE DEF was
<1>9. \A i, j \in 1..count : slots[i] = slots[j] => i = j
  BY DEF SliceNamesClients
<1>10. \A i, j \in 1..count' : slots'[i] = slots'[j] => i = j
  BY <1>6, <1>7, <1>9
<1>11. pc' \in [Clients -> Pcs]
      /\ ~ Attached(c)' /\ \A d \in Clients \ {c} : Attached(d)' = Attached(d)
  BY DEF Unsubscribe, Goes, HandlersTyped, Attached, Pcs
<1>12. \A d \in Clients : Attached(d)' <=> \E i \in 1..count' : slots'[i] = d
  <2> TAKE d \in Clients
  <2>1. Attached(d) <=> \E i \in 1..count : slots[i] = d
    BY DEF SliceNamesClients
  <2>2. CASE d = c
    <3>1. \A i \in 1..count' : slots'[i] # c
      BY <1>3, <1>6, <1>9
    <3> QED
      BY <1>11, <2>2, <3>1
  <2>3. CASE d # c
    <3>1. (\E i \in 1..count' : slots'[i] = d) => \E i \in 1..count : slots[i] = d
      BY <1>6
    <3>2. ASSUME NEW i \in 1..count, slots[i] = d PROVE \E j \in 1..count' : slots'[j] = d
      <4>1. i # k
        BY <1>3, <2>3, <3>2
      <4>2. PICK j \in 1..count' : was(j) = i
        BY <1>8, <4>1
      <4> QED
        BY <1>6, <3>2, <4>2
    <3> QED
      BY <1>11, <2>1, <2>3, <3>1, <3>2
  <2> QED
    BY <2>2, <2>3
<1>13. SliceNamesClients'
  BY <1>4, <1>5, <1>10, <1>12 DEF SliceNamesClients
<1>14. Len(Walked') = Len(Walked)
  BY <1>1, <1>4 DEF Walked
<1>15. WalkFitsTheArray' /\ WalkInBounds'
  BY <1>1, <1>14 DEF WalkFitsTheArray, WalkInBounds, AtRest
<1>16. HandlersTyped'
  BY <1>1, <1>11 DEF HandlersTyped
<1>17. RowsTyped' /\ NotificationsHaveACause'
  BY <1>1, RowsStay, RowsAreNumbers
<1> QED
  BY <1>13, <1>15, <1>16, <1>17

\* The other steps of a handler leave the subscribers as they are.
LEMMA HandlerKeepsIInv ==
  ASSUME IInv, NEW c \in Clients,
         FlushLogs(c) \/ FlushStatus(c) \/ Wait(c) \/ Wake(c) \/ Disconnect(c)
  PROVE  IInv'
<1> USE DEF IInv, TypeOK
<1>1. UNCHANGED <<db, logs, wire, slice, slots, listener, drops>>
  BY DEF FlushLogs, FlushStatus, Wait, Wake, Disconnect, db, slice
<1>2. pc' \in [Clients -> Pcs] /\ \A d \in Clients : Attached(d)' = Attached(d)
  BY DEF FlushLogs, FlushStatus, Wait, Wake, Disconnect, Goes, HandlersTyped, Attached, Pcs
<1>3. ch' \in [Clients -> BOOLEAN]
  BY DEF FlushLogs, FlushStatus, Wait, Wake, Disconnect, HandlersTyped
<1>4. errors' \in 0..MaxReadErrors
  <2>1. errors' = errors \/ (errors < MaxReadErrors /\ errors' = errors + 1)
    BY DEF FlushLogs, FlushStatus, Wait, Wake, Disconnect
  <2> QED
    BY <2>1, BoundsAssumption DEF HandlersTyped
<1>5. cursor' \in [Clients -> 0..MaxLogs] /\ sent' \in [Clients -> SUBSET (1..MaxLogs)]
  <2>1. logs \subseteq 1..MaxLogs
    BY RowsAreNumbers
  <2>2. CASE cursor' = cursor /\ sent' = sent
    BY <2>2 DEF HandlersTyped
  <2>3. ASSUME NEW new \in SUBSET logs, NEW last \in new \cup {cursor[c]},
               sent' = [sent EXCEPT ![c] = @ \cup new], cursor' = [cursor EXCEPT ![c] = last]
        PROVE  cursor' \in [Clients -> 0..MaxLogs] /\ sent' \in [Clients -> SUBSET (1..MaxLogs)]
    <3>1. last \in 0..MaxLogs /\ sent[c] \cup new \in SUBSET (1..MaxLogs)
      <4>1. cursor[c] \in 0..MaxLogs /\ sent[c] \subseteq 1..MaxLogs
        BY DEF HandlersTyped
      <4>2. new \subseteq 1..MaxLogs /\ 1..MaxLogs \subseteq 0..MaxLogs
        BY <2>1, BoundsAssumption
      <4> QED
        BY <4>1, <4>2
    <3> QED
      BY <2>3, <3>1 DEF HandlersTyped
  <2>4. CASE FlushLogs(c)
    <3> DEFINE new == {id \in logs : id > cursor[c]}
    <3>1. (cursor' = cursor /\ sent' = sent)
          \/ (/\ sent' = [sent EXCEPT ![c] = @ \cup new]
              /\ \E last \in new \cup {cursor[c]} : cursor' = [cursor EXCEPT ![c] = last])
      BY <2>4 DEF FlushLogs
    <3> QED
      BY <2>2, <2>3, <3>1
  <2>5. CASE ~ FlushLogs(c)
    BY <2>2, <2>5 DEF FlushStatus, Wait, Wake, Disconnect
  <2> QED
    BY <2>4, <2>5
<1>6. HandlersTyped'
  <2>1. unread' \subseteq Clients
    BY DEF FlushLogs, FlushStatus, Wait, Wake, Disconnect, HandlersTyped
  <2> QED
    BY <1>1, <1>2, <1>3, <1>4, <1>5, <2>1 DEF HandlersTyped
<1>7. SliceNamesClients'
  BY <1>1, <1>2, SliceStays
<1>8. WalkInBounds' /\ WalkFitsTheArray'
  BY <1>1, WalkStays
<1>9. RowsTyped' /\ NotificationsHaveACause'
  BY <1>1, RowsStay, RowsAreNumbers
<1> QED
  BY <1>6, <1>7, <1>8, <1>9

\* A step that changes nothing keeps the invariant.
LEMMA StutterKeepsIInv ==
  ASSUME IInv, UNCHANGED vars
  PROVE  IInv'
<1>1. UNCHANGED <<db, wire, slice, slots, listener, ch, handlers, pc, cursor, sent, drops, errors, unread>>
  BY DEF vars, slice, handlers
<1>2. RowsTyped' /\ NotificationsHaveACause'
  BY <1>1, RowsStay, RowsAreNumbers DEF IInv, TypeOK
<1>3. SliceNamesClients' /\ WalkInBounds' /\ WalkFitsTheArray'
  BY <1>1, SliceStays, WalkStays DEF IInv, TypeOK, Attached
<1>4. HandlersTyped'
  BY <1>1 DEF IInv, TypeOK, HandlersTyped
<1> QED
  BY <1>2, <1>3, <1>4 DEF IInv, TypeOK

\* The invariant holds in every reachable state.
LEMMA IInvIsInductive == Spec => []IInv
<1>1. IInv /\ [Next]_vars => IInv'
  BY WriterKeepsIInv, ListenerKeepsIInv, SubscribeKeepsIInv, UnsubscribeKeepsIInv,
     HandlerKeepsIInv, StutterKeepsIInv DEF Next, Handler
<1> QED
  BY <1>1, InitIInv, PTL DEF Spec

\* However clients subscribe, leave and are shifted while fanOut walks their
\* array without the lock, the slice names each attached client exactly once
\* and the walk never leaves the array (listener.go: no panic).
THEOREM WalkStaysInBounds == Spec => []TypeOK
<1>1. IInv => TypeOK
  BY DEF IInv
<1> QED
  BY <1>1, IInvIsInductive, PTL

-----------------------------------------------------------------------------
(* The cursor.                                                             *)

\* What the cursor's property needs to be inductive.
CInv == CursorIsALine /\ CursorSkipsNothing

\* A query that reads every line after the cursor and moves it to the last one
\* it read passes no line that it did not send.
LEMMA FlushPassesNothing ==
  ASSUME TypeOK, CInv, NEW c \in Clients, FlushLogs(c)
  PROVE  CInv'
<1> USE DEF CInv
<1> DEFINE new == {id \in logs : id > cursor[c]}
<1>0. logs \subseteq Nat /\ cursor \in [Clients -> Nat] /\ sent \in [Clients -> SUBSET (1..MaxLogs)]
  BY BoundsAssumption, RowsAreNumbers DEF TypeOK, HandlersTyped
<1>1. UNCHANGED <<logs, overtaken>>
  BY DEF FlushLogs, db
<1>2. \A d \in Clients \ {c} : cursor'[d] = cursor[d] /\ sent'[d] = sent[d]
  BY <1>0 DEF FlushLogs
<1>3. CASE cursor' = cursor /\ sent' = sent
  BY <1>1, <1>3 DEF CursorIsALine, CursorSkipsNothing
<1>4. ASSUME NEW last \in new \cup {cursor[c]}, \A id \in new : id <= last,
             cursor' = [cursor EXCEPT ![c] = last], sent' = [sent EXCEPT ![c] = @ \cup new]
      PROVE  CInv'
  <2>1. cursor'[c] = last /\ sent'[c] = sent[c] \cup new
    BY <1>0, <1>4
  <2>2. \A id \in logs : id <= last <=> id <= cursor[c] \/ id \in new
    <3>1. last \in Nat /\ cursor[c] \in Nat /\ last >= cursor[c]
      BY <1>0, <1>4
    <3> QED
      BY <1>0, <1>4, <3>1
  <2>3. cursor[c] \in logs \cup {0} /\ last \in logs \cup {0}
    BY <1>4 DEF CursorIsALine
  <2>4. sent[c] \subseteq {id \in logs : id <= cursor[c]}
        /\ {id \in logs : id <= cursor[c]} \ overtaken \subseteq sent[c]
    BY DEF CursorSkipsNothing
  <2> HIDE DEF new
  <2>5. new \subseteq logs
    BY DEF new
  <2>6. sent'[c] \subseteq {id \in logs : id <= last}
        /\ {id \in logs : id <= last} \ overtaken \subseteq sent'[c]
    BY <2>1, <2>2, <2>4, <2>5
  <2> QED
    BY <1>1, <1>2, <2>1, <2>3, <2>6 DEF CursorIsALine, CursorSkipsNothing
<1> QED
  BY <1>3, <1>4 DEF FlushLogs

\* Every step keeps the cursors among the lines and what they passed sent or
\* overtaken.  A line that is committed behind a cursor comes after the line at
\* which the cursor stands.
LEMMA CInvStep ==
  ASSUME TypeOK, CInv, [Next]_vars
  PROVE  CInv'
<1> USE DEF CInv
<1>0. open \subseteq Nat /\ logs \subseteq Nat /\ (\A x \in open : 1 <= x)
      /\ cursor \in [Clients -> Nat] /\ open \cap logs \subseteq logs
  BY BoundsAssumption, RowsAreNumbers DEF TypeOK, HandlersTyped
<1>2. ASSUME NEW id \in open, CommitLog(id) PROVE CInv'
  <2>1. logs' = logs \cup {id} /\ cursor' = cursor /\ sent' = sent
        /\ overtaken' = IF \E later \in logs : id < later THEN overtaken \cup {id} ELSE overtaken
    BY <1>2 DEF CommitLog, handlers
  <2>2. ASSUME NEW c \in Clients, id <= cursor[c] PROVE id \in overtaken' \cup logs
    <3>1. cursor[c] \in logs /\ cursor[c] \in Nat /\ id \in Nat
      BY <1>0, <2>2 DEF CursorIsALine
    <3> QED
      BY <2>1, <2>2, <3>1
  <2> QED
    BY <2>1, <2>2 DEF CursorIsALine, CursorSkipsNothing
<1>3. CASE InsertLog \/ EndRun \/ Take \/ Visit \/ Reconnect
  BY <1>3 DEF InsertLog, EndRun, Take, Visit, Reconnect, db, handlers, CursorIsALine, CursorSkipsNothing
<1>4. ASSUME NEW c \in Clients, FlushLogs(c) PROVE CInv'
  BY <1>4, FlushPassesNothing
<1>5. ASSUME NEW c \in Clients,
             Subscribe(c) \/ Disconnect(c) \/ FlushStatus(c) \/ Wait(c) \/ Wake(c) \/ Unsubscribe(c)
      PROVE CInv'
  BY <1>5 DEF Subscribe, Disconnect, FlushStatus, Wait, Wake, Unsubscribe, db, CursorIsALine, CursorSkipsNothing
<1>6. CASE UNCHANGED vars
  BY <1>6 DEF vars, db, handlers, CursorIsALine, CursorSkipsNothing
<1> QED
  BY <1>2, <1>3, <1>4, <1>5, <1>6 DEF Next, Writer, Handler

\* A client has been sent every line of the table up to its cursor but those
\* that were overtaken by a larger id on their way into it, however many steps
\* write side by side and whichever queries fail (streamFlush).
THEOREM CursorPassesNoLine == Spec => []CursorSkipsNothing
<1>1. Init => CInv
  BY DEF Init, CInv, CursorIsALine, CursorSkipsNothing
<1>2. CInv => CursorSkipsNothing
  BY DEF CInv
<1> QED
  BY <1>1, <1>2, CInvStep, WalkStaysInBounds, PTL DEF Spec
=============================================================================
