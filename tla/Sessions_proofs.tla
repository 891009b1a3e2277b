-------------------------- MODULE Sessions_proofs --------------------------
(***************************************************************************)
(* Theorems about Sessions, for every set of browsers and tabs and every   *)
(* number of tokens.  What the row lock of SELECT ... FOR UPDATE buys is   *)
(* in IInv: a row that a transaction has decided about is locked by it     *)
(* alone, so what it read is still true when it commits.  Why a session    *)
(* goes on is in its last part: each token is in one place at a time.      *)
(***************************************************************************)
EXTENDS Sessions, TLAPS

-----------------------------------------------------------------------------
(* What the actions do to the requests and to the table.                   *)

\* Only the request of t changes.
Others(t) == req' \in [Tabs -> Request] /\ \A u \in Tabs \ {t} : req'[u] = req[u]

\* It is answered with pc, and its locks are released.
Answers(t, pc) ==
  /\ Others(t)
  /\ req'[t].pc = pc /\ req'[t].locks = {} /\ req'[t].sent = req[t].sent
  /\ req'[t].issued = req[t].issued /\ req'[t].seen = req[t].seen /\ req'[t].todo = req[t].todo

\* The table keeps its rows and what has become of them.
StatesStay ==
  /\ tok' \in Seq(TokenRow) /\ Len(tok') = Len(tok) /\ DOMAIN tok' = DOMAIN tok
  /\ \A i \in DOMAIN tok : tok'[i].state = tok[i].state /\ tok'[i].parent = tok[i].parent

\* The table gets one more row, r; of the others only the row c may change,
\* and that only to used.
Grows(c, r) ==
  /\ tok' \in Seq(TokenRow) /\ Len(tok') = Len(tok) + 1
  /\ DOMAIN tok' = DOMAIN tok \cup {Len(tok) + 1} /\ Len(tok) + 1 \notin DOMAIN tok
  /\ tok'[Len(tok) + 1] = r
  /\ \A i \in DOMAIN tok :
       /\ tok'[i].parent = tok[i].parent
       /\ tok'[i].state = IF i = c THEN "used" ELSE tok[i].state

\* The rows that are there have numbers that are tokens.
LEMMA RowsAreTokens ==
  ASSUME TypeOK
  PROVE  /\ Len(tok) \in Nat /\ DOMAIN tok = 1..Len(tok) /\ DOMAIN tok \subseteq Token
         /\ Committed \subseteq DOMAIN tok /\ 0 \notin DOMAIN tok
         /\ Token \subseteq 0..MaxTokens
         /\ \A i \in DOMAIN tok : tok[i] \in TokenRow
<1>1. Len(tok) \in Nat /\ DOMAIN tok = 1..Len(tok) /\ \A i \in DOMAIN tok : tok[i] \in TokenRow
  BY DEF TypeOK
<1>2. 1..Len(tok) \subseteq Token /\ 0 \notin 1..Len(tok) /\ Token \subseteq 0..MaxTokens
  BY <1>1, SessionsAssumption DEF TypeOK, Token
<1> QED
  BY <1>1, <1>2 DEF Committed

\* Rows that change, each for another row, still make a table.
LEMMA RowsChange ==
  ASSUME TypeOK, NEW s, DOMAIN s = DOMAIN tok, s = [i \in DOMAIN s |-> s[i]],
         \A i \in DOMAIN tok : s[i] \in TokenRow
  PROVE  s \in Seq(TokenRow) /\ Len(s) = Len(tok)
<1>1. s \in [1..Len(tok) -> TokenRow] /\ Len(tok) \in Nat
  BY RowsAreTokens
<1> QED
  BY <1>1

\* A request that changes leaves the others as they are.
LEMMA OneRequest ==
  ASSUME TypeOK, NEW t \in Tabs, NEW r \in Request, req' = [req EXCEPT ![t] = r]
  PROVE  Others(t) /\ req'[t] = r
  BY DEF TypeOK, Others

\* An answer ends one request and releases its locks.
LEMMA AnswerFacts ==
  ASSUME TypeOK, NEW t \in Tabs, NEW pc \in Pcs, req' = Answer(t, pc)
  PROVE  Answers(t, pc)
<1> DEFINE r == [req[t] EXCEPT !.pc = pc, !.locks = {}]
<1>1. r \in Request /\ r.pc = pc /\ r.locks = {} /\ r.sent = req[t].sent
      /\ r.issued = req[t].issued /\ r.seen = req[t].seen /\ r.todo = req[t].todo
  BY DEF TypeOK, Request
<1>2. req' = [req EXCEPT ![t] = r]
  BY DEF Answer
<1>3. Others(t) /\ req'[t] = r
  BY <1>1, <1>2, OneRequest
<1> QED
  BY <1>1, <1>3 DEF Answers

\* SELECT ... FOR UPDATE locks the row it finds, or turns the request away.
LEMMA LoadFacts ==
  ASSUME TypeOK, NEW t \in Tabs, Load(t)
  PROVE  /\ UNCHANGED <<tok, cookie, lost, overlapped>> /\ req[t].pc = "sent"
         /\ \/ Answers(t, "denied")
            \/ /\ Others(t) /\ req[t].sent \in Committed /\ CanLock(t, req[t].sent)
               /\ req'[t].locks = {req[t].sent}
               /\ req'[t].sent = req[t].sent /\ req'[t].todo = req[t].todo
               /\ \/ req'[t].pc = "reused" /\ req'[t].seen = Committed
                     /\ tok[req[t].sent].state = "used"
                  \/ req'[t].pc = "rotating" /\ req'[t].seen = req[t].seen
                     /\ tok[req[t].sent].state = "fresh"
<1> DEFINE c == req[t].sent
           r1 == [req[t] EXCEPT !.pc = "reused", !.locks = {c}, !.seen = Committed]
           r2 == [req[t] EXCEPT !.pc = "rotating", !.locks = {c}]
<1>1. UNCHANGED <<tok, cookie, lost, overlapped>> /\ req[t].pc = "sent" /\ CanLock(t, c)
  BY DEF Load
<1>2. CASE req' = Answer(t, "denied")
  BY <1>1, <1>2, AnswerFacts DEF Pcs
<1>3. CASE c \in Committed /\ tok[c].state = "used" /\ req' = [req EXCEPT ![t] = r1]
  <2>1. c \in Token /\ Committed \in SUBSET Token
    BY <1>3, RowsAreTokens
  <2>2. r1 \in Request /\ r1.locks = {c} /\ r1.sent = c /\ r1.pc = "reused"
        /\ r1.todo = req[t].todo /\ r1.seen = Committed
    BY <2>1 DEF TypeOK, Request, Pcs
  <2>3. Others(t) /\ req'[t] = r1
    BY <1>3, <2>2, OneRequest
  <2> QED
    BY <1>1, <1>3, <2>2, <2>3
<1>4. CASE c \in Committed /\ tok[c].state = "fresh" /\ req' = [req EXCEPT ![t] = r2]
  <2>1. c \in Token
    BY <1>4, RowsAreTokens
  <2>2. r2 \in Request /\ r2.locks = {c} /\ r2.sent = c /\ r2.pc = "rotating"
        /\ r2.todo = req[t].todo /\ r2.seen = req[t].seen
    BY <2>1 DEF TypeOK, Request, Pcs
  <2>3. Others(t) /\ req'[t] = r2
    BY <1>4, <2>2, OneRequest
  <2> QED
    BY <1>1, <1>4, <2>2, <2>3
<1> QED
  BY <1>2, <1>3, <1>4 DEF Load

\* A table to which a row is appended grows by that row.
LEMMA AppendRow ==
  ASSUME TypeOK, NEW c, NEW s \in Seq(TokenRow), Len(s) = Len(tok), Len(tok) < MaxTokens,
         NEW r \in TokenRow, tok' = Append(s, r),
         \A i \in DOMAIN tok : /\ s[i].parent = tok[i].parent
                               /\ s[i].state = IF i = c THEN "used" ELSE tok[i].state
  PROVE  Grows(c, r)
<1>1. /\ tok' \in Seq(TokenRow) /\ Len(tok') = Len(tok) + 1 /\ tok'[Len(tok) + 1] = r
      /\ Len(tok) \in Nat /\ DOMAIN tok = 1..Len(tok) /\ DOMAIN tok' = 1..(Len(tok) + 1)
      /\ \A i \in DOMAIN tok : tok'[i] = s[i]
  BY DEF TypeOK
<1>2. DOMAIN tok' = DOMAIN tok \cup {Len(tok) + 1} /\ Len(tok) + 1 \notin DOMAIN tok
  BY <1>1
<1> QED
  BY <1>1, <1>2 DEF Grows

New(p) == [state |-> "fresh", expired |-> FALSE, parent |-> p]

\* A new token is fresh.
LEMMA NewRow ==
  ASSUME NEW p \in 0..MaxTokens
  PROVE  New(p) \in TokenRow /\ New(p).state = "fresh" /\ New(p).parent = p
  BY DEF New, TokenRow, TokenState

\* A login adds a token without a parent.
LEMMA LoginFacts ==
  ASSUME TypeOK, NEW b \in Browsers, Login(b)
  PROVE  /\ UNCHANGED <<req, lost, overlapped>>
         /\ \E c : c \notin DOMAIN tok /\ Grows(c, New(0))
         /\ cookie' = [cookie EXCEPT ![b] = Len(tok) + 1]
         /\ Len(tok) + 1 \in 0..MaxTokens
<1>1. New(0) \in TokenRow
  BY NewRow, SessionsAssumption
<1>2. Len(tok) < MaxTokens /\ tok' = Append(tok, New(0)) /\ tok \in Seq(TokenRow)
  BY DEF Login, New, TypeOK
<1>3. Grows(0, New(0)) /\ 0 \notin DOMAIN tok
  BY <1>1, <1>2, AppendRow, RowsAreTokens
<1>4. Len(tok) + 1 \in 0..MaxTokens
  BY <1>2, RowsAreTokens, SessionsAssumption
<1> QED
  BY <1>3, <1>4 DEF Login

\* A rotation that commits marks its token used and adds the successor.
LEMMA CommittedRotation ==
  ASSUME TypeOK, NEW t \in Tabs, RotationCommits(t)
  PROVE  /\ req[t].pc = "rotating" /\ Len(tok) + 1 \in Token /\ Len(tok) + 1 <= MaxTokens
         /\ Grows(req[t].sent, New(req[t].sent))
<1> DEFINE c == req[t].sent
           k == Len(tok) + 1
           s == [tok EXCEPT ![c].state = "used"]
<1>1. req[t].pc = "rotating" /\ Len(tok) < MaxTokens /\ tok' = Append(s, New(c))
  BY DEF RotationCommits, Consume, New
<1>2. k \in Token /\ k <= MaxTokens
  BY <1>1, RowsAreTokens, SessionsAssumption DEF Token
<1>3. c \in 0..MaxTokens
  BY DEF TypeOK, Request
<1>4. \A i \in DOMAIN tok : [tok[i] EXCEPT !.state = "used"] \in TokenRow
  BY RowsAreTokens DEF TokenRow, TokenState
<1>5. \A i \in DOMAIN tok : /\ s[i] \in TokenRow /\ s[i].parent = tok[i].parent
                            /\ s[i].state = IF i = c THEN "used" ELSE tok[i].state
  BY <1>4, RowsAreTokens DEF TokenRow
<1>6. s \in Seq(TokenRow) /\ Len(s) = Len(tok)
  <2>1. DOMAIN s = DOMAIN tok /\ s = [i \in DOMAIN s |-> s[i]]
    OBVIOUS
  <2> HIDE DEF s
  <2> QED
    BY <1>5, <2>1, RowsChange
<1>7. New(c) \in TokenRow
  BY <1>3, NewRow
<1>8. Grows(c, New(c))
  <2> HIDE DEF s
  <2> QED
    BY <1>1, <1>5, <1>6, <1>7, AppendRow, ZenonT(60)
<1> QED
  BY <1>1, <1>2, <1>8

\* Its answer carries the successor.
LEMMA RotateFacts ==
  ASSUME TypeOK, NEW t \in Tabs, Rotate(t)
  PROVE  /\ UNCHANGED <<cookie, lost, overlapped>>
         /\ req[t].pc = "rotating"
         /\ Grows(req[t].sent, New(req[t].sent))
         /\ Len(tok) + 1 <= MaxTokens
         /\ Others(t) /\ req'[t].pc = "rotated" /\ req'[t].issued = Len(tok) + 1
         /\ req'[t].locks = {} /\ req'[t].sent = req[t].sent
         /\ req'[t].seen = req[t].seen /\ req'[t].todo = req[t].todo
<1> DEFINE k == Len(tok) + 1
           r == [req[t] EXCEPT !.pc = "rotated", !.locks = {}, !.issued = k]
<1>1. req' = [req EXCEPT ![t] = r] /\ UNCHANGED <<cookie, lost, overlapped>> /\ RotationCommits(t)
  BY DEF Rotate
<1>2. k \in Token /\ k \in 0..MaxTokens /\ k <= MaxTokens
  BY <1>1, CommittedRotation, RowsAreTokens
<1>3. r \in Request /\ r.pc = "rotated" /\ r.issued = k /\ r.locks = {} /\ r.sent = req[t].sent
      /\ r.seen = req[t].seen /\ r.todo = req[t].todo
  BY <1>2 DEF TypeOK, Request, Pcs
<1>4. Others(t) /\ req'[t] = r
  BY <1>1, <1>3, OneRequest
<1> QED
  BY <1>1, <1>2, <1>3, <1>4, CommittedRotation

\* Or nobody hears of it, and an error is answered.
LEMMA RotateUnheardFacts ==
  ASSUME TypeOK, NEW t \in Tabs, RotateUnheard(t)
  PROVE  /\ UNCHANGED <<cookie, overlapped>> /\ lost' = lost + 1 /\ lost < MaxLost
         /\ req[t].pc = "rotating" /\ Grows(req[t].sent, New(req[t].sent))
         /\ Len(tok) + 1 <= MaxTokens /\ Answers(t, "error")
  BY AnswerFacts, CommittedRotation DEF RotateUnheard, Pcs

\* A transaction that fails changes no row.
LEMMA FailFacts ==
  ASSUME TypeOK, NEW t \in Tabs, RotateFails(t) \/ DeleteFails(t)
  PROVE  /\ UNCHANGED <<tok, cookie, lost, overlapped>> /\ Answers(t, "error")
         /\ req[t].pc \in {"rotating", "reused", "deleting"}
  BY AnswerFacts DEF RotateFails, DeleteFails, RolledBack, Pcs

\* The DELETE is to lock what is committed when it starts.
LEMMA DeleteStartsFacts ==
  ASSUME TypeOK, NEW t \in Tabs, DeleteStarts(t)
  PROVE  /\ UNCHANGED <<tok, cookie, lost, overlapped>>
         /\ req[t].pc = "reused" /\ req'[t].pc = "deleting"
         /\ Others(t) /\ req'[t].todo = Committed /\ req'[t].seen = req[t].seen
         /\ req'[t].locks = req[t].locks /\ req'[t].sent = req[t].sent
<1> DEFINE r == [req[t] EXCEPT !.pc = "deleting", !.todo = Committed]
<1>1. Committed \in SUBSET Token
  BY RowsAreTokens
<1>2. r \in Request /\ r.pc = "deleting" /\ r.todo = Committed /\ r.seen = req[t].seen
      /\ r.locks = req[t].locks /\ r.sent = req[t].sent
  BY <1>1 DEF TypeOK, Request, Pcs
<1>3. Others(t) /\ req'[t] = r
  BY <1>2, OneRequest DEF DeleteStarts
<1> QED
  BY <1>2, <1>3 DEF DeleteStarts

\* The DELETE locks one of its rows, once nobody else holds it.
LEMMA DeleteRowFacts ==
  ASSUME TypeOK, NEW t \in Tabs, DeleteRow(t)
  PROVE  /\ UNCHANGED <<tok, cookie, lost, overlapped>>
         /\ req[t].pc = "deleting" /\ req'[t].pc = "deleting"
         /\ \E i \in req[t].todo :
              /\ CanLock(t, i) /\ req'[t].todo = req[t].todo \ {i}
              /\ req'[t].locks = req[t].locks \union ({i} \cap Committed)
         /\ Others(t) /\ req'[t].seen = req[t].seen /\ req'[t].sent = req[t].sent
<1> PICK i \in req[t].todo :
      /\ req[t].pc = "deleting" /\ CanLock(t, i)
      /\ req' = [req EXCEPT ![t] =
               [@ EXCEPT !.todo = req[t].todo \ {i}, !.locks = req[t].locks \union ({i} \cap Committed)]]
      /\ UNCHANGED <<tok, cookie, lost, overlapped>>
  BY DEF DeleteRow
<1> DEFINE more == req[t].locks \union ({i} \cap Committed)
           r == [req[t] EXCEPT !.todo = req[t].todo \ {i}, !.locks = more]
<1>1. more \in SUBSET Token /\ req[t].todo \ {i} \in SUBSET Token
  BY DEF TypeOK, Request
<1>2. r \in Request /\ r.pc = "deleting" /\ r.todo = req[t].todo \ {i} /\ r.seen = req[t].seen
      /\ r.locks = more /\ r.sent = req[t].sent
  <2> HIDE DEF more
  <2> QED
    BY <1>1 DEF TypeOK, Request, Pcs
<1>3. req' = [req EXCEPT ![t] = r]
  OBVIOUS
<1>4. Others(t) /\ req'[t] = r
  BY <1>2, <1>3, OneRequest
<1> QED
  BY <1>2, <1>4

\* The invalidation deletes the rows it holds.
LEMMA DeletedFacts ==
  ASSUME TypeOK, NEW t \in Tabs, tok' = Deleted(t)
  PROVE  /\ tok' \in Seq(TokenRow) /\ Len(tok') = Len(tok) /\ DOMAIN tok' = DOMAIN tok
         /\ \A i \in DOMAIN tok :
              /\ tok'[i].parent = tok[i].parent
              /\ tok'[i].state = IF i \in req[t].locks THEN "deleted" ELSE tok[i].state
<1> DEFINE d(i) == [tok[i] EXCEPT !.state = "deleted"]
           s(i) == IF i \in req[t].locks THEN d(i) ELSE tok[i]
<1>1. tok' = [i \in DOMAIN tok |-> s(i)]
  BY DEF Deleted, LockedBy
<1>2. \A i \in DOMAIN tok : d(i) \in TokenRow /\ d(i).state = "deleted" /\ d(i).parent = tok[i].parent
  BY RowsAreTokens DEF TokenRow, TokenState
<1>3. \A i \in DOMAIN tok :
        /\ s(i) \in TokenRow /\ s(i).parent = tok[i].parent
        /\ s(i).state = IF i \in req[t].locks THEN "deleted" ELSE tok[i].state
  BY <1>2, RowsAreTokens
<1> HIDE DEF s
<1>4. tok' \in Seq(TokenRow) /\ Len(tok') = Len(tok) /\ DOMAIN tok' = DOMAIN tok
  BY <1>1, <1>3, RowsAreTokens
<1> QED
  BY <1>1, <1>3, <1>4

\* It is answered, with an error when nobody heard of its commit.
LEMMA CommitFacts ==
  ASSUME TypeOK, NEW t \in Tabs, CommitDelete(t) \/ DeleteUnheard(t)
  PROVE  /\ UNCHANGED <<cookie, overlapped>> /\ req[t].pc = "deleting" /\ req[t].todo = {}
         /\ Answers(t, "ended") \/ Answers(t, "error")
         /\ lost' = lost \/ (lost' = lost + 1 /\ lost < MaxLost)
         /\ tok' \in Seq(TokenRow) /\ Len(tok') = Len(tok) /\ DOMAIN tok' = DOMAIN tok
         /\ \A i \in DOMAIN tok :
              /\ tok'[i].parent = tok[i].parent
              /\ tok'[i].state = IF i \in req[t].locks THEN "deleted" ELSE tok[i].state
<1>1. tok' = Deleted(t)
  BY DEF CommitDelete, DeleteUnheard
<1>2. Answers(t, "ended") \/ Answers(t, "error")
  BY AnswerFacts DEF CommitDelete, DeleteUnheard, Pcs
<1> QED
  BY <1>1, <1>2, DeletedFacts DEF CommitDelete, DeleteUnheard

\* A row that expires keeps its state.
LEMMA ExpireFacts ==
  ASSUME TypeOK, Expire
  PROVE  StatesStay /\ UNCHANGED <<cookie, req, lost, overlapped>>
<1> PICK i \in DOMAIN tok : tok' = [tok EXCEPT ![i].expired = TRUE]
  BY DEF Expire
<1>1. \A j \in DOMAIN tok : [tok[j] EXCEPT !.expired = TRUE] \in TokenRow
  BY RowsAreTokens DEF TokenRow
<1>2. \A j \in DOMAIN tok : tok'[j] \in TokenRow /\ tok'[j].state = tok[j].state
                            /\ tok'[j].parent = tok[j].parent
  BY <1>1, RowsAreTokens DEF TokenRow
<1>3. tok' \in Seq(TokenRow) /\ Len(tok') = Len(tok) /\ DOMAIN tok' = DOMAIN tok
  <2>1. DOMAIN tok' = DOMAIN tok /\ tok' = [j \in DOMAIN tok' |-> tok'[j]]
    OBVIOUS
  <2> QED
    BY <1>2, <2>1, RowsChange
<1> QED
  BY <1>2, <1>3 DEF StatesStay, Expire

\* A request starts with the cookie of its browser and without locks.
LEMMA SendFacts ==
  ASSUME TypeOK, NEW t \in Tabs, Send(t)
  PROVE  /\ UNCHANGED <<tok, cookie, lost>> /\ overlapped' \in BOOLEAN
         /\ Others(t) /\ req'[t].pc = "sent" /\ req'[t].sent = cookie[BrowserOf[t]]
         /\ BrowserOf[t] \in Browsers /\ cookie[BrowserOf[t]] # 0
         /\ req'[t].locks = {} /\ req'[t].seen = {} /\ req'[t].todo = {}
<1> DEFINE r == [Idle EXCEPT !.pc = "sent", !.sent = cookie[BrowserOf[t]]]
<1>1. cookie[BrowserOf[t]] \in 0..MaxTokens
  BY SessionsAssumption DEF TypeOK
<1>2. r \in Request /\ r.pc = "sent" /\ r.sent = cookie[BrowserOf[t]] /\ r.locks = {}
      /\ r.seen = {} /\ r.todo = {}
  <2>1. 0 \in 0..MaxTokens
    BY SessionsAssumption
  <2> QED
    BY <1>1, <2>1 DEF Idle, Request, Pcs
<1>3. Others(t) /\ req'[t] = r
  BY <1>2, OneRequest DEF Send
<1>4. overlapped' \in BOOLEAN
  BY DEF Send, TypeOK
<1> QED
  BY <1>2, <1>3, <1>4, SessionsAssumption DEF Send

\* An answer reaches its browser, or is lost, and the tab is idle again.
LEMMA ReceiveFacts ==
  ASSUME TypeOK, NEW t \in Tabs, Receive(t) \/ LoseAnswer(t)
  PROVE  /\ UNCHANGED <<tok, overlapped>> /\ req[t].pc \in Answered
         /\ Others(t) /\ req'[t].pc = "idle"
         /\ req'[t].locks = {} /\ req'[t].seen = {} /\ req'[t].todo = {}
         /\ lost' \in 0..MaxLost
         /\ \/ cookie' = cookie
            \/ req[t].pc = "rotated" /\ cookie' = [cookie EXCEPT ![BrowserOf[t]] = req[t].issued]
         /\ cookie' \in [Browsers -> 0..MaxTokens]
<1>1. Idle \in Request /\ Idle.pc = "idle" /\ Idle.locks = {} /\ Idle.seen = {} /\ Idle.todo = {}
  <2>1. 0 \in 0..MaxTokens
    BY SessionsAssumption
  <2> QED
    BY <2>1 DEF Idle, Request, Pcs
<1>2. Others(t) /\ req'[t] = Idle
  BY <1>1, OneRequest DEF Receive, LoseAnswer
<1>3. lost' \in 0..MaxLost
  BY SessionsAssumption DEF Receive, LoseAnswer, TypeOK
<1>4. req[t].issued \in 0..MaxTokens
  BY DEF TypeOK, Request
<1>5. cookie' \in [Browsers -> 0..MaxTokens]
  BY <1>4, SessionsAssumption DEF Receive, LoseAnswer, TypeOK
<1> QED
  BY <1>1, <1>2, <1>3, <1>5 DEF Receive, LoseAnswer, Answered

-----------------------------------------------------------------------------
(* Typing.                                                                 *)

\* Every variable has its type before the first step.
LEMMA InitType == Init => TypeOK
<1> SUFFICES ASSUME Init PROVE TypeOK
  OBVIOUS
<1>1. tok \in Seq(TokenRow) /\ Len(tok) = 0 /\ 0 \in 0..MaxTokens /\ 0 \in 0..MaxLost
  BY SessionsAssumption DEF Init
<1>2. Idle \in Request /\ Idle.locks = {}
  BY <1>1 DEF Idle, Request, Pcs
<1>3. req \in [Tabs -> Request] /\ \A t \in Tabs : req[t].locks = {}
  BY <1>2 DEF Init
<1>4. cookie \in [Browsers -> 0..MaxTokens]
  BY <1>1 DEF Init
<1>5. 0 <= MaxTokens
  BY SessionsAssumption
<1> QED
  BY <1>1, <1>3, <1>4, <1>5 DEF Init, TypeOK

\* Every step keeps the types.
LEMMA TypeStep ==
  ASSUME TypeOK, [Next]_vars PROVE TypeOK'
<1> USE RowsAreTokens, SessionsAssumption DEF TypeOK, Others, Answers, Grows, Answered
<1>1. ASSUME NEW b \in Browsers, Login(b) PROVE TypeOK'
  <2>1. /\ tok' \in Seq(TokenRow) /\ Len(tok') = Len(tok) + 1 /\ Len(tok) + 1 \in 0..MaxTokens
        /\ UNCHANGED <<req, lost, overlapped>> /\ cookie' = [cookie EXCEPT ![b] = Len(tok) + 1]
    BY <1>1, LoginFacts
  <2>2. Len(tok') <= MaxTokens /\ cookie' \in [Browsers -> 0..MaxTokens]
    BY <2>1
  <2> QED
    BY <2>1, <2>2
<1>2. ASSUME NEW t \in Tabs, Send(t) PROVE TypeOK'
  BY <1>2, SendFacts
<1>3. ASSUME NEW t \in Tabs, Load(t) PROVE TypeOK'
  <2>1. /\ UNCHANGED <<tok, cookie, lost, overlapped>> /\ req' \in [Tabs -> Request]
        /\ \A u \in Tabs \ {t} : req'[u] = req[u]
        /\ req'[t].pc \in {"reused", "rotating"} \/ req'[t].locks = {}
    BY <1>3, LoadFacts
  <2> QED
    BY <2>1
<1>4. ASSUME NEW t \in Tabs, Rotate(t) PROVE TypeOK'
  <2>1. /\ tok' \in Seq(TokenRow) /\ Len(tok') <= MaxTokens /\ UNCHANGED <<cookie, lost, overlapped>>
        /\ req' \in [Tabs -> Request] /\ req'[t].locks = {} /\ \A u \in Tabs \ {t} : req'[u] = req[u]
    BY <1>4, RotateFacts
  <2> QED
    BY <2>1
<1>5. ASSUME NEW t \in Tabs, RotateFails(t) \/ DeleteFails(t) PROVE TypeOK'
  BY <1>5, FailFacts, SMTT(30)
<1>6. ASSUME NEW t \in Tabs, DeleteStarts(t) PROVE TypeOK'
  BY <1>6, DeleteStartsFacts
<1>7. ASSUME NEW t \in Tabs, DeleteRow(t) PROVE TypeOK'
  BY <1>7, DeleteRowFacts
<1>8. ASSUME NEW t \in Tabs, CommitDelete(t) \/ DeleteUnheard(t) PROVE TypeOK'
  <2>1. /\ tok' \in Seq(TokenRow) /\ Len(tok') = Len(tok) /\ UNCHANGED <<cookie, overlapped>>
        /\ Answers(t, "ended") \/ Answers(t, "error")
        /\ lost' = lost \/ (lost' = lost + 1 /\ lost < MaxLost)
    BY <1>8, CommitFacts
  <2>2. lost' \in 0..MaxLost
    BY <2>1
  <2>3. req' \in [Tabs -> Request] /\ req'[t].locks = {} /\ \A u \in Tabs \ {t} : req'[u] = req[u]
    BY <2>1
  <2> QED
    BY <2>1, <2>2, <2>3
<1>9. ASSUME NEW t \in Tabs, Receive(t) \/ LoseAnswer(t) PROVE TypeOK'
  BY <1>9, ReceiveFacts
<1>10. CASE Expire
  BY <1>10, ExpireFacts DEF StatesStay
<1>11. CASE UNCHANGED vars
  BY <1>11 DEF vars
<1>12. ASSUME NEW t \in Tabs, RotateUnheard(t) PROVE TypeOK'
  <2>1. /\ tok' \in Seq(TokenRow) /\ Len(tok') <= MaxTokens /\ UNCHANGED <<cookie, overlapped>>
        /\ req' \in [Tabs -> Request] /\ req'[t].locks = {} /\ \A u \in Tabs \ {t} : req'[u] = req[u]
    BY <1>12, RotateUnheardFacts
  <2>2. lost' \in 0..MaxLost
    BY <1>12, RotateUnheardFacts
  <2> QED
    BY <2>1, <2>2
<1> QED
  BY <1>1, <1>2, <1>3, <1>4, <1>5, <1>6, <1>7, <1>8, <1>9, <1>10, <1>11, <1>12 DEF Next


-----------------------------------------------------------------------------
(* The parts of the inductive invariant.                                   *)

\* A lock is taken only when nobody holds it, and released with the answer.
LEMMA LocksStep ==
  ASSUME TypeOK, LocksAreExclusive, [Next]_vars PROVE LocksAreExclusive'
<1> USE RowsAreTokens DEF LocksAreExclusive, Others, Answers, CanLock, LockedBy
<1>1. ASSUME NEW b \in Browsers, Login(b) PROVE LocksAreExclusive'
  BY <1>1, LoginFacts, NewRow
<1>2. ASSUME NEW t \in Tabs, Send(t) PROVE LocksAreExclusive'
  BY <1>2, SendFacts
<1>3. ASSUME NEW t \in Tabs, Load(t) PROVE LocksAreExclusive'
  BY <1>3, LoadFacts
<1>4. ASSUME NEW t \in Tabs, Rotate(t) PROVE LocksAreExclusive'
  BY <1>4, RotateFacts, NewRow
<1>5. ASSUME NEW t \in Tabs, RotateFails(t) \/ DeleteFails(t) PROVE LocksAreExclusive'
  BY <1>5, FailFacts
<1>6. ASSUME NEW t \in Tabs, DeleteStarts(t) PROVE LocksAreExclusive'
  BY <1>6, DeleteStartsFacts
<1>7. ASSUME NEW t \in Tabs, DeleteRow(t) PROVE LocksAreExclusive'
  BY <1>7, DeleteRowFacts
<1>8. ASSUME NEW t \in Tabs, CommitDelete(t) \/ DeleteUnheard(t) PROVE LocksAreExclusive'
  BY <1>8, CommitFacts
<1>9. ASSUME NEW t \in Tabs, Receive(t) \/ LoseAnswer(t) PROVE LocksAreExclusive'
  BY <1>9, ReceiveFacts
<1>10. CASE Expire
  BY <1>10, ExpireFacts DEF StatesStay
<1>11. CASE UNCHANGED vars
  BY <1>11 DEF vars
<1>12. ASSUME NEW t \in Tabs, RotateUnheard(t) PROVE LocksAreExclusive'
  BY <1>12, RotateUnheardFacts, NewRow
<1> QED
  BY <1>1, <1>2, <1>3, <1>4, <1>5, <1>6, <1>7, <1>8, <1>9, <1>10, <1>11, <1>12 DEF Next


\* What requests and cookies name was committed before.
LEMMA KnownStep ==
  ASSUME TypeOK, TokensAreKnown, [Next]_vars PROVE TokensAreKnown'
<1> USE RowsAreTokens DEF TokensAreKnown, KnownIn, Others, Answers, Grows
<1>1. ASSUME NEW b \in Browsers, Login(b) PROVE TokensAreKnown'
  <2>1. DOMAIN tok \subseteq DOMAIN tok' /\ Len(tok) + 1 \in DOMAIN tok' /\ req' = req
    BY <1>1, LoginFacts
  <2>2. \A t \in Tabs : KnownIn(req[t])'
    BY <2>1
  <2>3. \A a \in Browsers : cookie'[a] \in {cookie[a], Len(tok) + 1}
    BY <1>1, LoginFacts DEF TypeOK
  <2> QED
    BY <2>1, <2>2, <2>3
<1>2. ASSUME NEW t \in Tabs, Send(t) PROVE TokensAreKnown'
  BY <1>2, SendFacts
<1>3. ASSUME NEW t \in Tabs, Load(t) PROVE TokensAreKnown'
  <2>1. DOMAIN tok \subseteq DOMAIN tok' /\ \A u \in Tabs \ {t} : req'[u] = req[u]
    BY <1>3, LoadFacts
  <2>2. \A u \in Tabs \ {t} : KnownIn(req[u])'
    BY <2>1
  <2>3. KnownIn(req[t])'
    BY <1>3, LoadFacts
  <2>4. \A b \in Browsers : cookie'[b] # 0 => cookie'[b] \in DOMAIN tok'
    <3>1. cookie \in [Browsers -> 0..MaxTokens] /\ BrowserOf[t] \in Browsers
      BY SessionsAssumption DEF TypeOK
    <3> QED
      BY <1>3, LoadFacts, <2>1, <3>1
  <2> QED
    BY <2>2, <2>3, <2>4
<1>4. ASSUME NEW t \in Tabs, Rotate(t) PROVE TokensAreKnown'
  <2>1. DOMAIN tok \subseteq DOMAIN tok' /\ \A u \in Tabs \ {t} : req'[u] = req[u]
    BY <1>4, RotateFacts
  <2>2. \A u \in Tabs \ {t} : KnownIn(req[u])'
    BY <2>1
  <2>3. KnownIn(req[t])'
    BY <1>4, RotateFacts
  <2>4. \A b \in Browsers : cookie'[b] # 0 => cookie'[b] \in DOMAIN tok'
    <3>1. cookie \in [Browsers -> 0..MaxTokens] /\ BrowserOf[t] \in Browsers
      BY SessionsAssumption DEF TypeOK
    <3> QED
      BY <1>4, RotateFacts, <2>1, <3>1
  <2> QED
    BY <2>2, <2>3, <2>4
<1>5. ASSUME NEW t \in Tabs, RotateFails(t) \/ DeleteFails(t) PROVE TokensAreKnown'
  <2>1. DOMAIN tok \subseteq DOMAIN tok' /\ \A u \in Tabs \ {t} : req'[u] = req[u]
    BY <1>5, FailFacts
  <2>2. \A u \in Tabs \ {t} : KnownIn(req[u])'
    BY <2>1
  <2>3. KnownIn(req[t])'
    BY <1>5, FailFacts
  <2>4. \A b \in Browsers : cookie'[b] # 0 => cookie'[b] \in DOMAIN tok'
    <3>1. cookie \in [Browsers -> 0..MaxTokens] /\ BrowserOf[t] \in Browsers
      BY SessionsAssumption DEF TypeOK
    <3> QED
      BY <1>5, FailFacts, <2>1, <3>1
  <2> QED
    BY <2>2, <2>3, <2>4
<1>6. ASSUME NEW t \in Tabs, DeleteStarts(t) PROVE TokensAreKnown'
  BY <1>6, DeleteStartsFacts
<1>7. ASSUME NEW t \in Tabs, DeleteRow(t) PROVE TokensAreKnown'
  BY <1>7, DeleteRowFacts
<1>8. ASSUME NEW t \in Tabs, CommitDelete(t) \/ DeleteUnheard(t) PROVE TokensAreKnown'
  <2>1. DOMAIN tok \subseteq DOMAIN tok' /\ \A u \in Tabs \ {t} : req'[u] = req[u]
    BY <1>8, CommitFacts
  <2>2. \A u \in Tabs \ {t} : KnownIn(req[u])'
    BY <2>1
  <2>3. KnownIn(req[t])'
    BY <1>8, CommitFacts
  <2>4. \A b \in Browsers : cookie'[b] # 0 => cookie'[b] \in DOMAIN tok'
    <3>1. cookie \in [Browsers -> 0..MaxTokens] /\ BrowserOf[t] \in Browsers
      BY SessionsAssumption DEF TypeOK
    <3> QED
      BY <1>8, CommitFacts, <2>1, <3>1
  <2> QED
    BY <2>2, <2>3, <2>4
<1>9. ASSUME NEW t \in Tabs, Receive(t) \/ LoseAnswer(t) PROVE TokensAreKnown'
  <2>1. DOMAIN tok \subseteq DOMAIN tok' /\ \A u \in Tabs \ {t} : req'[u] = req[u]
    BY <1>9, ReceiveFacts
  <2>2. \A u \in Tabs \ {t} : KnownIn(req[u])'
    BY <2>1
  <2>3. KnownIn(req[t])'
    BY <1>9, ReceiveFacts
  <2>4. \A b \in Browsers : cookie'[b] # 0 => cookie'[b] \in DOMAIN tok'
    <3>1. cookie \in [Browsers -> 0..MaxTokens] /\ BrowserOf[t] \in Browsers
      BY SessionsAssumption DEF TypeOK
    <3> QED
      BY <1>9, ReceiveFacts, <2>1, <3>1
  <2> QED
    BY <2>2, <2>3, <2>4
<1>10. CASE Expire
  BY <1>10, ExpireFacts DEF StatesStay
<1>11. CASE UNCHANGED vars
  BY <1>11 DEF vars
<1>12. ASSUME NEW t \in Tabs, RotateUnheard(t) PROVE TokensAreKnown'
  <2>1. DOMAIN tok \subseteq DOMAIN tok' /\ \A u \in Tabs \ {t} : req'[u] = req[u]
    BY <1>12, RotateUnheardFacts
  <2>2. \A u \in Tabs \ {t} : KnownIn(req[u])'
    BY <2>1
  <2>3. KnownIn(req[t])'
    BY <1>12, RotateUnheardFacts
  <2>4. \A b \in Browsers : cookie'[b] # 0 => cookie'[b] \in DOMAIN tok'
    <3>1. cookie \in [Browsers -> 0..MaxTokens] /\ BrowserOf[t] \in Browsers
      BY SessionsAssumption DEF TypeOK
    <3> QED
      BY <1>12, RotateUnheardFacts, <2>1, <3>1
  <2> QED
    BY <2>2, <2>3, <2>4
<1> QED
  BY <1>1, <1>2, <1>3, <1>4, <1>5, <1>6, <1>7, <1>8, <1>9, <1>10, <1>11, <1>12 DEF Next


\* The row a rotation holds is nobody else's to change.
LEMMA RotationStep ==
  ASSUME TypeOK, LocksAreExclusive, TokensAreKnown, RotationIsCurrent,
         [Next]_vars
  PROVE  RotationIsCurrent'
<1> USE RowsAreTokens DEF RotationIsCurrent, LocksAreExclusive, TokensAreKnown, KnownIn, Others, Answers, Grows
<1>1. ASSUME NEW b \in Browsers, Login(b) PROVE RotationIsCurrent'
  BY <1>1, LoginFacts, NewRow
<1>2. ASSUME NEW t \in Tabs, Send(t) PROVE RotationIsCurrent'
  BY <1>2, SendFacts
<1>3. ASSUME NEW t \in Tabs, Load(t) PROVE RotationIsCurrent'
  BY <1>3, LoadFacts
<1>4. ASSUME NEW t \in Tabs, Rotate(t) PROVE RotationIsCurrent'
  BY <1>4, RotateFacts, NewRow, SMTT(30)
<1>5. ASSUME NEW t \in Tabs, RotateFails(t) \/ DeleteFails(t) PROVE RotationIsCurrent'
  BY <1>5, FailFacts
<1>6. ASSUME NEW t \in Tabs, DeleteStarts(t) PROVE RotationIsCurrent'
  BY <1>6, DeleteStartsFacts
<1>7. ASSUME NEW t \in Tabs, DeleteRow(t) PROVE RotationIsCurrent'
  BY <1>7, DeleteRowFacts
<1>8. ASSUME NEW t \in Tabs, CommitDelete(t) \/ DeleteUnheard(t) PROVE RotationIsCurrent'
  BY <1>8, CommitFacts
<1>9. ASSUME NEW t \in Tabs, Receive(t) \/ LoseAnswer(t) PROVE RotationIsCurrent'
  BY <1>9, ReceiveFacts
<1>10. CASE Expire
  BY <1>10, ExpireFacts DEF StatesStay
<1>11. CASE UNCHANGED vars
  BY <1>11 DEF vars
<1>12. ASSUME NEW t \in Tabs, RotateUnheard(t) PROVE RotationIsCurrent'
  BY <1>12, RotateUnheardFacts, NewRow, SMTT(30)
<1> QED
  BY <1>1, <1>2, <1>3, <1>4, <1>5, <1>6, <1>7, <1>8, <1>9, <1>10, <1>11, <1>12 DEF Next


\* A used token never becomes fresh again.
LEMMA SuccessorsStep ==
  ASSUME TypeOK, TokensAreKnown, RotationIsCurrent, SuccessorsFollowUse,
         [Next]_vars
  PROVE  SuccessorsFollowUse'
<1> USE RowsAreTokens DEF SuccessorsFollowUse, RotationIsCurrent, TokensAreKnown, KnownIn, Others, Answers, Grows
<1>1. ASSUME NEW b \in Browsers, Login(b) PROVE SuccessorsFollowUse'
  <2>1. PICK c : c \notin DOMAIN tok /\ Grows(c, New(0))
    BY <1>1, LoginFacts
  <2>2. New(0).parent = 0
    BY DEF New
  <2>3. \A i \in DOMAIN tok : tok'[i].state = tok[i].state /\ tok'[i].parent = tok[i].parent
    BY <2>1
  <2> QED
    BY <2>1, <2>2, <2>3
<1>2. ASSUME NEW t \in Tabs, Send(t) PROVE SuccessorsFollowUse'
  BY <1>2, SendFacts
<1>3. ASSUME NEW t \in Tabs, Load(t) PROVE SuccessorsFollowUse'
  BY <1>3, LoadFacts
<1>4. ASSUME NEW t \in Tabs, Rotate(t) PROVE SuccessorsFollowUse'
  BY <1>4, RotateFacts, NewRow, SMTT(30)
<1>5. ASSUME NEW t \in Tabs, RotateFails(t) \/ DeleteFails(t) PROVE SuccessorsFollowUse'
  BY <1>5, FailFacts
<1>6. ASSUME NEW t \in Tabs, DeleteStarts(t) PROVE SuccessorsFollowUse'
  BY <1>6, DeleteStartsFacts
<1>7. ASSUME NEW t \in Tabs, DeleteRow(t) PROVE SuccessorsFollowUse'
  BY <1>7, DeleteRowFacts
<1>8. ASSUME NEW t \in Tabs, CommitDelete(t) \/ DeleteUnheard(t) PROVE SuccessorsFollowUse'
  <2>1. /\ DOMAIN tok' = DOMAIN tok
        /\ \A i \in DOMAIN tok : /\ tok'[i].parent = tok[i].parent
                                 /\ tok'[i].state \in {tok[i].state, "deleted"}
    BY <1>8, CommitFacts
  <2> QED
    BY <2>1
<1>9. ASSUME NEW t \in Tabs, Receive(t) \/ LoseAnswer(t) PROVE SuccessorsFollowUse'
  BY <1>9, ReceiveFacts
<1>10. CASE Expire
  BY <1>10, ExpireFacts DEF StatesStay
<1>11. CASE UNCHANGED vars
  BY <1>11 DEF vars
<1>12. ASSUME NEW t \in Tabs, RotateUnheard(t) PROVE SuccessorsFollowUse'
  BY <1>12, RotateUnheardFacts, NewRow, SMTT(30)
<1> QED
  BY <1>1, <1>2, <1>3, <1>4, <1>5, <1>6, <1>7, <1>8, <1>9, <1>10, <1>11, <1>12 DEF Next


\* A second successor would follow a token that is not fresh.
LEMMA OnceStep ==
  ASSUME TypeOK, TokensAreKnown, RotationIsCurrent, SuccessorsFollowUse, TokenRotatesOnce,
         [Next]_vars
  PROVE  TokenRotatesOnce'
<1> USE RowsAreTokens DEF TokenRotatesOnce, SuccessorsFollowUse, RotationIsCurrent, TokensAreKnown, KnownIn, Others, Answers, Grows
<1>1. ASSUME NEW b \in Browsers, Login(b) PROVE TokenRotatesOnce'
  <2>1. PICK c : c \notin DOMAIN tok /\ Grows(c, New(0))
    BY <1>1, LoginFacts
  <2>2. New(0).parent = 0
    BY DEF New
  <2>3. \A i \in DOMAIN tok : tok'[i].state = tok[i].state /\ tok'[i].parent = tok[i].parent
    BY <2>1
  <2> QED
    BY <2>1, <2>2, <2>3
<1>2. ASSUME NEW t \in Tabs, Send(t) PROVE TokenRotatesOnce'
  BY <1>2, SendFacts
<1>3. ASSUME NEW t \in Tabs, Load(t) PROVE TokenRotatesOnce'
  BY <1>3, LoadFacts
<1>4. ASSUME NEW t \in Tabs, Rotate(t) PROVE TokenRotatesOnce'
  <2> DEFINE c == req[t].sent
  <2>1. Grows(c, New(c)) /\ c \in DOMAIN tok /\ tok[c].state = "fresh"
    BY <1>4, RotateFacts
  <2>2. New(c).parent = c
    BY DEF New
  <2>3. \A i \in DOMAIN tok : tok[i].parent # 0 => tok[i].parent # c
    BY <2>1
  <2> HIDE DEF c
  <2> QED
    BY <2>1, <2>2, <2>3
<1>5. ASSUME NEW t \in Tabs, RotateFails(t) \/ DeleteFails(t) PROVE TokenRotatesOnce'
  BY <1>5, FailFacts
<1>6. ASSUME NEW t \in Tabs, DeleteStarts(t) PROVE TokenRotatesOnce'
  BY <1>6, DeleteStartsFacts
<1>7. ASSUME NEW t \in Tabs, DeleteRow(t) PROVE TokenRotatesOnce'
  BY <1>7, DeleteRowFacts
<1>8. ASSUME NEW t \in Tabs, CommitDelete(t) \/ DeleteUnheard(t) PROVE TokenRotatesOnce'
  BY <1>8, CommitFacts, SMTT(30)
<1>9. ASSUME NEW t \in Tabs, Receive(t) \/ LoseAnswer(t) PROVE TokenRotatesOnce'
  BY <1>9, ReceiveFacts
<1>10. CASE Expire
  BY <1>10, ExpireFacts DEF StatesStay
<1>11. CASE UNCHANGED vars
  BY <1>11 DEF vars
<1>12. ASSUME NEW t \in Tabs, RotateUnheard(t) PROVE TokenRotatesOnce'
  <2> DEFINE c == req[t].sent
  <2>1. Grows(c, New(c)) /\ c \in DOMAIN tok /\ tok[c].state = "fresh"
    BY <1>12, RotateUnheardFacts
  <2>2. New(c).parent = c
    BY DEF New
  <2>3. \A i \in DOMAIN tok : tok[i].parent # 0 => tok[i].parent # c
    BY <2>1
  <2> HIDE DEF c
  <2> QED
    BY <2>1, <2>2, <2>3
<1> QED
  BY <1>1, <1>2, <1>3, <1>4, <1>5, <1>6, <1>7, <1>8, <1>9, <1>10, <1>11, <1>12 DEF Next


\* A row the DELETE has passed is locked by it or gone.
LEMMA DeletionStep ==
  ASSUME TypeOK, TokensAreKnown, RotationIsCurrent, DeletionCovers,
         [Next]_vars
  PROVE  DeletionCovers'
<1> USE RowsAreTokens DEF DeletionCovers, RotationIsCurrent, TokensAreKnown, KnownIn, Others, Answers, Grows, Committed
<1>1. ASSUME NEW b \in Browsers, Login(b) PROVE DeletionCovers'
  BY <1>1, LoginFacts, NewRow
<1>2. ASSUME NEW t \in Tabs, Send(t) PROVE DeletionCovers'
  BY <1>2, SendFacts
<1>3. ASSUME NEW t \in Tabs, Load(t) PROVE DeletionCovers'
  BY <1>3, LoadFacts
<1>4. ASSUME NEW t \in Tabs, Rotate(t) PROVE DeletionCovers'
  BY <1>4, RotateFacts, NewRow
<1>5. ASSUME NEW t \in Tabs, RotateFails(t) \/ DeleteFails(t) PROVE DeletionCovers'
  BY <1>5, FailFacts
<1>6. ASSUME NEW t \in Tabs, DeleteStarts(t) PROVE DeletionCovers'
  BY <1>6, DeleteStartsFacts
<1>7. ASSUME NEW t \in Tabs, DeleteRow(t) PROVE DeletionCovers'
  BY <1>7, DeleteRowFacts
<1>8. ASSUME NEW t \in Tabs, CommitDelete(t) \/ DeleteUnheard(t) PROVE DeletionCovers'
  BY <1>8, CommitFacts
<1>9. ASSUME NEW t \in Tabs, Receive(t) \/ LoseAnswer(t) PROVE DeletionCovers'
  BY <1>9, ReceiveFacts
<1>10. CASE Expire
  BY <1>10, ExpireFacts DEF StatesStay
<1>11. CASE UNCHANGED vars
  BY <1>11 DEF vars
<1>12. ASSUME NEW t \in Tabs, RotateUnheard(t) PROVE DeletionCovers'
  BY <1>12, RotateUnheardFacts, NewRow
<1> QED
  BY <1>1, <1>2, <1>3, <1>4, <1>5, <1>6, <1>7, <1>8, <1>9, <1>10, <1>11, <1>12 DEF Next


\* What was deleted when the answer went out stays deleted.
LEMMA ReuseStep ==
  ASSUME TypeOK, TokensAreKnown, RotationIsCurrent, DeletionCovers, ReuseEndsSessions,
         [Next]_vars
  PROVE  ReuseEndsSessions'
<1> USE RowsAreTokens DEF ReuseEndsSessions, DeletionCovers, RotationIsCurrent, TokensAreKnown, KnownIn, Others, Answers, Grows
<1>1. ASSUME NEW b \in Browsers, Login(b) PROVE ReuseEndsSessions'
  BY <1>1, LoginFacts, NewRow
<1>2. ASSUME NEW t \in Tabs, Send(t) PROVE ReuseEndsSessions'
  BY <1>2, SendFacts
<1>3. ASSUME NEW t \in Tabs, Load(t) PROVE ReuseEndsSessions'
  BY <1>3, LoadFacts
<1>4. ASSUME NEW t \in Tabs, Rotate(t) PROVE ReuseEndsSessions'
  BY <1>4, RotateFacts, NewRow, SMTT(30)
<1>5. ASSUME NEW t \in Tabs, RotateFails(t) \/ DeleteFails(t) PROVE ReuseEndsSessions'
  BY <1>5, FailFacts
<1>6. ASSUME NEW t \in Tabs, DeleteStarts(t) PROVE ReuseEndsSessions'
  BY <1>6, DeleteStartsFacts
<1>7. ASSUME NEW t \in Tabs, DeleteRow(t) PROVE ReuseEndsSessions'
  BY <1>7, DeleteRowFacts
<1>8. ASSUME NEW t \in Tabs, CommitDelete(t) \/ DeleteUnheard(t) PROVE ReuseEndsSessions'
  BY <1>8, CommitFacts
<1>9. ASSUME NEW t \in Tabs, Receive(t) \/ LoseAnswer(t) PROVE ReuseEndsSessions'
  BY <1>9, ReceiveFacts
<1>10. CASE Expire
  BY <1>10, ExpireFacts DEF StatesStay
<1>11. CASE UNCHANGED vars
  BY <1>11 DEF vars
<1>12. ASSUME NEW t \in Tabs, RotateUnheard(t) PROVE ReuseEndsSessions'
  BY <1>12, RotateUnheardFacts, NewRow, SMTT(30)
<1> QED
  BY <1>1, <1>2, <1>3, <1>4, <1>5, <1>6, <1>7, <1>8, <1>9, <1>10, <1>11, <1>12 DEF Next


-----------------------------------------------------------------------------
(* Sessions that go on.                                                    *)

\* The three parts of SessionsGoOn, when it is about something.
AllInPlace == SentInTurn /\ IssuedOnce /\ SuccessorArrives

\* A login brings a token that nobody else knows.
LEMMA LoginGoesOn ==
  ASSUME TypeOK, TokensAreKnown, AllInPlace, NEW b \in Browsers, Login(b)
  PROVE  AllInPlace'
<1> DEFINE k == Len(tok) + 1
<1>1. /\ UNCHANGED req /\ k \notin DOMAIN tok /\ k # 0 /\ tok'[k].state = "fresh"
      /\ \A i \in DOMAIN tok : tok'[i].state = tok[i].state
  BY LoginFacts, NewRow, SessionsAssumption, RowsAreTokens DEF Grows
<1>2. cookie'[b] = k /\ \A c \in Browsers \ {b} : cookie'[c] = cookie[c]
  BY LoginFacts DEF TypeOK
<1>3. \A t \in Tabs : req[t].pc # "idle" => req[t].sent \in DOMAIN tok
  BY DEF TokensAreKnown, KnownIn
<1>4. \A t \in Tabs : req[t].pc = "rotated" => req[t].issued \in DOMAIN tok
  BY DEF TokensAreKnown, KnownIn
<1>5. \A c \in Browsers : cookie[c] # 0 => cookie[c] \in DOMAIN tok
  BY DEF TokensAreKnown
<1> HIDE DEF k
<1>6. SentInTurn'
  BY <1>1, <1>2, <1>3, <1>5 DEF AllInPlace, SentInTurn
<1>7. IssuedOnce'
  BY <1>1, <1>2, <1>3, <1>4 DEF AllInPlace, IssuedOnce
<1>8. SuccessorArrives'
  BY <1>1, <1>2, <1>3, <1>5 DEF AllInPlace, SuccessorArrives
<1> QED
  BY <1>6, <1>7, <1>8 DEF AllInPlace

\* A tab sends a cookie that no other tab has sent: it is fresh.
LEMMA SendGoesOn ==
  ASSUME TypeOK, AllInPlace, NEW t \in Tabs, Send(t), ~overlapped'
  PROVE  AllInPlace'
<1> DEFINE b == BrowserOf[t]
           c == cookie[b]
<1>1. /\ UNCHANGED <<tok, cookie>> /\ b \in Browsers /\ c # 0 /\ req[t].pc = "idle"
      /\ req'[t].pc = "sent" /\ req'[t].sent = c
      /\ \A u \in Tabs \ {t} : req'[u] = req[u]
  BY SendFacts DEF Send, Others
<1>2. \A u \in Tabs \ {t} : req[u].pc # "idle" => req[u].sent # c
  BY DEF Send
<1>3. tok[c].state = "fresh"
  BY <1>1, <1>2 DEF AllInPlace, SuccessorArrives
<1>4. \A e \in Browsers : cookie[e] = c => e = b
  BY <1>1 DEF AllInPlace, SentInTurn
<1> HIDE DEF c
<1>5. SentInTurn'
  BY <1>1, <1>2, <1>4 DEF AllInPlace, SentInTurn
<1>6. IssuedOnce'
  BY <1>1 DEF AllInPlace, IssuedOnce, c
<1>7. SuccessorArrives'
  BY <1>1, <1>3 DEF AllInPlace, SuccessorArrives
<1> QED
  BY <1>5, <1>6, <1>7 DEF AllInPlace

\* What leaves the tokens, the cookies and what requests carry as they are.
LEMMA QuietGoesOn ==
  ASSUME AllInPlace, NEW t \in Tabs, Others(t), UNCHANGED cookie, DOMAIN tok' = DOMAIN tok,
         \A i \in DOMAIN tok : tok'[i].state = tok[i].state, TokensAreKnown,
         req[t].pc \notin {"idle", "rotated"}, req'[t].sent = req[t].sent,
         \/ req'[t].pc \in {"denied", "error"}
         \/ req'[t].pc = "rotating" /\ tok[req[t].sent].state = "fresh"
  PROVE  AllInPlace'
<1>1. \A u \in Tabs \ {t} : req'[u] = req[u]
  BY DEF Others
<1>2. \A u \in Tabs : req[u].pc # "idle" => req[u].sent \in DOMAIN tok
  BY DEF TokensAreKnown, KnownIn
<1>3. \A u \in Tabs : req[u].pc = "rotated" => req[u].issued \in DOMAIN tok
  BY DEF TokensAreKnown, KnownIn
<1>4. \A c \in Browsers : cookie[c] # 0 => cookie[c] \in DOMAIN tok
  BY DEF TokensAreKnown
<1>5. SentInTurn'
  BY <1>1 DEF AllInPlace, SentInTurn
<1>6. IssuedOnce'
  BY <1>1, <1>3 DEF AllInPlace, IssuedOnce
<1>7. SuccessorArrives'
  BY <1>1, <1>2, <1>4 DEF AllInPlace, SuccessorArrives
<1> QED
  BY <1>5, <1>6, <1>7 DEF AllInPlace

\* A rotation uses the token that only this request has sent, and the
\* successor is in its answer.
LEMMA RotateGoesOn ==
  ASSUME TypeOK, TokensAreKnown, AllInPlace, NEW t \in Tabs, Rotate(t)
  PROVE  AllInPlace'
<1> DEFINE k == Len(tok) + 1
           c == req[t].sent
<1>1. /\ UNCHANGED cookie /\ req[t].pc = "rotating"
      /\ req'[t].pc = "rotated" /\ req'[t].issued = k /\ req'[t].sent = c
      /\ \A u \in Tabs \ {t} : req'[u] = req[u]
  BY RotateFacts DEF Others
<1>2. Grows(c, New(c)) /\ c \in 0..MaxTokens
  BY RotateFacts DEF TypeOK, Request
<1>3. /\ k \notin DOMAIN tok /\ tok'[k].state = "fresh" /\ k # 0
      /\ \A i \in DOMAIN tok : tok'[i].state = IF i = c THEN "used" ELSE tok[i].state
  BY <1>2, NewRow, RowsAreTokens DEF Grows
<1>4. \A u \in Tabs : req[u].pc # "idle" => req[u].sent \in DOMAIN tok
  BY DEF TokensAreKnown, KnownIn
<1>5. \A u \in Tabs : req[u].pc = "rotated" => req[u].issued \in DOMAIN tok
  BY DEF TokensAreKnown, KnownIn
<1>6. \A e \in Browsers : cookie[e] # 0 => cookie[e] \in DOMAIN tok
  BY DEF TokensAreKnown
<1>7. \A u \in Tabs \ {t} : req[u].pc # "idle" => req[u].sent # c
  BY <1>1 DEF AllInPlace, SentInTurn
<1>8. \A u \in Tabs : req[u].pc = "rotated" => req[u].issued # c
  BY <1>1 DEF AllInPlace, IssuedOnce
<1> HIDE DEF c, k
<1>9. SentInTurn'
  BY <1>1 DEF AllInPlace, SentInTurn, c
<1>10. IssuedOnce'
  <2> SUFFICES ASSUME NEW u \in Tabs, req'[u].pc = "rotated"
               PROVE  /\ tok'[req'[u].issued].state = "fresh"
                      /\ \A e \in Browsers : cookie'[e] /= req'[u].issued
                      /\ \A v \in Tabs : req'[v].pc /= "idle" => req'[v].sent /= req'[u].issued
                      /\ \A v \in Tabs \ {u} : req'[v].pc = "rotated" => req'[v].issued /= req'[u].issued
    BY DEF IssuedOnce
  <2>1. CASE u = t
    BY <1>1, <1>3, <1>4, <1>5, <1>6, <2>1 DEF c
  <2>2. CASE u # t
    BY <1>1, <1>3, <1>4, <1>5, <1>8, <2>2 DEF AllInPlace, IssuedOnce
  <2> QED
    BY <2>1, <2>2
<1>11. SuccessorArrives'
  BY <1>1, <1>3, <1>4, <1>6, <1>7 DEF AllInPlace, SuccessorArrives
<1> QED
  BY <1>9, <1>10, <1>11 DEF AllInPlace

\* The answer arrives, and only its browser has the successor.
LEMMA ReceiveGoesOn ==
  ASSUME TypeOK, AllInPlace, NEW t \in Tabs, Receive(t)
  PROVE  AllInPlace'
<1> DEFINE b == BrowserOf[t]
<1>1. /\ UNCHANGED tok /\ req'[t].pc = "idle" /\ req[t].pc # "idle" /\ b \in Browsers
      /\ \A u \in Tabs \ {t} : req'[u] = req[u]
  BY ReceiveFacts, SessionsAssumption DEF Others, Answered
<1>2. CASE req[t].pc # "rotated"
  <2>1. cookie' = cookie
    BY <1>2 DEF Receive
  <2>2. SentInTurn'
    BY <1>1, <2>1 DEF AllInPlace, SentInTurn
  <2>3. IssuedOnce'
    BY <1>1, <2>1 DEF AllInPlace, IssuedOnce
  <2>4. SuccessorArrives'
    BY <1>1, <1>2, <2>1 DEF AllInPlace, SuccessorArrives
  <2> QED
    BY <2>2, <2>3, <2>4 DEF AllInPlace
<1>3. CASE req[t].pc = "rotated"
  <2> DEFINE k == req[t].issued
  <2>1. cookie'[b] = k /\ \A e \in Browsers \ {b} : cookie'[e] = cookie[e]
    BY <1>1, <1>3 DEF Receive, TypeOK
  <2>2. /\ tok[k].state = "fresh" /\ \A e \in Browsers : cookie[e] # k
        /\ \A u \in Tabs : req[u].pc # "idle" => req[u].sent # k
        /\ \A u \in Tabs \ {t} : req[u].pc = "rotated" => req[u].issued # k
    BY <1>3 DEF AllInPlace, IssuedOnce
  <2> HIDE DEF k
  <2>3. SentInTurn'
    BY <1>1, <2>1, <2>2 DEF AllInPlace, SentInTurn
  <2>4. IssuedOnce'
    BY <1>1, <2>1, <2>2 DEF AllInPlace, IssuedOnce
  <2>5. \A e \in Browsers \ {b} : cookie[e] # req[t].sent
    BY <1>1 DEF AllInPlace, SentInTurn
  <2>6. SuccessorArrives'
    BY <1>1, <2>1, <2>2, <2>5 DEF AllInPlace, SuccessorArrives
  <2> QED
    BY <2>3, <2>4, <2>6 DEF AllInPlace
<1> QED
  BY <1>2, <1>3

\* Every step keeps each token in its place, or loses an answer, or lets two
\* tabs overlap.
LEMMA GoOnStep ==
  ASSUME TypeOK, TokensAreKnown, SessionsGoOn, [Next]_vars PROVE SessionsGoOn'
<1> SUFFICES ASSUME Undisturbed' PROVE AllInPlace'
  BY DEF SessionsGoOn, AllInPlace
<1> DEFINE Quietly == UNCHANGED <<lost, overlapped>>
<1>1. Quietly => AllInPlace
  BY DEF Undisturbed, SessionsGoOn, AllInPlace
<1>2. ASSUME NEW b \in Browsers, Login(b) PROVE AllInPlace'
  BY <1>1, <1>2, LoginFacts, LoginGoesOn
<1>3. ASSUME NEW t \in Tabs, Send(t) PROVE AllInPlace'
  <2>1. ~overlapped' /\ Undisturbed
    BY <1>3 DEF Undisturbed, Send, TypeOK
  <2> QED
    BY <1>3, <2>1, SendGoesOn DEF SessionsGoOn, AllInPlace
<1>4. ASSUME NEW t \in Tabs, Load(t) PROVE AllInPlace'
  <2>1. AllInPlace /\ UNCHANGED <<tok, cookie>> /\ req[t].pc = "sent"
    BY <1>1, <1>4, LoadFacts
  <2>2. tok[req[t].sent].state = "fresh"
    BY <2>1 DEF AllInPlace, SuccessorArrives
  <2>3. /\ Others(t) /\ req'[t].sent = req[t].sent
        /\ req'[t].pc = "denied" \/ (req'[t].pc = "rotating" /\ tok[req[t].sent].state = "fresh")
    BY <1>4, <2>2, LoadFacts DEF Answers
  <2> QED
    BY <2>1, <2>3, QuietGoesOn
<1>5. ASSUME NEW t \in Tabs, Rotate(t) PROVE AllInPlace'
  BY <1>1, <1>5, RotateFacts, RotateGoesOn
<1>6. ASSUME NEW t \in Tabs, RotateFails(t) \/ DeleteFails(t) PROVE AllInPlace'
  <2>1. /\ AllInPlace /\ UNCHANGED <<tok, cookie>> /\ req[t].pc \notin {"idle", "rotated"}
        /\ Others(t) /\ req'[t].sent = req[t].sent /\ req'[t].pc = "error"
    BY <1>1, <1>6, FailFacts DEF Answers
  <2> QED
    BY <2>1, QuietGoesOn
<1>7. ASSUME NEW t \in Tabs, DeleteStarts(t) PROVE AllInPlace'
  BY <1>1, <1>7, DeleteStartsFacts DEF AllInPlace, SuccessorArrives
<1>8. ASSUME NEW t \in Tabs, DeleteRow(t) PROVE AllInPlace'
  BY <1>1, <1>8, DeleteRowFacts DEF AllInPlace, SuccessorArrives
<1>9. ASSUME NEW t \in Tabs, CommitDelete(t) \/ DeleteUnheard(t) PROVE AllInPlace'
  <2>1. UNCHANGED <<lost, overlapped>> /\ req[t].pc = "deleting"
    BY <1>9, CommitFacts DEF Undisturbed, TypeOK
  <2> QED
    BY <1>1, <2>1 DEF AllInPlace, SuccessorArrives
<1>10. ASSUME NEW t \in Tabs, Receive(t) PROVE AllInPlace'
  BY <1>1, <1>10, ReceiveGoesOn DEF Receive
<1>11. ASSUME NEW t \in Tabs, LoseAnswer(t) PROVE FALSE
  BY <1>11 DEF LoseAnswer, Undisturbed, TypeOK
<1>12. CASE Expire
  <2>1. /\ AllInPlace /\ UNCHANGED <<cookie, req>>
        /\ \A i \in DOMAIN tok : tok'[i].state = tok[i].state
    BY <1>1, <1>12, ExpireFacts DEF StatesStay
  <2>2. SentInTurn'
    BY <2>1 DEF AllInPlace, SentInTurn
  <2>3. IssuedOnce'
    BY <2>1 DEF AllInPlace, IssuedOnce, TokensAreKnown, KnownIn
  <2>4. SuccessorArrives'
    BY <2>1 DEF AllInPlace, SuccessorArrives, TokensAreKnown, KnownIn
  <2> QED
    BY <2>2, <2>3, <2>4 DEF AllInPlace
<1>13. ASSUME NEW t \in Tabs, RotateUnheard(t) PROVE FALSE
  BY <1>13 DEF RotateUnheard, Undisturbed, TypeOK
<1>14. CASE UNCHANGED vars
  BY <1>1, <1>14 DEF vars, AllInPlace, SentInTurn, IssuedOnce, SuccessorArrives
<1> QED
  BY <1>2, <1>3, <1>4, <1>5, <1>6, <1>7, <1>8, <1>9, <1>10, <1>11, <1>12, <1>13, <1>14 DEF Next

\* Nobody holds a token at first.
LEMMA InitGoesOn == Init => SessionsGoOn
<1> SUFFICES ASSUME Init PROVE SentInTurn /\ IssuedOnce /\ SuccessorArrives
  BY DEF SessionsGoOn
<1>1. /\ \A t \in Tabs : req[t].pc = "idle"
      /\ \A b \in Browsers : cookie[b] = 0
  BY DEF Init, Idle
<1> QED
  BY <1>1 DEF SentInTurn, IssuedOnce, SuccessorArrives

\* A session ends only for a reason: a lost answer, two tabs that sent one
\* token at once, or its age.
LEMMA GoOnEnds == SessionsGoOn => SessionEndsForAReason
<1> SUFFICES ASSUME Undisturbed, SentInTurn, SuccessorArrives,
                    NEW b \in Browsers, cookie[b] # 0,
                    \A t \in Tabs : BrowserOf[t] = b => req[t].pc = "idle"
             PROVE  tok[cookie[b]].state = "fresh"
  BY DEF SessionEndsForAReason, SessionsGoOn, Undisturbed
<1> QED
  BY DEF SentInTurn, SuccessorArrives

-----------------------------------------------------------------------------
(* The theorems.                                                           *)

\* Nothing is issued and nothing is in flight at first.
LEMMA InitIInv == Init => IInv
<1> SUFFICES ASSUME Init PROVE IInv
  OBVIOUS
<1>1. tok = << >> /\ DOMAIN tok = {} /\ \A t \in Tabs : req[t] = Idle
  BY DEF Init
<1>2. Idle.pc = "idle" /\ Idle.locks = {} /\ Idle.seen = {} /\ Idle.todo = {}
  BY DEF Idle
<1>3. \A b \in Browsers : cookie[b] = 0
  BY DEF Init
<1> QED
  BY <1>1, <1>2, <1>3, InitType, InitGoesOn
     DEF IInv, LocksAreExclusive, TokensAreKnown, KnownIn, RotationIsCurrent, SuccessorsFollowUse,
         DeletionCovers, TokenRotatesOnce, ReuseEndsSessions

\* Every step keeps each part of the invariant.
LEMMA IInvStep == IInv /\ [Next]_vars => IInv'
  BY TypeStep, LocksStep, KnownStep, RotationStep, SuccessorsStep, OnceStep, DeletionStep, ReuseStep,
     GoOnStep
     DEF IInv

\* The invariant holds in every reachable state.
LEMMA Invariance == Spec => []IInv
<1>1. Init => IInv
  BY InitIInv
<1>2. IInv /\ [Next]_vars => IInv'
  BY IInvStep
<1> QED
  BY <1>1, <1>2, PTL DEF Spec

\* The variables keep their types, and no request that has been answered
\* holds a row lock, on any path through RefreshSession.
THEOREM TypesAndLocks == Spec => []TypeOK
<1>1. IInv => TypeOK
  BY DEF IInv
<1> QED
  BY <1>1, Invariance, PTL

\* Whatever requests race for it, in any number of tabs and browsers, a
\* refresh token is exchanged for one successor at most (RefreshSession).
THEOREM ExchangedOnce == Spec => []TokenRotatesOnce
<1>1. IInv => TokenRotatesOnce
  BY DEF IInv
<1> QED
  BY <1>1, Invariance, PTL

\* When a request is told that its token was used before, every token the
\* user had at that moment is gone (RefreshSession, the commit before the error).
THEOREM ReuseIsFinal == Spec => []ReuseEndsSessions
<1>1. IInv => ReuseEndsSessions
  BY DEF IInv
<1> QED
  BY <1>1, Invariance, PTL

\* Unless an answer was lost, the server's or the database's to a COMMIT, or
\* two tabs sent the same token at once, a browser that waits for no answer
\* holds a token it can exchange, whatever RefreshSession refused or rolled
\* back and however requests of others interleave with it.
THEOREM SessionsEndForAReason == Spec => []SessionEndsForAReason
<1>1. IInv => SessionEndsForAReason
  BY GoOnEnds DEF IInv
<1> QED
  BY <1>1, Invariance, PTL
=============================================================================
