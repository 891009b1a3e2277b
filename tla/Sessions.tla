------------------------------ MODULE Sessions ------------------------------
(***************************************************************************)
(* The refresh tokens of one user: the rows of the table refresh_tokens,   *)
(* the cookie each browser holds, and the requests of its tabs to          *)
(* /auth/refresh, each of which is one PostgreSQL transaction (read        *)
(* committed).  The row lock of SELECT ... FOR UPDATE, the snapshot the    *)
(* DELETE statement reads, and the deadlock PostgreSQL resolves by         *)
(* aborting one of the transactions are part of the model.                 *)
(*                                                                         *)
(* Bounds: MaxTokens rows ever inserted, MaxLost answers that are lost, of *)
(* the server to a browser or of the database to the server's COMMIT.      *)
(***************************************************************************)
EXTENDS Naturals, Sequences, FiniteSets

CONSTANTS Browsers, Tabs, BrowserOf, MaxTokens, MaxLost

ASSUME SessionsAssumption ==
    /\ BrowserOf \in [Tabs -> Browsers]
    /\ MaxTokens \in Nat \ {0} /\ MaxLost \in Nat

VARIABLES
    tok,        \* the tokens ever committed, in the order of their commits
    cookie,     \* [Browsers -> token], 0: no refresh_token cookie
    req,        \* [Tabs -> the request of the tab]
    lost,       \* answers that did not reach their browser, or the server after a COMMIT
    overlapped  \* two tabs of a browser have had the same token on its way

vars == <<tok, cookie, req, lost, overlapped>>

Token == 1..MaxTokens
TokenState == {"fresh", "used", "deleted"}

\* pc "sent": before the transaction; "rotating", "reused", "deleting": in it
\* (the row of the token sent is locked); "rotated", "denied", "ended", "error": answered.
Pcs == {"idle", "sent", "rotating", "reused", "deleting", "rotated", "denied", "ended", "error"}

TokenRow == [state : TokenState, expired : BOOLEAN, parent : 0..MaxTokens]

Request == [pc : Pcs, sent : 0..MaxTokens, issued : 0..MaxTokens,
            seen : SUBSET Token, todo : SUBSET Token, locks : SUBSET Token]

Idle == [pc |-> "idle", sent |-> 0, issued |-> 0, seen |-> {}, todo |-> {}, locks |-> {}]

Answered == {"rotated", "denied", "ended", "error"}

Committed == {i \in DOMAIN tok : tok[i].state /= "deleted"}

LockedBy(t, i) == i \in req[t].locks

\* Mutant: the SELECT without FOR UPDATE.
CanLockAlways(t, i) == TRUE

\* A row can be locked by t when no transaction of another tab holds it.
CanLock(t, i) == \A u \in Tabs \ {t} : ~ LockedBy(u, i)

-----------------------------------------------------------------------------
(***************************************************************************)
(* The browser.                                                            *)
(***************************************************************************)

\* HandleGitHubCallback: a new token, in a statement of its own.  When the
\* insert fails the user is logged in all the same and the cookie stays as it was.
\* A refresh of another tab may be on its way meanwhile.
Login(b) ==
    /\ Len(tok) < MaxTokens
    /\ tok' = Append(tok, [state |-> "fresh", expired |-> FALSE, parent |-> 0])
    /\ cookie' = [cookie EXCEPT ![b] = Len(tok) + 1]
    /\ UNCHANGED <<req, lost, overlapped>>

Send(t) ==
    LET c == cookie[BrowserOf[t]]
    IN  /\ req[t].pc = "idle" /\ c /= 0
        /\ req' = [req EXCEPT ![t] = [Idle EXCEPT !.pc = "sent", !.sent = c]]
        /\ overlapped' = (overlapped \/ \E u \in Tabs \ {t} : req[u].pc /= "idle" /\ req[u].sent = c)
        /\ UNCHANGED <<tok, cookie, lost>>

\* The answer arrives.  Only a rotation sets a cookie: a 401 or a 500 leaves
\* the one the browser has.
Receive(t) ==
    /\ req[t].pc \in Answered
    /\ cookie' = IF req[t].pc = "rotated"
                 THEN [cookie EXCEPT ![BrowserOf[t]] = req[t].issued] ELSE cookie
    /\ req' = [req EXCEPT ![t] = Idle]
    /\ UNCHANGED <<tok, lost, overlapped>>

LoseAnswer(t) ==
    /\ req[t].pc = "rotated" /\ lost < MaxLost
    /\ lost' = lost + 1
    /\ req' = [req EXCEPT ![t] = Idle]
    /\ UNCHANGED <<tok, cookie, overlapped>>

-----------------------------------------------------------------------------
(***************************************************************************)
(* RefreshSession.                                                         *)
(***************************************************************************)

\* Mutant: an error is answered and the transaction stays open.
AnswerKeepingLocks(t, pc) == [req EXCEPT ![t] = [@ EXCEPT !.pc = pc]]

Answer(t, pc) == [req EXCEPT ![t] = [@ EXCEPT !.pc = pc, !.locks = {}]]

\* The UPDATE that marks the token used.
Consume(c) == [tok EXCEPT ![c].state = "used"]

\* loadRefreshTokenForUpdate: waits for the row, then sees its committed
\* state; what follows is decided by it, a use before an expiry.
Load(t) ==
    LET c == req[t].sent
        used == c \in Committed /\ tok[c].state = "used"
        valid == c \in Committed /\ tok[c].state = "fresh" /\ ~ tok[c].expired
    IN  /\ req[t].pc = "sent" /\ CanLock(t, c)
        /\ \/ ~ used /\ ~ valid /\ req' = Answer(t, "denied")
           \/ used /\ req' = [req EXCEPT ![t] = [@ EXCEPT !.pc = "reused", !.locks = {c}, !.seen = Committed]]
           \/ valid /\ req' = [req EXCEPT ![t] = [@ EXCEPT !.pc = "rotating", !.locks = {c}]]
        /\ UNCHANGED <<tok, cookie, lost, overlapped>>

\* The access token is built, the row is marked used, its successor is
\* inserted, and the transaction commits: others see all of it or nothing.
RotationCommits(t) ==
    /\ req[t].pc = "rotating" /\ Len(tok) < MaxTokens
    /\ tok' = Append(Consume(req[t].sent),
                     [state |-> "fresh", expired |-> FALSE, parent |-> req[t].sent])

Rotate(t) ==
    /\ RotationCommits(t)
    /\ req' = [req EXCEPT ![t] = [@ EXCEPT !.pc = "rotated", !.locks = {}, !.issued = Len(tok) + 1]]
    /\ UNCHANGED <<cookie, lost, overlapped>>

\* The commit takes effect but Commit returns an error: the deferred rollback
\* finds the transaction done, and 500 is answered without the successor.
RotateUnheard(t) ==
    /\ RotationCommits(t) /\ lost < MaxLost
    /\ lost' = lost + 1
    /\ req' = Answer(t, "error")
    /\ UNCHANGED <<cookie, overlapped>>

\* Mutant: the token is consumed outside the transaction.
RolledBackLate(c) == Consume(c)

\* What a rotation that fails leaves of the table: the rollback undoes its UPDATE.
RolledBack(c) == tok

\* buildAccessToken, a statement or the commit fails, and the transaction is
\* rolled back: 500.
RotateFails(t) ==
    /\ req[t].pc = "rotating"
    /\ tok' = RolledBack(req[t].sent)
    /\ req' = Answer(t, "error")
    /\ UNCHANGED <<cookie, lost, overlapped>>

\* The DELETE of all the user's tokens: it finds the rows its snapshot holds ...
DeleteStarts(t) ==
    /\ req[t].pc = "reused"
    /\ req' = [req EXCEPT ![t] = [@ EXCEPT !.pc = "deleting", !.todo = Committed]]
    /\ UNCHANGED <<tok, cookie, lost, overlapped>>

\* ... and locks them one after the other, waiting for those others hold.
DeleteRow(t) ==
    \E i \in req[t].todo :
        /\ req[t].pc = "deleting" /\ CanLock(t, i)
        /\ req' = [req EXCEPT ![t] =
               [@ EXCEPT !.todo = req[t].todo \ {i}, !.locks = req[t].locks \union ({i} \cap Committed)]]
        /\ UNCHANGED <<tok, cookie, lost, overlapped>>

\* Mutant: the deferred rollback undoes the invalidation.
DeletedThenRolledBack(t) == tok

\* What the commit of the invalidation leaves of the table.
Deleted(t) == [i \in DOMAIN tok |->
    IF LockedBy(t, i) THEN [tok[i] EXCEPT !.state = "deleted"] ELSE tok[i]]

CommitDelete(t) ==
    /\ req[t].pc = "deleting" /\ req[t].todo = {}
    /\ tok' = Deleted(t)
    /\ req' = Answer(t, "ended")
    /\ UNCHANGED <<cookie, lost, overlapped>>

\* The commit of the invalidation takes effect but Commit returns an error: 500.
DeleteUnheard(t) ==
    /\ req[t].pc = "deleting" /\ req[t].todo = {} /\ lost < MaxLost
    /\ tok' = Deleted(t)
    /\ lost' = lost + 1
    /\ req' = Answer(t, "error")
    /\ UNCHANGED <<cookie, overlapped>>

\* The DELETE or its commit fails, and the transaction is rolled back: 500.
DeleteFails(t) ==
    /\ req[t].pc \in {"reused", "deleting"}
    /\ req' = Answer(t, "error")
    /\ UNCHANGED <<tok, cookie, lost, overlapped>>

\* The 30 days of a token pass, of the oldest first.
Expire ==
    \E i \in DOMAIN tok :
        /\ ~ tok[i].expired /\ \A j \in 1..(i - 1) : tok[j].expired
        /\ tok' = [tok EXCEPT ![i].expired = TRUE]
        /\ UNCHANGED <<cookie, req, lost, overlapped>>

-----------------------------------------------------------------------------
Init ==
    /\ tok = << >> /\ cookie = [b \in Browsers |-> 0] /\ req = [t \in Tabs |-> Idle]
    /\ lost = 0 /\ overlapped = FALSE

Next ==
    \/ \E b \in Browsers : Login(b)
    \/ \E t \in Tabs :
        \/ Send(t) \/ Load(t) \/ Rotate(t) \/ RotateFails(t) \/ DeleteStarts(t) \/ DeleteRow(t)
        \/ CommitDelete(t) \/ DeleteFails(t) \/ RotateUnheard(t) \/ DeleteUnheard(t)
        \/ Receive(t) \/ LoseAnswer(t)
    \/ Expire

Spec == Init /\ [][Next]_vars

-----------------------------------------------------------------------------
(***************************************************************************)
(* Properties.                                                             *)
(***************************************************************************)

\* The variables keep their types, and a transaction that has been answered
\* holds no lock: every path out of RefreshSession commits or rolls back.
TypeOK ==
    /\ tok \in Seq(TokenRow)
    /\ Len(tok) <= MaxTokens
    /\ cookie \in [Browsers -> 0..MaxTokens]
    /\ req \in [Tabs -> Request]
    /\ \A t \in Tabs : req[t].pc \in Answered \union {"idle", "sent"} => req[t].locks = {}
    /\ lost \in 0..MaxLost /\ overlapped \in BOOLEAN

\* A token is exchanged at most once, whatever requests race with it
\* (TestRotateRefreshToken_SingleUse tries it with one request at a time).
TokenRotatesOnce ==
    \A i, j \in DOMAIN tok : i /= j /\ tok[i].parent /= 0 => tok[i].parent /= tok[j].parent

\* When the answer to a token used before goes out, every token the user had
\* when the reuse was seen is gone, although the transaction returned an
\* error and rows of the table were held by other requests.  A token that
\* another request inserts while the DELETE runs is in nobody's snapshot and
\* survives, although the comment on RotateRefreshToken says all.
ReuseEndsSessions ==
    \A t \in Tabs : req[t].pc = "ended" => \A i \in req[t].seen : tok[i].state = "deleted"

\* A session ends only for a reason: as long as every answer arrived, the
\* server's at the browser and the database's to the server's COMMIT, and no
\* two tabs of a browser refreshed with the same token at once, a browser
\* that waits for no answer holds a token it can still exchange (or one that
\* has expired), whatever was refused, failed or rolled back on the server.
SessionEndsForAReason ==
    lost = 0 /\ ~ overlapped =>
        \A b \in Browsers :
            cookie[b] /= 0 /\ (\A t \in Tabs : BrowserOf[t] = b => req[t].pc = "idle")
                => tok[cookie[b]].state = "fresh"

-----------------------------------------------------------------------------
(***************************************************************************)
(* The inductive invariants that the theorems of Sessions_proofs rest on.  *)
(***************************************************************************)

\* A row is locked by one transaction at most, and everything in flight is
\* about tokens that were committed.
LocksAreExclusive ==
    \A t, u \in Tabs : t /= u => req[t].locks \cap req[u].locks = {}

KnownIn(r) ==
    /\ r.pc /= "idle" => r.sent \in DOMAIN tok
    /\ r.pc = "rotated" => r.issued \in DOMAIN tok
    /\ r.seen \union r.todo \union r.locks \subseteq DOMAIN tok

TokensAreKnown ==
    /\ \A b \in Browsers : cookie[b] /= 0 => cookie[b] \in DOMAIN tok
    /\ \A t \in Tabs : KnownIn(req[t])

\* A rotation that was decided on holds its row, which is still fresh.
RotationIsCurrent ==
    \A t \in Tabs : req[t].pc = "rotating" =>
        req[t].sent \in req[t].locks /\ tok[req[t].sent].state = "fresh"

\* A token with a successor has been used, for ever.
SuccessorsFollowUse ==
    \A i \in DOMAIN tok : tok[i].parent /= 0 =>
        tok[i].parent \in DOMAIN tok /\ tok[tok[i].parent].state /= "fresh"

\* What an invalidation saw is gone, or it holds it, or has yet to lock it.
DeletionCovers ==
    \A t \in Tabs : req[t].pc = "deleting" =>
        \A i \in req[t].seen :
            tok[i].state = "deleted" \/ i \in req[t].locks \/ i \in req[t].todo

\* Every answer and every COMMIT's has arrived, and no two tabs had the same token on its way.
Undisturbed == lost = 0 /\ ~ overlapped

\* Then a token is in one place: the cookie of a browser, with at most one
\* request of that browser that has sent it, ...
SentInTurn ==
    /\ \A t, u \in Tabs :
         t /= u /\ req[t].pc /= "idle" /\ req[u].pc /= "idle" => req[t].sent /= req[u].sent
    /\ \A b, c \in Browsers : b /= c /\ cookie[b] /= 0 => cookie[b] /= cookie[c]
    /\ \A t \in Tabs, b \in Browsers :
         req[t].pc /= "idle" /\ req[t].sent = cookie[b] => BrowserOf[t] = b

\* ... or the one answer it is in, ...
IssuedOnce ==
    \A t \in Tabs : req[t].pc = "rotated" =>
        /\ tok[req[t].issued].state = "fresh"
        /\ \A b \in Browsers : cookie[b] /= req[t].issued
        /\ \A u \in Tabs : req[u].pc /= "idle" => req[u].sent /= req[t].issued
        /\ \A u \in Tabs \ {t} : req[u].pc = "rotated" => req[u].issued /= req[t].issued

\* ... and what a browser holds is fresh, or its successor is on the way.
SuccessorArrives ==
    /\ \A t \in Tabs : req[t].pc \notin {"reused", "deleting", "ended"}
    /\ \A t \in Tabs : req[t].pc \in {"sent", "rotating"} => tok[req[t].sent].state = "fresh"
    /\ \A b \in Browsers : cookie[b] /= 0 /\ tok[cookie[b]].state /= "fresh" =>
         \E t \in Tabs : req[t].pc = "rotated" /\ req[t].sent = cookie[b]

SessionsGoOn == Undisturbed => SentInTurn /\ IssuedOnce /\ SuccessorArrives

IInv ==
    /\ TypeOK /\ LocksAreExclusive /\ TokensAreKnown /\ RotationIsCurrent
    /\ SuccessorsFollowUse /\ DeletionCovers /\ TokenRotatesOnce /\ ReuseEndsSessions
    /\ SessionsGoOn
=============================================================================
