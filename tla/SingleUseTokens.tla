--------------------------- MODULE SingleUseTokens ---------------------------
(***************************************************************************)
(* The mailed single-use tokens: email verification and password reset.    *)
(*                                                                         *)
(* Issuing stamps the user's unused tokens and inserts a new one, in one   *)
(* transaction, and queues the mail after the commit.  Consuming looks the *)
(* token up outside a transaction, checks it, and then writes the user row *)
(* and stamps all the user's unused tokens, in one transaction.            *)
(*                                                                         *)
(* Transactions run at READ COMMITTED, PostgreSQL's default, which nothing *)
(* in the code changes: a statement sees the rows committed when it began, *)
(* waits for the rows another transaction has written, and then checks its *)
(* WHERE again on those.  What a transaction wrote is kept with its task   *)
(* until the commit, so that a rollback is the loss of the task's state.   *)
(***************************************************************************)
EXTENDS Naturals, FiniteSets

CONSTANTS
  Users,
  Tokens,      \* the token strings ever minted; the bound on issues
  Tasks,       \* the requests served at one time
  Operations,  \* the kinds of request clients make
  QueueFails,  \* whether adding a job to the mail queue may fail
  Crashes,     \* whether a worker process may die
  None

ASSUME SwitchesAreBoolean == QueueFails \in BOOLEAN /\ Crashes \in BOOLEAN
ASSUME TasksAreFinite == IsFiniteSet(Tasks)
ASSUME NoneIsNoToken == None \notin Tokens

Kinds == {"verification", "reset"}

VARIABLES
  account,  \* the user row: "none", "unverified" or "verified"
  row,      \* the two token tables, by token: a Row, or None
  writes,   \* how many writes each token has authorised
  mailed,   \* the tokens whose mail is in the queue
  req       \* what each task has still to do

vars == <<account, row, writes, mailed, req>>

(* seen is not a column: it is the user's unused tokens, as the issue that *)
(* minted this one found them.                                             *)
Row == [user : Users, kind : Kinds, used : BOOLEAN, expired : BOOLEAN, seen : SUBSET Tokens]

ASSUME NoneIsNoRow == None \notin Row

(* The transactions in flight.  with is the token consumed, None for an    *)
(* issue; rows is the snapshot of markAllUsed, then the rows it stamped.   *)
Idle == [pc |-> "idle"]
WriteUser(u, k, w) == [pc |-> "writeUser", user |-> u, kind |-> k, with |-> w]
MarkAllUsed(u, k, w) == [pc |-> "markAllUsed", user |-> u, kind |-> k, with |-> w]
Mark(r, rows) == [pc |-> "mark", user |-> r.user, kind |-> r.kind, with |-> r.with, rows |-> rows]
Commit(r, rows) ==
  [pc |-> "commit", user |-> r.user, kind |-> r.kind, with |-> r.with,
   seen |-> r.rows, rows |-> rows]
Queue(token) == [pc |-> "queue", token |-> token]

Continuation ==
  {Idle}
  \cup [pc : {"writeUser"}, user : Users, kind : Kinds, with : Tokens]
  \cup [pc : {"markAllUsed"}, user : Users, kind : Kinds, with : Tokens \cup {None}]
  \cup [pc : {"mark"}, user : Users, kind : Kinds, with : Tokens \cup {None}, rows : SUBSET Tokens]
  \cup [pc : {"commit"}, user : Users, kind : Kinds, with : Tokens \cup {None},
        seen : SUBSET Tokens, rows : SUBSET Tokens]
  \cup [pc : {"queue"}, token : Tokens]

Become(t, r) == req' = [req EXCEPT ![t] = r]

InTransaction == {"markAllUsed", "mark", "commit"}

(* The row locks: a consume holds the user row from its first write on, a  *)
(* transaction the token rows it has stamped.                              *)
HoldsUser(t, u) == req[t].pc \in InTransaction /\ req[t].with # None /\ req[t].user = u
HoldsToken(t, j) == req[t].pc = "commit" /\ j \in req[t].rows

Unused(u, k) == {j \in Tokens : row[j] # None /\ row[j].user = u /\ row[j].kind = k /\ ~row[j].used}

Init ==
  /\ account \in [Users -> {"none", "unverified", "verified"}]
  /\ row = [j \in Tokens |-> None]
  /\ writes = [j \in Tokens |-> 0]
  /\ mailed = {}
  /\ req = [t \in Tasks |-> Idle]

-----------------------------------------------------------------------------
(* Requests, up to the await after their first read.                       *)
Arrive(t, op, r) ==
  /\ op \in Operations
  /\ req[t] = Idle
  /\ Become(t, r)
  /\ UNCHANGED <<account, row, writes, mailed>>

(* The user row is inserted by the transaction that mints the token, under *)
(* an id nobody else can know.                                             *)
Register(t) ==
  \E u \in {v \in Users : account[v] = "none"} :
    /\ \A s \in Tasks : req[s].pc \in InTransaction => req[s].user # u
    /\ Arrive(t, "register", MarkAllUsed(u, "verification", None))

ResendVerification(t) ==
  \E u \in {v \in Users : account[v] = "unverified"} :
    Arrive(t, "resendVerification", MarkAllUsed(u, "verification", None))

(* The admin's button sends to a verified user too.                        *)
SendVerificationEmail(t) ==
  \E u \in {v \in Users : account[v] # "none"} :
    Arrive(t, "sendVerificationEmail", MarkAllUsed(u, "verification", None))

(* By the user (forgotPassword) or by an admin (sendResetPasswordEmail).   *)
ForgotPassword(t) ==
  \E u \in {v \in Users : account[v] # "none"} :
    Arrive(t, "forgotPassword", MarkAllUsed(u, "reset", None))

(* Mutant: the lookup does not look at usedAt.                             *)
AcceptedUsed(j) == row[j] # None /\ ~row[j].expired

(* findByToken and the check of its row; a refusal changes nothing.        *)
Accepted(j) == row[j] # None /\ ~row[j].expired /\ ~row[j].used

Consume(t, op, k) ==
  \E j \in mailed :
    /\ Accepted(j)
    /\ row[j].kind = k
    /\ Arrive(t, op, WriteUser(row[j].user, k, j))

VerifyEmail(t) == Consume(t, "verifyEmail", "verification")
ResetPassword(t) == Consume(t, "resetPassword", "reset")

-----------------------------------------------------------------------------
(* The statements of the transactions.                                     *)

(* markEmailVerified or updatePassword, which locks the user row.          *)
UpdateUser(t) ==
  LET r == req[t] IN
  /\ r.pc = "writeUser"
  /\ \A s \in Tasks \ {t} : ~HoldsUser(s, r.user)
  /\ Become(t, MarkAllUsed(r.user, r.kind, r.with))
  /\ UNCHANGED <<account, row, writes, mailed>>

(* The UPDATE of markAllUsed begins: its snapshot.                         *)
BeginMark(t) ==
  LET r == req[t] IN
  /\ r.pc = "markAllUsed"
  /\ Become(t, Mark(r, Unused(r.user, r.kind)))
  /\ UNCHANGED <<account, row, writes, mailed>>

(* Mutant: the mail is queued inside the transaction that mints its token. *)
EndMarkQueues(t) ==
  LET r == req[t] IN
  /\ r.pc = "mark"
  /\ \A s \in Tasks \ {t}, j \in r.rows : ~HoldsToken(s, j)
  /\ Become(t, Commit(r, {j \in r.rows : ~row[j].used}))
  /\ IF r.with = None THEN \E j \in Tokens : row[j] = None /\ mailed' = mailed \cup {j}
                      ELSE mailed' = mailed
  /\ UNCHANGED <<account, row, writes>>

(* It has waited for the rows others stamped, and takes those left unused. *)
EndMark(t) ==
  LET r == req[t] IN
  /\ r.pc = "mark"
  /\ \A s \in Tasks \ {t}, j \in r.rows : ~HoldsToken(s, j)
  /\ Become(t, Commit(r, {j \in r.rows : ~row[j].used}))
  /\ UNCHANGED <<account, row, writes, mailed>>

Stamped(rows) == [j \in Tokens |-> IF j \in rows THEN [row[j] EXCEPT !.used = TRUE] ELSE row[j]]

(* Mutant: the insert names no expiry.                                     *)
MintedForever(r) ==
  [user |-> r.user, kind |-> r.kind, used |-> FALSE, expired |-> None, seen |-> r.seen]

Minted(r) == [user |-> r.user, kind |-> r.kind, used |-> FALSE, expired |-> FALSE, seen |-> r.seen]

(* Mutants of the issue: the earlier tokens are left as they are, their    *)
(* stamps are committed before the insert is tried, or the insert comes    *)
(* with an update of the user row, locked last here and first elsewhere.   *)
CommitIssueKeepsEarlier(t) ==
  LET r == req[t] IN
  /\ r.pc = "commit"
  /\ r.with = None
  /\ \E j \in {i \in Tokens : row[i] = None} :
       /\ row' = [row EXCEPT ![j] = Minted(r)]
       /\ account' = [account EXCEPT ![r.user] = IF @ = "none" THEN "unverified" ELSE @]
       /\ Become(t, Queue(j))
  /\ UNCHANGED <<writes, mailed>>

CommitIssueByHalves(t) ==
  LET r == req[t] IN
  /\ r.pc = "commit"
  /\ r.with = None
  /\ \/ \E j \in {i \in Tokens : row[i] = None} :
          /\ row' = [Stamped(r.rows) EXCEPT ![j] = Minted(r)]
          /\ account' = [account EXCEPT ![r.user] = IF @ = "none" THEN "unverified" ELSE @]
          /\ Become(t, Queue(j))
     \/ /\ row' = Stamped(r.rows)
        /\ Become(t, Idle)
        /\ UNCHANGED account
  /\ UNCHANGED <<writes, mailed>>

CommitIssueLocksUser(t) ==
  LET r == req[t] IN
  /\ r.pc = "commit"
  /\ r.with = None
  /\ \A s \in Tasks : ~HoldsUser(s, r.user)
  /\ \E j \in {i \in Tokens : row[i] = None} :
       /\ row' = [Stamped(r.rows) EXCEPT ![j] = Minted(r)]
       /\ account' = [account EXCEPT ![r.user] = IF @ = "none" THEN "unverified" ELSE @]
       /\ Become(t, Queue(j))
  /\ UNCHANGED <<writes, mailed>>

(* The INSERT, which nobody sees before the COMMIT it is one step with.    *)
(* An issue fails when the tokens are used up: that is the bound.          *)
CommitIssue(t) ==
  LET r == req[t] IN
  /\ r.pc = "commit"
  /\ r.with = None
  /\ \/ \E j \in {i \in Tokens : row[i] = None} :
          /\ row' = [Stamped(r.rows) EXCEPT ![j] = Minted(r)]
          /\ account' = [account EXCEPT ![r.user] = IF @ = "none" THEN "unverified" ELSE @]
          /\ Become(t, Queue(j))
     \/ /\ \A j \in Tokens : row[j] # None
        /\ Become(t, Idle)
        /\ UNCHANGED <<account, row>>
  /\ UNCHANGED <<writes, mailed>>

(* Mutant: the consume stamps its own row by a stale key and misses it.    *)
CommitConsumeKeepsToken(t) ==
  LET r == req[t] IN
  /\ r.pc = "commit"
  /\ r.with # None
  /\ row' = Stamped(r.rows \ {r.with})
  /\ account' = [account EXCEPT ![r.user] = IF r.kind = "verification" THEN "verified" ELSE @]
  /\ writes' = [writes EXCEPT ![r.with] = @ + 1]
  /\ Become(t, Idle)
  /\ UNCHANGED mailed

CommitConsume(t) ==
  LET r == req[t] IN
  /\ r.pc = "commit"
  /\ r.with # None
  /\ row' = Stamped(r.rows)
  /\ account' = [account EXCEPT ![r.user] = IF r.kind = "verification" THEN "verified" ELSE @]
  /\ writes' = [writes EXCEPT ![r.with] = @ + 1]
  /\ Become(t, Idle)
  /\ UNCHANGED mailed

-----------------------------------------------------------------------------
(* sendEmailQueue.add, after the commit.                                   *)
QueueEmail(t) ==
  /\ req[t].pc = "queue"
  /\ mailed' = mailed \cup {req[t].token} \/ (QueueFails /\ mailed' = mailed)
  /\ Become(t, Idle)
  /\ UNCHANGED <<account, row, writes>>

(* expiresAt passes.                                                       *)
ExpireToken(j) ==
  /\ row[j] # None
  /\ ~row[j].expired
  /\ row' = [row EXCEPT ![j].expired = TRUE]
  /\ UNCHANGED <<account, writes, mailed, req>>

(* A worker dies, and PostgreSQL rolls its transaction back.               *)
Crash(t) ==
  /\ Crashes
  /\ req[t] # Idle
  /\ Become(t, Idle)
  /\ UNCHANGED <<account, row, writes, mailed>>

Request(t) ==
  \/ Register(t) \/ ResendVerification(t) \/ SendVerificationEmail(t) \/ ForgotPassword(t)
  \/ VerifyEmail(t) \/ ResetPassword(t)

Continue(t) ==
  \/ UpdateUser(t) \/ BeginMark(t) \/ EndMark(t) \/ CommitIssue(t) \/ CommitConsume(t)
  \/ QueueEmail(t)

Next ==
  \/ \E t \in Tasks : Request(t) \/ Continue(t) \/ Crash(t)
  \/ \E j \in Tokens : ExpireToken(j)

Spec == Init /\ [][Next]_vars

(* Handlers run to their end.  PostgreSQL queues those that wait for a row *)
(* in the order they came: a waiter is not overtaken for ever.             *)
FairSpec ==
  /\ Spec
  /\ \A t \in Tasks : WF_vars(Continue(t)) /\ SF_vars(UpdateUser(t)) /\ SF_vars(EndMark(t))

-----------------------------------------------------------------------------
(* The type of every variable.                                             *)
TypeOK ==
  /\ account \in [Users -> {"none", "unverified", "verified"}]
  /\ row \in [Tokens -> Row \cup {None}]
  /\ writes \in [Tokens -> Nat]
  /\ mailed \in SUBSET Tokens
  /\ req \in [Tasks -> Continuation]

(* docs/SECURITY.md, "Single use": a token that has authorised a write is  *)
(* spent, although the transaction never names it: it stamps the user's    *)
(* unused tokens, as they are when it comes to them.                       *)
WrittenIsSpent == \A j \in Tokens : writes[j] # 0 => row[j] # None /\ row[j].used

(* auth-mail.service.ts:16-17, "Issuing a token spends every earlier       *)
(* unused one", for what earlier can mean between transactions: whatever   *)
(* an issue found unused is spent once the new token exists, whoever       *)
(* committed or rolled back in between.  Two links of a kind work together *)
(* only when their issues did not see each other.                          *)
SeenIsSpent ==
  \A j \in Tokens : row[j] # None => \A i \in row[j].seen : row[i] # None /\ row[i].used

(* auth-mail.service.ts:18-19, "a rolled-back write never sends a mail for *)
(* a token that does not exist".                                           *)
MailedTokensExist == \A j \in mailed : row[j] # None

(* A token authorises a second write only for a request that had passed    *)
(* the check before the first commit, so at most one for each request      *)
(* served at a time.                                                       *)
RepeatsAreRaces == \A j \in Tokens : writes[j] <= Cardinality(Tasks)

(* A link dies early only because it or a sibling was used, or because its *)
(* replacement exists: never with a transaction that came to nothing.      *)
SpentForAReason ==
  [][\A j \in Tokens : row[j] # None /\ ~row[j].used /\ row'[j].used =>
       \/ \E i \in Tokens : writes'[i] # writes[i] /\ row[i].user = row[j].user
       \/ \E i \in Tokens : /\ row[i] = None
                            /\ row'[i] # None
                            /\ row'[i].user = row[j].user
                            /\ row'[i].kind = row[j].kind]_vars

(* The transactions that wait for one another's rows all come to their     *)
(* end, whatever crashes: no two of them ever wait for each other.         *)
EveryRequestEnds == \A t \in Tasks : req[t] # Idle ~> req[t] = Idle
=============================================================================
