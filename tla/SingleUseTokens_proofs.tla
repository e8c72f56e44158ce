----------------------- MODULE SingleUseTokens_proofs -----------------------
(***************************************************************************)
(* Proofs about SingleUseTokens, for every set of users, tokens and tasks, *)
(* and with or without faults.                                             *)
(***************************************************************************)
EXTENDS SingleUseTokens, FiniteSetTheorems, TLAPS

(* What a task knows of the rows of its snapshot, given the token table.   *)
SeenInFlight(r, table) ==
  /\ r.pc = "mark" => \A j \in r.rows : table[j] # None /\ table[j].user = r.user /\ table[j].kind = r.kind
  /\ r.pc = "commit" =>
       /\ r.rows \subseteq r.seen
       /\ \A j \in r.seen : /\ table[j] # None
                            /\ table[j].user = r.user
                            /\ table[j].kind = r.kind
                            /\ j \in r.rows \/ table[j].used

(* What it knows of the token it consumes, or has to mail.                 *)
WithInFlight(r, table) ==
  /\ r.pc \in {"writeUser", "markAllUsed", "mark", "commit"} /\ r.with # None =>
       table[r.with] # None /\ table[r.with].user = r.user /\ table[r.with].kind = r.kind
  /\ r.pc \in {"mark", "commit"} /\ r.with # None => r.with \in r.rows \/ table[r.with].used
  /\ r.pc = "queue" => table[r.token] # None

InFlight(r, table) == SeenInFlight(r, table) /\ WithInFlight(r, table)

IInv ==
  /\ TypeOK
  /\ WrittenIsSpent
  /\ SeenIsSpent
  /\ MailedTokensExist
  /\ \A t \in Tasks : InFlight(req[t], row)

(* The rows stay, and a used one stays used.                               *)
Grown(table, later) ==
  \A j \in Tokens : table[j] # None =>
    /\ later[j] # None
    /\ later[j].user = table[j].user
    /\ later[j].kind = table[j].kind
    /\ later[j].seen = table[j].seen
    /\ table[j].used => later[j].used

-----------------------------------------------------------------------------
(* The fields of a continuation, by its pc.                                *)
LEMMA Fields ==
  ASSUME NEW r \in Continuation
  PROVE  /\ r.pc = "writeUser" => r.user \in Users /\ r.kind \in Kinds /\ r.with \in Tokens
         /\ r.pc \in {"markAllUsed", "mark", "commit"} =>
              r.user \in Users /\ r.kind \in Kinds /\ r.with \in Tokens \cup {None}
         /\ r.pc = "mark" => r.rows \in SUBSET Tokens
         /\ r.pc = "commit" => r.rows \in SUBSET Tokens /\ r.seen \in SUBSET Tokens
         /\ r.pc = "queue" => r.token \in Tokens
BY DEF Continuation, Idle

(* Every constructor builds a continuation.                                *)
LEMMA Constructors ==
  /\ Idle \in Continuation
  /\ \A j \in Tokens : Queue(j) \in Continuation
  /\ \A u \in Users, k \in Kinds, w \in Tokens : WriteUser(u, k, w) \in Continuation
  /\ \A u \in Users, k \in Kinds, w \in Tokens \cup {None} : MarkAllUsed(u, k, w) \in Continuation
  /\ \A r \in Continuation, rows \in SUBSET Tokens :
       /\ r.pc = "markAllUsed" => Mark(r, rows) \in Continuation
       /\ r.pc = "mark" => Commit(r, rows) \in Continuation
<1>1. Idle \in Continuation
  BY DEF Continuation
<1>2. \A j \in Tokens : Queue(j) \in Continuation
  BY DEF Continuation, Queue
<1>3. \A u \in Users, k \in Kinds, w \in Tokens : WriteUser(u, k, w) \in Continuation
  BY DEF Continuation, WriteUser
<1>4. \A u \in Users, k \in Kinds, w \in Tokens \cup {None} : MarkAllUsed(u, k, w) \in Continuation
  BY DEF Continuation, MarkAllUsed
<1>5. ASSUME NEW r \in Continuation, NEW rows \in SUBSET Tokens, r.pc = "markAllUsed"
      PROVE  Mark(r, rows) \in Continuation
  <2>1. r.user \in Users /\ r.kind \in Kinds /\ r.with \in Tokens \cup {None}
    BY <1>5, Fields
  <2> QED BY <2>1 DEF Continuation, Mark
<1>6. ASSUME NEW r \in Continuation, NEW rows \in SUBSET Tokens, r.pc = "mark"
      PROVE  Commit(r, rows) \in Continuation
  <2>1. r.user \in Users /\ r.kind \in Kinds /\ r.with \in Tokens \cup {None} /\ r.rows \in SUBSET Tokens
    BY <1>6, Fields
  <2> QED BY <2>1 DEF Continuation, Commit
<1> QED BY <1>1, <1>2, <1>3, <1>4, <1>5, <1>6

(* What a task knows is not undone by the others' commits.                 *)
LEMMA KnowledgeGrows ==
  ASSUME NEW r \in Continuation, NEW table, NEW later, Grown(table, later), InFlight(r, table)
  PROVE  InFlight(r, later)
<1>1. SeenInFlight(r, later)
  <2>1. r.pc = "mark" => r.rows \subseteq Tokens
    BY Fields
  <2>2. r.pc = "commit" => r.rows \subseteq Tokens /\ r.seen \subseteq Tokens
    BY Fields
  <2> QED BY <2>1, <2>2 DEF Grown, InFlight, SeenInFlight
<1>2. WithInFlight(r, later)
  <2>1. r.pc \in {"writeUser", "markAllUsed", "mark", "commit"} /\ r.with # None => r.with \in Tokens
    BY Fields
  <2>2. r.pc = "queue" => r.token \in Tokens
    BY Fields
  <2> QED BY <2>1, <2>2 DEF Grown, InFlight, WithInFlight
<1> QED BY <1>1, <1>2 DEF InFlight

(* A step that leaves the token table grown and moves one task on.         *)
LEMMA MovesKeep ==
  ASSUME IInv, NEW t \in Tasks, NEW r \in Continuation, Become(t, r), InFlight(r, row'),
         Grown(row, row'), row' \in [Tokens -> Row \cup {None}],
         account' \in [Users -> {"none", "unverified", "verified"}],
         writes' \in [Tokens -> Nat], mailed' \in SUBSET Tokens,
         WrittenIsSpent', SeenIsSpent', MailedTokensExist'
  PROVE  IInv'
<1>1. TypeOK'
  BY DEF IInv, TypeOK, Become
<1>2. ASSUME NEW s \in Tasks PROVE InFlight(req'[s], row')
  <2>1. CASE s = t
    BY <2>1 DEF IInv, TypeOK, Become
  <2>2. CASE s # t
    <3>1. req'[s] = req[s] /\ req[s] \in Continuation /\ InFlight(req[s], row)
      BY <2>2 DEF IInv, TypeOK, Become
    <3> QED BY <3>1, KnowledgeGrows
  <2> QED BY <2>1, <2>2
<1> QED BY <1>1, <1>2 DEF IInv

(* The same when the tables are left alone.                                *)
LEMMA QuietMovesKeep ==
  ASSUME IInv, NEW t \in Tasks, NEW r \in Continuation, Become(t, r), InFlight(r, row),
         UNCHANGED <<account, row, writes, mailed>>
  PROVE  IInv'
<1>1. Grown(row, row')
  BY DEF Grown
<1>2. WrittenIsSpent' /\ SeenIsSpent' /\ MailedTokensExist'
  BY DEF IInv, WrittenIsSpent, SeenIsSpent, MailedTokensExist
<1> QED BY <1>1, <1>2, MovesKeep DEF IInv, TypeOK

LEMMA IdleKnowsNothing == \A table : InFlight(Idle, table)
BY DEF Idle, InFlight, SeenInFlight, WithInFlight

LEMMA Typed ==
  ASSUME IInv
  PROVE  /\ row \in [Tokens -> Row \cup {None}]
         /\ \A t \in Tasks : req[t] \in Continuation /\ InFlight(req[t], row)
BY DEF IInv, TypeOK

-----------------------------------------------------------------------------
LEMMA RequestKeeps == ASSUME IInv, NEW t \in Tasks, Request(t) PROVE IInv'
<1>1. CASE VerifyEmail(t) \/ ResetPassword(t)
  <2>1. PICK j \in mailed, k \in Kinds :
          /\ Accepted(j)
          /\ row[j].kind = k
          /\ Become(t, WriteUser(row[j].user, k, j))
          /\ UNCHANGED <<account, row, writes, mailed>>
    BY <1>1 DEF VerifyEmail, ResetPassword, Consume, Arrive, Kinds
  <2>2. j \in Tokens /\ row[j] # None /\ row[j].user \in Users
    BY <2>1 DEF IInv, TypeOK, MailedTokensExist, Row
  <2>3. WriteUser(row[j].user, k, j) \in Continuation
    BY <2>2, Constructors
  <2>4. InFlight(WriteUser(row[j].user, k, j), row)
    BY <2>1, <2>2 DEF InFlight, SeenInFlight, WithInFlight, WriteUser
  <2> QED BY <2>1, <2>3, <2>4, QuietMovesKeep
<1>2. CASE Register(t) \/ ResendVerification(t) \/ SendVerificationEmail(t) \/ ForgotPassword(t)
  <2>1. PICK u \in Users, k \in Kinds :
          Become(t, MarkAllUsed(u, k, None)) /\ UNCHANGED <<account, row, writes, mailed>>
    BY <1>2 DEF Register, ResendVerification, SendVerificationEmail, ForgotPassword, Arrive, Kinds
  <2>2. MarkAllUsed(u, k, None) \in Continuation
    BY Constructors
  <2>3. InFlight(MarkAllUsed(u, k, None), row)
    BY DEF InFlight, SeenInFlight, WithInFlight, MarkAllUsed
  <2> QED BY <2>1, <2>2, <2>3, QuietMovesKeep
<1> QED BY <1>1, <1>2 DEF Request

LEMMA UpdateUserKeeps == ASSUME IInv, NEW t \in Tasks, UpdateUser(t) PROVE IInv'
<1> DEFINE r == req[t]
           next == MarkAllUsed(r.user, r.kind, r.with)
<1>1. r \in Continuation /\ r.pc = "writeUser" /\ InFlight(r, row)
  BY Typed DEF UpdateUser
<1>2. r.user \in Users /\ r.kind \in Kinds /\ r.with \in Tokens
  BY <1>1, Fields
<1>3. next \in Continuation
  BY <1>2, Constructors
<1>4. InFlight(next, row)
  BY <1>1, <1>2 DEF InFlight, SeenInFlight, WithInFlight, MarkAllUsed
<1>5. Become(t, next) /\ UNCHANGED <<account, row, writes, mailed>>
  BY DEF UpdateUser
<1> QED BY <1>3, <1>4, <1>5, QuietMovesKeep

LEMMA BeginMarkKeeps == ASSUME IInv, NEW t \in Tasks, BeginMark(t) PROVE IInv'
<1> DEFINE r == req[t]
           rows == Unused(r.user, r.kind)
           next == Mark(r, rows)
<1>1. r \in Continuation /\ r.pc = "markAllUsed" /\ InFlight(r, row)
  BY Typed DEF BeginMark
<1>2. r.with \in Tokens \cup {None} /\ rows \in SUBSET Tokens
  BY <1>1, Fields DEF Unused
<1>3. next \in Continuation
  BY <1>1, <1>2, Constructors
<1>4. r.with # None => r.with \in rows \/ row[r.with].used
  BY <1>1, <1>2 DEF Unused, InFlight, WithInFlight
<1>5. \A j \in rows : row[j] # None /\ row[j].user = r.user /\ row[j].kind = r.kind
  BY DEF Unused
<1>6. /\ next.pc = "mark" /\ next.rows = rows /\ next.user = r.user
      /\ next.kind = r.kind /\ next.with = r.with
  BY DEF Mark
<1>7. InFlight(next, row)
  <2> HIDE DEF rows, next
  <2> QED BY <1>1, <1>4, <1>5, <1>6 DEF InFlight, SeenInFlight, WithInFlight
<1>8. Become(t, next) /\ UNCHANGED <<account, row, writes, mailed>>
  BY DEF BeginMark
<1> QED BY <1>3, <1>7, <1>8, QuietMovesKeep

LEMMA EndMarkKeeps == ASSUME IInv, NEW t \in Tasks, EndMark(t) PROVE IInv'
<1> DEFINE r == req[t]
           rows == {j \in r.rows : ~row[j].used}
           next == Commit(r, rows)
<1>1. r \in Continuation /\ r.pc = "mark" /\ InFlight(r, row)
  BY Typed DEF EndMark
<1>2. r.rows \in SUBSET Tokens
  BY <1>1, Fields
<1>3. next \in Continuation
  BY <1>1, <1>2, Constructors
<1>4. r.with # None => r.with \in rows \/ row[r.with].used
  BY <1>1 DEF InFlight, WithInFlight
<1>5. \A j \in r.rows : row[j] # None /\ row[j].user = r.user /\ row[j].kind = r.kind
  BY <1>1 DEF InFlight, SeenInFlight
<1>6. rows \subseteq r.rows /\ \A j \in r.rows : j \in rows \/ row[j].used
  OBVIOUS
<1>7. /\ next.pc = "commit" /\ next.rows = rows /\ next.seen = r.rows
      /\ next.user = r.user /\ next.kind = r.kind /\ next.with = r.with
  BY DEF Commit
<1>8. InFlight(next, row)
  <2> HIDE DEF rows, next
  <2> QED BY <1>1, <1>4, <1>5, <1>6, <1>7 DEF InFlight, SeenInFlight, WithInFlight
<1>9. Become(t, next) /\ UNCHANGED <<account, row, writes, mailed>>
  BY DEF EndMark
<1> QED BY <1>3, <1>8, <1>9, QuietMovesKeep

-----------------------------------------------------------------------------
(* Stamping spends the rows it names and changes nothing else.             *)
LEMMA Stamping ==
  ASSUME IInv, NEW rows \in SUBSET Tokens, \A j \in rows : row[j] # None
  PROVE  /\ Stamped(rows) \in [Tokens -> Row \cup {None}]
         /\ Grown(row, Stamped(rows))
         /\ \A j \in rows : Stamped(rows)[j] # None /\ Stamped(rows)[j].used
         /\ \A j \in Tokens \ rows : Stamped(rows)[j] = row[j]
<1>1. ASSUME NEW j \in rows
      PROVE  /\ Stamped(rows)[j] = [row[j] EXCEPT !.used = TRUE]
             /\ row[j] \in Row
  BY Typed DEF Stamped
<1>2. ASSUME NEW j \in rows
      PROVE  /\ Stamped(rows)[j] \in Row
             /\ Stamped(rows)[j].used
             /\ Stamped(rows)[j].user = row[j].user
             /\ Stamped(rows)[j].kind = row[j].kind
             /\ Stamped(rows)[j].seen = row[j].seen
  BY <1>1 DEF Row
<1>3. None \notin Row
  BY NoneIsNoRow
<1>4. \A j \in Tokens \ rows : Stamped(rows)[j] = row[j]
  BY DEF Stamped
<1>5. Stamped(rows) \in [Tokens -> Row \cup {None}]
  <2>1. \A j \in Tokens : Stamped(rows)[j] \in Row \cup {None}
    BY <1>2, <1>4, Typed
  <2> QED BY <2>1 DEF Stamped
<1>6. Grown(row, Stamped(rows))
  BY <1>2, <1>3, <1>4 DEF Grown
<1> QED BY <1>2, <1>3, <1>4, <1>5, <1>6

(* Tokens that were spent, seen or mailed are so in a grown table.         *)
LEMMA GrownKeeps ==
  ASSUME IInv, Grown(row, row')
  PROVE  /\ UNCHANGED writes => WrittenIsSpent'
         /\ UNCHANGED mailed => MailedTokensExist'
         /\ \A j \in Tokens : row[j] # None =>
              \A i \in row'[j].seen : row'[i] # None /\ row'[i].used
<1>1. \A j \in Tokens : row[j] # None => row[j].seen \subseteq Tokens
  BY Typed DEF Row
<1>2. UNCHANGED writes => WrittenIsSpent'
  BY DEF IInv, WrittenIsSpent, Grown
<1>3. UNCHANGED mailed => MailedTokensExist'
  BY DEF IInv, TypeOK, MailedTokensExist, Grown
<1>4. ASSUME NEW j \in Tokens, row[j] # None, NEW i \in row'[j].seen
      PROVE  row'[i] # None /\ row'[i].used
  <2>1. i \in Tokens /\ i \in row[j].seen
    BY <1>1, <1>4 DEF Grown
  <2>2. row[i] # None /\ row[i].used
    BY <1>4, <2>1 DEF IInv, SeenIsSpent
  <2> QED BY <2>1, <2>2 DEF Grown
<1> QED BY <1>2, <1>3, <1>4

LEMMA CommitIssueKeeps == ASSUME IInv, NEW t \in Tasks, CommitIssue(t) PROVE IInv'
<1> DEFINE r == req[t]
<1>1. r \in Continuation /\ r.pc = "commit" /\ InFlight(r, row)
  BY Typed DEF CommitIssue
<1>2. r.user \in Users /\ r.kind \in Kinds /\ r.rows \in SUBSET Tokens /\ r.seen \in SUBSET Tokens
  BY <1>1, Fields
<1>3. CASE Become(t, Idle) /\ UNCHANGED <<account, row>>
  BY <1>3, Constructors, IdleKnowsNothing, QuietMovesKeep DEF CommitIssue
<1>4. ASSUME NEW j \in Tokens, row[j] = None, row' = [Stamped(r.rows) EXCEPT ![j] = Minted(r)],
             account' = [account EXCEPT ![r.user] = IF @ = "none" THEN "unverified" ELSE @],
             Become(t, Queue(j))
      PROVE  IInv'
  <2>1. r.rows \subseteq r.seen /\ \A i \in r.seen : row[i] # None /\ (i \in r.rows \/ row[i].used)
    BY <1>1 DEF InFlight, SeenInFlight
  <2>2. /\ Stamped(r.rows) \in [Tokens -> Row \cup {None}]
        /\ Grown(row, Stamped(r.rows))
        /\ \A i \in r.rows : Stamped(r.rows)[i] # None /\ Stamped(r.rows)[i].used
        /\ \A i \in Tokens \ r.rows : Stamped(r.rows)[i] = row[i]
    BY <1>2, <2>1, Stamping
  <2>3. Minted(r) \in Row /\ Minted(r) # None /\ Minted(r).seen = r.seen
    <3>1. Minted(r) = [user |-> r.user, kind |-> r.kind, used |-> FALSE, expired |-> FALSE, seen |-> r.seen]
      BY DEF Minted
    <3> HIDE DEF r
    <3>2. Minted(r) \in Row
      BY <1>2, <3>1 DEF Row
    <3>3. Minted(r).seen = r.seen
      BY <3>1
    <3> QED BY <3>2, <3>3, NoneIsNoRow
  <2>4. row' \in [Tokens -> Row \cup {None}] /\ row'[j] = Minted(r)
    BY <1>4, <2>2, <2>3
  <2>5. \A i \in Tokens \ {j} : row'[i] = Stamped(r.rows)[i]
    BY <1>4, <2>2
  <2>6. Grown(row, row')
    BY <1>4, <2>2, <2>5 DEF Grown
  <2>7. \A i \in r.seen : row'[i] # None /\ row'[i].used
    <3> SUFFICES ASSUME NEW i \in r.seen PROVE row'[i] # None /\ row'[i].used
      OBVIOUS
    <3>1. i \in Tokens \ {j}
      BY <1>2, <1>4, <2>1
    <3> QED BY <2>1, <2>2, <2>5, <3>1
  <2>8. SeenIsSpent'
    <3> SUFFICES ASSUME NEW k \in Tokens, row'[k] # None
                 PROVE  \A i \in row'[k].seen : row'[i] # None /\ row'[i].used
      BY DEF SeenIsSpent
    <3>1. CASE k = j
      BY <2>3, <2>4, <2>7, <3>1
    <3>2. CASE k # j
      <4>1. row[k] # None
        BY <2>1, <2>2, <2>5, <3>2
      <4> QED BY <2>6, <4>1, GrownKeeps
    <3> QED BY <3>1, <3>2
  <2>9. UNCHANGED <<writes, mailed>>
    BY DEF CommitIssue
  <2>10. WrittenIsSpent' /\ MailedTokensExist'
    BY <2>6, <2>9, GrownKeeps
  <2>11. account' \in [Users -> {"none", "unverified", "verified"}]
    BY <1>2, <1>4 DEF IInv, TypeOK
  <2>12. InFlight(Queue(j), row') /\ Queue(j) \in Continuation
    BY <2>3, <2>4, Constructors DEF InFlight, SeenInFlight, WithInFlight, Queue
  <2> QED BY <1>4, <2>4, <2>6, <2>8, <2>9, <2>10, <2>11, <2>12, MovesKeep DEF IInv, TypeOK
<1> QED BY <1>3, <1>4 DEF CommitIssue

LEMMA CommitConsumeKeeps == ASSUME IInv, NEW t \in Tasks, CommitConsume(t) PROVE IInv'
<1> DEFINE r == req[t]
<1>1. r \in Continuation /\ r.pc = "commit" /\ r.with # None /\ InFlight(r, row)
  BY Typed DEF CommitConsume
<1>2. r.user \in Users /\ r.with \in Tokens /\ r.rows \in SUBSET Tokens
  BY <1>1, Fields
<1>3. \A j \in r.rows : row[j] # None
  BY <1>1 DEF InFlight, SeenInFlight
<1>4. row' = Stamped(r.rows)
  BY DEF CommitConsume
<1>5. /\ row' \in [Tokens -> Row \cup {None}]
      /\ Grown(row, row')
      /\ \A j \in r.rows : row'[j] # None /\ row'[j].used
      /\ \A j \in Tokens \ r.rows : row'[j] = row[j]
  BY <1>2, <1>3, <1>4, Stamping
<1>6. row'[r.with] # None /\ row'[r.with].used
  BY <1>1, <1>2, <1>5 DEF InFlight, WithInFlight, Grown
<1>7. writes' = [writes EXCEPT ![r.with] = @ + 1] /\ UNCHANGED mailed /\ Become(t, Idle)
  BY DEF CommitConsume
<1>8. writes' \in [Tokens -> Nat] /\ \A j \in Tokens \ {r.with} : writes'[j] = writes[j]
  BY <1>2, <1>7 DEF IInv, TypeOK
<1>9. WrittenIsSpent'
  BY <1>5, <1>6, <1>8 DEF IInv, WrittenIsSpent, Grown
<1>10. SeenIsSpent'
  <2>1. \A j \in Tokens : row'[j] # None => row[j] # None
    BY <1>3, <1>5
  <2> QED BY <1>5, <2>1, GrownKeeps DEF SeenIsSpent
<1>11. MailedTokensExist'
  BY <1>5, <1>7, GrownKeeps
<1>12. account' \in [Users -> {"none", "unverified", "verified"}]
  BY <1>2 DEF IInv, TypeOK, CommitConsume
<1> QED BY <1>5, <1>7, <1>8, <1>9, <1>10, <1>11, <1>12,
           Constructors, IdleKnowsNothing, MovesKeep DEF IInv, TypeOK

LEMMA QueueEmailKeeps == ASSUME IInv, NEW t \in Tasks, QueueEmail(t) PROVE IInv'
<1> DEFINE j == req[t].token
<1>1. j \in Tokens /\ row[j] # None
  BY Typed, Fields DEF QueueEmail, InFlight, WithInFlight
<1>2. UNCHANGED <<account, row, writes>> /\ Become(t, Idle) /\ mailed' \in {mailed, mailed \cup {j}}
  BY DEF QueueEmail
<1>3. MailedTokensExist' /\ mailed' \in SUBSET Tokens
  BY <1>1, <1>2 DEF IInv, TypeOK, MailedTokensExist
<1>4. Grown(row, row') /\ WrittenIsSpent' /\ SeenIsSpent'
  BY <1>2 DEF IInv, Grown, WrittenIsSpent, SeenIsSpent
<1> QED BY <1>2, <1>3, <1>4, Constructors, IdleKnowsNothing, MovesKeep DEF IInv, TypeOK

LEMMA ExpireTokenKeeps == ASSUME IInv, NEW k \in Tokens, ExpireToken(k) PROVE IInv'
<1>1. row' = [row EXCEPT ![k].expired = TRUE] /\ row[k] \in Row
  BY Typed DEF ExpireToken
<1>2. /\ row'[k] \in Row
      /\ row'[k].user = row[k].user /\ row'[k].kind = row[k].kind
      /\ row'[k].used = row[k].used /\ row'[k].seen = row[k].seen
  BY <1>1, Typed DEF Row
<1>3. \A j \in Tokens \ {k} : row'[j] = row[j]
  BY <1>1, Typed
<1>4. row' \in [Tokens -> Row \cup {None}]
  BY <1>1, <1>2, Typed
<1>5. Grown(row, row')
  BY <1>2, <1>3, NoneIsNoRow DEF Grown
<1>6. UNCHANGED <<account, writes, mailed, req>>
  BY DEF ExpireToken
<1>7. WrittenIsSpent' /\ MailedTokensExist'
  BY <1>5, <1>6, GrownKeeps
<1>8. SeenIsSpent'
  <2>1. \A j \in Tokens : row'[j] # None => row[j] # None
    BY <1>1, <1>3, NoneIsNoRow
  <2> QED BY <1>5, <2>1, GrownKeeps DEF SeenIsSpent
<1>9. \A t \in Tasks : InFlight(req'[t], row')
  BY <1>5, <1>6, Typed, KnowledgeGrows
<1>10. TypeOK'
  BY <1>4, <1>6 DEF IInv, TypeOK
<1> QED BY <1>7, <1>8, <1>9, <1>10 DEF IInv

LEMMA CrashKeeps == ASSUME IInv, NEW t \in Tasks, Crash(t) PROVE IInv'
BY Constructors, IdleKnowsNothing, QuietMovesKeep DEF Crash

-----------------------------------------------------------------------------
LEMMA InitEstablishes == ASSUME Init PROVE IInv
<1>1. TypeOK
  BY Constructors DEF Init, TypeOK
<1>2. \A t \in Tasks : InFlight(req[t], row)
  BY IdleKnowsNothing DEF Init
<1>3. WrittenIsSpent /\ SeenIsSpent /\ MailedTokensExist
  BY DEF Init, WrittenIsSpent, SeenIsSpent, MailedTokensExist
<1> QED BY <1>1, <1>2, <1>3 DEF IInv

LEMMA StepKeeps == ASSUME IInv, [Next]_vars PROVE IInv'
<1>1. CASE UNCHANGED vars
  BY <1>1 DEF vars, IInv, TypeOK, WrittenIsSpent, SeenIsSpent, MailedTokensExist
<1>2. ASSUME NEW t \in Tasks, Request(t) \/ Continue(t) \/ Crash(t) PROVE IInv'
  BY <1>2, RequestKeeps, UpdateUserKeeps, BeginMarkKeeps, EndMarkKeeps, CommitIssueKeeps,
     CommitConsumeKeeps, QueueEmailKeeps, CrashKeeps DEF Continue
<1>3. ASSUME NEW j \in Tokens, ExpireToken(j) PROVE IInv'
  BY <1>3, ExpireTokenKeeps
<1> QED BY <1>1, <1>2, <1>3 DEF Next

LEMMA InvariantHolds == Spec => []IInv
BY InitEstablishes, StepKeeps, PTL DEF Spec

(* Every variable keeps its type.                                          *)
THEOREM TypeCorrect == Spec => []TypeOK
<1>1. IInv => TypeOK
  BY DEF IInv
<1> QED BY <1>1, InvariantHolds, PTL

(* docs/SECURITY.md, "Single use": what has authorised a write is spent.   *)
THEOREM WrittenIsSpentAlways == Spec => []WrittenIsSpent
<1>1. IInv => WrittenIsSpent
  BY DEF IInv
<1> QED BY <1>1, InvariantHolds, PTL

(* auth-mail.service.ts:16-17: what an issue found unused is spent once    *)
(* its token exists, for any number of overlapping transactions.           *)
THEOREM SeenIsSpentAlways == Spec => []SeenIsSpent
<1>1. IInv => SeenIsSpent
  BY DEF IInv
<1> QED BY <1>1, InvariantHolds, PTL

(* auth-mail.service.ts:18-19: no mail for a token that does not exist.    *)
THEOREM MailedTokensExistAlways == Spec => []MailedTokensExist
<1>1. IInv => MailedTokensExist
  BY DEF IInv
<1> QED BY <1>1, InvariantHolds, PTL

-----------------------------------------------------------------------------
(* What SpentForAReason says of one step.                                  *)
Used(u) == \E i \in Tokens : writes'[i] # writes[i] /\ row[i].user = u
Replaced(u, k) ==
  \E i \in Tokens : row[i] = None /\ row'[i] # None /\ row'[i].user = u /\ row'[i].kind = k
Spends(j) == row[j] # None /\ ~row[j].used /\ row'[j].used
Justified == \A j \in Tokens : Spends(j) => Used(row[j].user) \/ Replaced(row[j].user, row[j].kind)

LEMMA IssueJustified == ASSUME IInv, NEW t \in Tasks, CommitIssue(t) PROVE Justified
<1> DEFINE r == req[t]
<1>1. r \in Continuation /\ r.pc = "commit" /\ InFlight(r, row)
  BY Typed DEF CommitIssue
<1>2. r.rows \in SUBSET Tokens
  BY <1>1, Fields
<1>3. CASE UNCHANGED row
  BY <1>3 DEF Justified, Spends
<1>4. ASSUME NEW i \in Tokens, row[i] = None, row' = [Stamped(r.rows) EXCEPT ![i] = Minted(r)],
             NEW j \in Tokens, Spends(j)
      PROVE  Replaced(row[j].user, row[j].kind)
  <2>1. Minted(r).user = r.user /\ Minted(r).kind = r.kind
    BY DEF Minted
  <2>2. Minted(r) # None
    <3>1. r.user \in Users /\ r.kind \in Kinds /\ r.seen \in SUBSET Tokens
      BY <1>1, Fields
    <3>2. Minted(r) = [user |-> r.user, kind |-> r.kind, used |-> FALSE, expired |-> FALSE, seen |-> r.seen]
      BY DEF Minted
    <3> HIDE DEF r
    <3>3. Minted(r) \in Row
      BY <3>1, <3>2 DEF Row
    <3> QED BY <3>3, NoneIsNoRow
  <2>3. row'[i] = Minted(r) /\ j # i
    BY <1>4 DEF Stamped, Spends
  <2>4. row'[j] = Stamped(r.rows)[j]
    BY <1>4, <2>3 DEF Stamped
  <2>5. j \in r.rows
    BY <1>4, <2>4 DEF Stamped, Spends
  <2>6. row[j].user = r.user /\ row[j].kind = r.kind
    BY <1>1, <2>5 DEF InFlight, SeenInFlight
  <2> QED BY <1>4, <2>1, <2>2, <2>3, <2>6 DEF Replaced
<1> QED BY <1>3, <1>4 DEF CommitIssue, Justified

LEMMA ConsumeJustified == ASSUME IInv, NEW t \in Tasks, CommitConsume(t) PROVE Justified
<1> DEFINE r == req[t]
<1>1. r \in Continuation /\ r.pc = "commit" /\ r.with # None /\ InFlight(r, row)
  BY Typed DEF CommitConsume
<1>2. r.with \in Tokens /\ row[r.with].user = r.user
  BY <1>1, Fields DEF InFlight, WithInFlight
<1>3. writes'[r.with] = writes[r.with] + 1 /\ writes[r.with] \in Nat
  BY <1>2 DEF IInv, TypeOK, CommitConsume
<1>4. Used(r.user)
  BY <1>2, <1>3 DEF Used
<1>5. ASSUME NEW j \in Tokens, Spends(j) PROVE row[j].user = r.user
  <2>1. j \in r.rows
    BY <1>5 DEF CommitConsume, Stamped, Spends
  <2> QED BY <1>1, <2>1 DEF InFlight, SeenInFlight
<1> QED BY <1>4, <1>5 DEF Justified

(* A link dies only with a use of it or of a sibling, or with the token    *)
(* that replaces it: never with a transaction that was rolled back.        *)
THEOREM SpentForAReasonHolds == Spec => SpentForAReason
<1>1. ASSUME IInv, [Next]_vars
      PROVE  [\A j \in Tokens : row[j] # None /\ ~row[j].used /\ row'[j].used =>
                \/ \E i \in Tokens : writes'[i] # writes[i] /\ row[i].user = row[j].user
                \/ \E i \in Tokens : /\ row[i] = None
                                     /\ row'[i] # None
                                     /\ row'[i].user = row[j].user
                                     /\ row'[i].kind = row[j].kind]_vars
  <2> SUFFICES ASSUME ~ UNCHANGED vars PROVE Justified
    BY DEF Justified, Spends, Used, Replaced
  <2>1. ASSUME UNCHANGED row PROVE Justified
    BY <2>1 DEF Justified, Spends
  <2>2. ASSUME NEW t \in Tasks, Request(t) \/ Continue(t) \/ Crash(t) PROVE Justified
    <3>1. UNCHANGED row \/ CommitIssue(t) \/ CommitConsume(t)
      BY <2>2 DEF Request, Continue, Crash, Register, ResendVerification, SendVerificationEmail,
                  ForgotPassword, VerifyEmail, ResetPassword, Consume, Arrive, UpdateUser,
                  BeginMark, EndMark, QueueEmail
    <3> QED BY <2>1, <3>1, IssueJustified, ConsumeJustified, <1>1
  <2>3. ASSUME NEW k \in Tokens, ExpireToken(k) PROVE Justified
    <3>1. row' = [row EXCEPT ![k].expired = TRUE] /\ row[k] \in Row
      BY <1>1, <2>3, Typed DEF ExpireToken
    <3>2. row'[k].used = row[k].used
      BY <1>1, <3>1, Typed DEF Row
    <3>3. \A j \in Tokens \ {k} : row'[j] = row[j]
      BY <1>1, <3>1, Typed
    <3> QED BY <3>2, <3>3 DEF Justified, Spends
  <2> QED BY <1>1, <2>2, <2>3 DEF Next
<1> QED BY <1>1, InvariantHolds, PTL DEF Spec, SpentForAReason
-----------------------------------------------------------------------------
(* The requests that have passed their check of j and may yet write.       *)
Holding(j) ==
  {t \in Tasks : req[t].pc \in {"writeUser", "markAllUsed", "mark", "commit"} /\ req[t].with = j}

(* What has written and what may yet write are together no more than the   *)
(* requests at one time: once j has authorised a write it is spent, and no *)
(* other request comes to hold it.                                         *)
Bounded == \A j \in Tokens : writes[j] + Cardinality(Holding(j)) <= Cardinality(Tasks)

LEMMA Counts ==
  /\ Cardinality(Tasks) \in Nat
  /\ \A H \in SUBSET Tasks : IsFiniteSet(H) /\ Cardinality(H) \in Nat /\ Cardinality(H) <= Cardinality(Tasks)
  /\ \A H \in SUBSET Tasks : \A G \in SUBSET H : Cardinality(G) <= Cardinality(H)
  /\ \A H \in SUBSET Tasks : \A t \in H : \A G \in SUBSET (H \ {t}) : Cardinality(G) + 1 <= Cardinality(H)
<1>1. Cardinality(Tasks) \in Nat
  BY TasksAreFinite, FS_CardinalityType
<1>2. ASSUME NEW H \in SUBSET Tasks
      PROVE  IsFiniteSet(H) /\ Cardinality(H) \in Nat /\ Cardinality(H) <= Cardinality(Tasks)
  BY TasksAreFinite, FS_Subset, FS_CardinalityType
<1>3. ASSUME NEW H \in SUBSET Tasks, NEW G \in SUBSET H PROVE Cardinality(G) <= Cardinality(H)
  BY <1>2, FS_Subset
<1>4. ASSUME NEW H \in SUBSET Tasks, NEW t \in H, NEW G \in SUBSET (H \ {t})
      PROVE  Cardinality(G) + 1 <= Cardinality(H)
  <2>1. IsFiniteSet(H) /\ Cardinality(H) \in Nat /\ IsFiniteSet(H \ {t})
    BY <1>2, FS_Subset
  <2>2. Cardinality(H \ {t}) = Cardinality(H) - 1
    BY <2>1, FS_RemoveElement
  <2>3. Cardinality(G) <= Cardinality(H \ {t}) /\ Cardinality(G) \in Nat
    BY <1>2, <2>1, FS_Subset
  <2> QED BY <2>1, <2>2, <2>3
<1> QED BY <1>1, <1>2, <1>3, <1>4

(* A step lets one more request hold j only while j is unspent, and every  *)
(* write of j's is made by a request that held it and does so no longer.   *)
LEMMA BoundedStep ==
  ASSUME IInv, Bounded, NEW j \in Tokens, writes'[j] \in Nat,
         \/ writes'[j] = writes[j] /\ Holding(j)' \subseteq Holding(j)
         \/ writes'[j] = 0
         \/ writes'[j] = writes[j] + 1 /\ \E t \in Holding(j) : Holding(j)' \subseteq Holding(j) \ {t}
  PROVE  writes'[j] + Cardinality(Holding(j)') <= Cardinality(Tasks)
<1>1. Holding(j) \in SUBSET Tasks /\ Holding(j)' \in SUBSET Tasks
  BY DEF Holding
<1>2. writes[j] \in Nat /\ writes[j] + Cardinality(Holding(j)) <= Cardinality(Tasks)
  BY DEF IInv, TypeOK, Bounded
<1>3. /\ Cardinality(Holding(j)) \in Nat
      /\ Cardinality(Holding(j)') \in Nat
      /\ Cardinality(Tasks) \in Nat
      /\ Cardinality(Holding(j)') <= Cardinality(Tasks)
  BY <1>1, Counts
<1>4. CASE writes'[j] = writes[j] /\ Holding(j)' \subseteq Holding(j)
  <2>1. Cardinality(Holding(j)') <= Cardinality(Holding(j))
    BY <1>1, <1>4, Counts
  <2> QED BY <1>2, <1>3, <1>4, <2>1
<1>5. CASE writes'[j] = 0
  BY <1>3, <1>5
<1>6. ASSUME writes'[j] = writes[j] + 1,
             NEW t \in Holding(j), Holding(j)' \subseteq Holding(j) \ {t}
      PROVE  writes'[j] + Cardinality(Holding(j)') <= Cardinality(Tasks)
  <2>1. Cardinality(Holding(j)') + 1 <= Cardinality(Holding(j))
    BY <1>1, <1>6, Counts
  <2> QED BY <1>2, <1>3, <1>6, <2>1
<1> QED BY <1>4, <1>5, <1>6

LEMMA BoundedKept == ASSUME IInv, Bounded, [Next]_vars, TypeOK' PROVE Bounded'
<1> SUFFICES ASSUME NEW j \in Tokens
             PROVE  writes'[j] + Cardinality(Holding(j)') <= Cardinality(Tasks)
  BY DEF Bounded
<1>1. writes'[j] \in Nat /\ req \in [Tasks -> Continuation]
  BY DEF IInv, TypeOK
<1>2. CASE UNCHANGED vars
  BY <1>1, <1>2, BoundedStep DEF vars, Holding
<1>3. ASSUME NEW k \in Tokens, ExpireToken(k)
      PROVE  writes'[j] + Cardinality(Holding(j)') <= Cardinality(Tasks)
  BY <1>1, <1>3, BoundedStep DEF ExpireToken, Holding
<1>4. ASSUME NEW t \in Tasks, NEW op, NEW k, Consume(t, op, k)
      PROVE  writes'[j] + Cardinality(Holding(j)') <= Cardinality(Tasks)
  <2>1. PICK i \in mailed : Accepted(i) /\ Arrive(t, op, WriteUser(row[i].user, k, i))
    BY <1>4 DEF Consume
  <2>2. i \in Tokens /\ writes[i] = 0 /\ writes' = writes
    BY <2>1 DEF IInv, TypeOK, WrittenIsSpent, Accepted, Arrive
  <2>3. CASE i = j
    BY <1>1, <2>2, <2>3, BoundedStep
  <2>4. CASE i # j
    <3>1. req' = [req EXCEPT ![t] = WriteUser(row[i].user, k, i)]
      BY <2>1 DEF Arrive, Become
    <3>2. Holding(j)' \subseteq Holding(j)
      BY <1>1, <2>4, <3>1 DEF Holding, WriteUser
    <3> QED BY <1>1, <2>2, <3>2, BoundedStep
  <2> QED BY <2>3, <2>4
<1>5. ASSUME NEW t \in Tasks, NEW u, NEW k, NEW op, Arrive(t, op, MarkAllUsed(u, k, None))
      PROVE  writes'[j] + Cardinality(Holding(j)') <= Cardinality(Tasks)
  <2>1. Holding(j)' \subseteq Holding(j) /\ writes' = writes
    BY <1>1, <1>5, NoneIsNoToken DEF Arrive, Become, MarkAllUsed, Holding
  <2> QED BY <1>1, <2>1, BoundedStep
<1>6. ASSUME NEW t \in Tasks, UpdateUser(t) \/ BeginMark(t) \/ EndMark(t)
      PROVE  writes'[j] + Cardinality(Holding(j)') <= Cardinality(Tasks)
  <2>1. PICK r : /\ req' = [req EXCEPT ![t] = r] /\ writes' = writes /\ r.with = req[t].with
                 /\ req[t].pc \in {"writeUser", "markAllUsed", "mark"}
    BY <1>6 DEF UpdateUser, BeginMark, EndMark, Become, MarkAllUsed, Mark, Commit
  <2>2. Holding(j)' \subseteq Holding(j)
    BY <1>1, <2>1 DEF Holding
  <2> QED BY <1>1, <2>1, <2>2, BoundedStep
<1>7. ASSUME NEW t \in Tasks, CommitIssue(t) \/ QueueEmail(t) \/ Crash(t)
      PROVE  writes'[j] + Cardinality(Holding(j)') <= Cardinality(Tasks)
  <2>1. PICK r : req' = [req EXCEPT ![t] = r] /\ writes' = writes /\ r.pc \in {"idle", "queue"}
    BY <1>7 DEF CommitIssue, QueueEmail, Crash, Become, Idle, Queue
  <2>2. Holding(j)' \subseteq Holding(j)
    BY <1>1, <2>1 DEF Holding
  <2> QED BY <1>1, <2>1, <2>2, BoundedStep
<1>8. ASSUME NEW t \in Tasks, CommitConsume(t)
      PROVE  writes'[j] + Cardinality(Holding(j)') <= Cardinality(Tasks)
  <2>1. /\ req' = [req EXCEPT ![t] = Idle] /\ req[t].pc = "commit"
        /\ writes' = [writes EXCEPT ![req[t].with] = @ + 1]
    BY <1>8 DEF CommitConsume, Become
  <2>2. Holding(j)' \subseteq Holding(j) \ {t}
    BY <1>1, <2>1 DEF Holding, Idle
  <2>3. CASE req[t].with = j
    <3>1. t \in Holding(j) /\ writes'[j] = writes[j] + 1
      BY <2>1, <2>3 DEF Holding, IInv, TypeOK
    <3> QED BY <1>1, <2>2, <3>1, BoundedStep
  <2>4. CASE req[t].with # j
    <3>1. writes'[j] = writes[j]
      BY <2>1, <2>4 DEF IInv, TypeOK
    <3> QED BY <1>1, <2>2, <3>1, BoundedStep
  <2> QED BY <2>3, <2>4
<1>9. ASSUME NEW t \in Tasks, Request(t)
      PROVE  writes'[j] + Cardinality(Holding(j)') <= Cardinality(Tasks)
  BY <1>4, <1>5, <1>9 DEF Request, Register, ResendVerification, SendVerificationEmail,
     ForgotPassword, VerifyEmail, ResetPassword
<1> QED BY <1>2, <1>3, <1>6, <1>7, <1>8, <1>9 DEF Next, Continue

(* However requests overlap, a token authorises no more writes than there  *)
(* are requests at one time.                                               *)
THEOREM RepeatsAreRacesHolds == Spec => []RepeatsAreRaces
<1>1. Init => Bounded
  <2> SUFFICES ASSUME Init, NEW j \in Tokens
               PROVE  writes[j] + Cardinality(Holding(j)) <= Cardinality(Tasks)
    BY DEF Bounded
  <2>1. writes[j] = 0 /\ Holding(j) \in SUBSET Tasks
    BY DEF Init, Holding
  <2> QED BY <2>1, Counts
<1>2. IInv /\ IInv' /\ Bounded /\ [Next]_vars => Bounded'
  BY BoundedKept DEF IInv
<1>3. IInv /\ Bounded => RepeatsAreRaces
  <2> SUFFICES ASSUME IInv, Bounded, NEW j \in Tokens PROVE writes[j] <= Cardinality(Tasks)
    BY DEF RepeatsAreRaces
  <2>1. Holding(j) \in SUBSET Tasks /\ writes[j] \in Nat
    BY DEF Holding, IInv, TypeOK
  <2> QED BY <2>1, Counts DEF Bounded
<1> QED BY <1>1, <1>2, <1>3, InvariantHolds, PTL DEF Spec
=============================================================================
