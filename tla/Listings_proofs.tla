---------------------------- MODULE Listings_proofs ----------------------------
(***************************************************************************)
(* Proofs about Listings, for any table, any queries and any writes: what  *)
(* a client that turns pages may rely on.                                  *)
(***************************************************************************)
EXTENDS Listings, FiniteSetTheorems, SequenceTheorems, TLAPS

(* The rows ahead of row i in the list, and how far the pages the client   *)
(* has read reach.                                                         *)
Ahead(q, i) == {j \in Matching(q) : Before(q, j, i)}
Rank(q, i) == Cardinality(Ahead(q, i))

OnPage == IF list.data = None THEN {} ELSE {list.data[k].id : k \in DOMAIN list.data}
SeenIds == ToSet(walk.seen)
Reach == IF list.data = None THEN Skip(walk.query, walk.page)
                             ELSE walk.page * walk.query.perPage

(* A list is under way only after its filter was let through.              *)
Asked ==
  /\ walk.pc # "listing" => list = Unread
  /\ walk.pc \in {"listing", "done"} => Allowed(Filter(walk.query))
  /\ walk.pc = "idle" => walk.page = 1 /\ walk.seen = <<>>
  /\ \A i \in stable : table[i] # None

(* Every row read was one the where clause let through.                    *)
RowsMatch ==
  list.data # None => \A k \in DOMAIN list.data : Where(walk.query, list.data[k].row)

PageLength(n) ==
  LET left == n - Skip(walk.query, walk.page)
  IN  IF left <= 0 THEN 0 ELSE IF left < walk.query.perPage THEN left ELSE walk.query.perPage

(* With no write since, what was read first is still true of the table.    *)
Counted ==
  "raced" \notin why =>
    /\ list.total # None /\ list.data = None => list.total = Cardinality(Matching(walk.query))
    /\ list.data # None /\ list.total = None =>
         Len(list.data) = PageLength(Cardinality(Matching(walk.query)))
    /\ Answered => Len(list.data) = PageLength(list.total)

(* While rows only go, those that were read stay within reach, so that     *)
(* they are not met again.                                                 *)
Once ==
  why \cap {"grown", "tied"} = {} =>
    /\ IsInjective(walk.seen)
    /\ list.data # None =>
         /\ \A j, k \in DOMAIN list.data : list.data[j].id = list.data[k].id => j = k
         /\ SeenIds \cap OnPage = {}
    /\ walk.pc = "listing" =>
         /\ \A i \in SeenIds \cap Matching(walk.query) :
              Rank(walk.query, i) < Skip(walk.query, walk.page)
         /\ \A i \in OnPage \cap Matching(walk.query) : Rank(walk.query, i) < Reach

(* While rows only come, those that were not read yet stay out of reach,   *)
(* so that they are still to be met; and there is a page to meet them on.  *)
Met ==
  why \cap {"shrunk", "raced", "tied"} = {} =>
    LET unmet == (stable \cap Matching(walk.query)) \ (SeenIds \cup OnPage) IN
    /\ walk.pc = "listing" => \A i \in unmet : Rank(walk.query, i) >= Reach
    /\ Answered /\ list.total <= walk.page * walk.query.perPage => unmet = {}
    /\ walk.pc = "done" => unmet = {}

IInv == TypeOK /\ Asked /\ RowsMatch /\ Counted /\ Once /\ Met

-----------------------------------------------------------------------------
(* The operators.                                                          *)

LEMMA MatchingFinite ==
  ASSUME NEW q
  PROVE  /\ Matching(q) \subseteq Ids
         /\ IsFiniteSet(Matching(q)) /\ Cardinality(Matching(q)) \in Nat
<1>1. Matching(q) \subseteq Ids
  BY DEF Matching
<1>2. IsFiniteSet(Matching(q))
  BY <1>1, IdsAreNumbers, FS_Subset
<1> QED BY <1>1, <1>2, FS_CardinalityType

LEMMA ColumnIsInt ==
  ASSUME TypeOK, NEW q \in Queries, NEW i \in Matching(q)
  PROVE  Column(q.sort, i) \in Int
<1>1. i \in Ids /\ table[i] \in Fields
  BY DEF Matching, TypeOK
<1>2. CASE q.sort = "id"
  BY <1>1, <1>2, IdsAreNumbers DEF Column
<1>3. CASE q.sort = "createdAt"
  BY <1>1, <1>3, FieldsShape DEF Column
<1>4. CASE q.sort = "status"
  <2>1. table[i].status \in ToSet(Statuses)
    BY <1>1, FieldsShape
  <2>2. \E k \in DOMAIN Statuses : Statuses[k] = table[i].status
    BY <2>1 DEF ToSet
  <2>3. DOMAIN Statuses \subseteq Int
    BY DEF Statuses
  <2> QED BY <1>4, <2>2, <2>3 DEF Column
<1> QED BY <1>2, <1>3, <1>4, QueriesShape

LEMMA Sequence ==
  ASSUME NEW S, NEW m \in Nat, NEW f \in [1..m -> S]
  PROVE  f \in Seq(S) /\ Len(f) = m /\ DOMAIN f = 1..m
OBVIOUS

(* Skip counts the rows of the pages before.                               *)
LEMMA SkipFacts ==
  ASSUME NEW q \in Queries, NEW page \in Nat \ {0}
  PROVE  /\ Skip(q, page) \in Nat /\ page * q.perPage \in Nat
         /\ Skip(q, page) + q.perPage = page * q.perPage
         /\ Skip(q, page + 1) = page * q.perPage
         /\ Skip(q, 1) = 0
         /\ q.perPage \in Nat \ {0}
<1>1. q.perPage \in Nat \ {0}
  BY QueriesShape
<1> DEFINE n == q.perPage
<1>2. n \in Nat
  BY <1>1
<1> HIDE DEF n
<1>3. /\ (page - 1) * n \in Nat /\ page * n \in Nat
      /\ (page - 1) * n + n = page * n /\ (page + 1 - 1) * n = page * n /\ (1 - 1) * n = 0
  BY <1>2
<1> QED BY <1>1, <1>3 DEF Skip, n

(* A sorted list holds every matching row once.                            *)
LEMMA SortedLists ==
  ASSUME NEW q, NEW s \in Sorted(q)
  PROVE  /\ s \in [1..Cardinality(Matching(q)) -> Matching(q)]
         /\ s \in Seq(Ids) /\ Len(s) = Cardinality(Matching(q))
         /\ \A j, k \in DOMAIN s : s[j] = s[k] => j = k
         /\ \A i \in Matching(q) : \E k \in DOMAIN s : s[k] = i
<1> DEFINE M == Matching(q)
           n == Cardinality(M)
<1>1. n \in Nat /\ IsFiniteSet(M) /\ M \subseteq Ids
  BY MatchingFinite
<1>2. s \in [1..n -> M] /\ \A j, k \in 1..n : j # k => s[j] # s[k]
  BY DEF Sorted, SetToSeqs
<1> HIDE DEF M
<1>3. IsFiniteSet(1..n) /\ Cardinality(1..n) = n
  BY <1>1, FS_Interval
<1>4. s \in Injection(1..n, M)
  BY <1>2 DEF Injection, IsInjective
<1>5. s \in Surjection(1..n, M)
  BY <1>1, <1>3, <1>4, FS_Injection
<1>6. \A i \in M : \E k \in 1..n : s[k] = i
  BY <1>5 DEF Surjection
<1>7. s \in Seq(Ids) /\ Len(s) = n
  BY <1>1, <1>2
<1> QED BY <1>2, <1>6, <1>7 DEF M

LEMMA RankBound ==
  ASSUME TypeOK, NEW q \in Queries, NEW i \in Matching(q)
  PROVE  Rank(q, i) \in Nat /\ Rank(q, i) < Cardinality(Matching(q))
<1> DEFINE M == Matching(q)
           A == Ahead(q, i)
<1>1. IsFiniteSet(M) /\ Cardinality(M) \in Nat
  BY MatchingFinite
<1>2. A \subseteq M
  BY DEF Ahead
<1>3. i \notin A
  BY ColumnIsInt DEF Ahead, Before
<1> HIDE DEF M, A
<1>4. IsFiniteSet(A) /\ Cardinality(A) \in Nat /\ Cardinality(A) <= Cardinality(M)
      /\ (Cardinality(A) = Cardinality(M) => A = M)
  BY <1>1, <1>2, FS_Subset, FS_CardinalityType
<1>5. A # M
  BY <1>3 DEF M
<1>6. Cardinality(A) < Cardinality(M)
  BY <1>1, <1>4, <1>5
<1> QED BY <1>4, <1>6 DEF Rank, A, M

(* Without ties a row's place in the list is its rank.                     *)
LEMMA RankIsPlace ==
  ASSUME TypeOK, NEW q \in Queries, NEW s \in Sorted(q), ~Tied(q), NEW k \in DOMAIN s
  PROVE  Rank(q, s[k]) = k - 1
<1> DEFINE n == Cardinality(Matching(q))
<1>1. n \in Nat /\ s \in [1..n -> Matching(q)] /\ DOMAIN s = 1..n /\ k \in 1..n
      /\ \A j, m \in 1..n : s[j] = s[m] => j = m
  BY SortedLists, MatchingFinite
<1>2. \A m \in 1..n : Column(q.sort, s[m]) \in Int
  BY <1>1, ColumnIsInt
<1>3. \A j, m \in 1..n : j < m => ~Before(q, s[m], s[j])
  BY <1>1 DEF Sorted
<1>4. \A m \in 1..n : Before(q, s[m], s[k]) <=> m < k
  <2> TAKE m \in 1..n
  <2>1. CASE m < k
    <3>1. Column(q.sort, s[m]) # Column(q.sort, s[k])
      BY <1>1, <2>1 DEF Tied
    <3> QED BY <1>1, <1>2, <1>3, <2>1, <3>1 DEF Before
  <2>2. CASE m = k
    BY <1>1, <1>2, <2>2 DEF Before
  <2>3. CASE k < m
    BY <1>1, <1>3, <2>3
  <2> QED BY <1>1, <2>1, <2>2, <2>3
<1>5. Ahead(q, s[k]) = {s[m] : m \in 1..k-1}
  <2>1. ASSUME NEW i \in Ahead(q, s[k]) PROVE \E m \in 1..k-1 : i = s[m]
    <3>1. PICK m \in 1..n : s[m] = i
      BY <1>1, SortedLists DEF Ahead
    <3> QED BY <1>1, <1>4, <3>1 DEF Ahead
  <2>2. ASSUME NEW m \in 1..k-1 PROVE s[m] \in Ahead(q, s[k])
    <3>1. m \in 1..n /\ m < k
      BY <1>1
    <3> QED BY <1>1, <1>4, <3>1 DEF Ahead
  <2> QED BY <2>1, <2>2
<1> DEFINE f == [m \in 1..k-1 |-> s[m]]
           T == {s[m] : m \in 1..k-1}
<1>6. f \in Bijection(1..k-1, T)
  <2>1. f \in [1..k-1 -> T] /\ \A t \in T : \E m \in 1..k-1 : f[m] = t
    OBVIOUS
  <2>2. \A j, m \in 1..k-1 : f[j] = f[m] => j = m
    BY <1>1
  <2> QED BY <2>1, <2>2 DEF Bijection, Injection, Surjection, IsInjective
<1>7. ExistsBijection(1..k-1, T) /\ k - 1 \in Nat
  <2>1. k - 1 \in Nat
    BY <1>1
  <2>2. ExistsBijection(1..k-1, T)
    BY <1>6, Zenon DEF ExistsBijection
  <2> QED BY <2>1, <2>2
<1> HIDE DEF T, f
<1>8. Cardinality(T) = k - 1
  BY <1>7, FS_CountingElements
<1> QED BY <1>5, <1>8 DEF Rank, T

(* A page is the rows of the list from Skip on, as many as fit.            *)
LEMMA PageOf ==
  ASSUME TypeOK, NEW s \in Sorted(walk.query)
  PROVE  LET p == Page(walk.query, walk.page, s)
             from == Skip(walk.query, walk.page)
         IN  /\ p \in Seq([id : Ids, row : Fields])
             /\ Len(p) = PageLength(Cardinality(Matching(walk.query)))
             /\ DOMAIN p = {n \in 1..walk.query.perPage : from + n <= Len(s)}
             /\ \A k \in DOMAIN p : from + k \in DOMAIN s /\ p[k] = Shown(s[from + k])
<1> DEFINE q == walk.query
           from == Skip(q, walk.page)
           p == Page(q, walk.page, s)
           N == Cardinality(Matching(q))
           m == PageLength(N)
<1>1. q \in Queries /\ walk.page \in Nat \ {0}
  BY DEF TypeOK
<1>2. from \in Nat /\ q.perPage \in Nat \ {0}
  BY <1>1, SkipFacts
<1>3. N \in Nat /\ s \in [1..N -> Matching(q)] /\ Len(s) = N /\ DOMAIN s = 1..N
  BY MatchingFinite, SortedLists
<1>4. p = [k \in {n \in 1..q.perPage : from + n <= N} |-> Shown(s[from + k])]
  BY <1>3 DEF Page
<1>5. m \in Nat /\ {n \in 1..q.perPage : from + n <= N} = 1..m
  BY <1>2, <1>3 DEF PageLength
<1> HIDE DEF from, p, N, m
<1>6. \A k \in 1..m : from + k \in 1..N
  <2> TAKE k \in 1..m
  <2>1. k \in 1..q.perPage /\ from + k <= N
    BY <1>5
  <2>2. from \in Nat /\ N \in Nat /\ k \in Nat \ {0}
    BY <1>2, <1>3
  <2> QED BY <2>1, <2>2
<1>7. \A k \in 1..m : Shown(s[from + k]) \in [id : Ids, row : Fields]
  BY <1>3, <1>6 DEF Shown, Matching, TypeOK
<1>8. p \in [1..m -> [id : Ids, row : Fields]]
  BY <1>4, <1>5, <1>7
<1>9. p \in Seq([id : Ids, row : Fields]) /\ Len(p) = m /\ DOMAIN p = 1..m
  BY <1>5, <1>8, Sequence
<1>10. \A k \in DOMAIN p : from + k \in DOMAIN s /\ p[k] = Shown(s[from + k])
  BY <1>3, <1>4, <1>5, <1>6, <1>9
<1>11. DOMAIN p = {n \in 1..q.perPage : from + n <= Len(s)}
  BY <1>3, <1>5, <1>9
<1> QED BY <1>9, <1>10, <1>11 DEF p, m, N, from

-----------------------------------------------------------------------------
(* Days.  The provers know division by a positive number.                  *)
LEMMA StartsOfDays ==
  ASSUME NEW i \in Int, NEW j \in Int
  PROVE  /\ DayOf(i) \in Int
         /\ StartOfDay(i) <= j <=> DayOf(i) <= DayOf(j)
         /\ j <= EndOfDay(i) <=> DayOf(j) <= DayOf(i)
         /\ StartOfDay(i) <= EndOfDay(j) <=> DayOf(i) <= DayOf(j)
<1>1. DayOf(i) \in Int
  BY DayIsPositive DEF DayOf
<1>2. StartOfDay(i) <= j <=> DayOf(i) <= DayOf(j)
  BY DayIsPositive DEF StartOfDay, DayOf
<1>3. j <= EndOfDay(i) <=> DayOf(j) <= DayOf(i)
  BY DayIsPositive DEF StartOfDay, EndOfDay, DayOf
<1>4. StartOfDay(i) <= EndOfDay(j) <=> DayOf(i) <= DayOf(j)
  BY DayIsPositive DEF StartOfDay, EndOfDay, DayOf
<1> QED BY <1>1, <1>2, <1>3, <1>4

Dates == [form : {"day", "instant"}, at : Int]

(* The day a part of a filter names, and the instant it is parsed to.      *)
DayNamed(part) == IF part.form = "day" THEN part.at ELSE DayOf(part.at)

LEMMA ParsedDay ==
  ASSUME NEW part \in Dates
  PROVE  Parse(part) \in Int /\ DayNamed(part) \in Int /\ DayOf(Parse(part)) = DayNamed(part)
<1>1. part.at \in Int
  BY DEF Dates
<1>2. CASE part.form = "day"
  <2> DEFINE d == part.at
  <2>0. d \in Int
    BY <1>1
  <2> HIDE DEF d
  <2>1. (d * DayLength - Offset + Offset) \div DayLength = d
    BY <2>0, DayIsPositive
  <2>2. d * DayLength - Offset \in Int
    BY <2>0, DayIsPositive
  <2> QED BY <2>0, <1>2, <2>1, <2>2 DEF Parse, DayNamed, DayOf, d
<1>3. CASE part.form # "day"
  BY <1>1, <1>3, StartsOfDays DEF Parse, DayNamed
<1> QED BY <1>2, <1>3

(* One or two parts: the first and the last are all there are.             *)
LEMMA FirstAndLast ==
  ASSUME NEW K \in SUBSET Int, IsFiniteSet(K), Cardinality(K) \in 1..2
  PROVE  Min(K) \in K /\ Max(K) \in K /\ K = {Min(K), Max(K)}
<1>1. \E x, y \in Int : K = {x, y}
  <2>1. CASE Cardinality(K) = 1
    <3>1. \E x : K = {x}
      BY <2>1, FS_Singleton
    <3> QED BY <3>1
  <2>2. CASE Cardinality(K) = 2
    <3>1. K # {}
      BY <2>2, FS_EmptySet
    <3>2. PICK x : x \in K
      BY <3>1
    <3>3. IsFiniteSet(K \ {x}) /\ Cardinality(K \ {x}) = 1
      BY <2>2, <3>2, FS_RemoveElement
    <3>4. PICK y : K \ {x} = {y}
      BY <3>3, FS_Singleton
    <3>5. K = {x, y} /\ x \in Int /\ y \in Int
      BY <3>2, <3>4
    <3> QED BY <3>5
  <2> QED BY <2>1, <2>2
<1>2. PICK x, y \in Int : K = {x, y} /\ x <= y
  <2>1. PICK x, y \in Int : K = {x, y}
    BY <1>1
  <2>2. K = {y, x} /\ (x <= y \/ y <= x)
    BY <2>1
  <2> QED BY <2>1, <2>2
<1>3. Min(K) = x
  BY <1>2 DEF Min
<1>4. Max(K) = y
  BY <1>2 DEF Max
<1> QED BY <1>2, <1>3, <1>4

(* The range that is asked of the database is the days that were named.    *)
LEMMA RangeIsDays ==
  ASSUME NEW raw \in Seq([form : {"day", "instant", "junk"}, at : Int] \cup {None}),
         ValidDates(raw), NEW i \in Int
  PROVE  i \in From(raw)..To(raw) <=> WithinDays(i, raw)
<1> DEFINE K == Kept(raw)
           first == raw[Min(K)]
           last == raw[Max(K)]
<1>1. K \in SUBSET Int /\ K \subseteq 1..Len(raw)
  BY DEF Kept
<1>2. IsFiniteSet(K)
  BY <1>1, FS_Interval, FS_Subset
<1>3. Cardinality(K) \in 1..2
  BY DEF ValidDates
<1>4. Min(K) \in K /\ Max(K) \in K /\ K = {Min(K), Max(K)}
  BY <1>1, <1>2, <1>3, FirstAndLast
<1>5. ToSet(raw) \ {None} = FilterValues(raw)
  BY DEF ToSet, FilterValues, Kept
<1>6. FilterValues(raw) = {first, last}
  BY <1>4 DEF FilterValues
<1>7. first \in Dates /\ last \in Dates
  <2>1. \A k \in K : raw[k] \in [form : {"day", "instant", "junk"}, at : Int] /\ raw[k].form # "junk"
    BY <1>1 DEF Kept, ValidDates, FilterValues
  <2>2. \A k \in K : raw[k] \in Dates
    BY <2>1 DEF Dates
  <2> QED BY <1>4, <2>2
<1> DEFINE x == Parse(first)
           y == Parse(last)
<1>8. x \in Int /\ y \in Int /\ DayOf(x) = DayNamed(first) /\ DayOf(y) = DayNamed(last)
  BY <1>7, ParsedDay
<1>9. From(raw) = StartOfDay(x) /\ To(raw) = EndOfDay(y) /\ From(raw) <= To(raw)
  BY DEF From, To, ValidDates
<1>10. WithinDays(i, raw) <=>
         /\ \E part \in ToSet(raw) \ {None} : DayNamed(part) <= DayOf(i)
         /\ \E part \in ToSet(raw) \ {None} : DayOf(i) <= DayNamed(part)
  BY DEF WithinDays, DayNamed
<1> HIDE DEF K, first, last, x, y
<1>11. DayOf(x) <= DayOf(y) /\ DayOf(i) \in Int /\ DayOf(x) \in Int /\ DayOf(y) \in Int
  BY <1>8, <1>9, StartsOfDays
<1>12. WithinDays(i, raw) <=> DayOf(x) <= DayOf(i) /\ DayOf(i) <= DayOf(y)
  BY <1>5, <1>6, <1>8, <1>10, <1>11
<1>13. i \in From(raw)..To(raw) <=> StartOfDay(x) <= i /\ i <= EndOfDay(y)
  <2>1. StartOfDay(x) \in Int /\ EndOfDay(y) \in Int
    BY <1>8, <1>11, DayIsPositive DEF StartOfDay, EndOfDay
  <2> QED BY <1>9, <2>1
<1> QED BY <1>8, <1>12, <1>13, StartsOfDays

-----------------------------------------------------------------------------
LEMMA SameTable ==
  ASSUME UNCHANGED table, walk'.query = walk.query
  PROVE  /\ Matching(walk.query)' = Matching(walk.query)
         /\ \A i : Rank(walk.query, i)' = Rank(walk.query, i)
<1>1. Matching(walk.query)' = Matching(walk.query)
  BY DEF Matching
<1>2. ASSUME NEW i, NEW j PROVE Before(walk.query, i, j)' <=> Before(walk.query, i, j)
  BY DEF Before, Column
<1>3. ASSUME NEW i PROVE Ahead(walk.query, i)' = Ahead(walk.query, i)
  BY <1>1, <1>2 DEF Ahead
<1> QED BY <1>1, <1>3 DEF Rank

LEMMA Facts ==
  ASSUME TypeOK
  PROVE  LET q == walk.query
             n == walk.page * q.perPage IN
         /\ q \in Queries /\ walk.page \in Nat \ {0} /\ q.perPage \in Nat \ {0}
         /\ Skip(q, walk.page) \in Nat /\ n \in Nat /\ Skip(q, walk.page) + q.perPage = n
         /\ Skip(q, walk.page + 1) = n /\ Skip(q, 1) = 0
<1>1. walk.query \in Queries /\ walk.page \in Nat \ {0}
  BY DEF TypeOK
<1> QED BY <1>1, SkipFacts

LEMMA Initially == Init => IInv
<1> SUFFICES ASSUME Init PROVE IInv
  OBVIOUS
<1>1. walk.pc = "idle" /\ list.data = None /\ list.total = None /\ walk.seen = <<>>
      /\ walk.page = 1 /\ stable = {} /\ why = {} /\ list = Unread
  BY DEF Init, Unread
<1>2. TypeOK
  <2>1. walk \in [pc : {"idle", "listing", "refused", "done"}, query : Queries,
                  page : Nat \ {0}, seen : Seq(Ids)]
    <3>1. PICK q \in Queries : walk = [pc |-> "idle", query |-> q, page |-> 1, seen |-> <<>>]
      BY DEF Init
    <3>2. <<>> \in Seq(Ids)
      BY EmptySeq
    <3> QED BY <3>1, <3>2
  <2>2. list \in [data : Seq([id : Ids, row : Fields]) \cup {None}, total : Nat \cup {None}]
    BY <1>1 DEF Unread
  <2> QED BY <1>1, <2>1, <2>2 DEF Init, TypeOK
<1>3. Asked
  BY <1>1 DEF Asked
<1>4. RowsMatch /\ Counted /\ Met
  BY <1>1 DEF RowsMatch, Counted, Met, Answered
<1>5. Once
  BY <1>1 DEF Once, IsInjective
<1> QED BY <1>2, <1>3, <1>4, <1>5 DEF IInv

LEMMA AskStep == ASSUME IInv, Ask PROVE IInv'
<1> DEFINE q == walk.query
<1> USE DEF IInv
<1>1. /\ walk.pc = "idle" /\ list = Unread /\ walk.page = 1 /\ walk.seen = <<>>
      /\ list.data = None /\ list.total = None
  BY DEF Ask, Asked, Unread
<1>2. /\ walk' = [walk EXCEPT !.pc = IF Allowed(Filter(walk.query)) THEN "listing" ELSE "refused"]
      /\ stable' = {i \in Ids : table[i] # None} /\ UNCHANGED <<table, list, why>>
  BY DEF Ask
<1>3. /\ walk'.query = walk.query /\ walk'.page = 1 /\ walk'.seen = <<>>
      /\ walk'.pc = IF Allowed(Filter(walk.query)) THEN "listing" ELSE "refused"
  BY <1>1, <1>2 DEF TypeOK
<1>4. TypeOK'
  BY <1>2 DEF TypeOK
<1>5. Asked'
  BY <1>1, <1>2, <1>3 DEF Asked
<1>6. RowsMatch' /\ Counted'
  BY <1>1, <1>2 DEF RowsMatch, Counted, Answered
<1>7. OnPage' = {} /\ SeenIds' = {}
  BY <1>1, <1>2, <1>3 DEF OnPage, SeenIds, ToSet
<1>8. Once'
  BY <1>1, <1>2, <1>3, <1>7 DEF Once, IsInjective
<1>9. Met'
  <2>1. Reach' = 0
    BY <1>1, <1>2, <1>3, Facts DEF Reach
  <2>2. \A i \in Matching(q)' : Rank(q, i)' >= 0
    BY <1>2, <1>3, SameTable, RankBound, Facts
  <2>3. ~Answered' /\ walk'.pc # "done"
    BY <1>1, <1>2, <1>3 DEF Answered
  <2> QED BY <2>1, <2>2, <2>3 DEF Met
<1> QED BY <1>4, <1>5, <1>6, <1>8, <1>9

LEMMA FindManyStep == ASSUME IInv, FindMany PROVE IInv'
<1> DEFINE q == walk.query
           from == Skip(q, walk.page)
           N == Cardinality(Matching(q))
<1> USE DEF IInv
<1>1. PICK s \in Sorted(q) : list' = [list EXCEPT !.data = Page(q, walk.page, s)]
  BY DEF FindMany
<1> DEFINE p == Page(q, walk.page, s)
<1>2. /\ walk.pc = "listing" /\ list.data = None /\ UNCHANGED <<table, walk, stable>>
      /\ why' = IF Tied(q) THEN why \cup {"tied"} ELSE why
  BY DEF FindMany
<1>3. /\ p \in Seq([id : Ids, row : Fields]) /\ Len(p) = PageLength(N)
      /\ DOMAIN p = {n \in 1..q.perPage : from + n <= Len(s)}
      /\ \A k \in DOMAIN p : from + k \in DOMAIN s /\ p[k] = Shown(s[from + k])
  BY PageOf
<1>4. N \in Nat /\ s \in [1..N -> Matching(q)] /\ Len(s) = N /\ DOMAIN s = 1..N
      /\ (\A j, k \in DOMAIN s : s[j] = s[k] => j = k)
      /\ (\A i \in Matching(q) : \E k \in DOMAIN s : s[k] = i)
  BY MatchingFinite, SortedLists
<1>5. /\ q \in Queries /\ q.perPage \in Nat \ {0} /\ from \in Nat
      /\ walk.page * q.perPage = from + q.perPage
  BY Facts
<1>6. p # None /\ list'.data = p /\ list'.total = list.total
  BY <1>1, <1>3, NoneIsNothing DEF TypeOK, p
<1> HIDE DEF p, from
<1>7. \A k \in DOMAIN p : p[k].id = s[from + k] /\ p[k].row = table[s[from + k]]
  <2> TAKE k \in DOMAIN p
  <2>1. p[k] = [id |-> s[from + k], row |-> table[s[from + k]]]
    BY <1>3 DEF Shown
  <2> QED BY <2>1
<1>8. Matching(q)' = Matching(q) /\ (\A i : Rank(q, i)' = Rank(q, i)) /\ q' = q
  BY <1>2, SameTable
<1>9. TypeOK'
  <2>1. list' \in [data : Seq([id : Ids, row : Fields]) \cup {None}, total : Nat \cup {None}]
    BY <1>1, <1>3 DEF TypeOK, p
  <2>2. why' \in SUBSET {"grown", "shrunk", "raced", "tied"}
    BY <1>2 DEF TypeOK
  <2> QED BY <1>2, <2>1, <2>2 DEF TypeOK
<1>10. Asked'
  BY <1>2 DEF Asked
<1>11. RowsMatch'
  <2>1. \A k \in DOMAIN p : Where(q, p[k].row)
    BY <1>3, <1>4, <1>7 DEF Matching
  <2> QED BY <1>2, <1>6, <2>1 DEF RowsMatch
<1>12. Counted'
  <2>1. PageLength(N)' = PageLength(N)
    BY <1>2, <1>8 DEF PageLength
  <2>2. "raced" \notin why' => "raced" \notin why
    BY <1>2
  <2>3. ASSUME "raced" \notin why', list.total # None PROVE list.total = N
    BY <1>2, <2>2, <2>3 DEF Counted
  <2>4. \A n : PageLength(n)' = PageLength(n)
    BY <1>2 DEF PageLength
  <2> QED BY <1>3, <1>6, <1>8, <2>3, <2>4 DEF Counted, Answered
<1>13. OnPage' = {s[from + k] : k \in DOMAIN p} /\ SeenIds' = SeenIds /\ OnPage = {}
  BY <1>2, <1>6, <1>7 DEF OnPage, SeenIds
<1>14. Reach' = from + q.perPage /\ Reach = from
  BY <1>2, <1>5, <1>6 DEF Reach, from
<1>15. ASSUME ~Tied(q), NEW k \in DOMAIN s PROVE Rank(q, s[k]) = k - 1
  BY <1>5, <1>15, RankIsPlace
<1>16. Once'
  <2> SUFFICES ASSUME why' \cap {"grown", "tied"} = {}
               PROVE  /\ IsInjective(walk.seen)
                      /\ \A j, k \in DOMAIN p : p[j].id = p[k].id => j = k
                      /\ SeenIds \cap OnPage' = {}
                      /\ \A i \in SeenIds \cap Matching(q) : Rank(q, i) < from
                      /\ \A i \in OnPage' \cap Matching(q) : Rank(q, i) < from + q.perPage
    BY <1>2, <1>6, <1>8, <1>13, <1>14 DEF Once, from
  <2>1. ~Tied(q) /\ why \cap {"grown", "tied"} = {}
    BY <1>2
  <2>2. IsInjective(walk.seen) /\ \A i \in SeenIds \cap Matching(q) : Rank(q, i) < from
    BY <1>2, <2>1 DEF Once, from
  <2>3. ASSUME NEW j \in DOMAIN p, NEW k \in DOMAIN p, p[j].id = p[k].id PROVE j = k
    <3>1. from + j = from + k
      BY <1>3, <1>4, <1>7, <2>3
    <3>2. j \in Nat /\ k \in Nat
      BY <1>3
    <3> QED BY <1>5, <3>1, <3>2
  <2>4. \A k \in DOMAIN p : /\ s[from + k] \in Matching(q)
                            /\ Rank(q, s[from + k]) = from + k - 1
                            /\ k \in 1..q.perPage
    <3> TAKE k \in DOMAIN p
    <3>1. from + k \in DOMAIN s /\ k \in 1..q.perPage
      BY <1>3
    <3>2. s[from + k] \in Matching(q)
      BY <1>4, <3>1
    <3>3. \A m \in DOMAIN s : Rank(q, s[m]) = m - 1
      BY <1>15, <2>1
    <3>4. Rank(q, s[from + k]) = from + k - 1
      BY <1>5, <3>1, <3>3
    <3> QED BY <3>1, <3>2, <3>4
  <2>5. \A k \in DOMAIN p : ~(Rank(q, s[from + k]) < from) /\ Rank(q, s[from + k]) < from + q.perPage
    BY <1>5, <2>4
  <2> QED BY <1>13, <2>2, <2>3, <2>4, <2>5
<1>17. Met'
  <2> SUFFICES ASSUME why' \cap {"shrunk", "raced", "tied"} = {},
                      NEW i \in (stable \cap Matching(q)) \ (SeenIds \cup OnPage')
               PROVE  /\ Rank(q, i) >= from + q.perPage
                      /\ list.total # None => ~(list.total <= from + q.perPage)
    BY <1>2, <1>5, <1>6, <1>8, <1>13, <1>14 DEF Met, Answered
  <2>1. ~Tied(q) /\ why \cap {"shrunk", "raced", "tied"} = {}
    BY <1>2
  <2>2. Rank(q, i) >= from
    BY <1>2, <1>13, <1>14, <2>1 DEF Met
  <2>3. PICK k \in DOMAIN s : s[k] = i
    BY <1>4
  <2>4. Rank(q, i) = k - 1 /\ k \in 1..N
    BY <1>4, <1>15, <2>1, <2>3
  <2>5. Rank(q, i) >= from + q.perPage
    <3>1. ASSUME k - from \in 1..q.perPage PROVE FALSE
      <4>1. from + (k - from) = k
        BY <1>5, <2>4
      <4>2. k - from \in DOMAIN p
        BY <1>3, <1>4, <2>4, <3>1, <4>1
      <4> QED BY <1>13, <2>3, <4>1, <4>2
    <3> QED BY <1>5, <2>2, <2>4, <3>1
  <2>6. list.total # None => list.total = N
    BY <1>2, <2>1 DEF Counted
  <2> QED BY <1>4, <1>5, <2>4, <2>5, <2>6
<1> QED BY <1>9, <1>10, <1>11, <1>12, <1>16, <1>17

LEMMA CountStep == ASSUME IInv, Count PROVE IInv'
<1> DEFINE q == walk.query
           N == Cardinality(Matching(q))
           reach == walk.page * q.perPage
<1> USE DEF IInv
<1>1. /\ walk.pc = "listing" /\ list.total = None /\ list' = [list EXCEPT !.total = N]
      /\ UNCHANGED <<table, walk, stable, why>>
  BY DEF Count
<1>2. N \in Nat /\ reach \in Nat /\ q \in Queries
  BY MatchingFinite, Facts
<1> HIDE DEF N
<1>3. list'.total = N /\ list'.data = list.data /\ N # None
  BY <1>1, <1>2, NoneIsNothing DEF TypeOK
<1>4. TypeOK'
  BY <1>1, <1>2 DEF TypeOK
<1>5. Asked' /\ RowsMatch'
  BY <1>1, <1>3 DEF Asked, RowsMatch
<1>6. Matching(q)' = Matching(q) /\ (\A i : Rank(q, i)' = Rank(q, i))
  BY <1>1, SameTable
<1>7. Counted'
  <2>1. \A n : PageLength(n)' = PageLength(n)
    BY <1>1 DEF PageLength
  <2> QED BY <1>1, <1>3, <1>6, <2>1 DEF Counted, Answered, N
<1>8. OnPage' = OnPage /\ SeenIds' = SeenIds /\ Reach' = Reach
  BY <1>1, <1>3 DEF OnPage, SeenIds, Reach
<1>9. Once'
  BY <1>1, <1>3, <1>6, <1>8 DEF Once
<1>10. Met'
  <2> SUFFICES ASSUME why \cap {"shrunk", "raced", "tied"} = {},
                      NEW i \in (stable \cap Matching(q)) \ (SeenIds \cup OnPage)
               PROVE  /\ Rank(q, i) >= Reach
                      /\ list.data # None => ~(N <= reach)
    BY <1>1, <1>3, <1>6, <1>8 DEF Met, Answered
  <2>1. Rank(q, i) >= Reach
    BY <1>1 DEF Met
  <2>2. Rank(q, i) \in Nat /\ Rank(q, i) < N
    BY <1>2, RankBound DEF N
  <2>3. list.data # None => Reach = reach
    BY DEF Reach
  <2> QED BY <1>2, <2>1, <2>2, <2>3
<1> QED BY <1>4, <1>5, <1>7, <1>9, <1>10

(* Turning the page adds the rows of the page to those that were seen.     *)
LEMMA SeenGrows ==
  ASSUME NEW seen \in Seq(Ids), NEW data \in Seq([id : Ids, row : Fields])
  PROVE  LET new == seen \o [k \in DOMAIN data |-> data[k].id]
             page == {data[k].id : k \in DOMAIN data} IN
         /\ new \in Seq(Ids) /\ ToSet(new) = ToSet(seen) \cup page
         /\ IsInjective(seen) /\ ToSet(seen) \cap page = {}
              /\ (\A j, k \in DOMAIN data : data[j].id = data[k].id => j = k)
            => IsInjective(new)
<1> DEFINE ids == [k \in DOMAIN data |-> data[k].id]
           new == seen \o ids
           page == {data[k].id : k \in DOMAIN data}
           a == Len(seen)
           b == Len(data)
<1>1. a \in Nat /\ b \in Nat /\ DOMAIN seen = 1..a /\ DOMAIN data = 1..b
  OBVIOUS
<1>2. ids \in [1..b -> Ids]
  <2>1. \A k \in 1..b : data[k] \in [id : Ids, row : Fields]
    BY ElementOfSeq
  <2>2. \A k \in 1..b : data[k].id \in Ids
    BY <2>1
  <2> QED BY <1>1, <2>2
<1>3. ids \in Seq(Ids) /\ Len(ids) = b /\ DOMAIN ids = 1..b /\ \A k \in 1..b : ids[k] = data[k].id
  BY <1>1, <1>2, Sequence
<1> HIDE DEF ids, a, b
<1>4. /\ new \in Seq(Ids) /\ Len(new) = a + b
      /\ \A i \in 1..a + b : new[i] = IF i <= a THEN seen[i] ELSE ids[i - a]
  BY <1>1, <1>3, ConcatProperties DEF a
<1>5. DOMAIN new = 1..a + b
  BY <1>4
<1> HIDE DEF new
<1>6. ToSet(new) \subseteq ToSet(seen) \cup page
  <2> SUFFICES ASSUME NEW i \in 1..a + b PROVE new[i] \in ToSet(seen) \cup page
    BY <1>5 DEF ToSet
  <2>1. CASE i <= a
    <3>1. i \in 1..a /\ new[i] = seen[i]
      BY <1>1, <1>4, <2>1
    <3>2. seen[i] \in ToSet(seen)
      BY <1>1, <3>1 DEF ToSet
    <3> QED BY <3>1, <3>2
  <2>2. CASE ~(i <= a)
    <3>1. i - a \in 1..b /\ new[i] = ids[i - a]
      BY <1>1, <1>4, <2>2
    <3>2. new[i] = data[i - a].id
      BY <1>1, <1>3, <3>1
    <3>3. data[i - a].id \in page
      BY <1>1, <3>1
    <3> QED BY <3>2, <3>3
  <2> QED BY <2>1, <2>2
<1>7. ToSet(seen) \subseteq ToSet(new)
  <2> SUFFICES ASSUME NEW i \in 1..a PROVE seen[i] \in ToSet(new)
    BY <1>1 DEF ToSet
  <2>1. i \in 1..a + b /\ new[i] = seen[i]
    BY <1>1, <1>4
  <2> QED BY <1>5, <2>1 DEF ToSet
<1>8. page \subseteq ToSet(new)
  <2> SUFFICES ASSUME NEW k \in 1..b PROVE data[k].id \in ToSet(new)
    BY <1>1
  <2>1. a + k \in 1..a + b /\ ~(a + k <= a) /\ a + k - a = k
    BY <1>1
  <2>2. new[a + k] = ids[a + k - a]
    BY <1>1, <1>4, <2>1
  <2>3. new[a + k] = data[k].id
    BY <1>3, <2>1, <2>2
  <2> QED BY <1>5, <2>1, <2>3 DEF ToSet
<1>9. ASSUME IsInjective(seen), ToSet(seen) \cap page = {},
             \A j, k \in DOMAIN data : data[j].id = data[k].id => j = k
      PROVE  IsInjective(new)
  <2> SUFFICES ASSUME NEW i \in 1..a + b, NEW j \in 1..a + b, i < j, new[i] = new[j]
               PROVE  FALSE
    BY <1>1, <1>5 DEF IsInjective
  <2>1. CASE j <= a
    <3>1. i \in 1..a /\ j \in 1..a /\ seen[i] = seen[j]
      BY <1>1, <1>4, <2>1
    <3> QED BY <1>1, <1>9, <3>1 DEF IsInjective
  <2>2. CASE i <= a /\ ~(j <= a)
    <3>1. i \in 1..a /\ j - a \in 1..b /\ seen[i] = ids[j - a]
      BY <1>1, <1>4, <2>2
    <3>2. seen[i] \in ToSet(seen) /\ ids[j - a] \in page
      BY <1>1, <1>3, <3>1 DEF ToSet
    <3> QED BY <1>9, <3>1, <3>2
  <2>3. CASE ~(i <= a)
    <3>1. i - a \in 1..b /\ j - a \in 1..b /\ ids[i - a] = ids[j - a] /\ i - a # j - a
      BY <1>1, <1>4, <2>3
    <3> QED BY <1>1, <1>3, <1>9, <3>1
  <2> QED BY <2>1, <2>2, <2>3
<1> QED BY <1>4, <1>6, <1>7, <1>8, <1>9 DEF new, ids

LEMMA TurnStep == ASSUME IInv, Turn PROVE IInv'
<1> DEFINE q == walk.query
           reach == walk.page * q.perPage
           more == reach < list.total
           new == walk.seen \o [k \in DOMAIN list.data |-> list.data[k].id]
<1> USE DEF IInv
<1>1. /\ walk.pc = "listing" /\ list.data # None /\ list.total # None /\ Answered
      /\ walk' = [walk EXCEPT !.seen = new, !.pc = IF more THEN "listing" ELSE "done",
                              !.page = IF more THEN walk.page + 1 ELSE walk.page]
      /\ list' = Unread /\ UNCHANGED <<table, stable, why>>
  BY DEF Turn, Answered
<1>2. list.data \in Seq([id : Ids, row : Fields]) /\ list.total \in Nat /\ walk.seen \in Seq(Ids)
      /\ walk.page \in Nat \ {0} /\ q \in Queries
  BY <1>1 DEF TypeOK
<1>3. /\ new \in Seq(Ids) /\ ToSet(new) = SeenIds \cup OnPage
      /\ IsInjective(walk.seen) /\ SeenIds \cap OnPage = {}
           /\ (\A j, k \in DOMAIN list.data : list.data[j].id = list.data[k].id => j = k)
         => IsInjective(new)
  BY <1>1, <1>2, SeenGrows DEF SeenIds, OnPage
<1> HIDE DEF new
<1>4. /\ walk'.query = q /\ walk'.seen = new
      /\ walk'.pc = IF more THEN "listing" ELSE "done"
      /\ walk'.page = IF more THEN walk.page + 1 ELSE walk.page
  BY <1>1 DEF TypeOK
<1>5. list'.data = None /\ list'.total = None
  BY <1>1 DEF Unread
<1>6. TypeOK'
  <2>1. walk' \in [pc : {"idle", "listing", "refused", "done"}, query : Queries,
                   page : Nat \ {0}, seen : Seq(Ids)]
    <3>1. (IF more THEN walk.page + 1 ELSE walk.page) \in Nat \ {0}
      BY <1>2
    <3>2. (IF more THEN "listing" ELSE "done") \in {"idle", "listing", "refused", "done"}
      OBVIOUS
    <3> HIDE DEF more
    <3> QED BY <1>1, <1>3, <3>1, <3>2 DEF TypeOK
  <2>2. list' \in [data : Seq([id : Ids, row : Fields]) \cup {None}, total : Nat \cup {None}]
    BY <1>1 DEF Unread
  <2> QED BY <1>1, <2>1, <2>2 DEF TypeOK
<1>7. Asked'
  BY <1>1, <1>4 DEF Asked
<1>8. RowsMatch' /\ Counted'
  BY <1>5 DEF RowsMatch, Counted, Answered
<1>9. Matching(q)' = Matching(q) /\ (\A i : Rank(q, i)' = Rank(q, i)) /\ q' = q
  BY <1>1, <1>4, SameTable
<1>10. OnPage' = {} /\ SeenIds' = SeenIds \cup OnPage
  BY <1>3, <1>4, <1>5 DEF OnPage, SeenIds
<1>11. /\ reach \in Nat /\ Skip(q, walk.page) \in Nat /\ Skip(q, walk.page) <= reach
       /\ Skip(q, walk.page + 1) = reach
  BY Facts
<1>12. Reach = reach /\ (more => Reach' = reach /\ Skip(q, walk.page)' = reach)
  <2>1. Reach = reach
    BY <1>1 DEF Reach
  <2>2. more => Reach' = Skip(q, walk.page + 1) /\ Skip(q, walk.page)' = Skip(q, walk.page + 1)
    BY <1>4, <1>5 DEF Reach, Skip
  <2> QED BY <1>11, <2>1, <2>2
<1> HIDE DEF reach
<1>13. Once'
  <2> SUFFICES ASSUME why \cap {"grown", "tied"} = {}
               PROVE  /\ IsInjective(new)
                      /\ more => \A i \in (SeenIds \cup OnPage) \cap Matching(q) : Rank(q, i) < reach
    BY <1>1, <1>4, <1>5, <1>9, <1>10, <1>12 DEF Once
  <2>1. IsInjective(new)
    BY <1>1, <1>3 DEF Once
  <2>2. /\ \A i \in SeenIds \cap Matching(q) : Rank(q, i) < Skip(q, walk.page)
        /\ \A i \in OnPage \cap Matching(q) : Rank(q, i) < reach
    BY <1>1, <1>12 DEF Once
  <2>3. \A i \in Matching(q) : Rank(q, i) \in Nat
    BY <1>2, RankBound
  <2> QED BY <1>11, <2>1, <2>2, <2>3
<1>14. Met'
  <2> SUFFICES ASSUME why \cap {"shrunk", "raced", "tied"} = {}
               PROVE  LET unmet == (stable \cap Matching(q)) \ (SeenIds \cup OnPage) IN
                      /\ more => \A i \in unmet : Rank(q, i) >= reach
                      /\ ~more => unmet = {}
    BY <1>1, <1>4, <1>5, <1>9, <1>10, <1>12 DEF Met, Answered
  <2>1. ~more => list.total <= reach
    BY <1>2, <1>11
  <2> QED BY <1>1, <1>12, <2>1 DEF Met, reach
<1> QED BY <1>6, <1>7, <1>8, <1>13, <1>14

-----------------------------------------------------------------------------
(* The writes.  A rank changes only with the rows that match.              *)
LEMMA SmallerRank ==
  ASSUME NEW S, NEW T, S \subseteq T, IsFiniteSet(T)
  PROVE  Cardinality(S) <= Cardinality(T)
BY FS_Subset

LEMMA SameBefore ==
  ASSUME walk'.query = walk.query, NEW i, NEW j, table'[i] = table[i], table'[j] = table[j]
  PROVE  Before(walk.query, i, j)' <=> Before(walk.query, i, j)
BY DEF Before, Column

LEMMA WriteKeeps ==
  ASSUME IInv, NEW kind, NEW i \in Ids, NEW row \in Fields \cup {None},
         NEW effects \in SUBSET {"grown", "shrunk"}, Write(kind, i, row, effects)
  PROVE  /\ TypeOK' /\ Asked' /\ RowsMatch' /\ Counted'
         /\ walk.pc = "listing" /\ UNCHANGED <<walk, list>>
         /\ effects \subseteq why' /\ why \subseteq why'
         /\ OnPage' = OnPage /\ SeenIds' = SeenIds /\ Reach' = Reach
         /\ stable' = stable \ {i} /\ table' = [table EXCEPT ![i] = row]
         /\ \A j \in Ids \ {i} : table'[j] = table[j]
<1> USE DEF IInv
<1>1. /\ walk.pc = "listing" /\ UNCHANGED <<walk, list>>
      /\ table' = [table EXCEPT ![i] = row] /\ stable' = stable \ {i}
      /\ why' = why \cup effects
           \cup (IF (list.data = None) # (list.total = None) THEN {"raced"} ELSE {})
  BY DEF Write
<1>2. TypeOK'
  BY <1>1 DEF TypeOK
<1>3. \A j \in Ids \ {i} : table'[j] = table[j]
  BY <1>1 DEF TypeOK
<1>4. Asked'
  BY <1>1, <1>3 DEF Asked, TypeOK
<1>5. RowsMatch'
  BY <1>1 DEF RowsMatch
<1>6. Counted'
  <2> SUFFICES ASSUME "raced" \notin why' PROVE Counted'
    BY DEF Counted
  <2>1. "raced" \notin why /\ (list.data = None <=> list.total = None)
    BY <1>1
  <2>2. \A n : PageLength(n)' = PageLength(n)
    BY <1>1 DEF PageLength
  <2> QED BY <1>1, <2>1, <2>2 DEF Counted, Answered
<1>7. OnPage' = OnPage /\ SeenIds' = SeenIds /\ Reach' = Reach
  BY <1>1 DEF OnPage, SeenIds, Reach
<1> QED BY <1>1, <1>2, <1>3, <1>4, <1>5, <1>6, <1>7

LEMMA CreateStep == ASSUME IInv, NEW i \in Ids, Create(i) PROVE IInv'
<1> DEFINE q == walk.query
<1>1. PICK row \in Fields : Write("create", i, row, {"grown"}) /\ table[i] = None
  BY DEF Create
<1>2. /\ TypeOK' /\ Asked' /\ RowsMatch' /\ Counted'
      /\ walk.pc = "listing" /\ UNCHANGED <<walk, list>> /\ {"grown"} \subseteq why' /\ why \subseteq why'
      /\ OnPage' = OnPage /\ SeenIds' = SeenIds /\ Reach' = Reach
      /\ stable' = stable \ {i} /\ \A j \in Ids \ {i} : table'[j] = table[j]
  BY <1>1, WriteKeeps
<1>3. Once'
  BY <1>2 DEF Once
<1>4. \A j \in Matching(q) : j \in Ids /\ j # i
  BY <1>1 DEF Matching
<1>5. Matching(q) \subseteq Matching(q)' /\ \A j \in Matching(q)' : j # i => j \in Matching(q)
  BY <1>2, <1>4 DEF Matching
<1>6. ASSUME NEW j \in Matching(q) PROVE Rank(q, j) <= Rank(q, j)'
  <2>1. Ahead(q, j) \subseteq Ahead(q, j)'
    BY <1>2, <1>4, <1>5, SameBefore DEF Ahead
  <2>2. Ahead(q, j)' \subseteq Ids
    BY DEF Ahead, Matching
  <2>3. IsFiniteSet(Ahead(q, j)')
    BY <2>2, IdsAreNumbers, FS_Subset
  <2> QED BY <2>1, <2>3, SmallerRank DEF Rank
<1>7. ASSUME NEW j \in Matching(q) PROVE Rank(q, j) \in Nat /\ Rank(q, j)' \in Nat
  <2>1. Rank(q, j) \in Nat
    BY RankBound, Facts DEF IInv
  <2>2. Ahead(q, j)' \subseteq Ids
    BY DEF Ahead, Matching
  <2>3. IsFiniteSet(Ahead(q, j)')
    BY <2>2, IdsAreNumbers, FS_Subset
  <2> QED BY <2>1, <2>3, FS_CardinalityType DEF Rank
<1>8. Met'
  <2> DEFINE unmet == (stable \cap Matching(q)) \ (SeenIds \cup OnPage)
  <2> SUFFICES ASSUME why' \cap {"shrunk", "raced", "tied"} = {}
               PROVE  /\ \A j \in unmet' : Rank(q, j)' >= Reach'
                      /\ (Answered /\ list.total <= walk.page * walk.query.perPage)' => unmet' = {}
    BY <1>2 DEF Met
  <2>1. unmet' \subseteq unmet
    BY <1>2, <1>5
  <2>2. \A j \in unmet : Rank(q, j) >= Reach
    BY <1>2 DEF Met, IInv
  <2>3. Reach \in Nat
    BY Facts DEF Reach, IInv
  <2>4. \A j \in unmet' : Rank(q, j)' >= Reach
    BY <1>6, <1>7, <2>1, <2>2, <2>3
  <2>5. Answered /\ list.total <= walk.page * walk.query.perPage => unmet = {}
    BY <1>2 DEF Met, IInv
  <2> QED BY <1>2, <2>1, <2>4, <2>5 DEF Answered
<1> QED BY <1>2, <1>3, <1>8 DEF IInv

LEMMA UpdateStep == ASSUME IInv, NEW i \in Ids, Update(i) PROVE IInv'
<1>1. PICK row \in Fields : Write("update", i, row, {"grown", "shrunk"})
  BY DEF Update
<1>2. /\ TypeOK' /\ Asked' /\ RowsMatch' /\ Counted' /\ {"grown", "shrunk"} \subseteq why'
  BY <1>1, WriteKeeps
<1> QED BY <1>2 DEF IInv, Once, Met

LEMMA DeleteStep == ASSUME IInv, NEW i \in Ids, Delete(i) PROVE IInv'
<1> DEFINE q == walk.query
<1>1. Write("delete", i, None, {"shrunk"})
  BY DEF Delete
<1>2. /\ TypeOK' /\ Asked' /\ RowsMatch' /\ Counted'
      /\ walk.pc = "listing" /\ UNCHANGED <<walk, list>> /\ {"shrunk"} \subseteq why' /\ why \subseteq why'
      /\ OnPage' = OnPage /\ SeenIds' = SeenIds /\ Reach' = Reach
      /\ table' = [table EXCEPT ![i] = None] /\ \A j \in Ids \ {i} : table'[j] = table[j]
  BY <1>1, WriteKeeps
<1>3. Met'
  BY <1>2 DEF Met
<1>4. \A j \in Matching(q)' : j \in Ids /\ j # i /\ j \in Matching(q)
  BY <1>2 DEF Matching, IInv, TypeOK
<1>5. ASSUME NEW j \in Matching(q)' PROVE Rank(q, j)' <= Rank(q, j) /\ Rank(q, j)' \in Nat /\ Rank(q, j) \in Nat
  <2>1. Ahead(q, j)' \subseteq Ahead(q, j)
    BY <1>2, <1>4, SameBefore DEF Ahead
  <2>2. Ahead(q, j) \subseteq Ids
    BY DEF Ahead, Matching
  <2>3. IsFiniteSet(Ahead(q, j)) /\ IsFiniteSet(Ahead(q, j)')
    BY <2>1, <2>2, IdsAreNumbers, FS_Subset
  <2> QED BY <2>1, <2>3, SmallerRank, FS_CardinalityType DEF Rank
<1>6. Once'
  <2> SUFFICES ASSUME why' \cap {"grown", "tied"} = {}
               PROVE  /\ IsInjective(walk.seen)
                      /\ list.data # None =>
                           /\ \A j, k \in DOMAIN list.data : list.data[j].id = list.data[k].id => j = k
                           /\ SeenIds \cap OnPage = {}
                      /\ \A j \in SeenIds \cap Matching(q)' : Rank(q, j)' < Skip(q, walk.page)
                      /\ \A j \in OnPage \cap Matching(q)' : Rank(q, j)' < Reach
    BY <1>2 DEF Once
  <2>1. /\ IsInjective(walk.seen)
        /\ list.data # None =>
             /\ \A j, k \in DOMAIN list.data : list.data[j].id = list.data[k].id => j = k
             /\ SeenIds \cap OnPage = {}
        /\ \A j \in SeenIds \cap Matching(q) : Rank(q, j) < Skip(q, walk.page)
        /\ \A j \in OnPage \cap Matching(q) : Rank(q, j) < Reach
    BY <1>2 DEF Once, IInv
  <2>2. Skip(q, walk.page) \in Nat /\ Reach \in Nat
    BY Facts DEF Reach, IInv
  <2> QED BY <1>4, <1>5, <2>1, <2>2
<1> QED BY <1>2, <1>3, <1>6 DEF IInv

LEMMA Inductive == IInv /\ [Next]_vars => IInv'
<1> SUFFICES ASSUME IInv, [Next]_vars PROVE IInv'
  OBVIOUS
<1>1. CASE UNCHANGED vars
  <2>1. UNCHANGED <<table, walk, list, stable, why>>
    BY <1>1 DEF vars
  <2>2. Matching(walk.query)' = Matching(walk.query) /\ \A i : Rank(walk.query, i)' = Rank(walk.query, i)
    BY <2>1, SameTable
  <2>3. OnPage' = OnPage /\ SeenIds' = SeenIds /\ Reach' = Reach /\ \A n : PageLength(n)' = PageLength(n)
    BY <2>1 DEF OnPage, SeenIds, Reach, PageLength
  <2>4. TypeOK' /\ Asked' /\ RowsMatch'
    BY <2>1 DEF IInv, TypeOK, Asked, RowsMatch
  <2>5. Counted'
    BY <2>1, <2>2, <2>3 DEF IInv, Counted, Answered
  <2>6. Once'
    BY <2>1, <2>2, <2>3 DEF IInv, Once
  <2>7. Met'
    BY <2>1, <2>2, <2>3 DEF IInv, Met, Answered
  <2> QED BY <2>4, <2>5, <2>6, <2>7 DEF IInv
<1> QED BY <1>1, AskStep, FindManyStep, CountStep, TurnStep, CreateStep, UpdateStep, DeleteStep
        DEF Next

LEMMA Invariant == Spec => []IInv
BY Initially, Inductive, PTL DEF Spec

-----------------------------------------------------------------------------
(* The types hold, whatever rows and queries there are.                    *)
THEOREM TypeCorrect == Spec => []TypeOK
<1>1. IInv => TypeOK
  BY DEF IInv
<1> QED BY <1>1, Invariant, PTL

(* What parseFilter reads off a URL: no key without a parameter ...        *)
LEMMA KeysAreGiven ==
  ASSUME NEW q \in Queries, NEW key \in DOMAIN Filter(q)
  PROVE  \E n \in DOMAIN q.params :
           q.params[n].key = key /\ Filter(q)[key] = q.params[n].value
<1> DEFINE params == q.params
           kept == {n \in DOMAIN params :
                     /\ Bracketed(params[n])
                     /\ \A m \in DOMAIN params : Repeats(params, m, n) => m <= n}
<1>1. Filter(q) = [k \in {params[n].key : n \in kept} |->
                     params[CHOOSE n \in kept : params[n].key = k].value]
  BY DEF Filter, ParseFilter
<1>2. kept \subseteq DOMAIN params
  OBVIOUS
<1> HIDE DEF kept, params
<1>3. key \in {params[n].key : n \in kept}
  BY <1>1
<1>4. \E n \in kept : params[n].key = key
  BY <1>3
<1> DEFINE l == CHOOSE n \in kept : params[n].key = key
<1>5. l \in kept /\ params[l].key = key
  BY <1>4
<1>6. Filter(q)[key] = params[l].value
  BY <1>1, <1>3
<1> QED BY <1>2, <1>5, <1>6 DEF params

(* ... and each key with the value it is given last.                       *)
LEMMA LastIsKept ==
  ASSUME NEW q \in Queries, NEW n \in DOMAIN q.params, Bracketed(q.params[n]),
         \A m \in DOMAIN q.params : m > n => ~Repeats(q.params, m, n)
  PROVE  /\ q.params[n].key \in DOMAIN Filter(q)
         /\ Filter(q)[q.params[n].key] = q.params[n].value
<1> DEFINE params == q.params
           key == params[n].key
           kept == {i \in DOMAIN params :
                     /\ Bracketed(params[i])
                     /\ \A m \in DOMAIN params : Repeats(params, m, i) => m <= i}
           l == CHOOSE i \in kept : params[i].key = key
<1>1. Filter(q) = [k \in {params[i].key : i \in kept} |->
                     params[CHOOSE i \in kept : params[i].key = k].value]
  BY DEF Filter, ParseFilter
<1>2. \A i \in DOMAIN params : i \in Nat
  BY QueriesShape
<1>3. n \in kept
  BY <1>2
<1>4. l \in kept /\ params[l].key = key
  BY <1>3
<1>5. Repeats(params, l, n) /\ Repeats(params, n, l)
  BY <1>3, <1>4 DEF Repeats
<1>6. l = n
  BY <1>2, <1>3, <1>4, <1>5
<1>7. key \in {params[i].key : i \in kept}
  BY <1>3
<1> HIDE DEF kept
<1>8. Filter(q)[key] = params[l].value /\ key \in DOMAIN Filter(q)
  BY <1>1, <1>7
<1> QED BY <1>6, <1>8

LEMMA AllowedDates ==
  ASSUME NEW q \in Queries, Allowed(Filter(q)), "createdAt" \in DOMAIN Filter(q), NEW i \in Int
  PROVE  LET raw == Filter(q)["createdAt"] IN i \in From(raw)..To(raw) <=> WithinDays(i, raw)
<1> DEFINE raw == Filter(q)["createdAt"]
<1>1. ValidDates(raw)
  BY DEF Allowed
<1>2. raw \in Seq([form : {"day", "instant", "junk"}, at : Int] \cup {None})
  BY KeysAreGiven, QueriesShape
<1> HIDE DEF raw
<1>3. i \in From(raw)..To(raw) <=> WithinDays(i, raw)
  BY <1>1, <1>2, RangeIsDays
<1> QED BY <1>3 DEF raw

(* A page that was read is of a list under way, and made of rows.          *)
LEMMA RowsRead ==
  ASSUME IInv, list.data # None, NEW k \in DOMAIN list.data
  PROVE  walk.pc = "listing" /\ list.data[k].row \in Fields
<1>1. Unread.data = None
  BY DEF Unread
<1>2. walk.pc = "listing"
  BY <1>1 DEF IInv, Asked
<1> DEFINE S == [id : Ids, row : Fields]
           d == list.data
<1>3. d \in Seq(S)
  BY DEF IInv, TypeOK
<1> HIDE DEF S, d
<1>4. k \in 1..Len(d)
  BY <1>3 DEF d
<1>5. d[k] \in S
  BY <1>3, <1>4
<1> QED BY <1>2, <1>5 DEF S, d

LEMMA FilterValuesAreValues == ASSUME NEW raw PROVE FilterValues(raw) \subseteq ToSet(raw)
BY DEF FilterValues, Kept, ToSet

(* A list that was not refused shows no row that a parameter of its URL    *)
(* rules out, for any number of them in any order, on any columns and with *)
(* dates in any zone, but for those that are not spelt filter[<key>] or    *)
(* whose key comes again: what parseFilter reads, what assertFilter lets   *)
(* through and what the where clause says agree.                           *)
THEOREM FiltersOnlyNarrow == Spec => []FiltersNarrow
<1>1. IInv => FiltersNarrow
  <2> SUFFICES ASSUME IInv, list.data # None, NEW k \in DOMAIN list.data,
                      NEW n \in DOMAIN walk.query.params,
                      walk.query.params[n].closed, walk.query.params[n].key # "",
                      \A m \in DOMAIN walk.query.params :
                        m > n => ~(/\ walk.query.params[m].closed
                                   /\ walk.query.params[m].key = walk.query.params[n].key)
               PROVE  Asks(walk.query.params[n], list.data[k].row)
    BY DEF FiltersNarrow
  <2> DEFINE q == walk.query
             f == Filter(q)
             key == q.params[n].key
             row == list.data[k].row
  <2>1. Allowed(f) /\ Where(q, row) /\ q \in Queries
    <3>1. Allowed(f)
      BY RowsRead DEF IInv, Asked
    <3>2. Where(q, row)
      BY DEF IInv, RowsMatch
    <3> QED BY <3>1, <3>2 DEF IInv, TypeOK
  <2>2. row.createdAt \in Int
    BY RowsRead, FieldsShape
  <2>3. key \in DOMAIN f /\ f[key] = q.params[n].value
    BY <2>1, LastIsKept DEF Bracketed, Repeats
  <2>4. key \in FilterKeys
    BY <2>1, <2>3 DEF Allowed
  <2> HIDE DEF row, key, f
  <2>5. key = "status" => row.status \in ToSet(f[key])
    BY <2>1, <2>3, FilterValuesAreValues DEF Where, f
  <2>6. key = "name" => f[key] \in row.name
    BY <2>1, <2>3 DEF Where, f
  <2>7. key = "roleId" => row.roles \cap ToSet(f[key]) # {}
    BY <2>1, <2>3, FilterValuesAreValues DEF Where, f
  <2>8. key = "createdAt" => WithinDays(row.createdAt, f[key])
    <3> SUFFICES ASSUME key = "createdAt" PROVE WithinDays(row.createdAt, f[key])
      OBVIOUS
    <3>1. row.createdAt \in From(f[key])..To(f[key])
      BY <2>1, <2>3 DEF Where, f
    <3> QED BY <2>1, <2>2, <2>3, <3>1, AllowedDates DEF f
  <2>9. Asks(q.params[n], row)
    BY <2>3, <2>4, <2>5, <2>6, <2>7, <2>8 DEF Asks, FilterKeys, key
  <2> QED BY <2>9 DEF row
<1> QED BY <1>1, Invariant, PTL

(* Undisturbed, every row of the days named in the filter is shown, in     *)
(* whatever zone and whatever page size.                                   *)
THEOREM WholeDays == Spec => []DaysAreWhole
<1>1. IInv => DaysAreWhole
  <2> SUFFICES ASSUME IInv, walk.pc = "done", why = {}, walk.query.search = None,
                      DOMAIN Filter(walk.query) = {"createdAt"}, NEW i \in stable,
                      WithinDays(table[i].createdAt, Filter(walk.query)["createdAt"])
               PROVE  i \in ToSet(walk.seen)
    BY DEF DaysAreWhole
  <2> DEFINE q == walk.query
  <2>1. i \in Ids /\ table[i] \in Fields /\ q \in Queries /\ Allowed(Filter(q))
    BY DEF IInv, TypeOK, Asked
  <2>2. table[i].createdAt \in From(Filter(q)["createdAt"])..To(Filter(q)["createdAt"])
    BY <2>1, AllowedDates, FieldsShape
  <2>3. Where(q, table[i])
    BY <2>2 DEF Where
  <2>4. i \in Matching(q)
    BY <2>1, <2>3, NoneIsNothing DEF Matching
  <2>5. OnPage = {}
    BY DEF IInv, Asked, Unread, OnPage
  <2> QED BY <2>4, <2>5 DEF IInv, Met, SeenIds
<1> QED BY <1>1, Invariant, PTL

(* A page and its count that no write came between fit each other.         *)
THEOREM PagesFitCounts == Spec => []PageFitsCount
<1>1. IInv => PageFitsCount
  BY DEF IInv, Counted, PageLength, PageFitsCount
<1> QED BY <1>1, Invariant, PTL

(* A client that turns all the pages of a table of any size meets every    *)
(* row that stays, unless rows go, sort columns tie or a count is of       *)
(* another table than its page.                                            *)
THEOREM MissedForAReasonHolds == Spec => []MissedForAReason
<1>1. IInv => MissedForAReason
  <2> SUFFICES ASSUME IInv, walk.pc = "done", why \cap {"shrunk", "raced", "tied"} = {}
               PROVE  stable \cap Matching(walk.query) \subseteq ToSet(walk.seen)
    BY DEF MissedForAReason
  <2>1. OnPage = {}
    BY DEF IInv, Asked, Unread, OnPage
  <2> QED BY <2>1 DEF IInv, Met, SeenIds
<1> QED BY <1>1, Invariant, PTL

(* It meets no row twice, unless rows come or sort columns tie: rows that  *)
(* go, and counts that raced, repeat nothing.                              *)
THEOREM ShownTwiceForAReasonHolds == Spec => []ShownTwiceForAReason
<1>1. IInv => ShownTwiceForAReason
  BY DEF IInv, Once, ShownTwiceForAReason
<1> QED BY <1>1, Invariant, PTL
=============================================================================
