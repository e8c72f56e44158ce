------------------------------ MODULE Listings ------------------------------
(***************************************************************************)
(* The list routes: a client walks the pages of a table while others write *)
(* it.  Each page is two queries, for the rows and for their number, on    *)
(* two connections and outside any transaction; PostgreSQL orders the rows *)
(* by the one column asked for, and rows that tie in it as it likes.       *)
(*                                                                         *)
(* The table is the users'; roles and permissions are listed by the same   *)
(* code with fewer columns and filters.  A text is kept as a value, a name *)
(* as the set of the texts it contains; the other text columns (email) are *)
(* searched and filtered as the name is.  updatedAt, which moves a row in  *)
(* its order as a change of status does, is left out.  An instant is a     *)
(* number of ticks, DayLength of them to the day.                          *)
(***************************************************************************)
EXTENDS Integers, Sequences, FiniteSets, SequencesExt

CONSTANTS
  Ids,        \* the ids of rows; the bound on rows at one time
  Fields,     \* what a row may hold: name, status, roles and createdAt
  Uuids,      \* the values that read as ids
  DayLength,  \* the ticks of a day
  Offset,     \* how far the clock of APP_TIMEZONE is ahead of UTC, in ticks
  Queries,    \* the queries clients send
  Writes,     \* the kinds of write that happen meanwhile
  None

Statuses == <<"ACTIVE", "INACTIVE", "SUSPENDED", "BLOCKED">>

ASSUME DayIsPositive == DayLength \in Nat \ {0} /\ Offset \in Int
ASSUME IdsAreNumbers == Ids \subseteq Int /\ IsFiniteSet(Ids)
ASSUME FieldsShape ==
  \A row \in Fields : row.status \in ToSet(Statuses) /\ row.createdAt \in Int
ASSUME QueriesShape ==
  \A q \in Queries :
    /\ q.sort \in {"id", "createdAt", "status"} /\ q.perPage \in Nat \ {0}
    /\ \A n \in DOMAIN q.params :
         /\ n \in Nat
         /\ q.params[n].key = "createdAt" =>
              q.params[n].value \in Seq([form : {"day", "instant", "junk"}, at : Int] \cup {None})
ASSUME NoneIsNothing ==
  /\ None \notin Fields \cup Nat \cup Seq([id : Ids, row : Fields])
  /\ None \notin [form : {"day", "instant", "junk"}, at : Int]

VARIABLES
  table,  \* the live rows, by id: one of the Fields, or None
  walk,   \* the client: its query, the page it is on, the ids it was shown
  list,   \* the request in flight: the rows and the count, None until read
  stable, \* history: the ids whose rows have stayed as they were since the walk began
  why     \* history: what went on during the walk that moves rows between pages

vars == <<table, walk, list, stable, why>>

Unread == [data |-> None, total |-> None]

-----------------------------------------------------------------------------
(* DateToolkit in APP_TIMEZONE.                                            *)
DayOf(i) == (i + Offset) \div DayLength
StartOfDay(i) == DayOf(i) * DayLength - Offset
EndOfDay(i) == StartOfDay(i) + DayLength - 1

(* A date without an offset is wall-clock time in APP_TIMEZONE.            *)
Parse(part) == IF part.form = "day" THEN part.at * DayLength - Offset ELSE part.at

-----------------------------------------------------------------------------
(* DatatableToolkit.parseFilter.  The parameters of a URL, in its order:   *)
(* key is what follows "filter[", closed whether the name ends in "]".  A  *)
(* name that is not filter[<key>] is passed over.  A value read as true or *)
(* false is made text again by everything that reads it.                   *)
Bracketed(e) == e.closed /\ e.key # ""

Repeats(params, m, n) == Bracketed(params[m]) /\ params[m].key = params[n].key

(* Mutant: a key keeps the value it was given first.                       *)
ParseFilterFirst(params) ==
  LET kept == {n \in DOMAIN params :
                 Bracketed(params[n]) /\ \A m \in DOMAIN params : Repeats(params, m, n) => n <= m}
  IN  [k \in {params[n].key : n \in kept} |->
         params[CHOOSE n \in kept : params[n].key = k].value]

(* Each parameter is assigned to its key, so that a repeated key has the   *)
(* value it was given last.                                                *)
ParseFilter(params) ==
  LET kept == {n \in DOMAIN params :
                 Bracketed(params[n]) /\ \A m \in DOMAIN params : Repeats(params, m, n) => m <= n}
  IN  [k \in {params[n].key : n \in kept} |->
         params[CHOOSE n \in kept : params[n].key = k].value]

Filter(q) == ParseFilter(q.params)

(* A raw value is the sequence of its parts, which the commas separate;    *)
(* None is a blank one, which filterValues leaves out.                     *)
FilterKeys == {"status", "name", "roleId", "createdAt"}

Kept(raw) == {k \in DOMAIN raw : raw[k] # None}
FilterValues(raw) == {raw[k] : k \in Kept(raw)}

(* filterDateRange: the range in instants, its last day included.          *)
From(raw) == StartOfDay(Parse(raw[Min(Kept(raw))]))

(* Mutant: the range ends where its last day begins.                       *)
ToMidnight(raw) == StartOfDay(Parse(raw[Max(Kept(raw))]))

To(raw) == EndOfDay(Parse(raw[Max(Kept(raw))]))

ValidDates(raw) ==
  /\ Cardinality(Kept(raw)) \in 1..2
  /\ \A part \in FilterValues(raw) : part.form # "junk"
  /\ From(raw) <= To(raw)

(* assertFilter, then filterIds and filterDateRange in findAll: what is    *)
(* let through to the database, everything else is a 400.                  *)
Allowed(filter) ==
  /\ DOMAIN filter \subseteq FilterKeys
  /\ "status" \in DOMAIN filter =>
       FilterValues(filter["status"]) \subseteq ToSet(Statuses)
  /\ "roleId" \in DOMAIN filter =>
       FilterValues(filter["roleId"]) # {} /\ FilterValues(filter["roleId"]) \subseteq Uuids
  /\ "createdAt" \in DOMAIN filter => ValidDates(filter["createdAt"])

(* The statuses with the searched text in them: "act" is in two.           *)
StatusesWith(text) == IF text = "act" THEN {"ACTIVE", "INACTIVE"} ELSE {}

(* The where clause: every condition of it.                                *)
Where(q, row) ==
  LET f == Filter(q)
      has(k) == k \in DOMAIN f IN
  /\ q.search # None => q.search \in row.name \/ row.status \in StatusesWith(q.search)
  /\ has("status") => row.status \in FilterValues(f["status"])
  /\ has("name") => f["name"] \in row.name
  /\ has("roleId") => row.roles \cap FilterValues(f["roleId"]) # {}
  /\ has("createdAt") => row.createdAt \in From(f["createdAt"])..To(f["createdAt"])

Matching(q) == {i \in Ids : table[i] # None /\ Where(q, table[i])}

-----------------------------------------------------------------------------
(* The rows' order.  Ids and instants are numbers, statuses are ordered as *)
(* in the enum.                                                            *)
Column(sort, i) ==
  CASE sort = "id" -> i
    [] sort = "createdAt" -> table[i].createdAt
    [] sort = "status" -> CHOOSE k \in DOMAIN Statuses : Statuses[k] = table[i].status

Before(q, i, j) ==
  IF q.sortDirection = "asc" THEN Column(q.sort, i) < Column(q.sort, j)
                             ELSE Column(q.sort, j) < Column(q.sort, i)

(* The orders of the matching rows that the ORDER BY allows: more than one *)
(* when rows tie in the sort column.                                       *)
Sorted(q) ==
  {s \in SetToSeqs(Matching(q)) :
     \A j, k \in DOMAIN s : j < k => ~Before(q, s[k], s[j])}

Tied(q) ==
  \E i, j \in Matching(q) : i # j /\ Column(q.sort, i) = Column(q.sort, j)

(* Mutants: pages are counted from nought, or begin with the row the page  *)
(* before ended with.                                                      *)
SkipFromNought(q, page) == page * q.perPage
SkipOverlaps(q, page) == (page - 1) * (q.perPage - 1)

Skip(q, page) == (page - 1) * q.perPage

Shown(i) == [id |-> i, row |-> table[i]]

Page(q, page, s) ==
  LET from == Skip(q, page)
  IN  [k \in {n \in 1..q.perPage : from + n <= Len(s)} |-> Shown(s[from + k])]

-----------------------------------------------------------------------------
Init ==
  /\ table \in [Ids -> Fields \cup {None}]
  /\ walk \in [pc : {"idle"}, query : Queries, page : {1}, seen : {<<>>}]
  /\ list = Unread
  /\ stable = {}
  /\ why = {}

(* The list route is called for the first page: the sort and the filter    *)
(* are checked before the database is asked.                               *)
Ask ==
  /\ walk.pc = "idle"
  /\ walk' = [walk EXCEPT !.pc = IF Allowed(Filter(walk.query)) THEN "listing" ELSE "refused"]
  /\ stable' = {i \in Ids : table[i] # None}
  /\ UNCHANGED <<table, list, why>>

(* The two queries of Promise.all, in either order.                        *)
FindMany ==
  /\ walk.pc = "listing"
  /\ list.data = None
  /\ \E s \in Sorted(walk.query) :
       list' = [list EXCEPT !.data = Page(walk.query, walk.page, s)]
  /\ why' = IF Tied(walk.query) THEN why \cup {"tied"} ELSE why
  /\ UNCHANGED <<table, walk, stable>>

(* Mutant: the count leaves the where clause out.                          *)
CountAll ==
  /\ walk.pc = "listing"
  /\ list.total = None
  /\ list' = [list EXCEPT !.total = Cardinality({i \in Ids : table[i] # None})]
  /\ UNCHANGED <<table, walk, stable, why>>

Count ==
  /\ walk.pc = "listing"
  /\ list.total = None
  /\ list' = [list EXCEPT !.total = Cardinality(Matching(walk.query))]
  /\ UNCHANGED <<table, walk, stable, why>>

Answered == list.data # None /\ list.total # None

(* The client, shown a page, asks for the next one while there is one.     *)
Turn ==
  /\ walk.pc = "listing"
  /\ Answered
  /\ walk' = [walk EXCEPT
       !.seen = @ \o [k \in DOMAIN list.data |-> list.data[k].id],
       !.pc = IF walk.page * walk.query.perPage < list.total THEN "listing" ELSE "done",
       !.page = IF walk.page * walk.query.perPage < list.total THEN @ + 1 ELSE @]
  /\ list' = Unread
  /\ UNCHANGED <<table, stable, why>>

-----------------------------------------------------------------------------
(* Other requests.  A write between the two queries of a page is noted.    *)
Write(kind, i, row, effects) ==
  /\ kind \in Writes
  /\ walk.pc = "listing"
  /\ table' = [table EXCEPT ![i] = row]
  /\ stable' = stable \ {i}
  /\ why' = why \cup effects
       \cup (IF (list.data = None) # (list.total = None) THEN {"raced"} ELSE {})
  /\ UNCHANGED <<walk, list>>

(* createdAt is fixed before the commit that makes the row visible, so     *)
(* that a row may come after one that is younger.                          *)
Create(i) ==
  /\ table[i] = None
  /\ \E row \in Fields : Write("create", i, row, {"grown"})

Update(i) ==
  /\ table[i] # None
  /\ \E row \in Fields :
       /\ row.createdAt = table[i].createdAt
       /\ row # table[i]
       /\ Write("update", i, row, {"grown", "shrunk"})

(* Mutant: the list does not tell a deleted row from a live one.           *)
DeleteKeepsRow(i) ==
  /\ table[i] # None
  /\ Write("delete", i, [table[i] EXCEPT !.status = "DELETED"], {"shrunk"})

(* A user's deletion is a flag the where clause rules out, others are gone. *)
Delete(i) ==
  /\ table[i] # None
  /\ Write("delete", i, None, {"shrunk"})

Next ==
  \/ Ask \/ FindMany \/ Count \/ Turn
  \/ \E i \in Ids : Create(i) \/ Update(i) \/ Delete(i)

Spec == Init /\ [][Next]_vars

-----------------------------------------------------------------------------
(* The type of every variable.                                             *)
TypeOK ==
  /\ table \in [Ids -> Fields \cup {None}]
  /\ walk \in [pc : {"idle", "listing", "refused", "done"}, query : Queries,
               page : Nat \ {0}, seen : Seq(Ids)]
  /\ list \in [data : Seq([id : Ids, row : Fields]) \cup {None}, total : Nat \cup {None}]
  /\ stable \in SUBSET Ids
  /\ why \in SUBSET {"grown", "shrunk", "raced", "tied"}

(* datatable.ts:123-126, the filter's meaning in calendar days: a row is   *)
(* shown when the day of its instant, as the clocks of APP_TIMEZONE have   *)
(* it, is none before the first and none after the last day asked for.     *)
WithinDays(i, raw) ==
  LET day(part) == IF part.form = "day" THEN part.at ELSE DayOf(part.at)
      days == {day(part) : part \in ToSet(raw) \ {None}}
  IN  (\E d \in days : d <= DayOf(i)) /\ (\E d \in days : DayOf(i) <= d)

(* What one parameter of the URL asks of a row.  No row is what an unknown *)
(* key asks for.                                                           *)
Asks(e, row) ==
  CASE e.key = "status" -> row.status \in ToSet(e.value)
    [] e.key = "name" -> e.value \in row.name
    [] e.key = "roleId" -> row.roles \cap ToSet(e.value) # {}
    [] e.key = "createdAt" -> WithinDays(row.createdAt, e.value)
    [] OTHER -> FALSE

(* docs/API_DOCUMENTATION.md:154-156, "unknown key, out-of-range enum      *)
(* value, or bad date: 400" and "several filters are ANDed together", of   *)
(* the URL as it was sent: a list that is not refused shows no row that    *)
(* one of its parameters rules out, but for those parseFilter loses        *)
(* (datatable.ts:27-34): a name that is not closed, filter[] without a     *)
(* key, and a value whose key the URL gives another value further on.      *)
FiltersNarrow ==
  list.data # None =>
    LET params == walk.query.params IN
    \A k \in DOMAIN list.data, n \in DOMAIN params :
      \/ Asks(params[n], list.data[k].row)
      \/ ~params[n].closed \/ params[n].key = ""
      \/ \E m \in DOMAIN params :
           m > n /\ params[m].closed /\ params[m].key = params[n].key

(* A day that is asked for is asked for whole: a client that has turned    *)
(* all the pages undisturbed was shown every row of the days it named.     *)
DaysAreWhole ==
  LET f == Filter(walk.query) IN
  walk.pc = "done" /\ why = {} /\ walk.query.search = None /\ DOMAIN f = {"createdAt"} =>
    \A i \in stable :
      WithinDays(table[i].createdAt, f["createdAt"]) => i \in ToSet(walk.seen)

(* The page and the count are of one table: the page is as long as the     *)
(* count says, unless a write came between the two queries.                *)
PageFitsCount ==
  Answered /\ "raced" \notin why =>
    LET left == list.total - Skip(walk.query, walk.page)
    IN  Len(list.data) = IF left <= 0 THEN 0
                         ELSE IF left < walk.query.perPage THEN left ELSE walk.query.perPage

(* A client that has turned all the pages was shown every row that was     *)
(* there throughout, unless rows left the pages it had seen, the sort      *)
(* column has ties, or a count and its page were of different tables.      *)
MissedForAReason ==
  walk.pc = "done" /\ why \cap {"shrunk", "raced", "tied"} = {} =>
    stable \cap Matching(walk.query) \subseteq ToSet(walk.seen)

(* It was shown no row twice, unless rows came into the pages it had seen  *)
(* or the sort column has ties.                                            *)
ShownTwiceForAReason ==
  walk.pc = "done" /\ why \cap {"grown", "tied"} = {} => IsInjective(walk.seen)
=============================================================================
