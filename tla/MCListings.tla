------------------------------ MODULE MCListings ------------------------------
(***************************************************************************)
(* A small instance of Listings for TLC: days of two ticks in a zone one   *)
(* tick behind UTC, pages of one and two rows, queries of every kind.      *)
(***************************************************************************)
EXTENDS Listings, TLC

OneBehind == -1

Ann == {"", "ann"}
Anon == {""}

Content(name, status, roles, at) ==
  [name |-> name, status |-> status, roles |-> roles, createdAt |-> at]

Contents ==
  {Content(Ann, "ACTIVE", {"r1"}, 1), Content(Anon, "SUSPENDED", {}, 1),
   Content(Anon, "ACTIVE", {}, 2), Content(Ann, "ACTIVE", {"r1"}, 3)}

Day(d) == [form |-> "day", at |-> d]
At(i) == [form |-> "instant", at |-> i]
Junk == [form |-> "junk", at |-> 0]

Param(key, value) == [key |-> key, closed |-> TRUE, value |-> value]
Unclosed(key, value) == [key |-> key, closed |-> FALSE, value |-> value]

Query(sort, direction, perPage, search, params) ==
  [sort |-> sort, sortDirection |-> direction, perPage |-> perPage,
   search |-> search, params |-> params]

Refused ==
  {<<Param("status", <<"GONE">>)>>, <<Param("roleId", <<None>>)>>,
   <<Param("roleId", <<"r1", "nobody">>)>>, <<Param("group", "user")>>,
   <<Param("createdAt", <<Day(1), Day(0)>>)>>, <<Param("createdAt", <<Junk>>)>>,
   <<Param("createdAt", <<>>)>>,
   <<Param("status", <<"ACTIVE">>), Param("status", <<"GONE">>)>>}

Listed ==
  {<<Param("status", <<"ACTIVE", None>>)>>,
   <<Param("name", "ann"), Param("", "x"), Unclosed("status", <<"SUSPENDED">>)>>,
   <<Param("status", <<"SUSPENDED">>), Param("roleId", <<"r1">>), Param("status", <<"ACTIVE">>)>>,
   <<Param("createdAt", <<Junk>>), Param("createdAt", <<Day(1), None>>)>>,
   <<Param("createdAt", <<Day(0), Day(1)>>)>>,
   <<Param("createdAt", <<At(1)>>), Unclosed("createdAt", <<Day(0)>>)>>}

SomeQueries ==
  {Query("createdAt", "desc", n, None, <<>>) : n \in 1..2}
  \cup {Query("status", "asc", 2, None, <<>>), Query("id", "desc", 1, "ann", <<>>),
        Query("id", "asc", 2, "act", <<>>)}
  \cup {Query("id", "asc", 2, None, params) : params \in Refused \cup Listed}
=============================================================================
