------------------------------ MODULE Toolkits ------------------------------
(***************************************************************************)
(* Pure algorithms of libs/utils and libs/i18n, one call to a state: the   *)
(* random strings the mailed tokens are made of, the language a request is *)
(* answered in, and the helpers that cut a text at another one.            *)
(*                                                                         *)
(* A text is the sequence of its characters.  A range of Accept-Language   *)
(* is its language and its q in tenths: None where it gives none, 0 also   *)
(* where it gives something that is no number.                             *)
(***************************************************************************)
EXTENDS Naturals, Sequences, FiniteSets, SequencesExt

CONSTANTS
  Bytes,       \* the values of a random byte: 256
  Characters,  \* the characters a random string is made of: 62
  Texts,       \* the texts the helpers are called with
  Headers,     \* the Accept-Language headers, each a sequence of ranges
  None

ASSUME BytesAreDrawn == Bytes \in Nat /\ Characters \in Nat \ {0}
ASSUME TextsAreSequences == \A s \in Texts : s \in Seq(STRING)
ASSUME HeadersShape ==
  \A h \in Headers : h \in Seq([tag : STRING, q : Nat \cup {None}])

VARIABLE call

Init == call = [of |-> "nothing"]

-----------------------------------------------------------------------------
(* StrToolkit.random: a byte at or above the limit is drawn again.         *)

(* Mutant: every byte is taken.                                            *)
LimitOfAllBytes == Bytes

Limit == Bytes - (Bytes % Characters)

Taken(byte) == byte < Limit
CharAt(byte) == byte % Characters

-----------------------------------------------------------------------------
(* parseAcceptLanguage.                                                    *)
Supported == {"en", "id"}
Default == "en"

Quality(range) == IF range.q = None THEN 10 ELSE range.q

Candidates(header) ==
  {k \in DOMAIN header : header[k].tag # "" /\ Quality(header[k]) > 0}

(* Mutant: the comparator has its arguments the wrong way round.           *)
PrecedesAscending(r, s) == Quality(r) <= Quality(s)

(* b.q - a.q, in a sort that is stable: r stays ahead of a later s.        *)
Precedes(r, s) == Quality(r) >= Quality(s)

(* The candidates' places in the header, sorted one after the other: each  *)
(* goes in front of the first that need not stay ahead of it.              *)
Placed(header, order, k) ==
  InsertAt(order, Min({j \in DOMAIN order : ~Precedes(header[order[j]], header[k])}
                        \cup {Len(order) + 1}), k)

Orders(header) ==
  LET order[n \in 0..Len(header)] ==
        IF n = 0 THEN <<>>
        ELSE IF n \in Candidates(header) THEN Placed(header, order[n - 1], n)
        ELSE order[n - 1]
  IN  order

ByQuality(header) == Orders(header)[Len(header)]

ParseAcceptLanguage(header) ==
  LET order == ByQuality(header)
      spoken == {j \in DOMAIN order : header[order[j]].tag \in Supported}
  IN  IF spoken = {} THEN Default ELSE header[order[Min(spoken)]].tag

-----------------------------------------------------------------------------
(* StrToolkit, for a search that is not empty.                             *)
At(s, t) == {i \in 1..Len(s) : IsPrefix(t, SubSeq(s, i, Len(s)))}

Includes(s, t) == At(s, t) # {}

(* The first occurrence from i on, if there is one.                        *)
Ahead(s, t, i) == {j \in At(s, t) : j >= i}
IndexOf(s, t, i) == Min(Ahead(s, t, i))
LastIndexOf(s, t) == Max(At(s, t))

From(s, i) == SubSeq(s, i, Len(s))

(* String.split: the pieces between the occurrences found left to right.   *)
Pieces(s, t) ==
  LET pieces[i \in 1..(Len(s) + 1)] ==
        IF Ahead(s, t, i) = {} THEN <<From(s, i)>>
        ELSE <<SubSeq(s, i, IndexOf(s, t, i) - 1)>> \o pieces[IndexOf(s, t, i) + Len(t)]
  IN  pieces

Split(s, t) == Pieces(s, t)[1]

(* The first n pieces with t between them.                                 *)
Joined(pieces, t) ==
  LET joined[n \in 1..Len(pieces)] ==
        IF n = 1 THEN pieces[1] ELSE joined[n - 1] \o t \o pieces[n]
  IN  joined

Join(pieces, t) == Joined(pieces, t)[Len(pieces)]

Before(s, t) == IF Includes(s, t) THEN Split(s, t)[1] ELSE s

(* Mutant: the text after the last occurrence.                             *)
AfterTheLast(s, t) == IF Includes(s, t) THEN Last(Split(s, t)) ELSE s

(* The second piece, which a second occurrence of t ends.                  *)
After(s, t) == IF Includes(s, t) THEN Split(s, t)[2] ELSE s

BeforeLast(s, t) == IF Includes(s, t) THEN SubSeq(s, 1, LastIndexOf(s, t) - 1) ELSE s
AfterLast(s, t) == IF Includes(s, t) THEN Last(Split(s, t)) ELSE s
Between(s, from, to) == Before(After(s, from), to)

ChopStart(s, t) == IF IsPrefix(t, s) THEN From(s, Len(t) + 1) ELSE s
ChopEnd(s, t) == IF IsSuffix(t, s) THEN SubSeq(s, 1, Len(s) - Len(t)) ELSE s
Finish(s, cap) == IF IsSuffix(cap, s) THEN s ELSE s \o cap
Start(s, prefix) == IF IsPrefix(prefix, s) THEN s ELSE prefix \o s
Swap(s, search, replace) == Join(Split(s, search), replace)
Wrap(s, t) == t \o s \o t
Unwrap(s, t) ==
  IF IsPrefix(t, s) /\ IsSuffix(t, s) THEN SubSeq(s, Len(t) + 1, Len(s) - Len(t)) ELSE s

-----------------------------------------------------------------------------
Random == \E c \in 0..(Characters - 1) : call' = [of |-> "random", character |-> c]

Negotiate == \E header \in Headers : call' = [of |-> "language", header |-> header]

Cut == \E s \in Texts, t \in Texts \ {<<>>} : call' = [of |-> "text", text |-> s, at |-> t]

Next == call.of = "nothing" /\ (Random \/ Negotiate \/ Cut)

Spec == Init /\ [][Next]_call

-----------------------------------------------------------------------------
(* string.ts:2, "safe for tokens": no character of a token is likelier     *)
(* than another, although 62 does not divide 256.                          *)
CharactersAreEven ==
  call.of = "random" =>
    Cardinality({b \in 0..(Bytes - 1) : Taken(b) /\ CharAt(b) = call.character})
      = Bytes \div Characters

(* A request is answered in the language its header likes best of those    *)
(* there are, the one named first when it likes two the same; in English   *)
(* when it accepts neither.  Nothing but a supported language comes out.   *)
BestLanguageIsSpoken ==
  call.of = "language" =>
    LET h == call.header
        wanted == {k \in DOMAIN h : h[k].tag \in Supported /\ Quality(h[k]) > 0}
        better(j, k) == \/ Quality(h[j]) > Quality(h[k])
                        \/ Quality(h[j]) = Quality(h[k]) /\ j < k
    IN  \/ wanted = {} /\ ParseAcceptLanguage(h) = Default
        \/ \E k \in wanted : /\ \A j \in wanted : ~better(j, k)
                             /\ ParseAcceptLanguage(h) = h[k].tag

(* t can begin before an earlier occurrence of it ends.                    *)
Overlaps(t) == \E n \in 1..(Len(t) - 1) : From(t, n + 1) = SubSeq(t, 1, Len(t) - n)

(* Cutting loses nothing: put back what was cut out and the text is there  *)
(* again, and a text that was not cut is returned whole.  The two helpers  *)
(* for the last occurrence find different ones when t can overlap itself,  *)
(* as "aa" does in "aaa"; an empty t is outside the statement.             *)
PiecesRebuildTheText ==
  call.of = "text" =>
    LET s == call.text
        t == call.at
    IN  /\ Join(Split(s, t), t) = s
        /\ Swap(s, t, t) = s
        /\ IF Includes(s, t)
           THEN /\ IsPrefix(Before(s, t) \o t \o After(s, t), s)
                /\ Len(Split(s, t)) = 2 => Before(s, t) \o t \o After(s, t) = s
                /\ ~Overlaps(t) => BeforeLast(s, t) \o t \o AfterLast(s, t) = s
           ELSE {Before(s, t), After(s, t), BeforeLast(s, t), AfterLast(s, t)} = {s}
        /\ Between(Wrap(s, t), t, t) = Before(s \o t, t)
        /\ ChopStart(t \o s, t) = s /\ ChopEnd(s \o t, t) = s /\ Unwrap(Wrap(s, t), t) = s
        /\ ChopEnd(Finish(s, t), t) = ChopEnd(s, t)
        /\ ChopStart(Start(s, t), t) = ChopStart(s, t)
=============================================================================
